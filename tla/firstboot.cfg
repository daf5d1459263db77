SPECIFICATION BootSpec
INVARIANT SecretGone
INVARIANT ProvisionedIsWhole

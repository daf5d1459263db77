\* One release that works and one that does not, and power cuts at any moment.
SPECIFICATION FairSpec
CONSTANTS
  Release = {good, broken}
  Factory = factory
  Sound = {good, factory}
  Torn = torn
  None = None
  Tries = 2
INVARIANT WayBack
INVARIANT RebootingIsTrue
PROPERTY ComesUp

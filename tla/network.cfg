SPECIFICATION Spec
CONSTANTS
  Net = {n1, n2}
  Useful = {n1, n2}
  Ap = Ap
  Air = Air
  Attempts = 2
  Scan = Scan
  NoRequest = NoRequest
  BadName = BadName
INVARIANT OnlyProvedKept
INVARIANT TellsItsOwn
PROPERTY WayHomeKept

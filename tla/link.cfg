\* Two alerts of two kinds at most, a socket that comes and goes.
SPECIFICATION Spec
CONSTANTS
  None = None
  EventId = {e1}
  Faces = {None}
  AlertCapacity = 2
  AlertMaxAge = 2
  RetryInitial = 1
  RetryMax = 1
  AckTimeout = 1
  RestartFirst = 1
  RestartMost = 2
  WireMax = 2
  LineMax = 2
INVARIANT LinkSeen
INVARIANT BridgeTended
PROPERTY LeavesForAReason

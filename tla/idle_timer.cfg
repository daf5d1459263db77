\* core.h: nothing pending means no timer at all.
SPECIFICATION Spec
CONSTANTS
  None = None
  NoFaces = NoFaces
  EventId = {e1, e2, e3}
  Faces = {NoFaces}
  Peer = {p1}
  AlertCapacity = 2
  AlertMaxAge = 2
  RetryInitial = 1
  RetryMax = 1
  SpoolMax = 2
  PersonDetection = TRUE
  MotionCooldown = 0
  NoPersonCooldown = 1
  PressWindow = 0
  RingLed = 0
  VerdictWait = 1
  RingFaceWait = 0
  Files <- FailedOnly
  Verdicts <- AllVerdicts
SYMMETRY Symmetry
\* The loop stops after a shutdown.
CHECK_DEADLOCK FALSE
INVARIANT NothingPendingNoTimer

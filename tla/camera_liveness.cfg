\* Holds, a waiting viewer and a shutdown; no clips.
SPECIFICATION FairSpec
CONSTANTS
  None = None
  NoFaces = NoFaces
  EventId = {e1, e2}
  Faces = {NoFaces}
  Peer = {p1}
  AlertCapacity = 1
  AlertMaxAge = 1
  RetryInitial = 1
  RetryMax = 1
  SpoolMax = 1
  PersonDetection = TRUE
  MotionCooldown = 0
  NoPersonCooldown = 1
  PressWindow = 0
  RingLed = 0
  VerdictWait = 1
  RingFaceWait = 1
  Files <- FailedOnly
  Verdicts <- Answers
\* The loop stops after a shutdown.
CHECK_DEADLOCK FALSE
PROPERTY HoldEnds
PROPERTY DeferredCallResolved
PROPERTY ShutdownCompletes

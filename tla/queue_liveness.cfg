\* Alerts and clips on their way out; nobody watches.
SPECIFICATION FairSpec
CONSTANTS
  None = None
  NoFaces = NoFaces
  EventId = {e1, e2}
  Faces = {NoFaces}
  Peer = {}
  AlertCapacity = 1
  AlertMaxAge = 1
  RetryInitial = 1
  RetryMax = 1
  SpoolMax = 2
  PersonDetection = FALSE
  MotionCooldown = 0
  NoPersonCooldown = 1
  PressWindow = 0
  RingLed = 0
  VerdictWait = 1
  RingFaceWait = 0
  Files <- AnyFile
  Verdicts <- NoVerdicts
\* The loop stops after a shutdown.
CHECK_DEADLOCK FALSE
PROPERTY AlertLeaves
PROPERTY ClipSent
INVARIANT UploadInFlight
PROPERTY ClipAccountedFor

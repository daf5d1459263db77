\* Motion judged by the camera, rings that wait for a name, two viewers; clips
\* come to nothing.
SPECIFICATION Spec
CONSTANTS
  None = None
  NoFaces = NoFaces
  EventId = {e1, e2, e3, e4}
  Faces = {NoFaces}
  Peer = {p1, p2}
  AlertCapacity = 2
  AlertMaxAge = 2
  RetryInitial = 1
  RetryMax = 2
  SpoolMax = 2
  PersonDetection = TRUE
  MotionCooldown = 1
  NoPersonCooldown = 1
  PressWindow = 1
  RingLed = 1
  VerdictWait = 2
  RingFaceWait = 1
  Files <- FailedOnly
  Verdicts <- AllVerdicts
SYMMETRY Symmetry
\* The loop stops after a shutdown.
CHECK_DEADLOCK FALSE
INVARIANT TypeOK
INVARIANT CameraOwnership
INVARIANT FrontInFlight
PROPERTY QuietAfterShutdown
PROPERTY HeldAlertSettled
PROPERTY PressAlerts
PROPERTY AlertedOnce

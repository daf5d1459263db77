\* Clips of two ticks and a grace of two, with up to two lines from the detector.
SPECIFICATION FairSpec
CONSTANTS
  None = None
  Id = {r1, r2}
  Length = 2
  Grace = 2
  Lines = 2
PROPERTY VerdictHeard
PROPERTY PromiseKept
PROPERTY RecordingEnds

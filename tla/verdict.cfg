\* A window of three ticks, one to settle; silence takes three frames, of four at most.
SPECIFICATION DetectorFairSpec
CONSTANTS
  Nothing = Nothing
  Window = 3
  Settle = 1
  MinFrames = 3
  MaxFrames = 4
\* The process ends.
CHECK_DEADLOCK FALSE
INVARIANT OneLine
INVARIANT VerdictEarned
PROPERTY EndsAnyway

SPECIFICATION LiveFairSpec
CONSTANTS
  Peer = {p1}
  RaceWindow = 1
  NoTime = NoTime
  Patience = 1
  Idle = 1
  Linger = 1
  SoonMax = 2
CHECK_DEADLOCK FALSE
INVARIANT BooksAgree
INVARIANT ViewersTracked
INVARIANT NoGhostTalk
PROPERTY PromiseKept
PROPERTY CrashLoopEnds
PROPERTY GivesUp
PROPERTY EndsWhenAlone

SPECIFICATION FairSpec
CONSTANTS
  Photo = {a, b}
  MaxRevision = 3
INVARIANT DeletedIsForgotten
PROPERTY CaughtUp

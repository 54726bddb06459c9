CONSTANTS
  OneShot = FALSE
  Capacity = 2
  BackoffInitial = 1
  BackoffMax = 3
  MaxBatch = 2
  MaxMessages = 4
  MaxSessions = 2
SPECIFICATION FairSpec
INVARIANTS TypeOK ReconnectsExact ConnectedIsClean PublishedNotLost
PROPERTY PublishedArrives
CHECK_DEADLOCK FALSE

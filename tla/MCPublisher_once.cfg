CONSTANTS
  OneShot = TRUE
  Capacity = 2
  BackoffInitial = 1
  BackoffMax = 3
  MaxBatch = 2
  MaxMessages = 3
  MaxSessions = 2
SPECIFICATION Spec
INVARIANT PublishComplete
CHECK_DEADLOCK FALSE

CONSTANTS
  Normal = {"n1"}
  NonGcd = {"g1"}
  OnHit = {"h1"}
  QueueSize = 2
  RetryLimit = 1
  RetryRejected = TRUE
  Usages <- MCUsages
  MaxAttempts = 3
  MaxPresses = 2
SPECIFICATION LiveSpec
INVARIANTS TypeOK NothingOrphaned RetriesCounted
PROPERTY Drains
CHECK_DEADLOCK FALSE

CONSTANTS
  Normal = {"n1"}
  NonGcd = {}
  OnHit = {}
  QueueSize = 1
  RetryLimit = 1
  RetryRejected = FALSE
  Usages <- MCNoQueue
  MaxAttempts = 3
  MaxPresses = 3
SPECIFICATION Spec
INVARIANT NoQueueIsNotQueued
CHECK_DEADLOCK FALSE

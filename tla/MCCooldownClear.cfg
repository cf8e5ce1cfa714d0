CONSTANTS
  Normal = {"n1"}
  NonGcd = {"g1", "g2"}
  OnHit = {}
  QueueSize = 2
  RetryLimit = 1
  RetryRejected = TRUE
  Usages <- MCCooldown
  MaxAttempts = 3
  MaxPresses = 3
SPECIFICATION Spec
PROPERTY ClearsCooldownOnly
CHECK_DEADLOCK FALSE

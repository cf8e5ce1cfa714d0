CONSTANTS
  Spells = {1, 2}
  HistorySize = 3
  MaxAttempts = 4
  MaxNesting = 2
SPECIFICATION Spec
INVARIANTS ExactOrNone AloneIsIdentified HistoryInv
PROPERTY AmbiguousForGood
CHECK_DEADLOCK FALSE

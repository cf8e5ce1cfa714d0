CONSTANTS
  Spells = {s1, s2}
  NoSpell = NoSpell
  Players = {1, 2}
  MaxAttempts = 3
SPECIFICATION Spec
SYMMETRY MCSymmetry
INVARIANTS OwnershipInv FailedIsRejected OneEnding HeardIsState
PROPERTIES NewerWins CasterIsPlayer
CHECK_DEADLOCK FALSE

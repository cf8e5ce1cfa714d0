CONSTANTS
  MaxSize   = 3
  MaxCastId = 4
  SpellIds <- MCSpellIds
  NonGcd   <- MCNonGcd
  Category <- MCCategory
  Replacement = {TRUE, FALSE}
SPECIFICATION Spec
INVARIANTS RingInv
PROPERTY ImplementsDeque
CHECK_DEADLOCK FALSE

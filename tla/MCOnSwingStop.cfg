CONSTANTS
  Spells = {s1}
  NoSpell = NoSpell
  Players = {1}
  MaxAttempts = 2
SPECIFICATION Spec
PROPERTY StopKeepsNewer
CHECK_DEADLOCK FALSE

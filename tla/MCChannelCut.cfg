CONSTANTS
  Channels = {"c", "f"}
  Instants = {"i"}
  OnHit = {"h"}
  FarSight = {"f"}
  NoSpell = "none"
  Duration = 3
  Amplitudes = {0, 2, 4}
  Gcd = 1
  QueueWindow = 2
  Reduction = 1
  Buffer = 1
  DoubleAfter = 1
  AgeLimit = 4
  QueueChanneling = TRUE
  InterruptOutside = FALSE
  DoubleCast = TRUE
  MaxPresses = 3
  MaxPushbacks = 1
SPECIFICATION Spec
PROPERTY NeverCutShort

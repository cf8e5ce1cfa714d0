CONSTANTS
  Items = {"worn", "bound"}
  ItemId <- MCItemId
  Place <- MCPlace
  Gear = {"worn", "bound"}
  Soulbound = {"bound"}
  MaxScripts = 2
  MaxOrders = 2
  MaxPresses = 1
SPECIFICATION LiveSpec
INVARIANTS ScriptInv QualityHonoured
PROPERTIES ScriptsRun LoopEnds
CHECK_DEADLOCK FALSE

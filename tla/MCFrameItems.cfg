CONSTANTS
  Items = {"worn", "bound"}
  ItemId <- MCItemId
  Place <- MCPlace
  Gear = {"worn", "bound"}
  Soulbound = {"bound"}
  MaxScripts = 0
  MaxOrders = 1
  MaxPresses = 0
SPECIFICATION Spec
INVARIANT Protected
CHECK_DEADLOCK FALSE

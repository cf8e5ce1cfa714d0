SPECIFICATION PartsSpec
CHECK_DEADLOCK FALSE
INVARIANTS TypesOK BarIsServers BufferInRange NextCastTimed CopyIsList TokensTold SeenIsKept CooldownsTold LandedAsSent
PROPERTIES RestoredAsChosen KeptOverRestart FreshWhenAsked WornNotWrong ListIsTrinkets SearchFinds NotTooSoon
CONSTANTS
  Bags <- MCBags
  MaxSlots = 2
  Sizes <- MCSizes
  WornSlots = {0, 1}
  Items = {"a", "b"}
  NoItem = "none"
  Gear <- MCGear
  Increment = 2
  IncreaseFrequency = 1
  DecreaseFrequency = 2
  Minimums = {1, 4}
  Increases = {2, 3}
  Gcd = 9
  ServerTick = 3
  CastTimes = {0, 8, 11}
  Delays = {3, 5}
  Reasonable = 5
  Width = 16
  Demons = {"felguard", "infernal"}
  OtherPets = {"imp"}
  SpellSlots = {3, 4}
  ReactSlots = {7, 8}
  DefaultOn = {4}
  DefaultReact = 8
  MaxSummons = 3
  Guids = {"me", "ally", "beast"}
  NoGuid = "none"
  Player = "me"
  Party = {1}
  Raid = {1, 2}
  MayBe <- Candidates
  SettingsOf <- MCSettingsOf
  Values = {0, 3}
  MaxSets = 2
  Heard = {"NP_EnableSpellGoEvents", "enableKeyPressEvents"}
  Spells <- MCSpells
  ItemSpells <- MCItemSpells
  NoItemID = "none"
  Clock = 8
  MaxNow = 9
  MaxEntries = 2
  MaxLock = 2
  Places <- MCPlaces
  Ids = {1, 2, 3}
  NoId = 0
  NameOf <- MCNames
  MaxCarried = 2
  NoPlace <- Nowhere
  Worn <- MCWorn
  Pack <- MCPack
  BagSlots <- MCBagSlots
  Trinkets = {"t", "u"}
  OtherItems = {"o"}
  NoTrinket = "none"
  MaxFilled = 2
  LastSlot = 3
  FirstDebuff = 3
  Shown = {"a"}
  Hidden = {"h"}
  Faint = {"f"}
  Stacks = {0, 1}
  NoAura = "none"
  Batch = 2
  CastSpells <- MCCastSpells
  Takes <- MCTakes
  Pushbacks = {2}
  Rounding = 1
  GcdCap = 2
  NearGcd = 1
  BufferMs = 1
  Latency = 1
  Capacity = 2
  MaxAttempts = 3
  LastMoment = 11
  Fighters = {"me", "ally", "foe"}
  Me = "me"
  NoTarget = "0"
  LandingSpells <- MCLandingSpells
  ArraySize = 2
  EventGates <- MCEventGates
  Outcomes <- Landings
  Misread = "misread"

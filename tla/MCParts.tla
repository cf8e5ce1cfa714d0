------------------------------- MODULE MCParts -------------------------------
(* The parts of Nampower that share no state with the casting core or with  *)
(* each other, checked in one run: the first state picks a part and only    *)
(* that part takes steps.  The parts whose theorems Parts_proofs has are    *)
(* extended, so that run and theorem state the same properties; outside its *)
(* part their state stays the first one, or none.                           *)
EXTENDS AuraSlots, BagTables, BufferTime, CastTimes, CombatPackets, Cooldowns, ItemSearch, PetAutocast, Settings,
  TrinketTable, UnitEvents, TLC

VARIABLE part

clientVars == <<petVars, bufferVars, auraVars, unitVars, settingVars>>
tableVars == <<bagVars, trinketVars, searchVars>>
spellVars == <<cooldownVars, combatVars, castTimeVars>>

Candidates ==
  [t \in {<<k, 0>> : k \in {"player", "pet", "target", "npc", "mouseover"}}
         \cup {<<k, 1>> : k \in {"party", "partypet", "raidpet", "raid"}}
         \cup {<<"raid", 2>>, <<"raidpet", 2>>} |->
     CASE t[1] \in {"pet", "partypet"} -> {"none", "beast"}
       [] t[1] = "raidpet" -> IF t[2] = 1 THEN {"none", "beast"} ELSE {"none"}
       [] t[1] = "raid" -> IF t[2] = 1 THEN {"none", "ally"} ELSE {"none", "me"}
       [] t[1] = "player" -> {"me"}
       [] t[1] \in {"target", "npc"} -> {"none"}
       [] OTHER -> {"none", "ally"}]

MCSettingsOf == {Gates \ {"filter", "mouseover"}, Gates \ {"pet", "raid"}}

MCWorn == <<"w1">>
MCPack == <<"p1">>
MCBagSlots == <<"b1">>
MCPlaces == {<<-3, 12>>, <<0, 24>>, <<5, 1>>, <<-2, 81>>}
MCNames == 1 :> "stone" @@ 2 :> "stone" @@ 3 :> "potion"
Nowhere == <<>>

Times(recovery, category, categoryRecovery, gcdCategory, gcd) ==
  [recovery |-> recovery, category |-> category, categoryRecovery |-> categoryRecovery,
   gcdCategory |-> gcdCategory, gcd |-> gcd]
MCSpells == "heal" :> Times(0, 0, 0, 1, 1) @@ "drink" :> Times(3, 1, 2, 0, 0) @@ "ward" :> Times(2, 1, 4, 1, 1)
MCItemSpells == "potion" :> <<[spell |-> "drink", category |-> 2], [spell |-> "ward", category |-> 0]>>

AuraOf(aims) == [aura |-> TRUE, aims |-> aims]
(* Up to three units hit and two missed, no unit twice.                     *)
Targets == {"me", "ally", "foe"}
Distinct(seq) == Cardinality({seq[i] : i \in DOMAIN seq}) = Len(seq)
Lists(S, n) == {seq \in UNION {[1..k -> S] : k \in 0..n} : Distinct(seq)}
Struck(o) == o.hits \o [i \in DOMAIN o.misses |-> o.misses[i].unit]
Landings ==
  {o \in [hits : Lists(Targets, 3), misses : Lists([unit : {"ally", "foe"}, how : {"resist", "reflect"}], 2)] :
     Distinct(Struck(o))}
MCLandingSpells ==
  "shout" :> <<AuraOf("all"), [aura |-> FALSE, aims |-> "none"], AuraOf("caster")>>
  @@ "nova" :> <<AuraOf("enemies"), AuraOf("one"), AuraOf("none")>>
MCEventGates == {{"go", "aura", "heal"}, {"aura", "energize"}}

Spell(cast, gcd, aimed, autoRepeat) == [cast |-> cast, gcd |-> gcd, aimed |-> aimed, autoRepeat |-> autoRepeat]
MCCastSpells ==
  "bolt" :> Spell(4, 3, FALSE, FALSE) @@ "rain" :> Spell(3, 3, TRUE, FALSE) @@ "shoot" :> Spell(1, 0, FALSE, TRUE)
MCTakes == "bolt" :> {1, 3, 5, 6} @@ "rain" :> {5} @@ "shoot" :> {3}

(* The parts that do not run have no state, or keep their first one.        *)
Absent == "absent"
NoPet == PetInit
NoBuffer ==
  /\ BufferInit
  /\ minBuffer = CHOOSE m \in Minimums : TRUE
  /\ maxIncrease = CHOOSE m \in Increases : TRUE
NoUnits == UnitInit /\ gates = CHOOSE g \in SettingsOf : TRUE
NoAuras ==
  /\ aura = [s \in AuraSlotSet |-> NoAuraThere] /\ reported = aura /\ copy = [b \in Banks |-> <<>>]
  /\ faintGone = TRUE                           \* so that no list is compared
NoSettings ==
  /\ cvar = Absent /\ setting = Absent /\ registered = Absent /\ starting = TRUE /\ sets = Absent
MCBags == {-1, 1}
MCSizes == -1 :> {1} @@ 1 :> 0..2
MCGear == "raider" :> [slot \in {0, 1} |-> "a"]
NoBags == Init /\ size = [b \in Bags |-> CHOOSE n \in Sizes[b] : n > 0]   \* so that no call returns a table
NoTrinkets ==
  /\ itemAt = BlankPlaces /\ bagThere = TRUE /\ statsThere = {}
  /\ kept = BlankPlaces /\ detail = BlankPlaces /\ list = BlankList
  /\ lastCount = -1                            \* so that no step is a call of GetTrinkets
NoSearch ==
  /\ carried = Absent /\ bags = Absent /\ rows = Absent /\ loaded = Absent
  /\ pendingItemIds = Absent /\ bankAtHand = Absent /\ found = Absent
  /\ nameToId = <<>>                           \* no names, so that no step is a search
NoCooldowns == CooldownInit
NoCombat == CombatInit /\ eventGates = CHOOSE g \in EventGates : TRUE
NoCastTimes ==
  /\ castNow = 1 /\ castEndMs = 0 /\ gcdEndMs = 0 /\ castHistory = <<>> /\ aiming = 0
  /\ toServer = <<>> /\ serverCast = Idle /\ toClient = <<>> /\ overdue = FALSE
  /\ attempts = MaxAttempts                     \* so that no step is a cast

NoClient == NoPet /\ NoBuffer /\ NoAuras /\ NoUnits /\ NoSettings
NoTables == NoBags /\ NoTrinkets /\ NoSearch
NoSpells == NoCooldowns /\ NoCombat /\ NoCastTimes

PartsInit ==
  \/ part = "pet" /\ PetInit /\ NoBuffer /\ NoAuras /\ NoUnits /\ NoSettings /\ NoTables /\ NoSpells
  \/ part = "buffer" /\ BufferInit /\ NoPet /\ NoAuras /\ NoUnits /\ NoSettings /\ NoTables /\ NoSpells
  \/ part = "auras" /\ AuraInit /\ NoPet /\ NoBuffer /\ NoUnits /\ NoSettings /\ NoTables /\ NoSpells
  \/ part = "units" /\ UnitInit /\ NoPet /\ NoBuffer /\ NoAuras /\ NoSettings /\ NoTables /\ NoSpells
  \/ part = "settings" /\ SettingsInit /\ NoPet /\ NoBuffer /\ NoAuras /\ NoUnits /\ NoTables /\ NoSpells
  \/ part = "bags" /\ Init /\ NoTrinkets /\ NoSearch /\ NoClient /\ NoSpells
  \/ part = "outfit" /\ NoBags /\ NoTrinkets /\ NoSearch /\ NoClient /\ NoSpells
  \/ part = "trinkets" /\ TrinketInit /\ NoBags /\ NoSearch /\ NoClient /\ NoSpells
  \/ part = "search" /\ SearchInit /\ NoBags /\ NoTrinkets /\ NoClient /\ NoSpells
  \/ part = "cooldowns" /\ CooldownInit /\ NoCombat /\ NoCastTimes /\ NoClient /\ NoTables
  \/ part = "combat" /\ CombatInit /\ NoCooldowns /\ NoCastTimes /\ NoClient /\ NoTables
  \/ part = "times" /\ TimesInit /\ NoCooldowns /\ NoCombat /\ NoClient /\ NoTables

PetPart == part = "pet" /\ PetNext /\ UNCHANGED <<part, bufferVars, auraVars, unitVars, settingVars, tableVars, spellVars>>
BufferPart == part = "buffer" /\ BufferNext /\ UNCHANGED <<part, petVars, auraVars, unitVars, settingVars, tableVars, spellVars>>
AurasPart == part = "auras" /\ AuraNext /\ UNCHANGED <<part, petVars, bufferVars, unitVars, settingVars, tableVars, spellVars>>
UnitsPart == part = "units" /\ UnitNext /\ UNCHANGED <<part, petVars, bufferVars, auraVars, settingVars, tableVars, spellVars>>
SettingsPart == part = "settings" /\ SettingsNext /\ UNCHANGED <<part, petVars, bufferVars, auraVars, unitVars, tableVars, spellVars>>
BagsPart ==
  /\ part = "bags" /\ Next
  /\ <<worn, wornCell, inspected>>' = <<worn, wornCell, inspected>>
  /\ UNCHANGED <<part, trinketVars, searchVars, clientVars, spellVars>>
OutfitPart ==
  /\ part = "outfit" /\ Next
  /\ <<held, size, known, bankOpen, bagCell, listed>>' = <<held, size, known, bankOpen, bagCell, listed>>
  /\ UNCHANGED <<part, trinketVars, searchVars, clientVars, spellVars>>
TrinketsPart == part = "trinkets" /\ TrinketNext /\ UNCHANGED <<part, bagVars, searchVars, clientVars, spellVars>>
SearchPart == part = "search" /\ SearchNext /\ UNCHANGED <<part, bagVars, trinketVars, clientVars, spellVars>>
CooldownsPart == part = "cooldowns" /\ CooldownNext /\ UNCHANGED <<part, combatVars, castTimeVars, clientVars, tableVars>>
CombatPart == part = "combat" /\ CombatNext /\ UNCHANGED <<part, cooldownVars, castTimeVars, clientVars, tableVars>>
TimesPart == part = "times" /\ TimesNext /\ UNCHANGED <<part, cooldownVars, combatVars, clientVars, tableVars>>

PartsNext ==
  \/ PetPart \/ BufferPart \/ AurasPart \/ UnitsPart \/ SettingsPart \/ BagsPart
  \/ OutfitPart \/ TrinketsPart \/ SearchPart \/ CooldownsPart \/ CombatPart \/ TimesPart

allVars == <<part, clientVars, tableVars, spellVars>>
PartsSpec == PartsInit /\ [][PartsNext]_allVars
------------------------------------------------------------------------------
(* Every part's variables have their types.                                 *)
TypesOK ==
  CASE part = "pet"      -> PetTypeOK
    [] part = "buffer"   -> BufferTypeOK
    [] part = "auras"    -> AuraTypeOK
    [] part = "units"    -> UnitTypeOK
    [] part = "settings" -> SettingsTypeOK
    [] part \in {"bags", "outfit"} -> BagTypeOK
    [] part = "trinkets" -> TrinketTypeOK
    [] part = "search"   -> SearchTypeOK
    [] part = "cooldowns" -> CooldownTypeOK
    [] part = "combat"   -> CombatTypeOK
    [] part = "times"    -> CastTimeTypeOK
==============================================================================

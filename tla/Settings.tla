------------------------------ MODULE Settings ------------------------------
(* The settings (main.cpp).  A setting is a field of gUserSettings, which   *)
(* the code reads, and a CVar, which the client keeps over restarts.  An    *)
(* addon's SetCVar writes both; at start loadConfig registers the CVars and *)
(* loads the fields from them; an addon that registers a gated event turns  *)
(* its field on.  Values are in halves, so that one of them is a fraction.  *)
EXTENDS Naturals, FiniteSets

CONSTANTS
  Values,    \* values set, in halves
  MaxSets,   \* bound on the calls of SetCVar
  Heard      \* the fields whose gated events frames register for

Queueing == {"NP_QueueCastTimeSpells", "NP_QueueInstantSpells", "NP_QueueOnSwingSpells",
  "NP_QueueChannelingSpells", "NP_QueueTargetingSpells", "NP_QueueSpellsOnCooldown"}
Casting == {"NP_InterruptChannelsOutsideQueueWindow", "NP_RetryServerRejectedSpells",
  "NP_QuickcastTargetingSpells", "NP_ReplaceMatchingNonGcdCategory",
  "NP_OptimizeBufferUsingPacketTimings", "NP_PreventRightClickTargetChange",
  "NP_PreventRightClickPvPAttack", "NP_DoubleCastToEndChannelEarly", "NP_QuickcastOnDoubleCast",
  "NP_SpamProtectionEnabled", "NP_PreserveGreaterDemonAutocast"}
UnitEventTokens == {"NP_EnableUnitEventsPet", "NP_EnableUnitEventsParty", "NP_EnableUnitEventsRaid",
  "NP_EnableUnitEventsMouseover", "NP_EnableUnitEventsGuid", "NP_EnableUnitEventsGuidFiltering"}
GatedEvents == {"NP_EnableAuraCastEvents", "NP_EnableAutoAttackEvents", "NP_EnableSpellStartEvents",
  "NP_EnableSpellGoEvents", "NP_EnableSpellHealEvents", "NP_EnableSpellEnergizeEvents"}
Client == {"NP_PreventMountingWhenBuffCapped", "NP_EnableEnhancedTooltips", "NP_EnableLocalSetRaidTarget"}
Durations == {"NP_MinBufferTimeMs", "NP_NonGcdBufferTimeMs", "NP_MaxBufferIncreaseMs",
  "NP_SpellQueueWindowMs", "NP_OnSwingBufferCooldownMs", "NP_ChannelQueueWindowMs",
  "NP_TargetingQueueWindowMs", "NP_CooldownQueueWindowMs", "NP_ChannelLatencyReductionPercentage"}
Distances == {"NP_NameplateDistance", "NP_ChatBubbleDistance"}
KeyPress == "enableKeyPressEvents"   \* a field without a CVar

Switches == Queueing \cup Casting \cup UnitEventTokens \cup GatedEvents \cup Client
CVars == Switches \cup Durations \cup Distances
Fields == CVars \cup {KeyPress}

(* A value set has no sign; frames register for gated events only.          *)
ASSUME SettingsConstants ==
  Values \subseteq Nat /\ MaxSets \in Nat /\ Heard \subseteq GatedEvents \cup {KeyPress}

VARIABLES
  cvar,        \* the client's CVars
  setting,     \* gUserSettings and the client's distances
  registered,  \* fields with a frame registered for one of their events
  starting,    \* the client has just started
  sets         \* calls of SetCVar so far

settingVars == <<cvar, setting, registered, starting, sets>>

(* The initial values of gUserSettings: these are off, the others on, or    *)
(* the number for which 2 stands.                                           *)
InitiallyOff == GatedEvents \cup {KeyPress, "NP_QueueOnSwingSpells", "NP_InterruptChannelsOutsideQueueWindow",
  "NP_QuickcastTargetingSpells", "NP_ReplaceMatchingNonGcdCategory", "NP_OptimizeBufferUsingPacketTimings",
  "NP_PreventRightClickTargetChange", "NP_PreventRightClickPvPAttack", "NP_DoubleCastToEndChannelEarly",
  "NP_QuickcastOnDoubleCast", "NP_EnableUnitEventsGuidFiltering"}
Initial(n) == IF n \in InitiallyOff THEN 0 ELSE 2

(* updateFromCvar: what a value means for a field.                          *)
Whole(v) == (v \div 2) * 2
Meaning(n, v) ==
  CASE n \in Switches            -> IF Whole(v) # 0 THEN 2 ELSE 0
    [] n = "NP_NameplateDistance" -> v
    [] OTHER                      -> Whole(v)

(* The CVars loadConfig registers and those it loads.                       *)
RegisteredCVars == CVars
LoadedWithoutClient ==               (* mutant: three settings are not in the list *)
  Queueing \cup Casting \cup UnitEventTokens \cup GatedEvents \cup Durations \cup Distances
LoadedCVars == Queueing \cup Casting \cup Client \cup UnitEventTokens \cup GatedEvents \cup Durations \cup Distances

SettingsInit ==
  /\ cvar = [n \in CVars |-> Initial(n)]
  /\ setting = [n \in Fields |-> Initial(n)]
  /\ registered = {}
  /\ starting = TRUE /\ sets = 0

----------------------------------------------------------------------------
(* Script_SetCVarHook: the field, then the CVar.                            *)
SetCVar(n, v) ==
  /\ sets < MaxSets /\ sets' = sets + 1
  /\ setting' = [setting EXCEPT ![n] = Meaning(n, v)]
  /\ cvar' = [cvar EXCEPT ![n] = v]
  /\ starting' = FALSE
  /\ UNCHANGED registered

(* EnableEvents, from the hook of RegisterEvent, for an event of a gated    *)
(* group: the field is turned on in memory only.                            *)
RegisterEvent(n) ==
  /\ setting' = [setting EXCEPT ![n] = 2]
  /\ registered' = registered \cup {n}
  /\ starting' = FALSE
  /\ UNCHANGED <<cvar, sets>>

(* The client ends and starts again: gUserSettings has its initial values,  *)
(* loadConfig registers the CVars, which have the values they had, and      *)
(* loads each one in its list from m_intValue (loadUserVar).                *)
Restart ==
  /\ ~starting
  /\ setting' = [n \in Fields |->
       IF n \in LoadedCVars \cap RegisteredCVars THEN Meaning(n, Whole(cvar[n]))
       ELSE Initial(n)]
  /\ registered' = {}
  /\ starting' = TRUE
  /\ UNCHANGED <<cvar, sets>>

SettingsNext ==
  \/ \E n \in CVars, v \in Values : SetCVar(n, v)
  \/ \E n \in Heard : RegisterEvent(n)
  \/ Restart

SettingsSpec == SettingsInit /\ [][SettingsNext]_settingVars
----------------------------------------------------------------------------
SettingsTypeOK ==
  /\ cvar \in [CVars -> Values \cup {0, 2}] /\ registered \subseteq Heard \cap (GatedEvents \cup {KeyPress})
  /\ \A n \in Switches \cup {KeyPress} : setting[n] \in {0, 2}

(* A restart changes no setting: every field an addon can set is loaded     *)
(* again, to the same meaning.  Two things are not kept by design of the    *)
(* code: the part of a nameplate distance after the point, since loadUserVar*)
(* goes through the integer value (main.cpp:888-891), and an event turned   *)
(* on by registration, which is turned on again by the next registration.   *)
StartKeeps ==
  starting' /\ ~starting => \A n \in CVars :
    \/ setting'[n] = Whole(setting[n])
    \/ n \in registered /\ cvar[n] < 2
KeptOverRestart == [][StartKeeps]_settingVars
=============================================================================

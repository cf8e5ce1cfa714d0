----------------------------- MODULE UnitEvents -----------------------------
(* The unit events (unit.cpp).  The client signals that something changed   *)
(* for a guid; Nampower signals it once for every unit token that names the *)
(* guid, for the raw guid, and as a *_GUID event.  An addon shows a value   *)
(* per token, which it reads again when it gets an event for the token or   *)
(* the token comes to name another unit.                                    *)
EXTENDS Naturals, Sequences, FiniteSets

CONSTANTS
  Guids,       \* units
  NoGuid,      \* 0
  Player,      \* the active player's guid
  Party,       \* party slots
  Raid,        \* raid slots
  MayBe,       \* the units each token may name, a function on the tokens
  SettingsOf   \* the settings to try, sets of the gates that are on

VARIABLES
  names,    \* the unit each token names
  gates,    \* the gUserSettings.enableUnitEvents... that are on
  value,    \* the health of each unit
  shown,    \* the addon: the health it shows for each token
  shownRaw, \* the same for events with a raw guid for token
  shownGuid,\* the same for *_GUID events
  feedback  \* the tokens told of a combat feedback that is the last step, and for whom

unitVars == <<names, gates, value, shown, shownRaw, shownGuid, feedback>>

Gates == {"party", "raid", "pet", "mouseover", "guid", "filter"}
PartyTokens == {<<"party", i>> : i \in Party}
PartyPets == {<<"partypet", i>> : i \in Party}
RaidTokens == {<<"raid", i>> : i \in Raid}
RaidPets == {<<"raidpet", i>> : i \in Raid}
OwnTokens == {<<t, 0>> : t \in {"player", "pet", "target", "npc", "mouseover"}}
Tokens == OwnTokens \cup PartyTokens \cup PartyPets \cup RaidTokens \cup RaidPets

ASSUME UnitConstants ==
  /\ NoGuid \notin Guids /\ Player \in Guids
  /\ Party \subseteq Nat /\ Raid \subseteq Nat
  /\ \A t \in Tokens : MayBe[t] \subseteq Guids \cup {NoGuid}
  /\ \A s \in SettingsOf : s \subseteq Gates

Nothing == [guid |-> NoGuid, told |-> {}]

UnitInit ==
  /\ names = [t \in Tokens |-> IF t = <<"player", 0>> THEN Player ELSE NoGuid]
  /\ gates \in SettingsOf
  /\ value = [g \in Guids |-> 0]
  /\ shown = [t \in Tokens |-> 0]
  /\ shownRaw = [g \in Guids |-> 0] /\ shownGuid = [g \in Guids |-> 0]
  /\ feedback = Nothing

----------------------------------------------------------------------------
(* GetUnitNames: the loops over the party and the raid look at the member   *)
(* and then at the pet of each slot and stop at the first that is g.        *)
FirstSlot(g, S, member, pet) ==
  LET at == {i \in S : g \in {names[<<member, i>>], names[<<pet, i>>]}}
      i  == CHOOSE i \in at : \A j \in at : i <= j
  IN  IF at = {} THEN {}
      ELSE IF names[<<member, i>>] = g THEN {<<member, i>>} ELSE {<<pet, i>>}

GetUnitNamesPartyFirst(g) ==         (* mutant: the raid is searched only outside the party *)
  LET inParty == FirstSlot(g, Party, "party", "partypet") IN
  {t \in OwnTokens : names[t] = g}
    \cup (IF inParty # {} THEN inParty ELSE FirstSlot(g, Raid, "raid", "raidpet"))

GetUnitNames(g) ==
  {t \in OwnTokens : names[t] = g}
    \cup FirstSlot(g, Party, "party", "partypet") \cup FirstSlot(g, Raid, "raid", "raidpet")

(* TriggerUnitEvents' categories.                                           *)
On(gate) == gate \in gates
PassesUnitEvent(t) ==
  /\ t[1] = "mouseover" => On("mouseover")
  /\ t[1] \in {"party", "partypet"} => On("party")
  /\ t[1] \in {"raid", "raidpet"} => On("raid")
  /\ t[1] \in {"partypet", "raidpet"} => On("pet")

(* CGGameUI_ShowCombatFeedbackHook's, which differ for pets.                *)
PassesCombat(t) ==
  /\ t[1] \in {"pet", "partypet"} => On("pet")
  /\ t[1] = "mouseover" => On("mouseover")
  /\ t[1] = "party" => On("party")
  /\ t[1] \in {"raid", "raidpet"} => On("raid")

(* The raw guid as a token, for an event the filter is about.               *)
PassesRaw == On("guid") /\ ~On("filter")

(* SendUnitSignalHook for an event below UNIT_COMBAT, such as UNIT_HEALTH,  *)
(* that has a *_GUID event.                                                 *)
HealthChanges(g) ==
  /\ value' = [value EXCEPT ![g] = 1 - @]
  /\ LET told == {t \in GetUnitNames(g) : PassesUnitEvent(t)} IN
       shown' = [t \in Tokens |-> IF t \in told THEN value'[g] ELSE shown[t]]
  /\ shownRaw' = IF PassesRaw THEN [shownRaw EXCEPT ![g] = value'[g]] ELSE shownRaw
  /\ shownGuid' = [shownGuid EXCEPT ![g] = value'[g]]
  /\ feedback' = Nothing
  /\ UNCHANGED <<names, gates>>

ShowCombatFeedback(g) ==
  /\ feedback' = [guid |-> g, told |-> {t \in GetUnitNames(g) : PassesCombat(t)}]
  /\ UNCHANGED <<names, gates, value, shown, shownRaw, shownGuid>>

(* No unit is in two party slots or in two raid slots.                      *)
Group(t) == CASE t[1] \in {"party", "partypet"} -> "party" [] t[1] \in {"raid", "raidpet"} -> "raid" [] OTHER -> "own"
MayName(t, g) ==
  \A u \in Tokens \ {t} : (Group(t) # "own" /\ Group(u) = Group(t) /\ g # NoGuid) => names[u] # g

(* A token comes to name another unit; the client's own events for that     *)
(* make the addon read it again.                                            *)
NamesAnother(t, g) ==
  /\ t # <<"player", 0>>
  /\ g # names[t] /\ MayName(t, g)
  /\ names' = [names EXCEPT ![t] = g]
  /\ shown' = [shown EXCEPT ![t] = IF g = NoGuid THEN 0 ELSE value[g]]
  /\ feedback' = Nothing
  /\ UNCHANGED <<gates, value, shownRaw, shownGuid>>

UnitNext ==
  \/ \E g \in Guids : HealthChanges(g)
  \/ \E g \in Guids : ShowCombatFeedback(g)
  \/ \E t \in Tokens : \E g \in MayBe[t] : NamesAnother(t, g)

UnitSpec == UnitInit /\ [][UnitNext]_unitVars
----------------------------------------------------------------------------
UnitTypeOK ==
  /\ names \in [Tokens -> Guids \cup {NoGuid}] /\ gates \subseteq Gates
  /\ shown \in [Tokens -> {0, 1}] /\ feedback.told \subseteq Tokens

(* What README.md:120-126 lets the player switch off.                       *)
SwitchedOff(t) ==
  \/ t[1] = "mouseover" /\ ~On("mouseover")
  \/ t[1] \in {"party", "partypet"} /\ ~On("party")
  \/ t[1] \in {"raid", "raidpet"} /\ ~On("raid")
  \/ t[1] \in {"pet", "partypet", "raidpet"} /\ ~On("pet")

(* An addon that reads a unit again on the events of its token never shows  *)
(* an old value for a token that is not switched off: a unit with several   *)
(* tokens, a target that is a raid member and the mouseover, gets an event  *)
(* for each (unit.cpp:96-119, src/README.md:120-126).  One that goes by the *)
(* *_GUID events never does, whatever is switched off, nor one that goes by *)
(* the raw guid unless that is off or filtered (unit.cpp:120-187).          *)
ViewsFresh ==
  /\ \A t \in Tokens : (names[t] # NoGuid /\ ~SwitchedOff(t)) => shown[t] = value[names[t]]
  /\ shownGuid = value
  /\ (On("guid") /\ ~On("filter")) => shownRaw = value

(* Combat feedback is told for every token of the unit that is not switched *)
(* off, for none that no longer names it, and never for the pet when pets   *)
(* are switched off (unit.cpp:236-255).                                     *)
CombatToldToTokens ==
  feedback.guid # NoGuid =>
    /\ {t \in Tokens : names[t] = feedback.guid /\ ~SwitchedOff(t)} \subseteq feedback.told
    /\ \A t \in feedback.told : names[t] = feedback.guid
    /\ On("pet") \/ <<"pet", 0>> \notin feedback.told

(* unit.cpp:96-255: both, for one search over the tokens serves both.       *)
TokensTold == ViewsFresh /\ CombatToldToTokens
=============================================================================

----------------------------- MODULE AuraSlots -----------------------------
(* The buff and debuff events (auras.cpp).  An update of a unit's fields    *)
(* changes several aura slots at once; the client then walks the slots, and *)
(* for each one that changed an event tells addons the position the aura    *)
(* has, or had, in the list UnitBuff or UnitDebuff shows: the list of the   *)
(* slots that are not empty or hidden.  An addon keeps its own copy of the  *)
(* list from the events.                                                    *)
EXTENDS Integers, Sequences, SequencesExt, FiniteSets

CONSTANTS
  LastSlot,    \* 47 in the code
  FirstDebuff, \* 32: slots below it hold buffs
  Shown,       \* spells with a visible aura
  Hidden,      \* spells IsAuraHiddenForLua hides
  Faint,       \* auras whose slot flags do not show them
  Stacks,      \* auraApplications, counted from 0
  NoAura,      \* spell id 0
  Batch        \* bound on the slots one update changes

ASSUME AuraConstants ==
  /\ LastSlot \in Nat /\ FirstDebuff \in Nat
  /\ Stacks \subseteq Nat /\ NoAura \notin Shown \cup Hidden \cup Faint

VARIABLES
  aura,        \* unitFields->aura and auraApplications
  reported,    \* external: those fields as far as the client has reported their changes
  copy,        \* the addon's copy of each list, [spell, count] entries
  faintGone    \* history: an aura hidden by its flags alone was removed

auraVars == <<aura, reported, copy, faintGone>>

AuraSlotSet == 0..LastSlot
NoAuraThere == [spell |-> NoAura, stacks |-> 0]
AuraSpells == Shown \cup Hidden \cup Faint
Auras == {NoAuraThere} \cup [spell : Shown, stacks : Stacks] \cup [spell : Hidden \cup Faint, stacks : {0}]
Banks == {"buff", "debuff"}
Bank(s) == IF s < FirstDebuff THEN "buff" ELSE "debuff"
FirstOfBank(s) == IF s < FirstDebuff THEN 0 ELSE FirstDebuff

AuraInit ==
  /\ aura = [s \in AuraSlotSet |-> NoAuraThere]
  /\ reported = aura
  /\ copy = [b \in Banks |-> <<>>]
  /\ faintGone = FALSE

(* IsAuraHiddenForLua, and CountsAsEmptyForLua, which also looks at the     *)
(* slot's flags; a removed aura is only asked the first.                    *)
IsAuraHiddenForLua(spell) == spell = NoAura \/ spell \in Hidden
CountsAsEmptyForLua(fields, s) == IsAuraHiddenForLua(fields[s].spell) \/ fields[s].spell \in Faint
IsHiddenAura(fields, s, spell, state) ==
  IsAuraHiddenForLua(spell) \/ (state # "removed" /\ CountsAsEmptyForLua(fields, s))

LuaUnitSlotHiddenCounted(fields, s) ==       (* mutant: only empty slots are left out *)
  s + 1 - FirstOfBank(s) - Cardinality({i \in FirstOfBank(s)..(s - 1) : fields[i].spell = NoAura})

(* CalculateLuaUnitSlotFromAuraSlot: position s would have, counted from 1. *)
LuaUnitSlot(fields, s) ==
  s + 1 - FirstOfBank(s) - Cardinality({i \in FirstOfBank(s)..(s - 1) : CountsAsEmptyForLua(fields, i)})

(* The list UnitBuff and UnitDebuff show: its n-th entry is the n-th slot   *)
(* that does not count as empty.                                            *)
AuraEntry(fields, s) == [spell |-> fields[s].spell, count |-> fields[s].stacks + 1]
InList(fields, b) == {s \in AuraSlotSet : Bank(s) = b /\ ~CountsAsEmptyForLua(fields, s)}
UpTo(S, s) == {i \in S : i <= s}
AuraList(fields, b) ==
  [n \in 1..Cardinality(InList(fields, b)) |->
     AuraEntry(fields, CHOOSE s \in InList(fields, b) : Cardinality(UpTo(InList(fields, b), s)) = n)]
----------------------------------------------------------------------------
(* The server changes the slots.                                            *)
UpdateFields(new) ==
  /\ reported = aura /\ ~faintGone   \* a bound: the addon's copy is of no use after that
  /\ aura' = [s \in AuraSlotSet |-> IF s \in DOMAIN new THEN new[s] ELSE aura[s]]
  /\ UNCHANGED <<reported, copy, faintGone>>

(* The addon: a luaSlot of 0 is not in the list.                            *)
Followed(list, n, entry, state) ==
  CASE state = "added" /\ n \in 1..(Len(list) + 1)  -> InsertAt(list, n, entry)
    [] state = "removed" /\ n \in 1..Len(list)      -> RemoveAt(list, n)
    [] state = "modified" /\ n \in 1..Len(list)     -> ReplaceAt(list, n, entry)
    [] OTHER -> list

(* CGUnit_C_OnAuraRemovedHook, OnAuraAddedHook, OnAuraStacksChangedHook and *)
(* TriggerAuraEvent.                                                        *)
TriggerAuraEvent(s, spell, state) ==
  LET luaSlot == IF IsHiddenAura(aura, s, spell, state) THEN 0 ELSE LuaUnitSlot(aura, s)
      count == IF state = "removed" THEN aura[s].stacks ELSE aura[s].stacks + 1
  IN  /\ copy' = [copy EXCEPT ![Bank(s)] = Followed(@, luaSlot, [spell |-> spell, count |-> count], state)]
      /\ faintGone' = (faintGone \/ (state = "removed" /\ spell \in Faint))
      /\ UNCHANGED aura

(* Per slot, in ascending order, the client reports an aura gone, an aura   *)
(* come, or the same aura with other stacks.                                *)
Changed(s) == s \in AuraSlotSet /\ reported[s] # aura[s] /\ \A i \in AuraSlotSet : i < s => reported[i] = aura[i]

OnAuraRemoved(s) ==
  /\ Changed(s) /\ reported[s].spell \notin {NoAura, aura[s].spell}
  /\ reported' = [reported EXCEPT ![s] = NoAuraThere]
  /\ TriggerAuraEvent(s, reported[s].spell, "removed")

OnAuraAdded(s) ==
  /\ Changed(s) /\ reported[s].spell = NoAura
  /\ reported' = [reported EXCEPT ![s] = aura[s]]
  /\ TriggerAuraEvent(s, aura[s].spell, "added")

OnAuraStacksChanged(s) ==
  /\ Changed(s) /\ reported[s].spell = aura[s].spell
  /\ reported' = [reported EXCEPT ![s] = aura[s]]
  /\ TriggerAuraEvent(s, aura[s].spell, "modified")

Updates == UNION {[D -> Auras] : D \in {X \in SUBSET AuraSlotSet : X # {} /\ Cardinality(X) <= Batch}}

AuraNext ==
  \/ \E new \in Updates : UpdateFields(new)
  \/ \E s \in AuraSlotSet : OnAuraRemoved(s) \/ OnAuraAdded(s) \/ OnAuraStacksChanged(s)

AuraSpec == AuraInit /\ [][AuraNext]_auraVars
----------------------------------------------------------------------------
AuraTypeOK ==
  /\ aura \in [AuraSlotSet -> Auras] /\ reported \in [AuraSlotSet -> Auras]
  /\ DOMAIN copy = Banks /\ faintGone \in BOOLEAN

(* An addon that inserts, removes and changes entries at the luaSlot of the *)
(* events ends every update with the list UnitBuff and UnitDebuff show,     *)
(* spells and stack counts, although every event of an update is computed   *)
(* from fields that already hold all of its changes (auras.cpp:102-119,     *)
(* src/EVENTS.md:445).  It does until an aura that only its slot flags hide *)
(* is removed.                                                              *)
CopyIsList == (reported = aura /\ ~faintGone) => \A b \in Banks : copy[b] = AuraList(aura, b)
=============================================================================

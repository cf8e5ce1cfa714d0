---------------------------- MODULE PetAutocast ----------------------------
(* The autocast and react preferences of a warlock's greater demons         *)
(* (pet.cpp).  Three kinds of demon have a CVar; what the player chooses on *)
(* the pet bar is saved there and put back when a demon of the kind is      *)
(* summoned again.  A slot's action word is abstracted to the slot: a spell *)
(* slot is enabled or not, a react slot is the state its button stands for. *)
EXTENDS Naturals, FiniteSets

CONSTANTS
  Demons,        \* the kinds of pet that have a CVar
  OtherPets,     \* the kinds that have none
  SpellSlots,    \* bar slots with spells, 3..6 in the code
  ReactSlots,    \* bar slots with react states, 7..9 in the code
  DefaultOn,     \* spell slots the server enables on a new pet
  DefaultReact,  \* react state of a new pet
  MaxSummons     \* bound on the pets summoned

(* A slot of the bar holds a spell or a react state; 0 is no slot.          *)
ASSUME PetConstants ==
  /\ SpellSlots \subseteq Nat \ {0} /\ ReactSlots \subseteq Nat \ {0}
  /\ SpellSlots \cap ReactSlots = {}
  /\ DefaultOn \subseteq SpellSlots /\ DefaultReact \in ReactSlots
  /\ MaxSummons \in Nat

VARIABLES
  petGuid,   \* *ActivePetGuid: the pet's serial number, 0 with no pet
  petKind,   \* what the pet is
  petKnown,  \* its object is loaded, so its display id can be read
  autoOn,    \* PetActionBarSlots: enabled spell slots
  reaction,  \* *PetReactionMode
  server,    \* what the server has for the pet
  saved,     \* the CVars: the slots saved for each kind
  preserve,  \* gUserSettings.preserveGreaterDemonAutocast
  pending,   \* gPendingToggleAutocastSlot
  summons,   \* serial of the last pet
  chosen     \* history: the player's last recorded choice for each kind

petVars == <<petGuid, petKind, petKnown, autoOn, reaction, server, saved, preserve, pending, summons, chosen>>

Kinds == Demons \cup OtherPets
PetSlots == SpellSlots \cup ReactSlots
Largest(S) == CHOOSE x \in S : \A y \in S : y <= x

NoReact == 0
Undecided == [on |-> {}, react |-> NoReact]

PetInit ==
  /\ petGuid = 0 /\ summons = 0
  /\ petKind \in OtherPets
  /\ petKnown = FALSE
  /\ autoOn = {} /\ reaction = DefaultReact
  /\ server = [auto |-> {}, react |-> DefaultReact]
  /\ saved = [k \in Demons |-> {}]
  /\ preserve = TRUE
  /\ pending = 0
  /\ chosen = [k \in Demons |-> Undecided]

(* GetActivePetDisplayId and GetAutocastCvarNameForDisplayId find a CVar.   *)
HasCvar == petGuid # 0 /\ petKnown /\ petKind \in Demons
Recorded == preserve /\ HasCvar

WithAnySlot(data, s, type) ==     (* mutant: the slot does not decide what is saved *)
  CASE type = "enabled"  -> data \cup {s}
    [] type = "disabled" -> data \ {s}
    [] type = "react"    -> (data \ ReactSlots) \cup {s}
    [] OTHER             -> data

(* The map of the CVar with slot s saved: only enabled spells are kept, and *)
(* a react state replaces the other two.                                    *)
WithSlot(data, s, type) ==
  IF s \in SpellSlots
  THEN CASE type = "enabled"  -> data \cup {s}
         [] type = "disabled" -> data \ {s}
         [] OTHER             -> data
  ELSE IF s \in ReactSlots THEN (data \ ReactSlots) \cup {s} ELSE data

SaveGreaterDemonPreferences(s, type) ==
  saved' = IF Recorded THEN [saved EXCEPT ![petKind] = WithSlot(@, s, type)] ELSE saved

Chooses(choice) == chosen' = IF Recorded THEN [chosen EXCEPT ![petKind] = choice] ELSE chosen
Choice == IF petKind \in Demons THEN chosen[petKind] ELSE Undecided

----------------------------------------------------------------------------
(* RestoreGreaterDemonAutocastPreferences: the saved slots overwrite the    *)
(* bar and a packet for each tells the server; the map is walked upwards,   *)
(* so of several react states the last one stays.                           *)
ToRestore(k, known) == IF preserve /\ known /\ k \in Demons THEN saved[k] ELSE {}
BarAuto(data) == DefaultOn \cup (data \cap SpellSlots)
React(data) == IF data \cap ReactSlots = {} THEN DefaultReact ELSE Largest(data \cap ReactSlots)
PacketsAutocast(data) ==      (* mutant: no packet for the react state *)
  [auto |-> BarAuto(data), react |-> DefaultReact]
Packets(data) == [auto |-> BarAuto(data), react |-> React(data)]

(* CGPetInfo_SetPetHook with a new pet: the client and the server start     *)
(* from the defaults, then the preferences are put back.                    *)
Summon(k, known) ==
  /\ summons < MaxSummons
  /\ summons' = summons + 1 /\ petGuid' = summons'
  /\ petKind' = k /\ petKnown' = known
  /\ LET data == ToRestore(k, known) IN
       /\ autoOn' = BarAuto(data)
       /\ reaction' = React(data)
       /\ server' = Packets(data)
  /\ UNCHANGED <<saved, preserve, pending, chosen>>

(* The same hook when the server repeats the bar of the current pet: the    *)
(* guid has not changed and nothing is put back.                            *)
SamePet ==
  /\ petGuid # 0
  /\ autoOn' = server.auto /\ reaction' = server.react
  /\ UNCHANGED <<petGuid, petKind, petKnown, server, saved, preserve, pending, summons, chosen>>

Dismiss ==
  /\ petGuid # 0
  /\ petGuid' = 0 /\ petKnown' = FALSE
  /\ UNCHANGED <<petKind, autoOn, reaction, server, saved, preserve, pending, summons, chosen>>

(* The pet's object is created late or leaves the client's view.            *)
ObjectAppearsOrLeaves ==
  /\ petGuid # 0
  /\ petKnown' = ~petKnown
  /\ UNCHANGED <<petGuid, petKind, autoOn, reaction, server, saved, preserve, pending, summons, chosen>>

----------------------------------------------------------------------------
TogglePetSlotPending(s) ==    (* mutant: the pending slot is not reset *)
  /\ petGuid # 0
  /\ autoOn' = IF s \in autoOn THEN autoOn \ {s} ELSE autoOn \cup {s}
  /\ server' = [server EXCEPT !.auto = autoOn']
  /\ SaveGreaterDemonPreferences(s, IF s \in autoOn' THEN "enabled" ELSE "disabled")
  /\ Chooses([Choice EXCEPT !.on = IF s \in autoOn' THEN @ \cup {s} ELSE @ \ {s}])
  /\ pending' = s
  /\ UNCHANGED <<petGuid, petKind, petKnown, reaction, preserve, summons>>

(* TogglePetSlotAutocastHook: inside the client's call the bar and the      *)
(* server change and CGPetInfo_GetPetSpellActionHook sees the slot's word.  *)
TogglePetSlotAutocast(s) ==
  /\ petGuid # 0
  /\ autoOn' = IF s \in autoOn THEN autoOn \ {s} ELSE autoOn \cup {s}
  /\ server' = [server EXCEPT !.auto = autoOn']
  /\ SaveGreaterDemonPreferences(s, IF s \in autoOn' THEN "enabled" ELSE "disabled")
  /\ Chooses([Choice EXCEPT !.on = IF s \in autoOn' THEN @ \cup {s} ELSE @ \ {s}])
  /\ pending' = 0
  /\ UNCHANGED <<petGuid, petKind, petKnown, reaction, preserve, summons>>

(* CGPetInfo_GetPetSpellActionHook when the client reads a pet action for   *)
(* another reason: the slot is the one left by the toggle hook.             *)
GetPetSpellAction(type) ==
  /\ petGuid # 0
  /\ SaveGreaterDemonPreferences(pending, type)
  /\ UNCHANGED <<petGuid, petKind, petKnown, autoOn, reaction, server, preserve, pending, summons, chosen>>

(* CGPetInfo_SendPetActionHook with the action of a react button.           *)
SendPetAction(r) ==
  /\ petGuid # 0
  /\ reaction' = r
  /\ server' = [server EXCEPT !.react = r]
  /\ SaveGreaterDemonPreferences(r, "react")
  /\ Chooses([Choice EXCEPT !.react = r])
  /\ UNCHANGED <<petGuid, petKind, petKnown, autoOn, preserve, pending, summons>>

(* NP_PreserveGreaterDemonAutocast through updateFromCvar.                  *)
SetPreserve ==
  /\ preserve' = ~preserve
  /\ UNCHANGED <<petGuid, petKind, petKnown, autoOn, reaction, server, saved, pending, summons, chosen>>

PetNext ==
  \/ \E k \in Kinds, known \in BOOLEAN : Summon(k, known)
  \/ SamePet \/ Dismiss \/ ObjectAppearsOrLeaves \/ SetPreserve
  \/ \E s \in SpellSlots : TogglePetSlotAutocast(s)
  \/ \E type \in {"enabled", "disabled", "other"} : GetPetSpellAction(type)
  \/ \E r \in ReactSlots : SendPetAction(r)

PetSpec == PetInit /\ [][PetNext]_petVars
----------------------------------------------------------------------------
PetTypeOK ==
  /\ petGuid \in 0..MaxSummons /\ petKind \in Kinds /\ petKnown \in BOOLEAN
  /\ autoOn \subseteq SpellSlots /\ reaction \in ReactSlots
  /\ server \in [auto : SUBSET SpellSlots, react : ReactSlots]
  /\ saved \in [Demons -> SUBSET PetSlots] /\ pending \in {0} \cup PetSlots

(* What the pet bar shows is what the server does: after a summon, a choice *)
(* of the player or preferences put back (pet.cpp:204-233), the client and  *)
(* the server agree on autocast and react state.                            *)
BarIsServers == petGuid # 0 => server = [auto |-> autoOn, react |-> reaction]

(* A greater demon summoned while its kind is known has the player's last   *)
(* recorded choices for that kind, whatever other pets were out in between: *)
(* what was enabled is enabled, what was not is as the server has it, and   *)
(* the react state is the one chosen (src/README.md:98).  A spell the       *)
(* server enables by itself cannot be kept disabled: only enabled slots are *)
(* saved (pet.cpp:131-135).                                                 *)
ReturnsAsChosen ==
  \A k \in Demons : (petGuid' > petGuid /\ petKind' = k /\ petKnown' /\ preserve) =>
    /\ autoOn' = DefaultOn \cup chosen[k].on
    /\ reaction' = IF chosen[k].react = NoReact THEN DefaultReact ELSE chosen[k].react
RestoredAsChosen == [][ReturnsAsChosen]_petVars
============================================================================

------------------------------- MODULE OnSwing -------------------------------
(***************************************************************************)
(* Ownership of the player's on-next-swing spell: gOnSwingState and the     *)
(* functions of spellcast.cpp that change it, under synchronous re-entry.   *)
(*                                                                         *)
(* Everything runs on one thread, but SignalEventParam and the original     *)
(* client functions run Lua handlers before they return, and a handler may  *)
(* cast or stop casting again.  `todo` is the C++ call stack flattened: the *)
(* steps that the frames on the stack still have to run, innermost first.   *)
(* A handler's operation puts its steps in front.  A step runs from one     *)
(* callback to the next, so each snapshot and each check is taken exactly   *)
(* where the source takes it.                                               *)
(***************************************************************************)
EXTENDS Naturals, Sequences

CONSTANTS
  Spells,       (* the on-next-swing spells the player knows *)
  NoSpell,      (* spellId 0 *)
  Players,      (* successive objects of the active player; 0 is none yet *)
  MaxAttempts   (* bound: cast attempts in a behaviour *)

ASSUME PlayersAssumption == Players \subseteq Nat \ {0} /\ 1 \in Players
ASSUME SpellsAssumption == NoSpell \notin Spells
ASSUME MaxAttemptsAssumption == MaxAttempts \in Nat

Attempts == 1..MaxAttempts
ArmedEnd == {"ARMED_REPLACED", "CONSUMED", "FAILED", "CANCELLED"}
BufferEnd == {"BUFFER_REPLACED", "BUFFER_POPPED", "BUFFER_CANCELLED"}

VARIABLES
  armed,     (* castId of gOnSwingState.armedParams, 0 when not armed *)
  buffered,  (* castId of gOnSwingState.bufferedParams, 0 when not buffered *)
  todo,      (* what the frames on the call stack have left to do *)
  inLua,     (* TRUE while Lua handlers of the last event may run *)
  nextId,    (* gNextCastId *)
  spellOf, playerOf,  (* CastSpellParams spellId and casterUnit of an attempt *)
  player,    (* ClntObjMgrGetActivePlayerGuid / GetObjectPtr *)
  inFlight,  (* attempts the client sent and the server has not answered *)
  muddled,   (* spells with answers older than the last UI load to come then *)
  heard,     (* per attempt, the SPELL_ON_SWING_STATE events Lua received *)
  legacy     (* what SPELL_QUEUE_EVENT codes 0 and 1 left a consumer with *)

data == <<nextId, spellOf, playerOf, player, inFlight, muddled>>
vars == <<armed, buffered, todo, inLua, data, heard, legacy>>

(* Steps.  A Return step is a frame inside the original client cast; it     *)
(* keeps the stateBeforeClientCast snapshot and whether the client has      *)
(* reported a local failure.                                                *)
Tell(e, a)    == [do |-> "Tell", event |-> e, id |-> a]
LegacyPop     == [do |-> "LegacyPop"]
OtherEvent    == [do |-> "OtherEvent"]   (* an event that is not about this state *)
Clear         == [do |-> "Clear", at |-> nextId]
Return(a, failed) ==
  [do |-> "Return", id |-> a, armed |-> armed, buffered |-> buffered, failed |-> failed]
Fail(s, a)    == [do |-> "Fail", spell |-> s, id |-> a]
Replay(a)     == [do |-> "Replay", id |-> a]

(* A transition that is announced only if it happened.                      *)
TellIf(e, a)  == IF a # 0 THEN <<Tell(e, a)>> ELSE <<>>
EndBuffer(e, a) == IF a # 0 THEN <<Tell(e, a), LegacyPop>> ELSE <<>>

Init ==
  /\ armed = 0 /\ buffered = 0
  /\ todo = <<>> /\ inLua = TRUE
  /\ nextId = 1
  /\ spellOf = [a \in Attempts |-> NoSpell] /\ playerOf = [a \in Attempts |-> 0]
  /\ player = 1
  /\ inFlight = {} /\ muddled = {}
  /\ heard = [a \in Attempts |-> <<>>]
  /\ legacy = FALSE

(* The frame on top is about to run a step of this kind.                    *)
At(kind) == todo # <<>> /\ Head(todo).do = kind
Top      == Head(todo)

(* Native code runs on: Lua gets its turn only when no frame is left.       *)
Goto(steps) == todo' = steps /\ inLua' = (steps = <<>>)

(* gOnSwingState becomes <<a, b>> and the frames go on with steps.          *)
Become(a, b, steps) == armed' = a /\ buffered' = b /\ Goto(steps)
Keep(steps) == Become(armed, buffered, steps)
------------------------------------------------------------------------------
(* Spell_C_CastSpellHook, on-swing branch, up to the original client call.  *)
BeginAttempt(s, caster, rest) ==
  /\ nextId <= MaxAttempts
  /\ nextId' = nextId + 1
  /\ spellOf' = [spellOf EXCEPT ![nextId] = s]
  /\ playerOf' = [playerOf EXCEPT ![nextId] = caster]
  /\ todo' = <<Return(nextId, FALSE)>> \o rest
  /\ inLua' = TRUE
  /\ UNCHANGED <<armed, buffered, player, inFlight, muddled, heard, legacy>>

Cast(s) == inLua /\ BeginAttempt(s, player, todo)

(* Spell_C_SpellFailedHook called by the client inside the cast: the active  *)
(* attempt is the one of the innermost ActiveAttemptScope.                   *)
ClientFails ==
  /\ inLua /\ At("Return") /\ ~Top.failed
  /\ Keep(<<Fail(spellOf[Top.id], Top.id), [Top EXCEPT !.failed = TRUE]>> \o Tail(todo))
  /\ UNCHANGED <<data, heard, legacy>>

(* The client call returns; this frame owns the state only if no handler     *)
(* changed it meanwhile.                                                     *)
NeverChanged == FALSE     (* mutant: no HasSameOnSwingGenerations check *)
Changed == Top.armed # armed \/ Top.buffered # buffered
Finish  == <<OtherEvent>> \o Tail(todo)                 (* SPELL_CAST_EVENT *)

ArmOnSwingState(a) ==
  Become(a, 0,
         TellIf("ARMED_REPLACED", armed) \o EndBuffer("BUFFER_CANCELLED", buffered)
           \o <<Tell("ARMED", a)>> \o Finish)

BufferOnSwingState(a) ==
  Become(armed, a,
         EndBuffer("BUFFER_REPLACED", buffered)
           \o <<Tell("BUFFERED", a), [do |-> "LegacyPush", id |-> a]>>
           \o Finish)

BuffersUnarmed(accepted) ==      (* mutant: buffers without an armed generation *)
  /\ inLua /\ At("Return")
  /\ accepted => ~Top.failed
  /\ inFlight' = IF accepted THEN inFlight \union {Top.id} ELSE inFlight
  /\ \/ ~Changed /\ accepted /\ ArmOnSwingState(Top.id)
     \/ ~Changed /\ ~accepted /\ BufferOnSwingState(Top.id)
  /\ UNCHANGED <<nextId, spellOf, playerOf, player, muddled, heard, legacy>>

Returns(accepted) ==
  /\ inLua /\ At("Return")
  /\ accepted => ~Top.failed
  /\ inFlight' = IF accepted THEN inFlight \union {Top.id} ELSE inFlight
  /\ \/ Changed /\ Keep(Finish)
     \/ ~Changed /\ accepted /\ ArmOnSwingState(Top.id)
     \/ ~Changed /\ ~accepted /\ armed # 0 /\ BufferOnSwingState(Top.id)
     \/ ~Changed /\ ~accepted /\ Keep(Finish)
  /\ UNCHANGED <<nextId, spellOf, playerOf, player, muddled, heard, legacy>>

(* Script_SpellStopCastingHook: the original client function, in which       *)
(* handlers may run, and then ClearQueuedSpells, which for this state is     *)
(* CancelOnSwingState.  Bound: a handler does not stop again before some     *)
(* attempt was made in between.                                              *)
StopCasting ==
  /\ inLua
  /\ \A i \in DOMAIN todo : todo[i] # Clear
  /\ todo' = <<Clear>> \o todo
  /\ UNCHANGED <<armed, buffered, inLua, data, heard, legacy>>

CancelOnSwingState ==
  /\ At("Clear")
  /\ Become(0, 0,
            TellIf("CANCELLED", armed) \o EndBuffer("BUFFER_CANCELLED", buffered)
              \o <<OtherEvent>> \o Tail(todo))
  /\ UNCHANGED <<data, heard, legacy>>

FailsBySpell ==                 (* mutant: the attempt id is not compared *)
  /\ At("Fail")
  /\ IF armed # 0 /\ spellOf[armed] = Top.spell /\ Top.id # 0
     THEN Become(0, 0,
                 <<Tell("FAILED", armed)>> \o EndBuffer("BUFFER_CANCELLED", buffered)
                   \o <<OtherEvent>> \o Tail(todo))
     ELSE Keep(<<OtherEvent>> \o Tail(todo))
  /\ UNCHANGED <<data, heard, legacy>>

(* FailOnSwingState: id 0 is a failure that no attempt was matched to.       *)
FailOnSwingState ==
  /\ At("Fail")
  /\ IF armed # 0 /\ spellOf[armed] = Top.spell /\ Top.id # 0 /\ armed = Top.id
     THEN Become(0, 0,
                 <<Tell("FAILED", armed)>> \o EndBuffer("BUFFER_CANCELLED", buffered)
                   \o <<OtherEvent>> \o Tail(todo))      (* SPELL_FAILED_SELF *)
     ELSE Keep(<<OtherEvent>> \o Tail(todo))
  /\ UNCHANGED <<data, heard, legacy>>

(* The attempts that the one waiting history entry of its spell may be of    *)
(* when the rejection of a arrives.  Without a UI load that is a, or no      *)
(* entry is exact (ExactOrNone of CastCorrelation).  The load forgets the    *)
(* entries but not the answers under way, which then find whatever attempt   *)
(* of the spell waits: a newer one (an id from before the load is as good    *)
(* as none, since nothing is armed with it).                                 *)
Correlated(a) ==
  IF spellOf[a] \in muddled THEN {b \in inFlight : spellOf[b] = spellOf[a]} ELSE {a}

(* CastResultHandlerHook for a rejection: SPELL_CAST_RESULT_SELF runs        *)
(* handlers before the failure reaches FailOnSwingState with the attempt it  *)
(* was correlated to, or 0.                                                  *)
ServerRejects(a) ==
  /\ todo = <<>> /\ a \in inFlight
  /\ inFlight' = inFlight \ {a}
  /\ \E id \in {0} \union Correlated(a) : todo' = <<Fail(spellOf[a], id)>>
  /\ inLua' = TRUE
  /\ UNCHANGED <<armed, buffered, nextId, spellOf, playerOf, player, muddled, heard, legacy>>

(* SpellGoHook: BeginOnSwingResolution, the events of the packet, then       *)
(* FinishOnSwingResolution on the snapshot.                                  *)
SpellGo(a) ==
  /\ todo = <<>> /\ a \in inFlight
  /\ inFlight' = inFlight \ {a}
  /\ IF armed # 0 /\ spellOf[armed] = spellOf[a]
     THEN Become(0, 0,
                 <<Tell("CONSUMED", armed)>> \o
                   (IF buffered # 0
                    THEN <<Tell("BUFFER_POPPED", buffered), LegacyPop, Replay(buffered)>>
                    ELSE <<>>))
     ELSE Keep(<<>>)
  /\ UNCHANGED <<nextId, spellOf, playerOf, player, muddled, heard, legacy>>

ReplaysAnyCaster ==          (* mutant: casterUnit is not compared *)
  /\ At("Replay")
  /\ IF armed # 0 \/ buffered # 0
     THEN Keep(<<Tell("BUFFER_CANCELLED", Top.id)>> \o Tail(todo))
          /\ UNCHANGED <<data, heard, legacy>>
     ELSE BeginAttempt(spellOf[Top.id], playerOf[Top.id], Tail(todo))

(* The end of FinishOnSwingResolution: newer state or another player drops   *)
(* the snapshot, otherwise the cast hook runs again.                         *)
ReplayBuffer ==
  /\ At("Replay")
  /\ IF armed # 0 \/ buffered # 0 \/ playerOf[Top.id] # player
     THEN Keep(<<Tell("BUFFER_CANCELLED", Top.id)>> \o Tail(todo))
          /\ UNCHANGED <<data, heard, legacy>>
     ELSE BeginAttempt(spellOf[Top.id], playerOf[Top.id], Tail(todo))
------------------------------------------------------------------------------
(* SignalEventParam.  ARMED and BUFFERED are announced only if the           *)
(* generation is still the current one.                                      *)
AlwaysCurrent(step) == TRUE    (* mutant: announced without a check *)
StillCurrent(step) ==
  /\ step.event = "ARMED" => armed = step.id
  /\ step.event = "BUFFERED" => buffered = step.id

Signal ==
  /\ At("Tell")
  /\ IF StillCurrent(Top)
     THEN /\ heard' = [heard EXCEPT ![Top.id] = Append(@, Top.event)]
          /\ todo' = Tail(todo) /\ inLua' = TRUE
     ELSE Goto(Tail(todo)) /\ UNCHANGED heard
  /\ UNCHANGED <<armed, buffered, data, legacy>>

LegacyAlways(kind) ==          (* mutant: the legacy event is unconditional *)
  /\ At(kind)
  /\ legacy' = (kind = "LegacyPush")
  /\ todo' = Tail(todo) /\ inLua' = TRUE
  /\ UNCHANGED <<armed, buffered, data, heard>>

(* TriggerLegacyOnSwingBufferPopIfNoReplacement, and the ON_SWING_QUEUED at   *)
(* the end of BufferOnSwingState.                                            *)
SignalLegacy(kind) ==
  /\ At(kind)
  /\ IF (IF kind = "LegacyPop" THEN buffered = 0 ELSE buffered = Top.id)
     THEN /\ legacy' = (kind = "LegacyPush")
          /\ todo' = Tail(todo) /\ inLua' = TRUE
     ELSE Goto(Tail(todo)) /\ UNCHANGED legacy
  /\ UNCHANGED <<armed, buffered, data, heard>>

SignalOther ==
  /\ At("OtherEvent")
  /\ todo' = Tail(todo) /\ inLua' = TRUE
  /\ UNCHANGED <<armed, buffered, data, heard, legacy>>

(* The active player's object is replaced without a UI load.                 *)
PlayerChanges ==
  /\ todo = <<>>
  /\ player' \in {p \in Players : p > player}
  /\ UNCHANGED <<armed, buffered, todo, inLua, nextId, spellOf, playerOf, inFlight,
                 muddled, heard, legacy>>

(* ResetPlayerContextState on a UI load: a new Lua world that heard nothing, *)
(* and a history without the attempts whose answers are still under way.     *)
ResetPlayerContextState ==
  /\ todo = <<>> /\ nextId > 1
  /\ armed' = 0 /\ buffered' = 0
  /\ heard' = [a \in Attempts |-> <<>>]
  /\ legacy' = FALSE
  /\ muddled' = {spellOf[a] : a \in inFlight}
  /\ UNCHANGED <<todo, inLua, nextId, spellOf, playerOf, player, inFlight>>

Next ==
  \/ \E s \in Spells : Cast(s)
  \/ \E r \in BOOLEAN : Returns(r)
  \/ \E a \in inFlight : ServerRejects(a) \/ SpellGo(a)
  \/ ClientFails \/ FailOnSwingState
  \/ StopCasting \/ CancelOnSwingState
  \/ ReplayBuffer
  \/ Signal \/ SignalOther \/ \E k \in {"LegacyPop", "LegacyPush"} : SignalLegacy(k)
  \/ PlayerChanges \/ ResetPlayerContextState

Spec == Init /\ [][Next]_vars
------------------------------------------------------------------------------
(* The variables have their types; every id is of an attempt that was made,  *)
(* and the snapshot of a Return step holds attempts older than its own.      *)
Ids    == 0..(nextId - 1)
Made   == 1..(nextId - 1)
Events == {"ARMED", "BUFFERED"} \union ArmedEnd \union BufferEnd
Step ==
  [do : {"Tell"}, event : Events, id : Made]
    \union [do : {"LegacyPop", "OtherEvent"}]
    \union [do : {"LegacyPush", "Replay"}, id : Made]
    \union [do : {"Fail"}, spell : Spells, id : Ids]
    \union [do : {"Clear"}, at : Made \union {nextId}]
    \union {r \in [do : {"Return"}, id : Made, armed : Ids, buffered : Ids,
                   failed : BOOLEAN] : r.armed < r.id /\ r.buffered < r.id}

TypeOK ==
  /\ nextId \in 1..(MaxAttempts + 1)
  /\ armed \in Ids /\ buffered \in Ids
  /\ todo \in Seq(Step)
  /\ inLua \in BOOLEAN /\ legacy \in BOOLEAN
  /\ spellOf \in [Attempts -> Spells \union {NoSpell}]
  /\ \A a \in Made : spellOf[a] \in Spells
  /\ playerOf \in [Attempts -> Players \union {0}]
  /\ player \in Players
  /\ inFlight \subseteq Made /\ muddled \subseteq Spells
  /\ heard \in [Attempts -> Seq(Events)]

(* A buffer exists only behind an armed generation, and is the newer of the  *)
(* two: no frame attaches an old request behind a newer one                  *)
(* (spellcast.cpp:871-893).                                                  *)
BufferBehindOlder == buffered # 0 => armed # 0 /\ armed < buffered

(* Both, which is what every action preserves (spellcast.cpp:863-893).       *)
OwnershipInv == TypeOK /\ BufferBehindOlder

(* EVENTS.md:113-123, with handlers that cast and stop at every event: a     *)
(* generation is announced at most once and ends at most once, never in the  *)
(* other order; only a popped buffer may still be cancelled.                 *)
Stories ==
  {<<>>, <<"ARMED">>, <<"BUFFERED">>}
    \union {<<e>> : e \in ArmedEnd \union BufferEnd}
    \union {<<"ARMED", e>> : e \in ArmedEnd}
    \union {<<"BUFFERED", e>> : e \in BufferEnd}
    \union {<<"BUFFER_POPPED", "BUFFER_CANCELLED">>,
            <<"BUFFERED", "BUFFER_POPPED", "BUFFER_CANCELLED">>}
OneEnding == \A a \in Attempts : heard[a] \in Stories

(* Once every handler has returned, what Lua heard is the state: the         *)
(* generations announced and not ended are exactly the armed and the         *)
(* buffered one, and the legacy queue events agree (EVENTS.md:136-140).      *)
Announced(e) == {a \in Attempts : heard[a] = <<e>>}
HeardIsState ==
  todo = <<>> =>
    /\ Announced("ARMED") = {armed} \ {0}
    /\ Announced("BUFFERED") = {buffered} \ {0}
    /\ legacy = (buffered # 0)

(* An older frame never displaces what a newer one owns: the armed and the   *)
(* buffered generation are only ever replaced by newer ones.                 *)
NewerWins ==
  [][/\ armed # 0 /\ armed' # 0 => armed <= armed'
     /\ buffered # 0 /\ buffered' # 0 => buffered <= buffered']_vars

(* A generation that a server rejection ends is the one the server rejected, *)
(* although handlers of SPELL_CAST_RESULT_SELF may have replaced it between  *)
(* the packet and the failure; an uncorrelated failure ends none.  Not so    *)
(* for a spell whose answers were under way when the UI was loaded: the      *)
(* history of main.cpp:449 forgot their attempts, so a late one is taken for *)
(* the newer attempt that waits (spellevents.cpp:624-628).                   *)
FailedIsRejected ==
  \A a \in Attempts :
    spellOf[a] \notin muddled =>
      \A i \in DOMAIN heard[a] : heard[a][i] = "FAILED" => a \notin inFlight

(* spellcast.cpp:580-588: the raw casterUnit pointer kept in a buffer is not  *)
(* handed to the client after the player's object was replaced.              *)
CasterIsPlayer ==
  [][\A a \in Attempts : a = nextId /\ nextId' > nextId => playerOf'[a] = player]_vars

(* spell_scripts.cpp:328-330: "Nothing in this older stop frame may cancel   *)
(* or reset callback-created state."                                         *)
StopKeepsNewer == [][CancelOnSwingState => armed < Top.at /\ buffered < Top.at]_vars
==============================================================================

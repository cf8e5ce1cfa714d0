---------------------------- MODULE CastDequeSpec ----------------------------
(***************************************************************************)
(* The promise of class CastQueue as a state machine on a sequence.         *)
(***************************************************************************)
EXTENDS CastDeque

CONSTANTS MaxSize, SpellIds, NonGcd, Category, MaxCastId
VARIABLES items, tombstones, nextId

dequeVars == <<items, tombstones, nextId>>

New(s) == [castId |-> nextId, spellId |-> s,
           castResult |-> "WAITING_FOR_CAST", ambiguous |-> FALSE]

Init == items = <<>> /\ tombstones = {} /\ nextId = 1

Clear == items' = <<>> /\ tombstones' = {} /\ UNCHANGED nextId

(* An entry added at the front pushes out the oldest one of a full deque;   *)
(* what it leaves behind is a tombstone if it was still unanswered.         *)
PushFront(s) ==
  /\ nextId <= MaxCastId
  /\ nextId' = nextId + 1
  /\ items' = PushedFront(items, New(s), MaxSize)
  /\ tombstones' = EvictionTombstones(items, tombstones, MaxSize)

Push(s) ==
  /\ nextId <= MaxCastId
  /\ nextId' = nextId + 1
  /\ items' = Pushed(items, New(s), MaxSize)
  /\ UNCHANGED tombstones

(* A replacement takes the place of the first entry of its category.        *)
Replace(s) ==
  LET same == {i \in DOMAIN items : Category[items[i].spellId] = Category[s]}
  IN /\ nextId <= MaxCastId
     /\ s \in NonGcd /\ Category[s] # 0 /\ same # {}
     /\ nextId' = nextId + 1
     /\ items' = [items EXCEPT ![FirstOf(same)] = New(s)]
     /\ UNCHANGED tombstones

Pop == items # <<>> /\ items' = Tail(items) /\ UNCHANGED <<tombstones, nextId>>

Remove(s) ==
  /\ FindSpellId(items, s) # 0
  /\ items' = RemovedAt(items, FindSpellId(items, s))
  /\ UNCHANGED <<tombstones, nextId>>

Update(i, r) == items' = SetResult(items, i, r) /\ UNCHANGED <<tombstones, nextId>>

Mark(s) ==
  /\ items' = MarkAmbiguous(items, tombstones, s)
  /\ UNCHANGED <<tombstones, nextId>>

Next ==
  \/ Clear
  \/ \E s \in SpellIds : PushFront(s) \/ Push(s) \/ Replace(s) \/ Remove(s) \/ Mark(s)
  \/ Pop
  \/ \E i \in DOMAIN items, r \in CastResults : Update(i, r)

Spec == Init /\ [][Next]_dequeVars
==============================================================================

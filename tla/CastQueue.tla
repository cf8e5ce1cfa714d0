------------------------------ MODULE CastQueue ------------------------------
(***************************************************************************)
(* The ring buffer of castqueue.h.  One action per member function that     *)
(* changes the object; the searches are in CastDeque.  gCastHistory uses    *)
(* the pushFront half (newest first), gNonGcdCastQueue the push/pop half;   *)
(* the class is checked for every order of its operations.                  *)
(***************************************************************************)
EXTENDS CastDeque

CONSTANTS
  MaxSize,    (* constructor argument: 30 for the history, 6 for the queue *)
  SpellIds,   (* spell identifiers, without 0 *)
  NonGcd,     (* the spells whose entries have castType NON_GCD *)
  Category,   (* [SpellIds -> Nat], StartRecoveryCategory; 0 is none *)
  Replacement,(* the values gUserSettings.replaceMatchingNonGcdCategory takes *)
  MaxCastId   (* bound on the identifiers handed out in a run *)

ASSUME MaxSizeAssumption == MaxSize \in Nat \ {0}
ASSUME SpellAssumption ==
  /\ SpellIds \subseteq Nat \ {0}
  /\ NonGcd \subseteq SpellIds
  /\ Category \in [SpellIds -> Nat]
  /\ Replacement \subseteq BOOLEAN
ASSUME MaxCastIdAssumption == MaxCastId \in Nat

VARIABLES
  queue,       (* std::vector<CastSpellParams>, maxSize slots *)
  front, rear, size,
  tombstones,  (* unresolvedEvictionSpellIds *)
  nextId       (* identifier of the next entry pushed *)

vars == <<queue, front, rear, size, tombstones, nextId>>

Entry == [castId : Nat, spellId : SpellIds \union {0},
          castResult : CastResults, ambiguous : BOOLEAN]
EmptyParams == [castId |-> 0, spellId |-> 0,
                castResult |-> "WAITING_FOR_CAST", ambiguous |-> FALSE]
NewEntry(s) == [castId |-> nextId, spellId |-> s,
                castResult |-> "WAITING_FOR_CAST", ambiguous |-> FALSE]

Slots    == 0..(MaxSize - 1)
Slot(i)  == (front + i) % MaxSize
Items    == [i \in 1..size |-> queue[Slot(i - 1)]]
IsFull   == size = MaxSize
IsEmpty  == size = 0

(* findGcdCategory looks at every entry, whatever its castType. *)
FindGcdCategory(s) ==
  FirstOf({i \in 1..size : Category[Items[i].spellId] = Category[s]})

Init ==
  /\ queue = [k \in Slots |-> EmptyParams]
  /\ front = 0 /\ rear = -1 /\ size = 0
  /\ tombstones = {}
  /\ nextId = 1

Clear ==
  /\ front' = 0 /\ rear' = -1 /\ size' = 0
  /\ tombstones' = {}
  /\ UNCHANGED <<queue, nextId>>

LeavesRear(s) ==            (* mutant: rear is not set in an empty ring *)
  /\ nextId <= MaxCastId /\ ~IsFull
  /\ nextId' = nextId + 1
  /\ front' = (front - 1 + MaxSize) % MaxSize
  /\ queue' = [queue EXCEPT ![front'] = NewEntry(s)]
  /\ size' = size + 1
  /\ UNCHANGED <<rear, tombstones>>

PushFront(s) ==
  /\ nextId <= MaxCastId
  /\ nextId' = nextId + 1
  /\ IF IsFull
     THEN /\ LET evicted == queue[Slot(size - 1)]
             IN tombstones' = IF IsWaiting(evicted)
                              THEN tombstones \union {evicted.spellId}
                              ELSE tombstones
          /\ queue' = [k \in Slots |-> IF k = front THEN NewEntry(s)
                                       ELSE queue[(k - 1 + MaxSize) % MaxSize]]
          /\ UNCHANGED <<front, rear, size>>
     ELSE /\ front' = (front - 1 + MaxSize) % MaxSize
          /\ queue' = [queue EXCEPT ![front'] = NewEntry(s)]
          /\ rear' = IF IsEmpty THEN front' ELSE rear
          /\ size' = size + 1
          /\ UNCHANGED tombstones

Push(s, replaceMatchingNonGcdCategory) ==
  LET match == IF replaceMatchingNonGcdCategory /\ s \in NonGcd /\ Category[s] # 0
               THEN FindGcdCategory(s) ELSE 0
  IN /\ nextId <= MaxCastId
     /\ nextId' = nextId + 1
     /\ IF match # 0
        THEN /\ queue' = [queue EXCEPT ![Slot(match - 1)] = NewEntry(s)]
             /\ UNCHANGED <<front, rear, size>>
        ELSE /\ IF IsFull
                THEN front' = (front + 1) % MaxSize /\ UNCHANGED size
                ELSE size' = size + 1 /\ UNCHANGED front
             /\ rear' = (rear + 1) % MaxSize
             /\ queue' = [queue EXCEPT ![rear'] = NewEntry(s)]
     /\ UNCHANGED tombstones

Pop ==
  /\ ~IsEmpty
  /\ front' = (front + 1) % MaxSize
  /\ size' = size - 1
  /\ UNCHANGED <<queue, rear, tombstones, nextId>>

ShiftsOneLess(s) ==         (* mutant: the last entry is not moved up *)
  LET i == FindSpellId(Items, s)
  IN /\ i # 0
     /\ queue' = [k \in Slots |->
                    IF \E j \in (i - 1)..(size - 3) : k = Slot(j)
                    THEN queue[(k + 1) % MaxSize] ELSE queue[k]]
     /\ rear' = (rear - 1 + MaxSize) % MaxSize
     /\ size' = size - 1
     /\ UNCHANGED <<front, tombstones, nextId>>

RemoveSpellId(s) ==
  LET i == FindSpellId(Items, s)
  IN /\ i # 0
     /\ queue' = [k \in Slots |->
                    IF \E j \in (i - 1)..(size - 2) : k = Slot(j)
                    THEN queue[(k + 1) % MaxSize] ELSE queue[k]]
     /\ rear' = (rear - 1 + MaxSize) % MaxSize
     /\ size' = size - 1
     /\ UNCHANGED <<front, tombstones, nextId>>

(* The owner writes castResult through a pointer a search returned. *)
Update(i, r) ==
  /\ queue' = [queue EXCEPT ![Slot(i - 1)].castResult = r]
  /\ UNCHANGED <<front, rear, size, tombstones, nextId>>

(* findUniqueWaitingForServerSpellId counts the matches, and marks them all *)
(* when there are several.                                                  *)
FindUniqueWaitingForServerSpellId(s) ==
  LET matches == {k \in Slots : /\ \E j \in 0..(size - 1) : k = Slot(j)
                                /\ queue[k].spellId = s /\ IsWaiting(queue[k])}
  IN /\ s \notin tombstones
     /\ \E k, l \in matches : k # l
     /\ queue' = [k \in Slots |-> IF k \in matches
                                  THEN [queue[k] EXCEPT !.ambiguous = TRUE]
                                  ELSE queue[k]]
     /\ UNCHANGED <<front, rear, size, tombstones, nextId>>

HistoryNext ==
  \/ \E s \in SpellIds : PushFront(s)
  \/ \E i \in 1..size, r \in CastResults \ {"WAITING_FOR_CAST"} : Update(i, r)
  \/ \E s \in SpellIds : FindUniqueWaitingForServerSpellId(s)
  \/ Clear

QueueNext ==
  \/ \E s \in SpellIds, r \in Replacement : Push(s, r)
  \/ Pop
  \/ Clear

Next == HistoryNext \/ QueueNext \/ \E s \in SpellIds : RemoveSpellId(s)

Spec == Init /\ [][Next]_vars
------------------------------------------------------------------------------
(* The fields of the class have their types, and the two indices stay on    *)
(* the ring (rear is -1 only in an object that was just made or cleared).   *)
TypeOK ==
  /\ queue \in [Slots -> Entry]
  /\ front \in Slots
  /\ rear \in Slots \union {-1}
  /\ size \in 0..MaxSize
  /\ tombstones \subseteq SpellIds \union {0}
  /\ nextId \in 1..(MaxCastId + 1)

(* rear is the slot of the last of the size entries that begin at front,    *)
(* whatever mix of operations moved them (castqueue.h keeps three indices   *)
(* where two would do; pop and pushFront on a full ring leave rear alone).  *)
RearAligned ==
  /\ (rear + 1) % MaxSize = (front + size) % MaxSize
  /\ rear = -1 => size = 0

(* Both, which is what every operation preserves (castqueue.h:11-16).       *)
RingInv == TypeOK /\ RearAligned

(* The ring implements the sequence: every operation does to the list of    *)
(* entries what CastDeque says, wrapped indices and all.                    *)
Deque == INSTANCE CastDequeSpec WITH items <- Items
ImplementsDeque == Deque!Spec
==============================================================================

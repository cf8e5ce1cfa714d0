--------------------------- MODULE CastQueue_proofs ---------------------------
(***************************************************************************)
(* The ring of castqueue.h for every capacity, every set of spells and every *)
(* order of its operations.                                                  *)
(***************************************************************************)
EXTENDS CastQueue, CastDeque_proofs

(* How the two index expressions of the source wrap.                         *)
LEMMA StepOfIndex ==
  ASSUME NEW M \in Nat \ {0}, NEW f \in 0..(M - 1)
  PROVE  /\ (f + 1) % M = IF f + 1 = M THEN 0 ELSE f + 1
         /\ (f - 1 + M) % M = IF f = 0 THEN M - 1 ELSE f - 1
<1>1. CASE f = 0
  BY <1>1
<1>2. CASE f > 0 /\ f + 1 < M
  BY <1>2
<1>3. CASE f > 0 /\ f + 1 = M
  BY <1>3
<1> QED
  BY <1>1, <1>2, <1>3

LEMMA SumOfIndex ==
  ASSUME NEW M \in Nat \ {0}, NEW f \in 0..(M - 1), NEW n \in 0..M
  PROVE  (f + n) % M = IF f + n < M THEN f + n ELSE f + n - M
<1>1. CASE f + n < M
  BY <1>1
<1>2. CASE f + n >= M
  BY <1>2
<1> QED
  BY <1>1, <1>2

(* The alignment of the two ends without the modulus.                        *)
LEMMA AlignedDifference ==
  ASSUME NEW M \in Nat \ {0}, NEW f \in 0..(M - 1), NEW n \in 0..M,
         NEW r \in (0..(M - 1)) \union {-1}
  PROVE  (r + 1) % M = (f + n) % M <=> f + n - (r + 1) \in {-M, 0, M}
<1>1. (f + n) % M = IF f + n < M THEN f + n ELSE f + n - M
  BY SumOfIndex
<1>2. (r + 1) % M = IF r + 1 < M THEN r + 1 ELSE 0
  <2>1. CASE r = -1
    BY <2>1
  <2>2. CASE r \in 0..(M - 2)
    BY <2>2
  <2>3. CASE r = M - 1
    BY <2>3
  <2> QED
    BY <2>1, <2>2, <2>3
<1> QED
  BY <1>1, <1>2

LEMMA SlotsOnRing ==
  ASSUME NEW x \in Int
  PROVE  x % MaxSize \in Slots
  BY MaxSizeAssumption DEF Slots

(* A search that finds something looked at a queue with something in it.     *)
LEMMA FoundIsNonempty ==
  ASSUME NEW s, size \in Nat, FindSpellId(Items, s) # 0
  PROVE  size > 0
<1> SUFFICES ASSUME size = 0 PROVE FALSE
  OBVIOUS
<1>1. Items = [i \in {} |-> queue[Slot(i - 1)]]
  BY DEF Items
<1>2. Len(Items) = 0
  BY <1>1
<1>3. WithSpellId(Items, s) = {}
  BY <1>2 DEF WithSpellId
<1> QED
  BY <1>3 DEF FindSpellId, FirstOf

LEMMA NewEntryType ==
  ASSUME TypeOK, NEW s \in SpellIds
  PROVE  NewEntry(s) \in Entry
<1>1. nextId \in Nat
  BY MaxCastIdAssumption DEF TypeOK
<1> QED
  BY <1>1 DEF NewEntry, Entry, CastResults

LEMMA InitRing == Init => RingInv
<1> SUFFICES ASSUME Init PROVE RingInv
  OBVIOUS
<1>1. TypeOK
  BY MaxSizeAssumption, MaxCastIdAssumption
  DEF Init, TypeOK, Slots, Entry, EmptyParams, CastResults
<1>2. RearAligned
  BY MaxSizeAssumption DEF Init, RearAligned
<1> QED
  BY <1>1, <1>2 DEF RingInv

(* Alignment before and after a step, as a difference of integers.           *)
LEMMA AlignedInt ==
  ASSUME TypeOK
  PROVE  RearAligned <=> /\ front + size - (rear + 1) \in {-MaxSize, 0, MaxSize}
                         /\ rear = -1 => size = 0
  BY AlignedDifference, MaxSizeAssumption DEF TypeOK, RearAligned, Slots

LEMMA AlignedIntNext ==
  ASSUME TypeOK'
  PROVE  RearAligned' <=> /\ front' + size' - (rear' + 1) \in {-MaxSize, 0, MaxSize}
                          /\ rear' = -1 => size' = 0
<1>1. /\ front' \in 0..(MaxSize - 1) /\ size' \in 0..MaxSize
      /\ rear' \in (0..(MaxSize - 1)) \union {-1}
  BY DEF TypeOK, Slots
<1>2. (rear' + 1) % MaxSize = (front' + size') % MaxSize
        <=> front' + size' - (rear' + 1) \in {-MaxSize, 0, MaxSize}
  BY <1>1, AlignedDifference, MaxSizeAssumption
<1> QED
  BY <1>2 DEF RearAligned

LEMMA PushFrontRing ==
  ASSUME RingInv, NEW s \in SpellIds, PushFront(s)
  PROVE  RingInv'
<1> USE MaxSizeAssumption, MaxCastIdAssumption
<1>1. NewEntry(s) \in Entry /\ nextId' \in 1..(MaxCastId + 1)
  BY NewEntryType DEF RingInv, TypeOK, PushFront
<1>2. CASE IsFull
  <2>1. \A k \in Slots : (k - 1 + MaxSize) % MaxSize \in Slots
    BY SlotsOnRing DEF Slots
  <2>2. queue' \in [Slots -> Entry]
    BY <1>1, <1>2, <2>1 DEF RingInv, TypeOK, PushFront
  <2>3. queue[Slot(size - 1)] \in Entry /\ tombstones' \subseteq SpellIds \union {0}
    <3>1. Slot(size - 1) \in Slots
      <4>1. front + (size - 1) \in Int
        BY DEF RingInv, TypeOK, Slots
      <4> QED
        BY <4>1, SlotsOnRing DEF Slot
    <3>2. queue[Slot(size - 1)] \in Entry
      BY <3>1 DEF RingInv, TypeOK
    <3>3. queue[Slot(size - 1)].spellId \in SpellIds \union {0}
      BY <3>2 DEF Entry
    <3> QED
      BY <1>2, <3>2, <3>3 DEF RingInv, TypeOK, PushFront
  <2> QED
    BY <1>1, <1>2, <2>2, <2>3 DEF RingInv, TypeOK, PushFront, RearAligned
<1>3. CASE ~IsFull
  <2>1. front' = IF front = 0 THEN MaxSize - 1 ELSE front - 1
    BY <1>3, StepOfIndex DEF RingInv, TypeOK, PushFront, Slots
  <2>2. front' \in Slots /\ rear' \in Slots \union {-1} /\ size' \in 0..MaxSize
    BY <1>3, <2>1 DEF RingInv, TypeOK, PushFront, Slots, IsFull
  <2>3. TypeOK'
    BY <1>1, <1>3, <2>2 DEF RingInv, TypeOK, PushFront
  <2>4. /\ front' + size' - (rear' + 1) \in {-MaxSize, 0, MaxSize}
        /\ rear' # -1
    <3>1. CASE size = 0
      <4>1. rear' = front' /\ size' = 1
        BY <1>3, <3>1 DEF PushFront, IsEmpty
      <4>2. front' \in 0..(MaxSize - 1)
        BY <2>2 DEF Slots
      <4>3. front' \in Int /\ front' >= 0
        BY <4>2
      <4>4. front' # -1
        BY <4>3
      <4>5. \A x \in Int : x + 1 - (x + 1) = 0
        OBVIOUS
      <4>6. front' + 1 - (front' + 1) = 0
        BY <4>3, <4>5
      <4> QED
        BY <4>1, <4>4, <4>6
    <3>2. CASE size # 0
      <4>1. /\ front + size - (rear + 1) \in {-MaxSize, 0, MaxSize}
            /\ rear # -1
        BY <3>2, AlignedInt DEF RingInv
      <4>2. rear' = rear /\ size' = size + 1
        BY <1>3, <3>2 DEF PushFront, IsEmpty
      <4> QED
        BY <1>3, <2>1, <2>2, <3>2, <4>1, <4>2 DEF RingInv, TypeOK, Slots, IsFull
    <3> QED
      BY <3>1, <3>2
  <2> QED
    BY <2>3, <2>4, AlignedIntNext DEF RingInv
<1> QED
  BY <1>2, <1>3

LEMMA PushRing ==
  ASSUME RingInv, NEW s \in SpellIds, NEW r \in BOOLEAN, Push(s, r)
  PROVE  RingInv'
<1> USE MaxSizeAssumption, MaxCastIdAssumption
<1> DEFINE match == IF r /\ s \in NonGcd /\ Category[s] # 0
                    THEN FindGcdCategory(s) ELSE 0
<1>1. /\ NewEntry(s) \in Entry
      /\ nextId' \in 1..(MaxCastId + 1)
      /\ tombstones' = tombstones
  BY NewEntryType DEF RingInv, TypeOK, Push
<1>2. CASE match # 0
  <2>1. /\ queue' = [queue EXCEPT ![Slot(match - 1)] = NewEntry(s)]
        /\ UNCHANGED <<front, rear, size>>
    BY <1>2 DEF Push
  <2> QED
    BY <1>1, <2>1 DEF RingInv, TypeOK, RearAligned
<1>3. CASE match = 0
  <2>1. /\ IF IsFull THEN front' = (front + 1) % MaxSize /\ size' = size
                     ELSE size' = size + 1 /\ front' = front
        /\ rear' = (rear + 1) % MaxSize
        /\ queue' = [queue EXCEPT ![rear'] = NewEntry(s)]
    BY <1>3 DEF Push
  <2>2. (front + 1) % MaxSize = IF front + 1 = MaxSize THEN 0 ELSE front + 1
    BY StepOfIndex DEF RingInv, TypeOK, Slots
  <2>3. rear' = IF rear + 1 = MaxSize THEN 0 ELSE rear + 1
    <3>1. CASE rear = -1
      BY <2>1, <3>1
    <3>2. CASE rear \in Slots
      BY <2>1, <3>2, StepOfIndex DEF Slots
    <3> QED
      BY <3>1, <3>2 DEF RingInv, TypeOK
  <2>4. front' \in Slots /\ rear' \in Slots /\ size' \in 0..MaxSize
    BY <2>1, <2>2, <2>3 DEF RingInv, TypeOK, Slots, IsFull
  <2>5. TypeOK'
    BY <1>1, <2>1, <2>4 DEF RingInv, TypeOK
  <2>6. /\ front + size - (rear + 1) \in {-MaxSize, 0, MaxSize}
        /\ front \in 0..(MaxSize - 1) /\ size \in 0..MaxSize
        /\ rear \in -1..(MaxSize - 1)
    BY AlignedInt DEF RingInv, TypeOK, Slots
  <2>7. front' + size' - (rear' + 1) \in {-MaxSize, 0, MaxSize}
    <3>1. CASE IsFull
      <4>1. /\ front' = IF front + 1 = MaxSize THEN 0 ELSE front + 1
            /\ size' = MaxSize /\ size = MaxSize
        BY <2>1, <2>2, <3>1 DEF IsFull
      <4> QED
        BY <2>3, <2>6, <4>1
    <3>2. CASE ~IsFull
      <4>1. front' = front /\ size' = size + 1 /\ size < MaxSize
        BY <2>1, <2>6, <3>2 DEF IsFull
      <4> QED
        BY <2>3, <2>6, <4>1
    <3> QED
      BY <3>1, <3>2
  <2>8. rear' # -1
    BY <2>4, MaxSizeAssumption DEF Slots
  <2> QED
    BY <2>5, <2>7, <2>8, AlignedIntNext DEF RingInv
<1> QED
  BY <1>2, <1>3

LEMMA PopRing ==
  ASSUME RingInv, Pop
  PROVE  RingInv'
<1> USE MaxSizeAssumption
<1>1. front' = IF front + 1 = MaxSize THEN 0 ELSE front + 1
  BY StepOfIndex DEF RingInv, TypeOK, Slots, Pop
<1>2. TypeOK'
  BY <1>1 DEF RingInv, TypeOK, Slots, Pop, IsEmpty
<1>3. /\ front + size - (rear + 1) \in {-MaxSize, 0, MaxSize}
      /\ rear = -1 => size = 0
  BY AlignedInt DEF RingInv
<1>4. /\ front' + size' - (rear' + 1) \in {-MaxSize, 0, MaxSize}
      /\ rear' # -1
  BY <1>1, <1>3 DEF RingInv, TypeOK, Slots, Pop, IsEmpty
<1> QED
  BY <1>2, <1>4, AlignedIntNext DEF RingInv

LEMMA RemoveRing ==
  ASSUME RingInv, NEW s \in SpellIds, RemoveSpellId(s)
  PROVE  RingInv'
<1> USE MaxSizeAssumption
<1>1. size > 0 /\ size' = size - 1 /\ front' = front
  BY FoundIsNonempty DEF RingInv, TypeOK, RemoveSpellId
<1>2. front + size - (rear + 1) \in {-MaxSize, 0, MaxSize} /\ rear \in Slots
  BY <1>1, AlignedInt DEF RingInv, TypeOK
<1>3. rear' = IF rear = 0 THEN MaxSize - 1 ELSE rear - 1
  BY <1>2, StepOfIndex DEF RemoveSpellId, Slots
<1>4. \A k \in Slots : (k + 1) % MaxSize \in Slots
  BY SlotsOnRing DEF Slots
<1>5. queue' \in [Slots -> Entry]
  BY <1>4 DEF RingInv, TypeOK, RemoveSpellId
<1>6. TypeOK'
  BY <1>1, <1>2, <1>3, <1>5 DEF RingInv, TypeOK, RemoveSpellId, Slots
<1>7. /\ front' + size' - (rear' + 1) \in {-MaxSize, 0, MaxSize}
      /\ rear' # -1
  BY <1>1, <1>2, <1>3 DEF RingInv, TypeOK, Slots
<1> QED
  BY <1>6, <1>7, AlignedIntNext DEF RingInv

(* castqueue.h:11-16: under every operation of the class the fields keep     *)
(* their types and rear is the slot of the last entry, whatever the capacity.*)
THEOREM RingTheorem == Spec => []RingInv
<1>1. Init => RingInv
  BY InitRing
<1>2. RingInv /\ [Next]_vars => RingInv'
  <2> SUFFICES ASSUME RingInv, [Next]_vars PROVE RingInv'
    OBVIOUS
  <2> USE MaxSizeAssumption
  <2>1. CASE Clear
    <3>1. front' = 0 /\ rear' = -1 /\ size' = 0 /\ tombstones' = {}
          /\ UNCHANGED <<queue, nextId>>
      BY <2>1 DEF Clear
    <3>2. TypeOK'
      BY <3>1 DEF RingInv, TypeOK, Slots
    <3> QED
      BY <3>1, <3>2, AlignedIntNext DEF RingInv
  <2>2. ASSUME NEW s \in SpellIds, PushFront(s) PROVE RingInv'
    BY <2>2, PushFrontRing
  <2>3. ASSUME NEW s \in SpellIds, NEW r \in Replacement, Push(s, r) PROVE RingInv'
    BY <2>3, PushRing, SpellAssumption
  <2>4. CASE Pop
    BY <2>4, PopRing
  <2>5. ASSUME NEW s \in SpellIds, RemoveSpellId(s) PROVE RingInv'
    BY <2>5, RemoveRing
  <2>6. ASSUME NEW i \in 1..size, NEW r \in CastResults, Update(i, r) PROVE RingInv'
    <3>1. queue' \in [Slots -> Entry]
      BY <2>6 DEF RingInv, TypeOK, Update, Entry
    <3> QED
      BY <2>6, <3>1 DEF RingInv, TypeOK, RearAligned, Update
  <2>7. ASSUME NEW s \in SpellIds, FindUniqueWaitingForServerSpellId(s) PROVE RingInv'
    <3> DEFINE Marked(k) == [queue[k] EXCEPT !.ambiguous = TRUE]
    <3>1. ASSUME NEW k \in Slots PROVE Marked(k) \in Entry
      <4>1. queue[k] \in Entry
        BY DEF RingInv, TypeOK
      <4> QED
        BY <4>1 DEF Entry
    <3>2. queue' = queue \/ \E M : queue' = [k \in Slots |-> IF k \in M THEN Marked(k) ELSE queue[k]]
      BY <2>7 DEF FindUniqueWaitingForServerSpellId
    <3> HIDE DEF Marked
    <3>3. queue' \in [Slots -> Entry]
      BY <3>1, <3>2 DEF RingInv, TypeOK
    <3> QED
      BY <2>7, <3>3
      DEF RingInv, TypeOK, RearAligned, FindUniqueWaitingForServerSpellId
  <2>8. CASE UNCHANGED vars
    BY <2>8 DEF RingInv, TypeOK, RearAligned, vars
  <2> QED
    BY <2>1, <2>2, <2>3, <2>4, <2>5, <2>6, <2>7, <2>8
    DEF Next, HistoryNext, QueueNext
<1> QED
  BY <1>1, <1>2, PTL DEF Spec
------------------------------------------------------------------------------
(* The list the ring stands for, and how its slots follow one another.       *)
LEMMA ItemsList ==
  ASSUME RingInv
  PROVE  /\ Items \in Seq(Entry) /\ Len(Items) = size /\ DOMAIN Items = 1..size
         /\ \A i \in 1..size : Items[i] = queue[Slot(i - 1)]
<1>1. size \in Nat /\ size <= MaxSize /\ queue \in [Slots -> Entry] /\ front \in Int
  BY MaxSizeAssumption DEF RingInv, TypeOK, Slots
<1>2. \A i \in 1..size : queue[Slot(i - 1)] \in Entry
  <2> SUFFICES ASSUME NEW i \in 1..size PROVE Slot(i - 1) \in Slots
    BY <1>1
  <2>1. front + (i - 1) \in Int
    BY <1>1
  <2> QED
    BY <2>1, SlotsOnRing DEF Slot
<1>3. Items \in [1..size -> Entry]
  BY <1>2 DEF Items
<1> QED
  BY <1>1, <1>3, RewrittenShape DEF Items

LEMMA SlotValue ==
  ASSUME RingInv, NEW i \in 0..MaxSize
  PROVE  /\ Slot(i) = IF front + i < MaxSize THEN front + i ELSE front + i - MaxSize
         /\ Slot(i) \in Slots /\ front \in 0..(MaxSize - 1) /\ size \in 0..MaxSize
         /\ MaxSize \in Nat \ {0}
<1>1. front \in 0..(MaxSize - 1) /\ MaxSize \in Nat \ {0} /\ size \in 0..MaxSize
  BY MaxSizeAssumption DEF RingInv, TypeOK, Slots
<1>2. (front + i) % MaxSize = IF front + i < MaxSize THEN front + i ELSE front + i - MaxSize
  BY <1>1, SumOfIndex
<1> QED
  BY <1>1, <1>2 DEF Slot, Slots

LEMMA SlotsDiffer ==
  ASSUME RingInv, NEW i \in 0..(MaxSize - 1), NEW j \in 0..(MaxSize - 1)
  PROVE  Slot(i) = Slot(j) <=> i = j
<1>1. i \in 0..MaxSize /\ j \in 0..MaxSize
  BY MaxSizeAssumption
<1> QED
  BY <1>1, SlotValue

(* Slots one step ahead, and one step back.                                  *)
LEMMA NextSlot ==
  ASSUME RingInv, NEW i \in 0..(MaxSize - 1)
  PROVE  (Slot(i) + 1) % MaxSize = Slot(i + 1)
<1>1. i \in 0..MaxSize /\ i + 1 \in 0..MaxSize
  BY MaxSizeAssumption
<1>2. (Slot(i) + 1) % MaxSize = IF Slot(i) + 1 = MaxSize THEN 0 ELSE Slot(i) + 1
  BY <1>1, SlotValue, StepOfIndex DEF Slots
<1> QED
  BY <1>1, <1>2, SlotValue

LEMMA LastSlot ==
  ASSUME RingInv, NEW i \in 1..(MaxSize - 1)
  PROVE  (Slot(i) - 1 + MaxSize) % MaxSize = Slot(i - 1)
<1>1. i \in 0..MaxSize /\ i - 1 \in 0..MaxSize
  BY MaxSizeAssumption
<1>2. (Slot(i) - 1 + MaxSize) % MaxSize = IF Slot(i) = 0 THEN MaxSize - 1 ELSE Slot(i) - 1
  BY <1>1, SlotValue, StepOfIndex DEF Slots
<1> QED
  BY <1>1, <1>2, SlotValue

(* Two lists of entries are the same when they agree everywhere.             *)
LEMMA SameList ==
  ASSUME RingInv', NEW q \in Seq(Entry), Len(q) = size',
         \A i \in 1..size' : queue'[(front' + (i - 1)) % MaxSize] = q[i]
  PROVE  Items' = q
<1>1. Items' = [i \in 1..size' |-> queue'[(front' + (i - 1)) % MaxSize]]
  BY DEF Items, Slot
<1>2. q = [i \in 1..size' |-> q[i]]
  OBVIOUS
<1> QED
  BY <1>1, <1>2

(* The operators of the specification are those of CastDeque.                *)
LEMMA SameOperators ==
  /\ \A items, p, max : Deque!PushedFront(items, p, max) = PushedFront(items, p, max)
  /\ \A items, t, max : Deque!EvictionTombstones(items, t, max) = EvictionTombstones(items, t, max)
  /\ \A items, p, max : Deque!Pushed(items, p, max) = Pushed(items, p, max)
  /\ \A items, i : Deque!RemovedAt(items, i) = RemovedAt(items, i)
  /\ \A items, s : Deque!FindSpellId(items, s) = FindSpellId(items, s)
  /\ \A items, i, r : Deque!SetResult(items, i, r) = SetResult(items, i, r)
  /\ \A items, t, s : Deque!MarkAmbiguous(items, t, s) = MarkAmbiguous(items, t, s)
  /\ \A S : Deque!FirstOf(S) = FirstOf(S)
<1>1. \A items, p, max : Deque!PushedFront(items, p, max) = PushedFront(items, p, max)
  BY DEF Deque!PushedFront, PushedFront
<1>2. \A items, t, max : Deque!EvictionTombstones(items, t, max) = EvictionTombstones(items, t, max)
  BY DEF Deque!EvictionTombstones, EvictionTombstones, Deque!IsWaiting, IsWaiting
<1>3. \A items, p, max : Deque!Pushed(items, p, max) = Pushed(items, p, max)
  BY DEF Deque!Pushed, Pushed
<1>4. \A items, i : Deque!RemovedAt(items, i) = RemovedAt(items, i)
  BY DEF Deque!RemovedAt, RemovedAt
<1>5. \A S : Deque!FirstOf(S) = FirstOf(S)
  BY DEF Deque!FirstOf, FirstOf
<1>6. \A items, s : Deque!WithSpellId(items, s) = WithSpellId(items, s)
  BY DEF Deque!WithSpellId, WithSpellId
<1>7. \A items, s : Deque!FindSpellId(items, s) = FindSpellId(items, s)
  BY <1>5, <1>6 DEF Deque!FindSpellId, FindSpellId
<1>8. \A items, i, r : Deque!SetResult(items, i, r) = SetResult(items, i, r)
  BY DEF Deque!SetResult, SetResult
<1>9. \A items, s : Deque!Waiting(items, s) = Waiting(items, s)
  BY <1>6 DEF Deque!Waiting, Waiting, Deque!IsWaiting, IsWaiting
<1>10. \A items, t, s : Deque!MarkAmbiguous(items, t, s) = MarkAmbiguous(items, t, s)
  BY <1>9 DEF Deque!MarkAmbiguous, MarkAmbiguous
<1> QED
  BY <1>1, <1>2, <1>3, <1>4, <1>5, <1>7, <1>8, <1>10

LEMMA ItemsFit ==
  ASSUME RingInv
  PROVE  \E E, it, M : /\ E = Entry /\ it = Items /\ M = MaxSize
                       /\ M \in Nat \ {0} /\ it \in Seq(E) /\ Len(it) <= M /\ Len(it) = size
  BY ItemsList, MaxSizeAssumption DEF RingInv, TypeOK

LEMMA PushedFrontItems ==
  ASSUME RingInv, NEW p \in Entry
  PROVE  /\ PushedFront(Items, p, MaxSize) \in Seq(Entry)
         /\ Len(PushedFront(Items, p, MaxSize)) = IF size = MaxSize THEN MaxSize ELSE size + 1
         /\ PushedFront(Items, p, MaxSize)[1] = p
         /\ \A i \in 2..Len(PushedFront(Items, p, MaxSize)) :
              PushedFront(Items, p, MaxSize)[i] = Items[i - 1]
<1>1. PICK E, it, M : /\ E = Entry /\ it = Items /\ M = MaxSize
                      /\ M \in Nat \ {0} /\ it \in Seq(E) /\ Len(it) <= M /\ Len(it) = size
  BY ItemsFit
<1>2. p \in E /\ M \in Nat \ {0} /\ it \in Seq(E) /\ Len(it) <= M
  BY <1>1
<1>3. /\ PushedFront(it, p, M) \in Seq(E)
      /\ Len(PushedFront(it, p, M)) = IF Len(it) = M THEN M ELSE Len(it) + 1
      /\ PushedFront(it, p, M)[1] = p
      /\ \A i \in 2..Len(PushedFront(it, p, M)) : PushedFront(it, p, M)[i] = it[i - 1]
  BY <1>2, PushedFrontShape
<1> QED
  BY <1>1, <1>3

LEMMA PushFrontRefines ==
  ASSUME RingInv, RingInv', NEW s \in SpellIds, PushFront(s)
  PROVE  Deque!PushFront(s)
<1> USE MaxSizeAssumption
<1> DEFINE p == NewEntry(s)
<1>1. p \in Entry
  BY NewEntryType DEF RingInv
<1> HIDE DEF p
<1> DEFINE q == PushedFront(Items, p, MaxSize)
<1>2. Items \in Seq(Entry) /\ Len(Items) = size /\ size \in 0..MaxSize
      /\ Len(Items) <= MaxSize
  BY ItemsList DEF RingInv, TypeOK
<1>3. /\ q \in Seq(Entry) /\ Len(q) = IF size = MaxSize THEN MaxSize ELSE size + 1
      /\ q[1] = p /\ \A i \in 2..Len(q) : q[i] = Items[i - 1]
  BY <1>1, PushedFrontItems DEF q
<1> HIDE DEF q
<1>4. Items' = q
  <2>1. CASE IsFull
    <3>1. /\ front' = front /\ size' = MaxSize /\ size = MaxSize
          /\ queue' = [k \in Slots |-> IF k = front THEN p
                                       ELSE queue[(k - 1 + MaxSize) % MaxSize]]
      BY <2>1 DEF PushFront, IsFull, p
    <3>2. ASSUME NEW i \in 1..MaxSize PROVE queue'[Slot(i - 1)] = q[i]
      <4>1. i - 1 \in 0..MaxSize /\ i - 1 \in 0..(MaxSize - 1) /\ 0 \in 0..(MaxSize - 1)
            /\ 0 \in 0..MaxSize
        OBVIOUS
      <4>2. Slot(i - 1) \in Slots /\ Slot(0) = front
        BY <4>1, SlotValue
      <4>3. CASE i = 1
        BY <1>3, <3>1, <4>2, <4>3
      <4>4. CASE i # 1
        <5>1. i - 1 # 0 /\ i - 1 \in 1..(MaxSize - 1) /\ i \in 2..Len(q) /\ i - 1 \in 1..size
              /\ (i - 1) - 1 = i - 2
          BY <1>3, <3>1, <4>4
        <5>2. Slot(i - 1) # front
          BY <4>1, <4>2, <5>1, SlotsDiffer
        <5>3. (Slot(i - 1) - 1 + MaxSize) % MaxSize = Slot((i - 1) - 1)
          BY <5>1, LastSlot
        <5>4. queue'[Slot(i - 1)] = queue[Slot((i - 1) - 1)]
          BY <3>1, <4>2, <5>2, <5>3
        <5>5. Items[i - 1] = queue[Slot((i - 1) - 1)]
          BY <5>1, ItemsList
        <5> QED
          BY <1>3, <5>1, <5>4, <5>5
      <4> QED
        BY <4>3, <4>4
    <3> QED
      BY <1>3, <3>1, <3>2, SameList DEF Slot
  <2>2. CASE ~IsFull
    <3>1. /\ front' = (front - 1 + MaxSize) % MaxSize /\ size' = size + 1 /\ size < MaxSize
          /\ queue' = [queue EXCEPT ![front'] = p]
      BY <1>2, <2>2 DEF PushFront, IsFull, p
    <3>2. front' = (IF front = 0 THEN MaxSize - 1 ELSE front - 1) /\ front \in 0..(MaxSize - 1)
          /\ queue \in [Slots -> Entry]
      BY <3>1, StepOfIndex DEF RingInv, TypeOK, Slots
    <3>3. ASSUME NEW i \in 1..size' PROVE queue'[(front' + (i - 1)) % MaxSize] = q[i]
      <4>1. PICK f, n : f = front' /\ n = i - 1
        OBVIOUS
      <4>2. n \in 0..(MaxSize - 1) /\ i \in 1..(size + 1)
        BY <1>2, <3>1, <4>1
      <4>3. /\ f \in Slots /\ (f + n) % MaxSize \in Slots
            /\ (f + n) % MaxSize = f <=> n = 0
            /\ n # 0 => (f + n) % MaxSize = (front + (n - 1)) % MaxSize
        <5>1. f = (IF front = 0 THEN MaxSize - 1 ELSE front - 1) /\ front \in 0..(MaxSize - 1)
              /\ f \in 0..(MaxSize - 1) /\ n \in 0..MaxSize
          BY <3>2, <4>1, <4>2
        <5>2. (f + n) % MaxSize = IF f + n < MaxSize THEN f + n ELSE f + n - MaxSize
          BY <5>1, SumOfIndex
        <5>3. ASSUME n # 0
              PROVE  (front + (n - 1)) % MaxSize
                       = IF front + (n - 1) < MaxSize THEN front + (n - 1)
                         ELSE front + (n - 1) - MaxSize
          <6>1. n - 1 \in 0..MaxSize
            BY <4>2, <5>3
          <6> QED
            BY <5>1, <6>1, SumOfIndex
        <5> QED
          BY <4>2, <5>1, <5>2, <5>3 DEF Slots
      <4>4. queue'[(f + n) % MaxSize] = IF n = 0 THEN p ELSE queue[(f + n) % MaxSize]
        BY <3>1, <3>2, <4>1, <4>3
      <4>5. CASE n = 0
        BY <1>3, <4>1, <4>2, <4>4, <4>5
      <4>6. CASE n # 0
        <5>1. n \in 1..size /\ i \in 2..Len(q) /\ i - 1 = n
          BY <1>2, <1>3, <3>1, <4>1, <4>2, <4>6
        <5>2. Items[n] = queue[(front + (n - 1)) % MaxSize]
          BY <5>1, ItemsList DEF Slot
        <5> QED
          BY <1>3, <4>1, <4>3, <4>4, <4>6, <5>1, <5>2
      <4> QED
        BY <4>5, <4>6
    <3> QED
      BY <1>2, <1>3, <3>1, <3>3, SameList
  <2> QED
    BY <2>1, <2>2
<1>5. tombstones' = EvictionTombstones(Items, tombstones, MaxSize)
  <2>1. CASE IsFull
    <3>1. size = MaxSize /\ Items[MaxSize] = queue[Slot(size - 1)]
      BY <2>1, ItemsList DEF IsFull
    <3> QED
      BY <1>2, <2>1, <3>1 DEF PushFront, EvictionTombstones
  <2>2. CASE ~IsFull
    BY <1>2, <2>2 DEF PushFront, EvictionTombstones, IsFull
  <2> QED
    BY <2>1, <2>2
<1>6. nextId <= MaxCastId /\ nextId' = nextId + 1
  BY DEF PushFront
<1> QED
  BY <1>4, <1>5, <1>6, SameOperators DEF Deque!PushFront, Deque!New, NewEntry, p, q

(* From one slot further on, everything is one slot closer.                  *)
LEMMA AheadSlot ==
  ASSUME RingInv, NEW f, f = (front + 1) % MaxSize, NEW i \in 1..MaxSize
  PROVE  (f + (i - 1)) % MaxSize = Slot(i)
<1>1. front \in 0..(MaxSize - 1) /\ MaxSize \in Nat \ {0} /\ i \in 0..MaxSize
      /\ Slot(i) = IF front + i < MaxSize THEN front + i ELSE front + i - MaxSize
  <2>1. i \in 0..MaxSize
    BY MaxSizeAssumption
  <2> QED
    BY <2>1, SlotValue
<1>2. f = (IF front + 1 = MaxSize THEN 0 ELSE front + 1) /\ f \in 0..(MaxSize - 1)
  <2>1. (front + 1) % MaxSize = IF front + 1 = MaxSize THEN 0 ELSE front + 1
    BY <1>1, StepOfIndex
  <2> QED
    BY <1>1, <2>1
<1>3. i - 1 \in 0..MaxSize
  BY <1>1
<1>4. (f + (i - 1)) % MaxSize
        = IF f + (i - 1) < MaxSize THEN f + (i - 1) ELSE f + (i - 1) - MaxSize
  BY <1>1, <1>2, <1>3, SumOfIndex
<1> QED
  BY <1>1, <1>2, <1>4

LEMMA PushedItems ==
  ASSUME RingInv, NEW p \in Entry
  PROVE  /\ Pushed(Items, p, MaxSize) \in Seq(Entry)
         /\ Len(Pushed(Items, p, MaxSize)) = IF size = MaxSize THEN MaxSize ELSE size + 1
         /\ \A i \in 1..Len(Pushed(Items, p, MaxSize)) :
              Pushed(Items, p, MaxSize)[i] =
                IF i = Len(Pushed(Items, p, MaxSize)) THEN p
                ELSE IF size = MaxSize THEN Items[i + 1] ELSE Items[i]
<1>1. PICK E, it, M : /\ E = Entry /\ it = Items /\ M = MaxSize
                      /\ M \in Nat \ {0} /\ it \in Seq(E) /\ Len(it) <= M /\ Len(it) = size
  BY ItemsFit
<1>2. p \in E /\ M \in Nat \ {0} /\ it \in Seq(E) /\ Len(it) <= M
  BY <1>1
<1>3. /\ Pushed(it, p, M) \in Seq(E)
      /\ Len(Pushed(it, p, M)) = IF Len(it) = M THEN M ELSE Len(it) + 1
      /\ \A i \in 1..Len(Pushed(it, p, M)) :
           Pushed(it, p, M)[i] = IF i = Len(Pushed(it, p, M)) THEN p
                                 ELSE IF Len(it) = M THEN it[i + 1] ELSE it[i]
  BY <1>2, PushedShape
<1> QED
  BY <1>1, <1>3

LEMMA AddedRefines ==
  ASSUME RingInv, RingInv', NEW s \in SpellIds, NEW p \in Entry,
         IF IsFull THEN front' = (front + 1) % MaxSize /\ UNCHANGED size
                   ELSE size' = size + 1 /\ UNCHANGED front,
         rear' = (rear + 1) % MaxSize,
         queue' = [queue EXCEPT ![rear'] = p]
  PROVE  Items' = Pushed(Items, p, MaxSize)
<1> DEFINE q == Pushed(Items, p, MaxSize)
<1>1. /\ q \in Seq(Entry) /\ Len(q) = IF size = MaxSize THEN MaxSize ELSE size + 1
      /\ \A i \in 1..Len(q) : q[i] = IF i = Len(q) THEN p
                                     ELSE IF size = MaxSize THEN Items[i + 1] ELSE Items[i]
  BY PushedItems
<1> HIDE DEF q
<1>2. size \in 0..MaxSize /\ MaxSize \in Nat \ {0} /\ queue \in [Slots -> Entry]
      /\ \A j \in 1..size : Items[j] = queue[Slot(j - 1)]
  BY ItemsList, MaxSizeAssumption DEF RingInv, TypeOK
<1>3. rear' = Slot(size) /\ Slot(size) \in Slots
  <2>1. rear' = Slot(size)
    BY DEF RingInv, RearAligned, Slot
  <2> QED
    BY <1>2, <2>1, SlotValue
<1>4. \A k \in Slots : queue'[k] = IF k = Slot(size) THEN p ELSE queue[k]
  BY <1>2, <1>3
<1>5. CASE IsFull
  <2>1. front' = (front + 1) % MaxSize /\ size' = MaxSize /\ size = MaxSize
        /\ Len(q) = MaxSize
    BY <1>1, <1>5 DEF IsFull
  <2>2. ASSUME NEW i \in 1..size' PROVE queue'[(front' + (i - 1)) % MaxSize] = q[i]
    <3>1. i \in 1..MaxSize /\ i \in 0..MaxSize /\ 0 \in 0..(MaxSize - 1) /\ MaxSize \in 0..MaxSize
          /\ 0 \in 0..MaxSize
      BY <1>2, <2>1
    <3>2. (front' + (i - 1)) % MaxSize = Slot(i)
      BY <2>1, <3>1, AheadSlot
    <3>3. Slot(i) \in Slots /\ Slot(MaxSize) = Slot(0)
      BY <3>1, SlotValue
    <3>4. CASE i = MaxSize
      BY <1>1, <1>4, <2>1, <3>1, <3>2, <3>3, <3>4
    <3>5. CASE i # MaxSize
      <4>1. i \in 0..(MaxSize - 1) /\ i # 0 /\ i + 1 \in 1..size /\ (i + 1) - 1 = i
        BY <2>1, <3>1, <3>5
      <4>2. Slot(i) # Slot(0)
        BY <3>1, <4>1, SlotsDiffer
      <4>3. queue'[Slot(i)] = queue[Slot(i)]
        BY <1>4, <2>1, <3>3, <4>2
      <4>4. Items[i + 1] = queue[Slot(i)]
        BY <1>2, <4>1
      <4> QED
        BY <1>1, <2>1, <3>1, <3>2, <3>5, <4>3, <4>4
    <3> QED
      BY <3>4, <3>5
  <2> QED
    BY <1>1, <2>1, <2>2, SameList DEF q
<1>6. CASE ~IsFull
  <2>1. front' = front /\ size' = size + 1 /\ size # MaxSize /\ Len(q) = size + 1
    BY <1>1, <1>6 DEF IsFull
  <2>2. ASSUME NEW i \in 1..size' PROVE queue'[(front' + (i - 1)) % MaxSize] = q[i]
    <3>1. i \in 1..(size + 1) /\ i - 1 \in 0..MaxSize /\ i - 1 \in 0..(MaxSize - 1)
          /\ size \in 0..(MaxSize - 1)
      BY <1>2, <2>1
    <3>2. (front' + (i - 1)) % MaxSize = Slot(i - 1)
      BY <2>1 DEF Slot
    <3>3. Slot(i - 1) \in Slots /\ (Slot(i - 1) = Slot(size) <=> i - 1 = size)
      BY <3>1, SlotValue, SlotsDiffer
    <3>4. CASE i - 1 = size
      BY <1>1, <1>4, <2>1, <3>1, <3>2, <3>3, <3>4
    <3>5. CASE i - 1 # size
      <4>1. i \in 1..size /\ i # size + 1
        BY <1>2, <3>1, <3>5
      <4> QED
        BY <1>1, <1>2, <1>4, <2>1, <3>1, <3>2, <3>3, <3>5, <4>1
    <3> QED
      BY <3>4, <3>5
  <2> QED
    BY <1>1, <2>1, <2>2, SameList DEF q
<1> QED
  BY <1>5, <1>6

LEMMA ReplacedRefines ==
  ASSUME RingInv, RingInv', NEW p \in Entry, NEW n \in 1..size,
         queue' = [queue EXCEPT ![Slot(n - 1)] = p], UNCHANGED <<front, size>>
  PROVE  Items' = [Items EXCEPT ![n] = p]
<1> DEFINE q == [Items EXCEPT ![n] = p]
<1>1. /\ size \in 0..MaxSize /\ MaxSize \in Nat \ {0} /\ queue \in [Slots -> Entry]
      /\ Items \in Seq(Entry) /\ Len(Items) = size
      /\ \A j \in 1..size : Items[j] = queue[Slot(j - 1)]
  BY ItemsList, MaxSizeAssumption DEF RingInv, TypeOK
<1>2. PICK it : it = Items
  OBVIOUS
<1>3. /\ q \in Seq(Entry) /\ Len(q) = size
      /\ \A j \in 1..size : q[j] = IF j = n THEN p ELSE Items[j]
  BY <1>1, <1>2
<1> HIDE DEF q
<1>4. ASSUME NEW i \in 1..size' PROVE queue'[(front' + (i - 1)) % MaxSize] = q[i]
  <2>1. i \in 1..size /\ i - 1 \in 0..MaxSize /\ i - 1 \in 0..(MaxSize - 1)
        /\ n - 1 \in 0..(MaxSize - 1)
    BY <1>1
  <2>2. (front' + (i - 1)) % MaxSize = Slot(i - 1)
    BY DEF Slot
  <2>3. Slot(i - 1) \in Slots /\ (Slot(i - 1) = Slot(n - 1) <=> i - 1 = n - 1)
    BY <2>1, SlotValue, SlotsDiffer
  <2>4. queue'[Slot(i - 1)] = IF i = n THEN p ELSE queue[Slot(i - 1)]
    BY <1>1, <2>1, <2>3
  <2> QED
    BY <1>1, <1>3, <2>1, <2>2, <2>4
<1> QED
  BY <1>1, <1>3, <1>4, SameList DEF q

LEMMA PushRefines ==
  ASSUME RingInv, RingInv', NEW s \in SpellIds, NEW r \in Replacement, Push(s, r)
  PROVE  Deque!Push(s) \/ Deque!Replace(s)
<1> DEFINE same == {i \in 1..size : Category[Items[i].spellId] = Category[s]}
           match == IF r /\ s \in NonGcd /\ Category[s] # 0 THEN FirstOf(same) ELSE 0
           p == NewEntry(s)
<1>1. size \in Nat /\ DOMAIN Items = 1..size
  BY ItemsList DEF RingInv, TypeOK
<1>2. p \in Entry
  BY NewEntryType DEF RingInv
<1>3. /\ nextId <= MaxCastId /\ nextId' = nextId + 1
      /\ IF match # 0
         THEN /\ queue' = [queue EXCEPT ![Slot(match - 1)] = p]
              /\ UNCHANGED <<front, rear, size>>
         ELSE /\ IF IsFull
                 THEN front' = (front + 1) % MaxSize /\ UNCHANGED size
                 ELSE size' = size + 1 /\ UNCHANGED front
              /\ rear' = (rear + 1) % MaxSize
              /\ queue' = [queue EXCEPT ![rear'] = p]
      /\ UNCHANGED tombstones
  BY DEF Push, FindGcdCategory
<1>4. match # 0 => /\ s \in NonGcd /\ Category[s] # 0 /\ same # {}
                   /\ match = FirstOf(same) /\ match \in 1..size
  <2> SUFFICES ASSUME match # 0
               PROVE  /\ s \in NonGcd /\ Category[s] # 0 /\ same # {}
                      /\ match = FirstOf(same) /\ match \in 1..size
    OBVIOUS
  <2>1. s \in NonGcd /\ Category[s] # 0 /\ match = FirstOf(same)
    OBVIOUS
  <2>2. same \in SUBSET (1..size)
    OBVIOUS
  <2> HIDE DEF same, match
  <2>3. IF same = {} THEN FirstOf(same) = 0 ELSE FirstOf(same) \in same
    BY <1>1, <2>2, FirstOfMember
  <2> QED
    BY <2>1, <2>2, <2>3
<1> HIDE DEF match, p
<1>5. CASE match # 0
  <2>1. Items' = [Items EXCEPT ![match] = p]
    BY <1>2, <1>3, <1>4, <1>5, ReplacedRefines
  <2>2. Items' = [Items EXCEPT ![FirstOf(same)] = p] /\ same # {} /\ s \in NonGcd
        /\ Category[s] # 0
    BY <1>4, <1>5, <2>1
  <2>3. same = {i \in DOMAIN Items : Category[Items[i].spellId] = Category[s]}
    BY <1>1
  <2> HIDE DEF same
  <2>4. Deque!FirstOf(same) = FirstOf(same)
    BY SameOperators
  <2>5. p = Deque!New(s)
    BY DEF p, NewEntry, Deque!New
  <2> QED
    BY <1>3, <2>2, <2>3, <2>4, <2>5 DEF Deque!Replace
<1>6. CASE match = 0
  <2>1. Items' = Pushed(Items, p, MaxSize)
    BY <1>2, <1>3, <1>6, AddedRefines
  <2>2. Deque!Pushed(Items, p, MaxSize) = Pushed(Items, p, MaxSize)
    BY SameOperators
  <2>3. p = Deque!New(s)
    BY DEF p, NewEntry, Deque!New
  <2> QED
    BY <1>3, <2>1, <2>2, <2>3 DEF Deque!Push
<1> QED
  BY <1>5, <1>6

LEMMA PopRefines ==
  ASSUME RingInv, RingInv', Pop
  PROVE  Deque!Pop
<1>1. /\ size \in 1..MaxSize /\ MaxSize \in Nat \ {0} /\ Items \in Seq(Entry)
      /\ Len(Items) = size /\ \A j \in 1..size : Items[j] = queue[Slot(j - 1)]
  BY ItemsList, MaxSizeAssumption DEF RingInv, TypeOK, Pop, IsEmpty
<1>2. front' = (front + 1) % MaxSize /\ size' = size - 1 /\ queue' = queue
      /\ UNCHANGED <<tombstones, nextId>>
  BY DEF Pop
<1> DEFINE q == Tail(Items)
<1>3. PICK it : it = Items
  OBVIOUS
<1>4. /\ q \in Seq(Entry) /\ Len(q) = size - 1
      /\ \A i \in 1..(size - 1) : q[i] = Items[i + 1]
  BY <1>1, <1>3
<1> HIDE DEF q
<1>5. ASSUME NEW i \in 1..size' PROVE queue'[(front' + (i - 1)) % MaxSize] = q[i]
  <2>1. i \in 1..(size - 1) /\ i \in 1..MaxSize /\ i + 1 \in 1..size /\ (i + 1) - 1 = i
    BY <1>1, <1>2
  <2>2. (front' + (i - 1)) % MaxSize = Slot(i)
    BY <1>2, <2>1, AheadSlot
  <2>3. Items[i + 1] = queue[Slot(i)]
    BY <1>1, <2>1
  <2> QED
    BY <1>2, <1>4, <2>1, <2>2, <2>3
<1>6. Items' = Tail(Items)
  BY <1>1, <1>2, <1>4, <1>5, SameList DEF q
<1>7. Items # <<>>
  BY <1>1, <1>3
<1> QED
  BY <1>2, <1>6, <1>7 DEF Deque!Pop

LEMMA RemovedItems ==
  ASSUME RingInv, NEW k \in 1..size
  PROVE  /\ RemovedAt(Items, k) \in Seq(Entry)
         /\ Len(RemovedAt(Items, k)) = size - 1
         /\ \A i \in 1..(size - 1) :
              RemovedAt(Items, k)[i] = IF i < k THEN Items[i] ELSE Items[i + 1]
<1>1. PICK E, it, M : /\ E = Entry /\ it = Items /\ M = MaxSize
                      /\ M \in Nat \ {0} /\ it \in Seq(E) /\ Len(it) <= M /\ Len(it) = size
  BY ItemsFit
<1>2. it \in Seq(E) /\ k \in 1..Len(it)
  BY <1>1
<1>3. /\ RemovedAt(it, k) \in Seq(E) /\ Len(RemovedAt(it, k)) = Len(it) - 1
      /\ \A i \in 1..(Len(it) - 1) :
           RemovedAt(it, k)[i] = IF i < k THEN it[i] ELSE it[i + 1]
  BY <1>2, RemovedAtShape
<1> QED
  BY <1>1, <1>3

LEMMA RemoveRefines ==
  ASSUME RingInv, RingInv', NEW s \in SpellIds, RemoveSpellId(s)
  PROVE  Deque!Remove(s)
<1> DEFINE n == FindSpellId(Items, s)
<1>1. /\ size \in 0..MaxSize /\ MaxSize \in Nat \ {0} /\ queue \in [Slots -> Entry]
      /\ Len(Items) = size /\ \A j \in 1..size : Items[j] = queue[Slot(j - 1)]
  BY ItemsList, MaxSizeAssumption DEF RingInv, TypeOK
<1>2. /\ n # 0 /\ size' = size - 1 /\ UNCHANGED <<front, tombstones, nextId>>
      /\ queue' = [k \in Slots |-> IF \E j \in (n - 1)..(size - 2) : k = Slot(j)
                                   THEN queue[(k + 1) % MaxSize] ELSE queue[k]]
  BY DEF RemoveSpellId
<1>3. n \in 1..size
  <2>1. PICK S : S = WithSpellId(Items, s)
    OBVIOUS
  <2>2. S \in SUBSET (1..size) /\ n = FirstOf(S) /\ size \in Nat
    BY <1>1, <2>1 DEF WithSpellId, FindSpellId
  <2>3. IF S = {} THEN FirstOf(S) = 0 ELSE FirstOf(S) \in S
    BY <2>2, FirstOfMember
  <2> QED
    BY <1>2, <2>2, <2>3
<1>4. Deque!FindSpellId(Items, s) = n /\ Deque!RemovedAt(Items, n) = RemovedAt(Items, n)
  BY SameOperators
<1> HIDE DEF n
<1> DEFINE q == RemovedAt(Items, n)
<1>5. /\ q \in Seq(Entry) /\ Len(q) = size - 1
      /\ \A i \in 1..(size - 1) : q[i] = IF i < n THEN Items[i] ELSE Items[i + 1]
  BY <1>3, RemovedItems
<1> HIDE DEF q
<1>6. ASSUME NEW i \in 1..size' PROVE queue'[(front' + (i - 1)) % MaxSize] = q[i]
  <2>1. /\ i \in 1..(size - 1) /\ i - 1 \in 0..MaxSize /\ i - 1 \in 0..(MaxSize - 1)
        /\ i \in 1..size /\ i + 1 \in 1..size /\ (i + 1) - 1 = i /\ (i - 1) + 1 = i
    BY <1>1, <1>2
  <2>2. (front' + (i - 1)) % MaxSize = Slot(i - 1)
    BY <1>2 DEF Slot
  <2>3. Slot(i - 1) \in Slots /\ (Slot(i - 1) + 1) % MaxSize = Slot(i)
    BY <2>1, SlotValue, NextSlot
  <2>4. (\E j \in (n - 1)..(size - 2) : Slot(i - 1) = Slot(j)) <=> n <= i
    <3>1. ASSUME NEW j \in (n - 1)..(size - 2) PROVE Slot(i - 1) = Slot(j) <=> i - 1 = j
      <4>1. j \in 0..(MaxSize - 1)
        BY <1>1, <1>3
      <4> QED
        BY <2>1, <4>1, SlotsDiffer
    <3>2. n <= i <=> i - 1 \in (n - 1)..(size - 2)
      BY <1>1, <1>3, <2>1
    <3>3. ASSUME NEW j \in (n - 1)..(size - 2), i - 1 = j PROVE n <= i
      BY <1>1, <1>3, <2>1, <3>3
    <3> HIDE DEF Slot
    <3> QED
      BY <3>1, <3>2, <3>3
  <2>5. queue'[Slot(i - 1)] = IF n <= i THEN queue[Slot(i)] ELSE queue[Slot(i - 1)]
    BY <1>2, <2>3, <2>4
  <2>6. Items[i] = queue[Slot(i - 1)] /\ Items[i + 1] = queue[Slot(i)]
    BY <1>1, <2>1
  <2>7. q[i] = IF i < n THEN Items[i] ELSE Items[i + 1]
    BY <1>5, <2>1
  <2> QED
    BY <1>3, <2>1, <2>2, <2>5, <2>6, <2>7
<1>7. Items' = q
  BY <1>1, <1>2, <1>5, <1>6, SameList
<1> QED
  BY <1>2, <1>4, <1>7 DEF Deque!Remove, q

LEMMA UpdateRefines ==
  ASSUME RingInv, RingInv', NEW n \in 1..size, NEW r \in CastResults, Update(n, r)
  PROVE  Deque!Update(n, r)
<1> DEFINE p == [queue[Slot(n - 1)] EXCEPT !.castResult = r]
<1>1. /\ size \in 0..MaxSize /\ queue \in [Slots -> Entry] /\ Slot(n - 1) \in Slots
      /\ Items[n] = queue[Slot(n - 1)]
  <2>1. n - 1 \in 0..MaxSize
    BY MaxSizeAssumption DEF RingInv, TypeOK
  <2> QED
    BY <2>1, ItemsList, SlotValue DEF RingInv, TypeOK
<1>2. p \in Entry
  BY <1>1 DEF Entry
<1>3. queue' = [queue EXCEPT ![Slot(n - 1)] = p] /\ UNCHANGED <<front, size, tombstones, nextId>>
  BY DEF Update
<1>4. p = [Items[n] EXCEPT !.castResult = r]
  BY <1>1
<1> HIDE DEF p
<1>5. Items' = [Items EXCEPT ![n] = p]
  BY <1>2, <1>3, ReplacedRefines
<1>6. n # 0
  OBVIOUS
<1>7. SetResult(Items, n, r) = [Items EXCEPT ![n].castResult = r]
  BY <1>6 DEF SetResult
<1>8. Deque!SetResult(Items, n, r) = SetResult(Items, n, r)
  BY SameOperators
<1>9. PICK it : it = Items
  OBVIOUS
<1>10. [it EXCEPT ![n].castResult = r] = [it EXCEPT ![n] = [it[n] EXCEPT !.castResult = r]]
  OBVIOUS
<1> QED
  BY <1>3, <1>4, <1>5, <1>7, <1>8, <1>9, <1>10 DEF Deque!Update

LEMMA MarkRefines ==
  ASSUME RingInv, RingInv', NEW s \in SpellIds, FindUniqueWaitingForServerSpellId(s)
  PROVE  Deque!Mark(s)
<1> DEFINE matches == {k \in Slots : /\ \E j \in 0..(size - 1) : k = Slot(j)
                                     /\ queue[k].spellId = s /\ IsWaiting(queue[k])}
           W == Waiting(Items, s)
           Marked(e) == [e EXCEPT !.ambiguous = TRUE]
           q == [i \in 1..size |-> IF i \in W THEN Marked(Items[i]) ELSE Items[i]]
<1>1. /\ size \in 0..MaxSize /\ MaxSize \in Nat \ {0} /\ queue \in [Slots -> Entry]
      /\ Len(Items) = size
      /\ \A j \in 1..size : Items[j] = queue[Slot(j - 1)] /\ Items[j] \in Entry
  <2>1. size \in 0..MaxSize /\ MaxSize \in Nat \ {0} /\ queue \in [Slots -> Entry]
    BY MaxSizeAssumption DEF RingInv, TypeOK
  <2>2. PICK it : it = Items
    OBVIOUS
  <2>3. \A j \in 1..size : it[j] \in Entry
    BY <2>1, <2>2, ItemsList
  <2> QED
    BY <2>1, <2>2, <2>3, ItemsList
<1>2. /\ s \notin tombstones /\ \E k, l \in matches : k # l
      /\ queue' = [k \in Slots |-> IF k \in matches THEN Marked(queue[k]) ELSE queue[k]]
      /\ UNCHANGED <<front, rear, size, tombstones, nextId>>
  BY DEF FindUniqueWaitingForServerSpellId
<1>3. W = {i \in 1..size : Items[i].spellId = s /\ IsWaiting(Items[i])}
  BY <1>1 DEF Waiting, WithSpellId
<1>4. ASSUME NEW i \in 1..size PROVE Slot(i - 1) \in matches <=> i \in W
  <2>1. i - 1 \in 0..MaxSize /\ i - 1 \in 0..(size - 1)
    BY <1>1
  <2>2. Slot(i - 1) \in Slots
    BY <2>1, SlotValue
  <2>3. Items[i] = queue[Slot(i - 1)]
    BY <1>1
  <2> QED
    BY <1>3, <2>1, <2>2, <2>3
<1>5. \A k \in matches : \E i \in 1..size : k = Slot(i - 1)
  <2> SUFFICES ASSUME NEW j \in 0..(size - 1)
               PROVE  \E i \in 1..size : Slot(j) = Slot(i - 1)
    OBVIOUS
  <2>1. j + 1 \in 1..size /\ (j + 1) - 1 = j
    BY <1>1
  <2> QED
    BY <2>1
<1> HIDE DEF matches, W
<1>6. \E i, j \in W : i # j
  <2>1. PICK k \in matches, l \in matches : k # l
    BY <1>2
  <2>2. PICK i \in 1..size : k = Slot(i - 1)
    BY <1>5
  <2>3. PICK j \in 1..size : l = Slot(j - 1)
    BY <1>5
  <2>4. i \in W /\ j \in W /\ i # j
    BY <1>4, <2>1, <2>2, <2>3
  <2> QED
    BY <2>4
<1>7. \A e \in Entry : Marked(e) \in Entry
  BY DEF Entry
<1> HIDE DEF Marked
<1>8. q \in Seq(Entry) /\ Len(q) = size
      /\ \A i \in 1..size : q[i] = IF i \in W THEN Marked(Items[i]) ELSE Items[i]
  <2>1. PICK E, n : E = Entry /\ n = size
    OBVIOUS
  <2>2. q \in [1..n -> E] /\ n \in Nat
    BY <1>1, <1>7, <2>1
  <2>3. q \in Seq(E) /\ Len(q) = n
    BY <2>2, RewrittenShape
  <2> QED
    BY <2>1, <2>3
<1>9. ASSUME NEW i \in 1..size' PROVE queue'[(front' + (i - 1)) % MaxSize] = q[i]
  <2>1. i \in 1..size /\ i - 1 \in 0..MaxSize
    BY <1>1, <1>2
  <2>2. (front' + (i - 1)) % MaxSize = Slot(i - 1) /\ Slot(i - 1) \in Slots
    BY <1>2, <2>1, SlotValue DEF Slot
  <2>3. queue'[Slot(i - 1)] = IF i \in W THEN Marked(queue[Slot(i - 1)])
                              ELSE queue[Slot(i - 1)]
    BY <1>2, <1>4, <2>1, <2>2
  <2>4. Items[i] = queue[Slot(i - 1)]
    BY <1>1, <2>1
  <2> QED
    BY <1>8, <2>1, <2>2, <2>3, <2>4
<1> HIDE DEF q
<1>10. Items' = q
  BY <1>1, <1>2, <1>8, <1>9, SameList
<1>11. MarkAmbiguous(Items, tombstones, s) = q
  <2>1. MarkAmbiguous(Items, tombstones, s)
          = [i \in 1..Len(Items) |-> IF i \in W THEN [Items[i] EXCEPT !.ambiguous = TRUE]
                                     ELSE Items[i]]
    BY <1>2, <1>6 DEF MarkAmbiguous, W
  <2> QED
    BY <1>1, <2>1 DEF q, Marked
<1>12. Deque!MarkAmbiguous(Items, tombstones, s) = MarkAmbiguous(Items, tombstones, s)
  BY SameOperators
<1> QED
  BY <1>2, <1>10, <1>11, <1>12 DEF Deque!Mark

(* castqueue.h:47-221: the three indices and the slots are one list: every   *)
(* operation of the class does to it what CastDeque says, and nothing else.  *)
THEOREM ImplementsTheorem == Spec => ImplementsDeque
<1>1. Init => Deque!Init
  <2> SUFFICES ASSUME Init PROVE Items = <<>> /\ tombstones = {} /\ nextId = 1
    BY DEF Deque!Init
  <2>1. RingInv
    BY InitRing
  <2>2. Items \in Seq(Entry) /\ Len(Items) = 0
    BY <2>1, ItemsList DEF Init
  <2>3. PICK it : it = Items
    OBVIOUS
  <2>4. it = <<>>
    BY <2>2, <2>3
  <2> QED
    BY <2>3, <2>4 DEF Init
<1>2. RingInv /\ RingInv' /\ [Next]_vars => [Deque!Next]_(Deque!dequeVars)
  <2> SUFFICES ASSUME RingInv, RingInv', [Next]_vars
               PROVE  Deque!Next \/ UNCHANGED Deque!dequeVars
    OBVIOUS
  <2>1. CASE Clear
    <3>1. size' = 0 /\ tombstones' = {} /\ UNCHANGED nextId
      BY <2>1 DEF Clear
    <3>2. PICK q : q = <<>>
      OBVIOUS
    <3>3. q \in Seq(Entry) /\ Len(q) = size' /\ 1..size' = {}
      BY <3>1, <3>2
    <3>4. Items' = q
      BY <3>3, SameList
    <3> QED
      BY <3>1, <3>2, <3>4 DEF Deque!Next, Deque!Clear
  <2>2. ASSUME NEW s \in SpellIds, PushFront(s) PROVE Deque!Next
    BY <2>2, PushFrontRefines DEF Deque!Next
  <2>3. ASSUME NEW s \in SpellIds, NEW r \in Replacement, Push(s, r) PROVE Deque!Next
    BY <2>3, PushRefines DEF Deque!Next
  <2>4. CASE Pop
    BY <2>4, PopRefines DEF Deque!Next
  <2>5. ASSUME NEW s \in SpellIds, RemoveSpellId(s) PROVE Deque!Next
    BY <2>5, RemoveRefines DEF Deque!Next
  <2>6. ASSUME NEW i \in 1..size, NEW r \in CastResults, Update(i, r) PROVE Deque!Next
    <3>1. Deque!Update(i, r)
      BY <2>6, UpdateRefines
    <3>2. i \in DOMAIN Items
      BY ItemsList
    <3>3. CastResults = Deque!CastResults
      BY DEF CastResults, Deque!CastResults
    <3> QED
      BY <3>1, <3>2, <3>3 DEF Deque!Next
  <2>7. ASSUME NEW s \in SpellIds, FindUniqueWaitingForServerSpellId(s) PROVE Deque!Next
    BY <2>7, MarkRefines DEF Deque!Next
  <2>8. CASE UNCHANGED vars
    <3>1. UNCHANGED <<queue, front, size, tombstones, nextId>>
      BY <2>8 DEF vars
    <3>2. UNCHANGED Items
      BY <3>1 DEF Items, Slot
    <3> QED
      BY <3>1, <3>2 DEF Deque!dequeVars
  <2> QED
    BY <2>1, <2>2, <2>3, <2>4, <2>5, <2>6, <2>7, <2>8
    DEF Next, HistoryNext, QueueNext
<1> QED
  BY <1>1, <1>2, RingTheorem, PTL DEF Spec, ImplementsDeque, Deque!Spec
==============================================================================

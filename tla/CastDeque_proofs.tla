--------------------------- MODULE CastDeque_proofs ---------------------------
(***************************************************************************)
(* What the operators of CastDeque return, for every queue: the facts the    *)
(* proofs about the owners of a queue, and about the ring, cite.             *)
(***************************************************************************)
EXTENDS CastDeque, FiniteSetTheorems, SequenceTheorems, TLAPS

(* A set of positions has a first and a last member: the initial segments of *)
(* it are finite, and strict inclusion is well founded on finite sets.       *)
LEMMA FirstExists ==
  ASSUME NEW n \in Nat, NEW S \in SUBSET (1..n), S # {}
  PROVE  \E i \in S : \A j \in S : i <= j
<1> DEFINE T == {{j \in S : j <= i} : i \in S}
<1>1. IsFiniteSet(S)
  <2>1. IsFiniteSet(1..n)
    BY FS_Interval
  <2> QED
    BY <2>1, FS_Subset
<1>2. FiniteSubsetsOf(S) = SUBSET S
  BY <1>1, FS_FiniteSubsetsOfFinite
<1>3. T \subseteq FiniteSubsetsOf(S) /\ T # {}
  <2>1. T \subseteq SUBSET S
    OBVIOUS
  <2>2. PICK i \in S : TRUE
    OBVIOUS
  <2>3. {j \in S : j <= i} \in T
    BY <2>2
  <2> QED
    BY <1>2, <2>1, <2>3
<1>4. PICK x \in T : \A y \in T : <<y, x>> \notin StrictSubsetOrdering(S)
  <2> HIDE DEF T
  <2> QED
    BY <1>3, FS_StrictSubsetOrderingWellFounded, WFMin
<1>5. PICK i \in S : x = {j \in S : j <= i}
  BY <1>4
<1>6. ASSUME NEW j \in S, ~(i <= j) PROVE FALSE
  <2> DEFINE y == {k \in S : k <= j}
  <2>1. y \in T /\ x \in SUBSET S /\ y \in SUBSET S
    BY <1>5
  <2>2. i \in Int /\ j \in Int /\ \A k \in S : k \in Int
    OBVIOUS
  <2>3. \A k \in S : k <= j => k <= i
    BY <1>6, <2>2
  <2>4. y \subseteq x /\ i \in x /\ i \notin y
    <3>1. y \subseteq x
      BY <1>5, <2>3
    <3>2. i \in x
      BY <1>5, <2>2
    <3>3. i \notin y
      BY <1>6
    <3> QED
      BY <3>1, <3>2, <3>3
  <2>5. <<y, x>> \in StrictSubsetOrdering(S)
    <3> HIDE DEF y
    <3> QED
      BY <2>1, <2>4 DEF StrictSubsetOrdering
  <2> QED
    BY <1>4, <2>1, <2>5
<1> QED
  BY <1>6

LEMMA LastExists ==
  ASSUME NEW n \in Nat, NEW S \in SUBSET (1..n), S # {}
  PROVE  \E i \in S : \A j \in S : j <= i
<1> DEFINE R == {m \in 1..n : \E i \in S : m = n + 1 - i}
<1>1. R # {}
  <2>1. PICK i \in S : TRUE
    OBVIOUS
  <2>2. n + 1 - i \in R
    BY <2>1
  <2> QED
    BY <2>2
<1>2. PICK m \in R : \A k \in R : m <= k
  BY <1>1, FirstExists
<1>3. n + 1 - m \in S /\ m \in 1..n
  OBVIOUS
<1>4. ASSUME NEW j \in S PROVE j <= n + 1 - m
  <2>1. n + 1 - j \in R /\ j \in 1..n
    OBVIOUS
  <2>2. m <= n + 1 - j
    BY <1>2, <2>1
  <2> QED
    BY <1>3, <2>1, <2>2
<1> QED
  BY <1>3, <1>4

(* A search returns the first, or the last, of the positions it would stop   *)
(* at, and nullptr when there is none.                                       *)
LEMMA FirstOfMember ==
  ASSUME NEW n \in Nat, NEW S \in SUBSET (1..n)
  PROVE  IF S = {} THEN FirstOf(S) = 0
         ELSE FirstOf(S) \in S /\ \A j \in S : FirstOf(S) <= j
<1>1. CASE S = {}
  BY <1>1 DEF FirstOf
<1>2. CASE S # {}
  <2>1. \E i \in S : \A j \in S : i <= j
    BY <1>2, FirstExists
  <2>2. FirstOf(S) = CHOOSE i \in S : \A j \in S : i <= j
    BY <1>2 DEF FirstOf
  <2> QED
    BY <1>2, <2>1, <2>2
<1> QED
  BY <1>1, <1>2

LEMMA LastOfMember ==
  ASSUME NEW n \in Nat, NEW S \in SUBSET (1..n)
  PROVE  IF S = {} THEN LastOf(S) = 0
         ELSE LastOf(S) \in S /\ \A j \in S : j <= LastOf(S)
<1>1. CASE S = {}
  BY <1>1 DEF LastOf
<1>2. CASE S # {}
  <2>1. \E i \in S : \A j \in S : j <= i
    BY <1>2, LastExists
  <2>2. LastOf(S) = CHOOSE i \in S : \A j \in S : j <= i
    BY <1>2 DEF LastOf
  <2> QED
    BY <1>2, <2>1, <2>2
<1> QED
  BY <1>1, <1>2

LEMMA FirstOfSingleton ==
  ASSUME NEW x \in Int
  PROVE  FirstOf({x}) = x
<1>1. \E i \in {x} : \A j \in {x} : i <= j
  OBVIOUS
<1>2. FirstOf({x}) = CHOOSE i \in {x} : \A j \in {x} : i <= j
  BY DEF FirstOf
<1> QED
  BY <1>1, <1>2

(* Where the operations leave the entries of a list.                         *)
LEMMA RewrittenShape ==
  ASSUME NEW E, NEW n \in Nat, NEW f \in [1..n -> E]
  PROVE  f \in Seq(E) /\ Len(f) = n
  OBVIOUS

LEMMA PushedFrontShape ==
  ASSUME NEW E, NEW items \in Seq(E), NEW p \in E, NEW max \in Nat \ {0},
         Len(items) <= max
  PROVE  /\ PushedFront(items, p, max) \in Seq(E)
         /\ Len(PushedFront(items, p, max))
              = IF Len(items) = max THEN max ELSE Len(items) + 1
         /\ PushedFront(items, p, max)[1] = p
         /\ \A i \in 2..Len(PushedFront(items, p, max)) :
              PushedFront(items, p, max)[i] = items[i - 1]
<1> DEFINE rest == IF Len(items) = max THEN SubSeq(items, 1, max - 1) ELSE items
           n    == IF Len(items) = max THEN max - 1 ELSE Len(items)
<1>1. rest \in Seq(E) /\ Len(rest) = n /\ \A i \in 1..n : rest[i] = items[i]
  OBVIOUS
<1>2. PushedFront(items, p, max) = <<p>> \o rest
  BY DEF PushedFront
<1>3. n \in Nat /\ n + 1 = IF Len(items) = max THEN max ELSE Len(items) + 1
  OBVIOUS
<1> HIDE DEF rest, n
<1>4. <<p>> \in Seq(E) /\ Len(<<p>>) = 1 /\ <<p>>[1] = p
  OBVIOUS
<1> DEFINE u == <<p>>
           all == u \o rest
<1> HIDE DEF u
<1>5. u \in Seq(E) /\ Len(u) = 1 /\ u[1] = p
  BY <1>4 DEF u
<1>6. /\ all \in Seq(E) /\ Len(all) = n + 1 /\ all[1] = p
      /\ \A i \in 2..(n + 1) : all[i] = rest[i - 1]
  <2>0. rest \in Seq(E) /\ u \in Seq(E)
    BY <1>1, <1>5
  <2>1. /\ all \in Seq(E) /\ Len(all) = Len(u) + Len(rest)
        /\ \A i \in 1..(Len(u) + Len(rest)) :
             all[i] = IF i <= Len(u) THEN u[i] ELSE rest[i - Len(u)]
    BY <2>0, ConcatProperties
  <2> HIDE DEF all
  <2> QED
    BY <1>1, <1>3, <1>5, <2>1
<1>7. all = PushedFront(items, p, max)
  BY <1>2 DEF u
<1>8. \A i \in 2..(n + 1) : rest[i - 1] = items[i - 1]
  BY <1>1, <1>3
<1> HIDE DEF all
<1> QED
  BY <1>3, <1>6, <1>7, <1>8

LEMMA PushedShape ==
  ASSUME NEW E, NEW items \in Seq(E), NEW p \in E, NEW max \in Nat \ {0},
         Len(items) <= max
  PROVE  /\ Pushed(items, p, max) \in Seq(E)
         /\ Len(Pushed(items, p, max)) = IF Len(items) = max THEN max ELSE Len(items) + 1
         /\ \A i \in 1..Len(Pushed(items, p, max)) :
              Pushed(items, p, max)[i] =
                IF i = Len(Pushed(items, p, max)) THEN p
                ELSE IF Len(items) = max THEN items[i + 1] ELSE items[i]
<1>1. CASE Len(items) = max
  <2> DEFINE rest == Tail(items)
  <2>1. rest \in Seq(E) /\ Len(rest) = max - 1 /\ \A i \in 1..(max - 1) : rest[i] = items[i + 1]
    BY <1>1
  <2>2. Pushed(items, p, max) = Append(rest, p)
    BY <1>1 DEF Pushed
  <2> HIDE DEF rest
  <2>3. /\ Append(rest, p) \in Seq(E) /\ Len(Append(rest, p)) = max
        /\ \A i \in 1..max : Append(rest, p)[i] = IF i = max THEN p ELSE rest[i]
    BY <2>1
  <2> QED
    BY <1>1, <2>1, <2>2, <2>3
<1>2. CASE Len(items) # max
  <2>1. Pushed(items, p, max) = Append(items, p)
    BY <1>2 DEF Pushed
  <2> QED
    BY <1>2, <2>1
<1> QED
  BY <1>1, <1>2

LEMMA RemovedAtShape ==
  ASSUME NEW E, NEW items \in Seq(E), NEW k \in 1..Len(items)
  PROVE  /\ RemovedAt(items, k) \in Seq(E)
         /\ Len(RemovedAt(items, k)) = Len(items) - 1
         /\ \A i \in 1..(Len(items) - 1) :
              RemovedAt(items, k)[i] = IF i < k THEN items[i] ELSE items[i + 1]
<1> DEFINE n == Len(items)
           a == SubSeq(items, 1, k - 1)
           b == SubSeq(items, k + 1, n)
<1>1. n \in Nat /\ k \in 1..n
  OBVIOUS
<1>2. a \in Seq(E) /\ Len(a) = k - 1 /\ \A i \in 1..(k - 1) : a[i] = items[i]
  OBVIOUS
<1>3. b \in Seq(E) /\ Len(b) = n - k /\ \A i \in 1..(n - k) : b[i] = items[k + i]
  OBVIOUS
<1>4. RemovedAt(items, k) = a \o b
  BY DEF RemovedAt
<1> HIDE DEF n, a, b
<1>5. /\ a \o b \in Seq(E) /\ Len(a \o b) = Len(a) + Len(b)
      /\ \A i \in 1..(Len(a) + Len(b)) : (a \o b)[i] = IF i <= Len(a) THEN a[i] ELSE b[i - Len(a)]
  BY <1>2, <1>3, ConcatProperties
<1> DEFINE all == a \o b
<1> HIDE DEF all
<1>6. /\ all \in Seq(E) /\ Len(all) = n - 1
      /\ \A i \in 1..(n - 1) : all[i] = IF i <= k - 1 THEN a[i] ELSE b[i - (k - 1)]
  <2>1. (k - 1) + (n - k) = n - 1
    BY <1>1
  <2> QED
    BY <1>2, <1>3, <1>5, <2>1 DEF all
<1>7. ASSUME NEW i \in 1..(n - 1) PROVE all[i] = IF i < k THEN items[i] ELSE items[i + 1]
  <2>1. CASE i < k
    BY <1>1, <1>2, <1>6, <2>1
  <2>2. CASE i >= k
    <3>1. i - (k - 1) \in 1..(n - k) /\ k + (i - (k - 1)) = i + 1
      BY <1>1, <2>2
    <3>2. all[i] = b[i - (k - 1)]
      BY <1>1, <1>6, <2>2
    <3>3. \A j \in 1..(n - k) : b[j] = items[k + j]
      BY <1>3
    <3> QED
      BY <1>1, <2>2, <3>1, <3>2, <3>3
  <2> QED
    BY <1>1, <2>1, <2>2
<1> QED
  BY <1>4, <1>6, <1>7 DEF all, n
==============================================================================

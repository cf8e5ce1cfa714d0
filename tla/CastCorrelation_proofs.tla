----------------------- MODULE CastCorrelation_proofs -----------------------
(***************************************************************************)
(* Which attempt a server result belongs to, for every set of spells, every  *)
(* capacity of the history and any number of attempts.                       *)
(***************************************************************************)
EXTENDS CastCorrelation, CastDeque_proofs

(* The entry of an attempt, while the history still holds it.                *)
Held(a) == a \in Made /\ nextId - a <= Len(history)
At(a)   == history[nextId - a]

(* An entry is numbered by its distance from the front ...                   *)
Numbered ==
  \A i \in 1..Len(history) :
    history[i].castId = nextId - i /\ history[i].spellId = spellOf[nextId - i]

(* ... a scope ends before those around it, and no entry outlives its scope. *)
ScopesFit ==
  /\ \A i, j \in 1..Len(scopes) : i < j => scopes[j] < scopes[i]
  /\ \A i \in 1..Len(scopes) : Held(scopes[i])

(* An entry nothing was sent for was never touched by the fallback.          *)
FreshPlain ==
  \A a \in Made : Held(a) /\ At(a).castResult = "WAITING_FOR_CAST" => ~At(a).ambiguous

(* The attempt the client wants a click for is not sent, and out of scope.   *)
TargetOpen ==
  targeting # 0 =>
    /\ targeting \notin unanswered
    /\ \A i \in 1..Len(scopes) : scopes[i] # targeting
    /\ history # <<>>
    /\ Held(targeting) => At(targeting).castResult = "WAITING_FOR_CAST"

(* WaitingIsInFlight, with the entries named by their attempts.              *)
IdsWaiting(h, n, of, s) ==
  {a \in 1..(n - 1) : n - a <= Len(h) /\ of[a] = s /\ IsWaiting(h[n - a])}
WaitingIds(s) == IdsWaiting(history, nextId, spellOf, s)
Counted ==
  \A s \in Spells \ (tombstones \union muddled) :
    /\ Cardinality(WaitingIds(s)) = Cardinality(InFlight(s))
    /\ \A a \in WaitingIds(s) : ~At(a).ambiguous => a \in unanswered

(* An attempt that was alone of its spell so far has the one exact entry.    *)
AloneKept ==
  \A a \in unanswered \ overlapped :
    spellOf[a] \notin tombstones \union muddled =>
      /\ InFlight(spellOf[a]) = {a}
      /\ Held(a) /\ IsWaiting(At(a)) /\ ~At(a).ambiguous

(* The identity a result carries to its failure is right, and its entry is   *)
(* settled and exact for as long as the history holds it.                    *)
ResultTrue ==
  result.phase # "none" =>
    result.id \in {0, result.attempt} \/ spellOf[result.attempt] \in muddled
ResultSettled ==
  result.phase # "none" /\ Held(result.id) =>
    /\ ~At(result.id).ambiguous
    /\ At(result.id).castResult \in {"SERVER_SUCCESS", "SERVER_FAILURE"}

ToldKept == told = Nothing \/ told.attempt \in Made

IInv ==
  /\ TypeOK /\ Numbered /\ ScopesFit /\ FreshPlain /\ TargetOpen
  /\ Counted /\ AloneKept /\ ResultTrue /\ ResultSettled /\ ToldKept
  /\ ExactOrNone /\ AloneIsIdentified
------------------------------------------------------------------------------
LEMMA SeqOfMore ==
  ASSUME NEW S, NEW T, S \subseteq T, NEW q \in Seq(S)
  PROVE  q \in Seq(T)
  OBVIOUS

(* Counting the waiting entries by position or by attempt is the same.       *)
LEMMA CountById ==
  ASSUME NEW h, Len(h) \in Nat, NEW n \in Nat, Len(h) <= n - 1, NEW of, NEW s,
         \A i \in 1..Len(h) : h[i].spellId = of[n - i]
  PROVE  /\ IsFiniteSet(Waiting(h, s)) /\ IsFiniteSet(IdsWaiting(h, n, of, s))
         /\ Cardinality(Waiting(h, s)) = Cardinality(IdsWaiting(h, n, of, s))
<1> DEFINE P == Waiting(h, s)
           A == IdsWaiting(h, n, of, s)
           f == [i \in P |-> n - i]
<1>1. P = {i \in 1..Len(h) : of[n - i] = s /\ IsWaiting(h[i])}
  BY DEF Waiting, WithSpellId
<1>2. A = {a \in 1..(n - 1) : n - a <= Len(h) /\ of[a] = s /\ IsWaiting(h[n - a])}
  BY DEF IdsWaiting
<1>3. IsFiniteSet(P)
  <2>1. IsFiniteSet(1..Len(h))
    BY FS_Interval
  <2>2. P \in SUBSET (1..Len(h))
    BY <1>1
  <2> QED
    BY <2>1, <2>2, FS_Subset
<1> HIDE DEF P, A
<1>4. f \in Bijection(P, A)
  <2>1. ASSUME NEW i \in P PROVE f[i] \in A /\ n - f[i] = i
    <3>1. /\ i \in 1..Len(h) /\ n - i \in 1..(n - 1) /\ n - (n - i) = i
          /\ of[n - i] = s /\ IsWaiting(h[i])
      BY <1>1
    <3>2. n - i \in A
      BY <1>2, <3>1
    <3> QED
      BY <3>1, <3>2
  <2>2. ASSUME NEW a \in A PROVE n - a \in P /\ f[n - a] = a
    <3>1. /\ a \in 1..(n - 1) /\ n - a \in 1..Len(h) /\ n - (n - a) = a
          /\ of[a] = s /\ IsWaiting(h[n - a])
      BY <1>2
    <3>2. n - a \in P
      BY <1>1, <3>1
    <3> QED
      BY <3>1, <3>2
  <2>3. f \in [P -> A]
    BY <2>1
  <2> HIDE DEF f
  <2>4. \A i, j \in P : f[i] = f[j] => i = j
    BY <2>1
  <2>5. \A a \in A : \E i \in P : f[i] = a
    BY <2>2
  <2> QED
    BY <2>3, <2>4, <2>5 DEF Bijection, Injection, Surjection, IsInjective
<1>5. ExistsBijection(P, A)
  BY <1>4 DEF ExistsBijection
<1>6. IsFiniteSet(A) /\ Cardinality(A) = Cardinality(P)
  BY <1>3, <1>5, FS_Bijection
<1> QED
  BY <1>3, <1>6 DEF P, A

(* A search by attempt finds the entry of the attempt.                       *)
LEMMA FoundById ==
  ASSUME TypeOK, Numbered, NEW c \in Ids
  PROVE  /\ Len(history) \in 0..(nextId - 1)
         /\ FindCastId(history, c) = IF Held(c) THEN nextId - c ELSE 0
         /\ Held(c) => nextId - c \in 1..Len(history) /\ At(c) \in Entry
                       /\ At(c).castId = c /\ At(c).spellId = spellOf[c]
<1>1. Len(history) \in Nat /\ nextId \in Nat \ {0}
      /\ \A i \in 1..Len(history) : history[i] \in Entry
  BY DEF TypeOK
<1>2. \A i \in 1..Len(history) : nextId - i \in Made
  BY <1>1 DEF Numbered, Entry
<1>3. Len(history) \in 0..(nextId - 1)
  <2>1. CASE Len(history) = 0
    BY <1>1, <2>1
  <2>2. CASE Len(history) # 0
    BY <1>1, <1>2, <2>2 DEF Made
  <2> QED
    BY <2>1, <2>2
<1>4. CASE Held(c)
  <2>1. nextId - c \in 1..Len(history) /\ nextId - (nextId - c) = c
    BY <1>1, <1>4 DEF Held, Made
  <2>2. WithCastId(history, c) = {nextId - c}
    BY <1>1, <2>1 DEF WithCastId, Numbered
  <2>3. FirstOf({nextId - c}) = nextId - c
    BY <1>1, <2>1, FirstOfSingleton
  <2> QED
    BY <1>1, <1>3, <1>4, <2>1, <2>2, <2>3 DEF FindCastId, At, Numbered
<1>5. CASE ~Held(c)
  <2>1. WithCastId(history, c) = {}
    BY <1>1, <1>2, <1>5 DEF WithCastId, Numbered, Held, Ids, Made
  <2> QED
    BY <1>3, <1>5, <2>1 DEF FindCastId, FirstOf
<1> QED
  BY <1>4, <1>5

(* A new attempt moves every entry back by one, and the history may lose the *)
(* oldest.                                                                   *)
LEMMA CastSpellEntries ==
  ASSUME IInv, NEW s \in Spells, CastSpell(s)
  PROVE  /\ nextId \in Nat \ {0} /\ nextId' = nextId + 1
         /\ history' \in Seq(Entry') /\ Len(history') \in 1..HistorySize
         /\ Len(history') <= Len(history) + 1
         /\ history'[1] = [castId |-> nextId, spellId |-> s,
                           castResult |-> "WAITING_FOR_CAST", ambiguous |-> FALSE]
         /\ \A i \in 2..Len(history') : history'[i] = history[i - 1]
         /\ \A a \in Made : Held(a)' => Held(a) /\ At(a)' = At(a)
         /\ \A a \in Made : Held(a) /\ ~Held(a)' =>
              nextId - a = HistorySize /\ Len(history) = HistorySize
<1> DEFINE p == [castId |-> nextId, spellId |-> s,
                 castResult |-> "WAITING_FOR_CAST", ambiguous |-> FALSE]
<1>1. /\ nextId \in Nat \ {0} /\ nextId' = nextId + 1
      /\ HistorySize \in Nat \ {0}
      /\ history' = PushedFront(history, p, HistorySize)
      /\ Len(history) \in Nat /\ Len(history) <= HistorySize /\ history \in Seq(Entry)
  BY SizeAssumption, BoundAssumption DEF IInv, TypeOK, CastSpell
<1>2. Entry \subseteq Entry' /\ p \in Entry'
  BY <1>1 DEF Entry, Made, CastResults
<1>3. history \in Seq(Entry')
  BY <1>1, <1>2, SeqOfMore
<1> HIDE DEF p
<1>4. /\ history' \in Seq(Entry')
      /\ Len(history') = IF Len(history) = HistorySize THEN HistorySize ELSE Len(history) + 1
      /\ history'[1] = p
      /\ \A i \in 2..Len(history') : history'[i] = history[i - 1]
  <2>1. PICK E : E = Entry'
    OBVIOUS
  <2>2. p \in E /\ history \in Seq(E)
    BY <1>2, <1>3, <2>1
  <2> DEFINE q == PushedFront(history, p, HistorySize)
  <2>3. /\ q \in Seq(E)
        /\ Len(q) = IF Len(history) = HistorySize THEN HistorySize ELSE Len(history) + 1
        /\ q[1] = p
        /\ \A i \in 2..Len(q) : q[i] = history[i - 1]
    BY <1>1, <2>2, PushedFrontShape
  <2> HIDE DEF q
  <2>4. history' = q
    BY <1>1 DEF q
  <2> QED
    BY <2>1, <2>3, <2>4
<1>5. Len(history') \in 1..HistorySize /\ Len(history') <= Len(history) + 1
  BY <1>1, <1>4
<1>6. ASSUME NEW a \in Made, Held(a)' PROVE Held(a) /\ At(a)' = At(a)
  <2>1. nextId + 1 - a \in 2..Len(history') /\ (nextId + 1 - a) - 1 = nextId - a
    <3>1. a \in 1..(nextId - 1) /\ nextId + 1 - a <= Len(history')
      BY <1>1, <1>6 DEF Held, Made
    <3> QED
      BY <1>1, <1>5, <3>1
  <2>2. history'[nextId + 1 - a] = history[nextId - a]
    BY <1>4, <2>1
  <2> QED
    BY <1>1, <1>5, <1>6, <2>1, <2>2 DEF Held, At, Made
<1>7. ASSUME NEW a \in Made, Held(a), ~Held(a)'
      PROVE nextId - a = HistorySize /\ Len(history) = HistorySize
  BY <1>1, <1>4, <1>7 DEF Held, Made
<1> QED
  BY <1>1, <1>4, <1>5, <1>6, <1>7 DEF p

(* The other actions write entries where they are.                           *)
LEMMA InPlace ==
  ASSUME IInv, nextId' = nextId, Len(history') = Len(history)
  PROVE  /\ Made' = Made /\ Ids' = Ids /\ Entry' = Entry
         /\ \A a : Held(a)' <=> Held(a)
         /\ \A a : At(a)' = history'[nextId - a]
  BY DEF Made, Ids, Entry, Held, At

(* BeginCast for the active attempt: its entry waits for the server now.     *)

(* The active attempt is in the history, so the fallback never runs for it.  *)
LEMMA ActiveFound ==
  ASSUME IInv, scopes # <<>>
  PROVE  /\ Head(scopes) \in Made /\ Held(Head(scopes))
         /\ FindCastId(history, Head(scopes)) = nextId - Head(scopes)
         /\ nextId - Head(scopes) \in 1..Len(history)
         /\ Len(scopes) \in Nat \ {0} /\ Head(scopes) = scopes[1]
<1>1. scopes \in Seq(Made)
  BY DEF IInv, TypeOK
<1>2. Len(scopes) \in Nat \ {0} /\ Head(scopes) = scopes[1] /\ Head(scopes) \in Made
  BY <1>1
<1>3. Held(Head(scopes))
  BY <1>2 DEF IInv, ScopesFit
<1>4. Head(scopes) \in Ids
  BY <1>2 DEF Ids, Made
<1> QED
  BY <1>2, <1>3, <1>4, FoundById DEF IInv

(* BeginCast for the active attempt: its entry waits for the server now.     *)
LEMMA BeginActive ==
  ASSUME IInv, scopes # <<>>, BeginCast(spellOf[Head(scopes)]), nextId' = nextId
  PROVE  /\ Len(history') = Len(history) /\ history' \in Seq(Entry)
         /\ \A a \in Made : Held(a) =>
              At(a)' = IF a = Head(scopes)
                       THEN [At(a) EXCEPT !.castResult = "WAITING_FOR_SERVER"]
                       ELSE At(a)
<1> DEFINE k == nextId - Head(scopes)
<1>1. k \in 1..Len(history) /\ FindCastId(history, Head(scopes)) = k
      /\ Head(scopes) \in Made
  BY ActiveFound
<1>2. history' = [i \in 1..Len(history) |->
                    IF i = k THEN [history[i] EXCEPT !.castResult = "WAITING_FOR_SERVER",
                                                     !.ambiguous = @ \/ k = 0]
                    ELSE history[i]]
  <2>1. k # 0
    BY <1>1
  <2> HIDE DEF k
  <2> QED
    BY <1>1, <2>1 DEF BeginCast
<1> HIDE DEF k
<1>3. history \in Seq(Entry) /\ Len(history) \in Nat
      /\ \A i \in 1..Len(history) : history[i] \in Entry
  BY DEF IInv, TypeOK
<1>4. \A i \in 1..Len(history) :
        /\ [history[i] EXCEPT !.castResult = "WAITING_FOR_SERVER", !.ambiguous = @ \/ k = 0]
             = [history[i] EXCEPT !.castResult = "WAITING_FOR_SERVER"]
        /\ [history[i] EXCEPT !.castResult = "WAITING_FOR_SERVER"] \in Entry
  <2> SUFFICES ASSUME NEW p \in Entry
               PROVE /\ [p EXCEPT !.castResult = "WAITING_FOR_SERVER",
                                  !.ambiguous = @ \/ k = 0]
                          = [p EXCEPT !.castResult = "WAITING_FOR_SERVER"]
                     /\ [p EXCEPT !.castResult = "WAITING_FOR_SERVER"] \in Entry
    BY <1>3
  <2>1. (p.ambiguous \/ k = 0) = p.ambiguous
    <3>1. k # 0
      BY <1>1, <1>3
    <3>2. p.ambiguous \in BOOLEAN
      BY DEF Entry
    <3> QED
      BY <3>1, <3>2
  <2>2. [p EXCEPT !.castResult = "WAITING_FOR_SERVER", !.ambiguous = p.ambiguous]
          = [p EXCEPT !.castResult = "WAITING_FOR_SERVER"]
    BY DEF Entry
  <2>3. [p EXCEPT !.castResult = "WAITING_FOR_SERVER"] \in Entry
    BY DEF Entry, CastResults
  <2>4. [p EXCEPT !.castResult = "WAITING_FOR_SERVER", !.ambiguous = @ \/ k = 0]
          = [p EXCEPT !.castResult = "WAITING_FOR_SERVER", !.ambiguous = p.ambiguous]
    BY <2>1
  <2> QED
    BY <2>2, <2>3, <2>4
<1>5. Len(history') = Len(history) /\ history' \in Seq(Entry)
  <2>1. history' \in [1..Len(history) -> Entry]
    BY <1>2, <1>3, <1>4
  <2> QED
    BY <1>3, <2>1, RewrittenShape
<1>6. ASSUME NEW a \in Made, Held(a)
      PROVE At(a)' = IF a = Head(scopes)
                     THEN [At(a) EXCEPT !.castResult = "WAITING_FOR_SERVER"]
                     ELSE At(a)
  <2>1. nextId - a \in 1..Len(history) /\ nextId \in Nat
    BY <1>3, <1>6 DEF Held, Made, IInv, TypeOK
  <2>2. nextId - a = k <=> a = Head(scopes)
    BY <1>1, <2>1 DEF k, Made
  <2> QED
    BY <1>2, <1>4, <2>1, <2>2 DEF At
<1> QED
  BY <1>5, <1>6

(* BeginCast outside every scope: the newest entry, which is never exact.    *)
LEMMA BeginNewest ==
  ASSUME IInv, scopes = <<>>, history # <<>>, NEW s, BeginCast(s), nextId' = nextId
  PROVE  /\ Len(history') = Len(history) /\ history' \in Seq(Entry)
         /\ nextId - 1 \in Made /\ Held(nextId - 1)
         /\ \A a \in Made : Held(a) =>
              At(a)' = IF a = nextId - 1
                       THEN [At(a) EXCEPT !.castResult = "WAITING_FOR_SERVER",
                                          !.ambiguous = TRUE]
                       ELSE At(a)
<1>1. history \in Seq(Entry) /\ Len(history) \in Nat \ {0}
      /\ \A i \in 1..Len(history) : history[i] \in Entry
  BY DEF IInv, TypeOK
<1>2. history' = [i \in 1..Len(history) |->
                    IF i = 1 THEN [history[i] EXCEPT !.castResult = "WAITING_FOR_SERVER",
                                                     !.ambiguous = @ \/ TRUE]
                    ELSE history[i]]
  BY DEF BeginCast
<1>3. \A i \in 1..Len(history) :
        /\ [history[i] EXCEPT !.castResult = "WAITING_FOR_SERVER", !.ambiguous = @ \/ TRUE]
             = [history[i] EXCEPT !.castResult = "WAITING_FOR_SERVER", !.ambiguous = TRUE]
        /\ [history[i] EXCEPT !.castResult = "WAITING_FOR_SERVER", !.ambiguous = TRUE] \in Entry
  BY <1>1 DEF Entry, CastResults
<1>4. Len(history') = Len(history) /\ history' \in Seq(Entry)
  <2>1. history' \in [1..Len(history) -> Entry]
    BY <1>1, <1>2, <1>3
  <2> QED
    BY <1>1, <2>1, RewrittenShape
<1>5. Len(history) <= nextId - 1 /\ nextId \in Nat
  <2>1. 0 \in Ids
    BY DEF Ids, IInv, TypeOK
  <2> QED
    BY <2>1, FoundById DEF IInv, TypeOK
<1>6. nextId - 1 \in Made /\ Held(nextId - 1)
  BY <1>1, <1>5 DEF Made, Held
<1>7. ASSUME NEW a \in Made, Held(a)
      PROVE At(a)' = IF a = nextId - 1
                     THEN [At(a) EXCEPT !.castResult = "WAITING_FOR_SERVER",
                                        !.ambiguous = TRUE]
                     ELSE At(a)
  <2>1. nextId - a \in 1..Len(history)
    BY <1>1, <1>5, <1>7 DEF Held, Made
  <2>2. nextId - a = 1 <=> a = nextId - 1
    BY <1>5, <2>1 DEF Made
  <2> QED
    BY <1>2, <1>3, <2>1, <2>2 DEF At
<1> QED
  BY <1>4, <1>6, <1>7

(* The waiting entries of a spell, by attempt.                               *)
LEMMA WaitingById ==
  ASSUME TypeOK, Numbered, NEW s
  PROVE  /\ IsFiniteSet(Waiting(history, s)) /\ IsFiniteSet(WaitingIds(s))
         /\ Cardinality(Waiting(history, s)) = Cardinality(WaitingIds(s))
         /\ WaitingIds(s) = {a \in Made : Held(a) /\ spellOf[a] = s /\ IsWaiting(At(a))}
         /\ \A i \in Waiting(history, s) : /\ i \in 1..Len(history)
                                           /\ nextId - i \in WaitingIds(s)
                                           /\ history[i].castId = nextId - i
                                           /\ At(nextId - i) = history[i]
         /\ \A a \in WaitingIds(s) : nextId - a \in Waiting(history, s)
<1>1. Len(history) \in 0..(nextId - 1) /\ nextId \in Nat
  <2>1. 0 \in Ids
    BY DEF Ids, TypeOK
  <2> QED
    BY <2>1, FoundById DEF TypeOK
<1>2. \A i \in 1..Len(history) : history[i].spellId = spellOf[nextId - i]
  BY DEF Numbered
<1>3. /\ IsFiniteSet(Waiting(history, s)) /\ IsFiniteSet(WaitingIds(s))
      /\ Cardinality(Waiting(history, s)) = Cardinality(WaitingIds(s))
  <2>1. Len(history) \in Nat /\ Len(history) <= nextId - 1
    BY <1>1
  <2> HIDE DEF WaitingIds
  <2>2. /\ IsFiniteSet(Waiting(history, s))
        /\ IsFiniteSet(IdsWaiting(history, nextId, spellOf, s))
        /\ Cardinality(Waiting(history, s))
             = Cardinality(IdsWaiting(history, nextId, spellOf, s))
    BY <1>1, <1>2, <2>1, CountById
  <2> QED
    BY <2>2 DEF WaitingIds
<1>4. WaitingIds(s) = {a \in Made : Held(a) /\ spellOf[a] = s /\ IsWaiting(At(a))}
  BY DEF WaitingIds, IdsWaiting, Made, Held, At
<1>5. ASSUME NEW i \in Waiting(history, s)
      PROVE /\ i \in 1..Len(history) /\ nextId - i \in WaitingIds(s)
            /\ history[i].castId = nextId - i /\ At(nextId - i) = history[i]
  <2>1. i \in 1..Len(history) /\ spellOf[nextId - i] = s /\ IsWaiting(history[i])
    BY <1>2 DEF Waiting, WithSpellId
  <2>2. nextId - (nextId - i) = i /\ nextId - i \in 1..(nextId - 1)
    BY <1>1, <2>1
  <2> QED
    BY <2>1, <2>2 DEF WaitingIds, IdsWaiting, Numbered, At
<1>6. ASSUME NEW a \in WaitingIds(s) PROVE nextId - a \in Waiting(history, s)
  <2>1. a \in 1..(nextId - 1) /\ nextId - a <= Len(history) /\ spellOf[a] = s
        /\ IsWaiting(history[nextId - a])
    BY DEF WaitingIds, IdsWaiting
  <2>2. nextId - a \in 1..Len(history) /\ nextId - (nextId - a) = a
    BY <1>1, <2>1
  <2> QED
    BY <1>2, <2>1, <2>2 DEF Waiting, WithSpellId
<1> QED
  BY <1>3, <1>4, <1>5, <1>6

(* The identity an answer is given: the only waiting attempt of the spell,   *)
(* if its entry is exact and no tombstone is there for the spell.            *)
Identity(s) == IdAt(FindUniqueWaiting(history, tombstones, s))

LEMMA IdentityFound ==
  ASSUME TypeOK, Numbered, NEW s
  PROVE  /\ Identity(s) # 0 =>
              /\ WaitingIds(s) = {Identity(s)} /\ ~At(Identity(s)).ambiguous
              /\ s \notin tombstones
         /\ \A a \in Made : /\ WaitingIds(s) = {a} /\ ~At(a).ambiguous
                            /\ s \notin tombstones
                            => Identity(s) = a
         /\ Identity(s) \in Ids
<1> DEFINE W == Waiting(history, s)
           exact == s \notin tombstones /\ \E i \in W : W = {i} /\ ~history[i].ambiguous
<1>1. FindUniqueWaiting(history, tombstones, s) = IF exact THEN FirstOf(W) ELSE 0
  BY DEF FindUniqueWaiting
<1>2. nextId \in Nat \ {0}
  BY DEF TypeOK
<1>3. CASE exact
  <2>1. PICK i \in W : W = {i} /\ ~history[i].ambiguous
    BY <1>3
  <2>2. i \in 1..Len(history) /\ Len(history) \in Nat
    BY <2>1, WaitingById DEF TypeOK
  <2>3. FirstOf(W) = i
    BY <2>1, <2>2, FirstOfSingleton
  <2>4. /\ Identity(s) = history[i].castId /\ history[i].castId = nextId - i
        /\ At(nextId - i) = history[i] /\ nextId - i \in WaitingIds(s)
    BY <1>1, <1>3, <2>1, <2>2, <2>3, WaitingById DEF Identity, IdAt
  <2>5. \A a \in WaitingIds(s) : a = nextId - i
    <3>1. \A a \in WaitingIds(s) : nextId - a = i /\ a \in Int
      BY <2>1, WaitingById DEF Made
    <3> QED
      BY <1>2, <2>2, <3>1
  <2>6. WaitingIds(s) = {nextId - i}
    BY <2>4, <2>5
  <2>7. nextId - i \in Ids
    BY <2>4, WaitingById DEF Made, Ids
  <2> QED
    BY <1>3, <2>1, <2>4, <2>6, <2>7
<1>4. CASE ~exact
  <2>1. Identity(s) = 0 /\ 0 \in Ids
    BY <1>1, <1>2, <1>4 DEF Identity, IdAt, Ids
  <2>2. ASSUME NEW a \in Made, WaitingIds(s) = {a}, ~At(a).ambiguous, s \notin tombstones
        PROVE FALSE
    <3>1. nextId - a \in W /\ At(a) = history[nextId - a]
      BY <2>2, WaitingById DEF At
    <3>2. \A i \in W : nextId - i = a /\ i \in 1..Len(history)
      BY <2>2, WaitingById
    <3>3. \A i \in W : i = nextId - a
      <4>1. Len(history) \in Nat
        BY DEF TypeOK
      <4> QED
        BY <1>2, <3>2, <4>1
    <3>4. W = {nextId - a}
      BY <3>1, <3>3
    <3> QED
      BY <1>4, <2>2, <3>1, <3>4
  <2> QED
    BY <2>1, <2>2
<1> QED
  BY <1>3, <1>4

(* An answer marks the cohort of its spell and settles one of its entries.   *)
LEMMA CorrelateEntries ==
  ASSUME TypeOK, Numbered, NEW s, NEW i, NEW r \in CastResults, Made' = Made,
         nextId' = nextId, IF Waiting(history, s) = {} THEN i = 0 ELSE i \in Waiting(history, s),
         history' = SetResult(MarkAmbiguous(history, tombstones, s), i, r)
  PROVE  /\ Len(history') = Len(history) /\ history' \in Seq(Entry)
         /\ WaitingIds(s) # {} => nextId - i \in WaitingIds(s)
         /\ \A a \in Made : Held(a) =>
              /\ At(a)'.castId = At(a).castId /\ At(a)'.spellId = At(a).spellId
              /\ At(a)'.castResult = IF a \in WaitingIds(s) /\ a = nextId - i
                                     THEN r ELSE At(a).castResult
              /\ At(a).ambiguous => At(a)'.ambiguous
              /\ a \notin WaitingIds(s) \/ WaitingIds(s) = {a}
                   => At(a)'.ambiguous = At(a).ambiguous
              /\ a \in WaitingIds(s) /\ s \notin tombstones /\ WaitingIds(s) # {a}
                   => At(a)'.ambiguous
<1> DEFINE W == Waiting(history, s)
           all == s \notin tombstones /\ \E j, k \in W : j # k
           marked == MarkAmbiguous(history, tombstones, s)
           G(k) == IF all /\ k \in W THEN [history[k] EXCEPT !.ambiguous = TRUE] ELSE history[k]
           F(k) == IF k = i THEN [G(k) EXCEPT !.castResult = r] ELSE G(k)
<1>1. /\ history \in Seq(Entry) /\ Len(history) \in Nat /\ nextId \in Nat \ {0}
      /\ \A k \in 1..Len(history) : history[k] \in Entry
  BY DEF TypeOK
<1>2. W \subseteq 1..Len(history)
  BY WaitingById
<1>3. marked = [k \in 1..Len(history) |-> G(k)]
  <2>1. CASE all
    BY <2>1 DEF MarkAmbiguous
  <2>2. CASE ~all
    <3>1. marked = history
      BY <2>2 DEF MarkAmbiguous
    <3>2. history = [k \in 1..Len(history) |-> history[k]]
      BY <1>1
    <3> QED
      BY <2>2, <3>1, <3>2
  <2> QED
    BY <2>1, <2>2
<1>4. \A k \in 1..Len(history) : G(k) \in Entry /\ F(k) \in Entry
  BY <1>1 DEF Entry
<1>5. history' = [k \in 1..Len(history) |-> F(k)]
  <2> HIDE DEF G, marked
  <2>1. CASE i = 0
    BY <1>1, <1>3, <2>1 DEF SetResult, marked
  <2>2. CASE i # 0
    <3>1. history' = [marked EXCEPT ![i] = [@ EXCEPT !.castResult = r]]
      BY <2>2 DEF SetResult, marked
    <3> QED
      BY <1>3, <3>1
  <2> QED
    BY <2>1, <2>2
<1>6. Len(history') = Len(history) /\ history' \in Seq(Entry)
  <2>1. history' \in [1..Len(history) -> Entry]
    <3> HIDE DEF F, G
    <3> QED
      BY <1>4, <1>5
  <2> QED
    BY <1>1, <2>1, RewrittenShape
<1>7. WaitingIds(s) # {} => i \in W /\ nextId - i \in WaitingIds(s)
  <2>1. W = {} => WaitingIds(s) = {}
    BY WaitingById
  <2> QED
    BY <2>1, WaitingById
<1>8. ASSUME NEW a \in Made, Held(a)
      PROVE /\ nextId - a \in 1..Len(history)
            /\ nextId - a \in W <=> a \in WaitingIds(s)
            /\ i \in W => (nextId - a = i <=> a = nextId - i)
            /\ At(a)' = F(nextId - a) /\ At(a) = history[nextId - a]
  <2>1. nextId - a \in 1..Len(history) /\ nextId - (nextId - a) = a
    BY <1>1, <1>8 DEF Held, Made
  <2>2. nextId - a \in W <=> a \in WaitingIds(s)
    BY <2>1, WaitingById
  <2>3. i \in W => (nextId - a = i <=> a = nextId - i)
    BY <1>1, <1>2, <2>1
  <2>4. At(a)' = F(nextId - a)
    <3> HIDE DEF F
    <3> QED
      BY <1>5, <2>1 DEF At
  <2> QED
    BY <2>1, <2>2, <2>3, <2>4 DEF At
<1>9. ASSUME NEW a \in WaitingIds(s)
      PROVE (\E j, k \in W : j # k) <=> WaitingIds(s) # {a}
  <2>1. nextId - a \in W /\ a \in Made
    BY WaitingById
  <2>2. ASSUME NEW j \in W, NEW k \in W, j # k PROVE WaitingIds(s) # {a}
    <3>1. nextId - j \in WaitingIds(s) /\ nextId - k \in WaitingIds(s)
      BY WaitingById
    <3>2. nextId - j # nextId - k
      BY <1>1, <1>2, <2>2
    <3> QED
      BY <3>1, <3>2
  <2>3. ASSUME WaitingIds(s) # {a} PROVE \E j, k \in W : j # k
    <3>1. PICK b \in WaitingIds(s) : b # a
      BY <2>3
    <3>2. nextId - b \in W /\ b \in Made
      BY WaitingById
    <3>3. nextId - b # nextId - a
      BY <1>1, <2>1, <3>1, <3>2 DEF Made
    <3> QED
      BY <2>1, <3>2, <3>3
  <2> QED
    BY <2>2, <2>3
<1>10. ASSUME NEW a \in Made, Held(a)
       PROVE /\ At(a)'.castId = At(a).castId /\ At(a)'.spellId = At(a).spellId
             /\ At(a)'.castResult = IF a \in WaitingIds(s) /\ a = nextId - i
                                    THEN r ELSE At(a).castResult
             /\ At(a)'.ambiguous = IF all /\ a \in WaitingIds(s) THEN TRUE ELSE At(a).ambiguous
  <2> DEFINE k == nextId - a
  <2>1. k \in 1..Len(history) /\ history[k] \in Entry
    BY <1>1, <1>8, <1>10
  <2>2. k = i <=> a \in WaitingIds(s) /\ a = nextId - i
    <3>1. k = i => i \in W
      BY <1>2, <2>1
    <3> QED
      BY <1>7, <1>8, <1>10, <3>1
  <2>3. At(a)' = F(k) /\ At(a) = history[k] /\ (k \in W <=> a \in WaitingIds(s))
    BY <1>8, <1>10
  <2> HIDE DEF k, W, all
  <2> QED
    BY <2>1, <2>2, <2>3 DEF Entry
<1> QED
  BY <1>6, <1>7, <1>9, <1>10

------------------------------------------------------------------------------
LEMMA InitHolds == Init => IInv
<1> SUFFICES ASSUME Init PROVE IInv
  OBVIOUS
<1> USE SizeAssumption, BoundAssumption
<1>1. TypeOK
  BY DEF Init, TypeOK, Ids, Made, Entry, NoResult, Nothing, Attempts
<1>2. Numbered /\ ScopesFit /\ FreshPlain /\ TargetOpen
  BY DEF Init, Numbered, ScopesFit, FreshPlain, TargetOpen, Made, Held
<1>3. Counted
  <2>1. \A s \in Spells : WaitingIds(s) = {} /\ InFlight(s) = {}
    BY DEF Init, WaitingIds, IdsWaiting, InFlight
  <2> QED
    BY <2>1 DEF Counted
<1>4. AloneKept /\ ResultTrue /\ ResultSettled /\ ToldKept
  BY DEF Init, AloneKept, ResultTrue, ResultSettled, ToldKept, NoResult
<1>5. ExactOrNone /\ AloneIsIdentified
  BY DEF Init, ExactOrNone, AloneIsIdentified, Nothing
<1> QED
  BY <1>1, <1>2, <1>3, <1>4, <1>5 DEF IInv

(* The entry an answer settles.                                              *)
LEMMA SettledEntry ==
  ASSUME TypeOK, Numbered, NEW s, NEW success
  PROVE  LET i == IF success THEN FindOldestWaiting(MarkAmbiguous(history, tombstones, s), s)
                  ELSE FindNewestWaiting(MarkAmbiguous(history, tombstones, s), s)
         IN IF Waiting(history, s) = {} THEN i = 0 ELSE i \in Waiting(history, s)
<1> DEFINE W == Waiting(history, s)
           marked == MarkAmbiguous(history, tombstones, s)
<1>1. history \in Seq(Entry) /\ Len(history) \in Nat /\ W \subseteq 1..Len(history)
  BY WaitingById DEF TypeOK
<1>2. Waiting(marked, s) = W
  <2>1. CASE marked = history
    BY <2>1
  <2>2. CASE marked # history
    <3>1. marked = [k \in 1..Len(history) |->
                      IF k \in W THEN [history[k] EXCEPT !.ambiguous = TRUE] ELSE history[k]]
      BY <2>2 DEF MarkAmbiguous
    <3>2. \A k \in 1..Len(history) : history[k] \in Entry
      BY <1>1
    <3> HIDE DEF marked, W
    <3>3. /\ \A k \in 1..Len(history) : /\ marked[k].spellId = history[k].spellId
                                        /\ marked[k].castResult = history[k].castResult
      BY <3>1, <3>2 DEF Entry
    <3>4. Len(marked) = Len(history)
      <4>1. marked \in [1..Len(history) -> Entry]
        BY <3>1, <3>2 DEF Entry
      <4> QED
        BY <1>1, <4>1, RewrittenShape
    <3>5. Waiting(marked, s) = Waiting(history, s)
      BY <3>3, <3>4 DEF Waiting, WithSpellId, IsWaiting
    <3> QED
      BY <3>5 DEF W
  <2> QED
    BY <2>1, <2>2
<1>3. IF W = {} THEN FirstOf(W) = 0 /\ LastOf(W) = 0 ELSE FirstOf(W) \in W /\ LastOf(W) \in W
  BY <1>1, FirstOfMember, LastOfMember
<1> QED
  BY <1>2, <1>3 DEF FindOldestWaiting, FindNewestWaiting

(* What an answer writes.                                                    *)
LEMMA CastResultWrites ==
  ASSUME TypeOK, Numbered, NEW a \in unanswered, NEW success \in BOOLEAN, CastResult(a, success)
  PROVE  \E i, r :
           /\ r \in {"SERVER_SUCCESS", "SERVER_FAILURE"}
           /\ IF Waiting(history, spellOf[a]) = {} THEN i = 0 ELSE i \in Waiting(history, spellOf[a])
           /\ history' = SetResult(MarkAmbiguous(history, tombstones, spellOf[a]), i, r)
           /\ nextId' = nextId
<1> DEFINE m == MarkAmbiguous(history, tombstones, spellOf[a])
           i == IF success THEN FindOldestWaiting(m, spellOf[a]) ELSE FindNewestWaiting(m, spellOf[a])
           r == IF success THEN "SERVER_SUCCESS" ELSE "SERVER_FAILURE"
<1>1. IF Waiting(history, spellOf[a]) = {} THEN i = 0 ELSE i \in Waiting(history, spellOf[a])
  BY SettledEntry
<1>2. history' = SetResult(m, i, r) /\ nextId' = nextId
  BY DEF CastResult, Correlate
<1>3. r \in {"SERVER_SUCCESS", "SERVER_FAILURE"}
  OBVIOUS
<1> HIDE DEF i, r
<1>4. WITNESS i, r
<1> QED
  BY <1>1, <1>2, <1>3

LEMMA TypeStep ==
  ASSUME TypeOK, Numbered, IInv, [Next]_vars
  PROVE  TypeOK'
<1> USE SizeAssumption, BoundAssumption
<1>1. ASSUME NEW s \in Spells, CastSpell(s) PROVE TypeOK'
  <2>1. /\ nextId \in Nat \ {0} /\ nextId' = nextId + 1 /\ nextId <= MaxAttempts
        /\ Len(scopes) < MaxNesting
    BY <1>1 DEF CastSpell, Nests, TypeOK
  <2>2. history' \in Seq(Entry') /\ Len(history') <= HistorySize
    <3>1. history' \in Seq(Entry') /\ Len(history') \in 1..HistorySize
      BY <1>1, CastSpellEntries
    <3> QED
      BY <3>1
  <2>3. tombstones' \subseteq Spells
    <3>1. HistorySize = Len(history) => history[HistorySize] \in Entry
      BY DEF TypeOK
    <3> QED
      BY <1>1, <3>1 DEF TypeOK, CastSpell, EvictionTombstones, Entry
  <2>4. Made \subseteq Made' /\ Ids \subseteq Ids' /\ nextId \in Made' /\ nextId \in Attempts
    BY <2>1 DEF Made, Ids, Attempts
  <2>5. scopes' \in Seq(Made') /\ Len(scopes') <= MaxNesting
    <3>1. PICK M : M = Made'
      OBVIOUS
    <3>2. <<nextId>> \in Seq(M) /\ scopes \in Seq(M)
      <4>1. scopes \in Seq(Made)
        BY DEF TypeOK
      <4> QED
        BY <2>4, <3>1, <4>1, SeqOfMore
    <3>3. scopes' = <<nextId>> \o scopes
      BY <1>1 DEF CastSpell
    <3>4. <<nextId>> \o scopes \in Seq(M) /\ Len(<<nextId>> \o scopes) = 1 + Len(scopes)
      BY <3>2
    <3> QED
      BY <2>1, <3>1, <3>3, <3>4
  <2>6. spellOf' \in [Attempts -> Spells \union {0}] /\ \A b \in Made' : spellOf'[b] \in Spells
    <3>1. spellOf' = [spellOf EXCEPT ![nextId] = s] /\ spellOf \in [Attempts -> Spells \union {0}]
      BY <1>1 DEF CastSpell, TypeOK
    <3>2. \A b \in Made' : b = nextId \/ b \in Made
      BY <2>1 DEF Made
    <3>3. Made' \subseteq Attempts
      BY <2>1 DEF Made, Attempts
    <3> QED
      BY <3>1, <3>2, <3>3 DEF TypeOK
  <2>7. nextId' \in 1..(MaxAttempts + 1)
    BY <2>1
  <2> QED
    BY <1>1, <2>2, <2>3, <2>4, <2>5, <2>6, <2>7 DEF TypeOK, CastSpell
<1>2. CASE Send
  <2>1. Head(scopes) \in Made
    BY <1>2, ActiveFound DEF Send
  <2>2. history' \in Seq(Entry) /\ Len(history') = Len(history) /\ nextId' = nextId
    BY <1>2, BeginActive DEF Send, Sends
  <2>3. Made' = Made /\ Ids' = Ids /\ Entry' = Entry
    BY <2>2, InPlace
  <2>4. unanswered' \subseteq Made /\ overlapped' \subseteq Made
    BY <1>2, <2>1 DEF Send, Sends, TypeOK, InFlight
  <2> QED
    BY <1>2, <2>2, <2>3, <2>4 DEF TypeOK, Send
<1>3. CASE SendTargeted
  <2>1. targeting \in Made
    BY <1>3 DEF SendTargeted, TypeOK, Made, Ids
  <2>2. history' \in Seq(Entry) /\ Len(history') = Len(history) /\ nextId' = nextId
    BY <1>3, BeginNewest DEF SendTargeted, Sends, IInv, TargetOpen
  <2>3. Made' = Made /\ Ids' = Ids /\ Entry' = Entry
    BY <2>2, InPlace
  <2>4. unanswered' \subseteq Made /\ overlapped' \subseteq Made
    BY <1>3, <2>1 DEF SendTargeted, Sends, TypeOK, InFlight
  <2>5. muddled' \subseteq Spells
    <3>1. \A i \in 1..Len(history) : history[i] \in Entry
      BY DEF TypeOK
    <3> QED
      BY <1>3, <2>1, <3>1 DEF SendTargeted, TypeOK, Entry
  <2>6. targeting' \in Ids
    BY <1>3 DEF SendTargeted, TypeOK, Ids
  <2> QED
    BY <1>3, <2>2, <2>3, <2>4, <2>5, <2>6 DEF TypeOK, SendTargeted
<1>4. CASE LocalFailure
  <2> DEFINE k == FindCastId(history, Head(scopes))
  <2>1. k \in 1..Len(history)
    BY <1>4, ActiveFound DEF LocalFailure
  <2>2. history' = SetResult(history, k, "SERVER_FAILURE") /\ nextId' = nextId
    BY <1>4 DEF LocalFailure
  <2>3. history' \in Seq(Entry) /\ Len(history') = Len(history)
    <3>1. \A i \in 1..Len(history) : history[i] \in Entry
      BY DEF TypeOK
    <3>2. [history[k] EXCEPT !.castResult = "SERVER_FAILURE"] \in Entry
      BY <2>1, <3>1 DEF Entry, CastResults
    <3>3. history' = [history EXCEPT ![k] = [history[k] EXCEPT !.castResult = "SERVER_FAILURE"]]
      BY <2>1, <2>2 DEF SetResult, TypeOK
    <3> HIDE DEF k
    <3> QED
      BY <2>1, <3>2, <3>3 DEF TypeOK
  <2>4. Made' = Made /\ Ids' = Ids /\ Entry' = Entry
    BY <2>2, <2>3, InPlace
  <2> QED
    BY <1>4, <2>3, <2>4 DEF TypeOK, LocalFailure
<1>5. CASE Returns
  <2>1. scopes' \in Seq(Made) /\ Len(scopes') <= Len(scopes)
    BY <1>5 DEF Returns, TypeOK
  <2>2. Made' = Made /\ Ids' = Ids /\ Entry' = Entry /\ Head(scopes) \in Ids
    BY <1>5, ActiveFound DEF Returns, Made, Ids, Entry
  <2>3. targeting' \in Ids
    BY <1>5, <2>2 DEF Returns, TypeOK
  <2>4. Len(scopes') <= MaxNesting
    BY <2>1 DEF TypeOK
  <2> QED
    BY <1>5, <2>1, <2>2, <2>3, <2>4 DEF TypeOK, Returns
<1>6. ASSUME NEW a \in unanswered, NEW success \in BOOLEAN, CastResult(a, success)
      PROVE TypeOK'
  <2>1. history' \in Seq(Entry) /\ Len(history') = Len(history) /\ nextId' = nextId
    <3>1. PICK i, r : /\ r \in CastResults
                      /\ IF Waiting(history, spellOf[a]) = {} THEN i = 0
                         ELSE i \in Waiting(history, spellOf[a])
                      /\ history' = SetResult(MarkAmbiguous(history, tombstones, spellOf[a]), i, r)
                      /\ nextId' = nextId
      BY <1>6, CastResultWrites DEF CastResults
    <3>2. Made' = Made
      BY <3>1 DEF Made
    <3> QED
      BY <3>1, <3>2, CorrelateEntries
  <2>2. Made' = Made /\ Ids' = Ids /\ Entry' = Entry /\ a \in Made /\ a \in Ids
    BY <2>1, InPlace DEF TypeOK, Made, Ids
  <2>3. Identity(spellOf[a]) \in Ids
    BY IdentityFound
  <2>4. told' = Told("SPELL_CAST_RESULT_SELF", Identity(spellOf[a]), a)
        /\ result' = [phase |-> "signalled", attempt |-> a, id |-> Identity(spellOf[a]),
                      success |-> success]
    BY <1>6 DEF CastResult, Correlate, Identity
  <2> QED
    BY <1>6, <2>1, <2>2, <2>3, <2>4 DEF TypeOK, CastResult, Correlate, Told
<1>7. CASE SpellFailedByServer
  <2>1. Made' = Made /\ Ids' = Ids /\ Entry' = Entry /\ 0 \in Ids
    BY <1>7 DEF SpellFailedByServer, Made, Ids, Entry, TypeOK
  <2>2. result.attempt \in Made /\ result.attempt \in Ids /\ result.id \in Ids
        /\ result \in [phase : {"signalled", "failed"}, attempt : Made, id : Ids, success : BOOLEAN]
    BY <1>7 DEF SpellFailedByServer, TypeOK, NoResult, Made, Ids
  <2>3. CASE result.success
    BY <1>7, <2>1, <2>3 DEF SpellFailedByServer, TypeOK
  <2>4. CASE ~result.success
    <3>1. PICK c \in Ids : /\ result' = [result EXCEPT !.phase = "failed", !.id = c]
                           /\ told' = Told("SPELL_FAILED_SELF", c, result.attempt)
      BY <1>7, <2>1, <2>2, <2>4 DEF SpellFailedByServer
    <3>2. result' \in [phase : {"signalled", "failed"}, attempt : Made, id : Ids, success : BOOLEAN]
      BY <2>2, <3>1
    <3> QED
      BY <1>7, <2>1, <2>2, <3>1, <3>2 DEF SpellFailedByServer, TypeOK, Told
  <2> QED
    BY <2>3, <2>4
<1>8. CASE Retry
  <2>1. Made' = Made /\ Ids' = Ids /\ Entry' = Entry
    BY <1>8 DEF Retry, RetryFrom, Made, Ids, Entry
  <2>2. result.attempt \in Ids /\ result.id \in Ids
    BY <1>8 DEF Retry, RetryFrom, TypeOK, NoResult, Made, Ids
  <2>3. told' = told \/ \E c \in Ids : told' = Told("RETRY", c, result.attempt)
    <3>1. FindCastId(history, result.id) # 0 =>
            history[FindCastId(history, result.id)].castId = result.id
      BY <2>2, FoundById DEF At
    <3> QED
      BY <1>8, <2>2, <3>1 DEF Retry, RetryFrom
  <2>4. told' \in [what : {"nothing", "SPELL_CAST_RESULT_SELF", "SPELL_FAILED_SELF", "RETRY"},
                   id : Ids, attempt : Ids]
    BY <2>2, <2>3 DEF TypeOK, Told
  <2> QED
    BY <1>8, <2>1, <2>4 DEF Retry, RetryFrom, TypeOK
<1>9. CASE ResetPlayerContextState
  <2>1. Made' = Made /\ Ids' = Ids /\ Entry' = Entry /\ 0 \in Ids
    BY <1>9 DEF ResetPlayerContextState, Made, Ids, Entry, TypeOK
  <2>2. muddled' \subseteq Spells
    BY <1>9 DEF ResetPlayerContextState, TypeOK
  <2> QED
    BY <1>9, <2>1, <2>2 DEF ResetPlayerContextState, TypeOK, Nothing
<1>10. CASE UNCHANGED vars
  BY <1>10 DEF vars, TypeOK, Made, Ids, Entry
<1> QED
  BY <1>1, <1>2, <1>3, <1>4, <1>5, <1>6, <1>7, <1>8, <1>9, <1>10 DEF Next

------------------------------------------------------------------------------
LEMMA CastSpellStep ==
  ASSUME IInv, TypeOK', NEW s \in Spells, CastSpell(s)
  PROVE  IInv'
<1> USE SizeAssumption, BoundAssumption
<1>1. /\ nextId \in Nat \ {0} /\ nextId' = nextId + 1 /\ nextId <= MaxAttempts
      /\ Len(history') \in 1..HistorySize /\ Len(history') <= Len(history) + 1
      /\ history'[1] = [castId |-> nextId, spellId |-> s,
                        castResult |-> "WAITING_FOR_CAST", ambiguous |-> FALSE]
      /\ \A i \in 2..Len(history') : history'[i] = history[i - 1]
      /\ \A a \in Made : Held(a)' => Held(a) /\ At(a)' = At(a)
      /\ \A a \in Made : Held(a) /\ ~Held(a)' =>
           nextId - a = HistorySize /\ Len(history) = HistorySize
  BY CastSpellEntries DEF CastSpell, Nests
<1>2. /\ UNCHANGED <<targeting, result, unanswered, overlapped, muddled, told>>
      /\ tombstones' = EvictionTombstones(history, tombstones, HistorySize)
      /\ scopes' = <<nextId>> \o scopes
      /\ tombstones \subseteq tombstones'
  BY DEF CastSpell, EvictionTombstones
<1>3. /\ Made' = Made \union {nextId} /\ nextId \notin Made /\ nextId \notin Ids
      /\ Ids = Made \union {0}
  BY <1>1 DEF Made, Ids
<1>4. spellOf'[nextId] = s /\ \A a \in Made : spellOf'[a] = spellOf[a] /\ spellOf[a] \in Spells
  <2>1. spellOf' = [spellOf EXCEPT ![nextId] = s] /\ spellOf \in [Attempts -> Spells \union {0}]
        /\ nextId \in Attempts
    BY <1>1 DEF CastSpell, IInv, TypeOK, Attempts
  <2>2. \A a \in Made : a # nextId /\ spellOf[a] \in Spells
    BY <1>3 DEF IInv, TypeOK
  <2> QED
    BY <2>1, <2>2
<1>6. ASSUME NEW n, n = nextId
      PROVE Held(n)' /\ At(n)' = history'[1]
  BY <1>1, <1>3, <1>6 DEF Held, At
<1>7. ASSUME NEW a \in Made, Held(a), IsWaiting(At(a)), spellOf[a] \notin tombstones'
      PROVE Held(a)'
  <2> SUFFICES ASSUME ~Held(a)' PROVE FALSE
    OBVIOUS
  <2>1. Len(history) = HistorySize /\ nextId - a = HistorySize
    BY <1>1, <1>7
  <2>2. history[HistorySize].spellId = spellOf[a] /\ IsWaiting(history[HistorySize])
    <3>1. nextId - HistorySize = a /\ HistorySize \in 1..Len(history)
      BY <1>1, <2>1 DEF Made
    <3> QED
      BY <1>7, <2>1, <3>1 DEF IInv, Numbered, At
  <2> QED
    BY <1>2, <1>7, <2>1, <2>2 DEF EvictionTombstones
<1>8. \A t : InFlight(t)' = InFlight(t)
  BY <1>2, <1>4 DEF InFlight, IInv, TypeOK
<1>9. Numbered'
  <2> SUFFICES ASSUME NEW i \in 1..Len(history')
               PROVE /\ history'[i].castId = nextId' - i
                     /\ history'[i].spellId = spellOf'[nextId' - i]
    BY DEF Numbered
  <2>1. CASE i = 1
    BY <1>1, <1>4, <2>1
  <2>2. CASE i # 1
    <3>1. i \in 2..Len(history') /\ i - 1 \in 1..Len(history) /\ nextId' - i = nextId - (i - 1)
      <4>1. Len(history) \in Nat
        BY DEF IInv, TypeOK
      <4> QED
        BY <1>1, <2>2, <4>1
    <3>2. history[i - 1].castId = nextId - (i - 1)
          /\ history[i - 1].spellId = spellOf[nextId - (i - 1)]
      BY <3>1 DEF IInv, Numbered
    <3>3. nextId - (i - 1) \in Made
      <4>1. history[i - 1] \in Entry
        BY <3>1 DEF IInv, TypeOK
      <4> QED
        BY <3>2, <4>1 DEF Entry
    <3> QED
      BY <1>1, <1>4, <3>1, <3>2, <3>3
  <2> QED
    BY <2>1, <2>2
<1>10. ScopesFit'
  <2>1. scopes \in Seq(Made) /\ Len(scopes) \in Nat
    BY DEF IInv, TypeOK
  <2>2. Len(scopes') = Len(scopes) + 1 /\ scopes'[1] = nextId
        /\ \A i \in 2..(Len(scopes) + 1) : scopes'[i] = scopes[i - 1]
    BY <1>1, <1>2, <2>1
  <2>3. \A i \in 1..Len(scopes) : scopes[i] \in Made /\ Held(scopes[i])
    BY <2>1 DEF IInv, ScopesFit
  <2>4. ASSUME NEW i \in 1..Len(scopes), NEW a, a = scopes[i] PROVE Held(a)'
    <3> DEFINE b == scopes[Len(scopes)]
    <3>1. nextId - b < HistorySize
      BY <2>1 DEF CastSpell, Nests
    <3>2. b <= a /\ a \in Made /\ b \in Made
      <4>1. CASE i = Len(scopes)
        BY <2>1, <2>3, <2>4, <4>1 DEF Made
      <4>2. CASE i < Len(scopes)
        <5>1. b < a
          BY <2>1, <2>4, <4>2 DEF IInv, ScopesFit
        <5> QED
          BY <2>1, <2>3, <2>4, <5>1 DEF Made
      <4> QED
        BY <2>1, <4>1, <4>2
    <3>3. Held(a)
      BY <2>3, <2>4
    <3>4. ~(nextId - a = HistorySize)
      <4> HIDE DEF b
      <4> QED
        BY <1>1, <3>1, <3>2 DEF Made
    <3> QED
      BY <1>1, <3>2, <3>3, <3>4
  <2>5. ASSUME NEW i \in 1..Len(scopes') PROVE Held(scopes[i])'
    <3>1. CASE i = 1
      BY <1>6, <2>2, <3>1 DEF Held
    <3>2. CASE i # 1
      <4>1. i - 1 \in 1..Len(scopes) /\ scopes'[i] = scopes[i - 1]
        BY <2>1, <2>2, <3>2
      <4>2. PICK a : a = scopes[i - 1]
        OBVIOUS
      <4>3. Held(a)'
        BY <2>4, <4>1, <4>2
      <4> QED
        BY <4>1, <4>2, <4>3 DEF Held
    <3> QED
      BY <3>1, <3>2
  <2>6. ASSUME NEW i \in 1..Len(scopes'), NEW j \in 1..Len(scopes'), i < j
        PROVE scopes'[j] < scopes'[i]
    <3>1. j - 1 \in 1..Len(scopes) /\ scopes'[j] = scopes[j - 1] /\ scopes[j - 1] \in Made
      BY <2>1, <2>2, <2>3, <2>6
    <3>2. CASE i = 1
      BY <1>1, <2>2, <3>1, <3>2 DEF Made
    <3>3. CASE i # 1
      <4>1. i - 1 \in 1..Len(scopes) /\ scopes'[i] = scopes[i - 1] /\ i - 1 < j - 1
        BY <2>1, <2>2, <2>6, <3>3
      <4> QED
        BY <3>1, <4>1 DEF IInv, ScopesFit
    <3> QED
      BY <3>2, <3>3
  <2> QED
    BY <2>5, <2>6 DEF ScopesFit
<1>11. FreshPlain'
  <2> SUFFICES ASSUME NEW a \in Made', Held(a)', (At(a).castResult = "WAITING_FOR_CAST")'
               PROVE ~At(a)'.ambiguous
    BY DEF FreshPlain
  <2>1. CASE a = nextId
    BY <1>1, <1>6, <2>1
  <2>2. CASE a \in Made
    BY <1>1, <2>2 DEF IInv, FreshPlain
  <2> QED
    BY <1>3, <2>1, <2>2
<1>12. TargetOpen'
  <2> SUFFICES ASSUME targeting # 0
               PROVE /\ targeting \notin unanswered
                     /\ \A i \in 1..Len(scopes') : scopes'[i] # targeting
                     /\ history' # <<>>
                     /\ Held(targeting)' => At(targeting)'.castResult = "WAITING_FOR_CAST"
    BY <1>2 DEF TargetOpen
  <2>1. targeting \in Made /\ targeting \notin unanswered
    BY <1>3 DEF IInv, TypeOK, TargetOpen
  <2>2. \A i \in 1..Len(scopes') : scopes'[i] # targeting
    <3>1. scopes \in Seq(Made) /\ Len(scopes) \in Nat
      BY DEF IInv, TypeOK
    <3>2. \A i \in 1..Len(scopes') : scopes'[i] = nextId \/
             \E j \in 1..Len(scopes) : scopes'[i] = scopes[j]
      <4>1. Len(scopes') = Len(scopes) + 1 /\ scopes'[1] = nextId
            /\ \A i \in 2..(Len(scopes) + 1) : scopes'[i] = scopes[i - 1]
        BY <1>1, <1>2, <3>1
      <4> SUFFICES ASSUME NEW i \in 1..Len(scopes'), i # 1
                   PROVE \E j \in 1..Len(scopes) : scopes'[i] = scopes[j]
        BY <4>1
      <4>2. i - 1 \in 1..Len(scopes) /\ scopes'[i] = scopes[i - 1]
        BY <3>1, <4>1
      <4> QED
        BY <4>2
    <3> QED
      BY <1>3, <2>1, <3>2 DEF IInv, TargetOpen
  <2>3. history' # <<>>
    BY <1>1
  <2>4. PICK a \in Made : a = targeting
    BY <2>1
  <2>5. Held(a)' => At(a)'.castResult = "WAITING_FOR_CAST"
    BY <1>1, <2>4 DEF IInv, TargetOpen
  <2> QED
    BY <1>2, <2>1, <2>2, <2>3, <2>4, <2>5 DEF Held, At
<1>13. \A t : t \notin tombstones' => WaitingIds(t)' = WaitingIds(t)
  <2> SUFFICES ASSUME NEW t, t \notin tombstones'
               PROVE WaitingIds(t)' = WaitingIds(t)
    OBVIOUS
  <2>1. WaitingIds(t) = {a \in Made : Held(a) /\ spellOf[a] = t /\ IsWaiting(At(a))}
    BY DEF WaitingIds, IdsWaiting, Made, Held, At
  <2>2. WaitingIds(t)' = {a \in Made' : Held(a)' /\ spellOf'[a] = t /\ IsWaiting(At(a)')}
    BY DEF WaitingIds, IdsWaiting, Made, Held, At, IsWaiting
  <2>3. ASSUME NEW a \in Made', Held(a)', spellOf'[a] = t, IsWaiting(At(a)')
        PROVE a \in WaitingIds(t)
    <3>1. a # nextId
      BY <1>1, <1>6, <2>3 DEF IsWaiting
    <3> QED
      BY <1>1, <1>3, <1>4, <2>1, <2>3, <3>1
  <2>4. ASSUME NEW a \in WaitingIds(t)
        PROVE a \in Made' /\ Held(a)' /\ spellOf'[a] = t /\ IsWaiting(At(a)')
    <3>1. a \in Made /\ Held(a) /\ spellOf[a] = t /\ IsWaiting(At(a))
      BY <2>1
    <3>2. Held(a)'
      BY <1>7, <3>1
    <3> QED
      BY <1>1, <1>3, <1>4, <3>1, <3>2
  <2> QED
    BY <2>2, <2>3, <2>4
<1>14. Counted'
  <2> SUFFICES ASSUME NEW t \in Spells \ (tombstones' \union muddled)
               PROVE /\ Cardinality(WaitingIds(t)') = Cardinality(InFlight(t)')
                     /\ \A a \in WaitingIds(t)' : ~At(a)'.ambiguous => a \in unanswered
    BY <1>2 DEF Counted
  <2>1. t \in Spells \ (tombstones \union muddled) /\ t \notin tombstones'
    BY <1>2
  <2>2. WaitingIds(t)' = WaitingIds(t) /\ InFlight(t)' = InFlight(t)
    BY <1>8, <1>13, <2>1
  <2>3. ASSUME NEW a \in WaitingIds(t) PROVE At(a)' = At(a)
    <3>1. a \in Made /\ Held(a) /\ spellOf[a] = t /\ IsWaiting(At(a))
      BY DEF WaitingIds, IdsWaiting, Made, Held, At
    <3>2. Held(a)'
      BY <1>7, <2>1, <3>1
    <3> QED
      BY <1>1, <3>1, <3>2
  <2>4. /\ Cardinality(WaitingIds(t)) = Cardinality(InFlight(t))
        /\ \A a \in WaitingIds(t) : ~At(a).ambiguous => a \in unanswered
    BY <2>1 DEF IInv, Counted
  <2> QED
    BY <2>2, <2>3, <2>4
<1>15. AloneKept'
  <2> SUFFICES ASSUME NEW a \in unanswered \ overlapped,
                      spellOf'[a] \notin tombstones' \union muddled
               PROVE /\ InFlight(spellOf[a])' = {a}
                     /\ Held(a)' /\ IsWaiting(At(a)') /\ ~At(a)'.ambiguous
    BY <1>2 DEF AloneKept, IsWaiting
  <2>1. a \in Made
    BY DEF IInv, TypeOK
  <2>2. spellOf'[a] = spellOf[a] /\ spellOf[a] \notin tombstones \union muddled
        /\ spellOf[a] \notin tombstones'
    BY <1>2, <1>4, <2>1
  <2>3. /\ InFlight(spellOf[a]) = {a}
        /\ Held(a) /\ IsWaiting(At(a)) /\ ~At(a).ambiguous
    BY <2>2 DEF IInv, AloneKept
  <2>4. Held(a)' /\ At(a)' = At(a)
    BY <1>1, <1>7, <2>1, <2>2, <2>3
  <2>5. InFlight(spellOf[a])' = {a}
    BY <1>2, <1>8, <2>2, <2>3 DEF InFlight
  <2> QED
    BY <2>3, <2>4, <2>5
<1>16. ResultTrue'
  <2>1. result.phase # "none" => result.attempt \in Made
    BY DEF IInv, TypeOK, NoResult
  <2> QED
    BY <1>2, <1>4, <2>1 DEF IInv, ResultTrue
<1>17. ResultSettled'
  <2> SUFFICES ASSUME result.phase # "none", NEW a, a = result.id, Held(a)'
               PROVE /\ ~At(a)'.ambiguous
                     /\ At(a)'.castResult \in {"SERVER_SUCCESS", "SERVER_FAILURE"}
    BY <1>2 DEF ResultSettled, Held, At
  <2>1. a \in Ids
    BY DEF IInv, TypeOK, NoResult
  <2>2. a \in Made
    BY <1>3, <2>1 DEF Held, Made
  <2> QED
    BY <1>1, <2>2 DEF IInv, ResultSettled
<1>18. ToldKept' /\ ExactOrNone' /\ AloneIsIdentified'
  <2>1. ToldKept'
    BY <1>2, <1>3 DEF IInv, ToldKept, Nothing
  <2>2. CASE told = Nothing
    BY <1>2, <2>1, <2>2 DEF ExactOrNone, AloneIsIdentified, Nothing
  <2>3. CASE told.attempt \in Made
    BY <1>2, <1>4, <2>1, <2>3 DEF IInv, ExactOrNone, AloneIsIdentified
  <2> QED
    BY <2>2, <2>3 DEF IInv, ToldKept
<1> QED
  BY <1>9, <1>10, <1>11, <1>12, <1>14, <1>15, <1>16, <1>17, <1>18 DEF IInv

------------------------------------------------------------------------------
LEMMA CountAdds ==
  ASSUME NEW W, NEW F, IsFiniteSet(W), IsFiniteSet(F), Cardinality(W) = Cardinality(F),
         NEW b, b \notin W, b \notin F
  PROVE  Cardinality(W \union {b}) = Cardinality(F \union {b})
<1>1. Cardinality(W \union {b}) = Cardinality(W) + 1
  BY FS_AddElement
<1>2. Cardinality(F \union {b}) = Cardinality(F) + 1
  BY FS_AddElement
<1> QED
  BY <1>1, <1>2

LEMMA CountDrops ==
  ASSUME NEW W, NEW F, IsFiniteSet(W), IsFiniteSet(F), Cardinality(W) = Cardinality(F),
         NEW g \in W, NEW a \in F
  PROVE  Cardinality(W \ {g}) = Cardinality(F \ {a})
<1>1. Cardinality(W \ {g}) = Cardinality(W) - 1
  BY FS_RemoveElement
<1>2. Cardinality(F \ {a}) = Cardinality(F) - 1
  BY FS_RemoveElement
<1> QED
  BY <1>1, <1>2

LEMMA CountFinite ==
  ASSUME TypeOK, Numbered, NEW s
  PROVE  IsFiniteSet(WaitingIds(s)) /\ IsFiniteSet(InFlight(s))
<1>1. IsFiniteSet(Made)
  <2>1. nextId - 1 \in Int
    BY DEF TypeOK
  <2> QED
    BY <2>1, FS_Interval DEF Made
<1>2. InFlight(s) \in SUBSET Made
  BY DEF TypeOK, InFlight
<1>3. IsFiniteSet(InFlight(s))
  BY <1>1, <1>2, FS_Subset
<1> QED
  BY <1>3, WaitingById

(* What an action that keeps the identifiers of the entries leaves alone.    *)
LEMMA Kept ==
  ASSUME IInv, nextId' = nextId, spellOf' = spellOf, Len(history') = Len(history),
         \A a \in Made : Held(a) => /\ At(a)'.castId = At(a).castId
                                    /\ At(a)'.spellId = At(a).spellId
  PROVE  /\ Made' = Made /\ Ids' = Ids /\ \A a : Held(a)' <=> Held(a)
         /\ Numbered'
         /\ \A t : WaitingIds(t)'
                     = {a \in Made : Held(a) /\ spellOf[a] = t /\ IsWaiting(At(a)')}
         /\ \A t : WaitingIds(t)
                     = {a \in Made : Held(a) /\ spellOf[a] = t /\ IsWaiting(At(a))}
<1>1. Made' = Made /\ Ids' = Ids /\ \A a : Held(a)' <=> Held(a)
  BY InPlace
<1>2. Numbered'
  <2> SUFFICES ASSUME NEW i \in 1..Len(history)
               PROVE history'[i].castId = nextId - i /\ history'[i].spellId = spellOf[nextId - i]
    BY DEF Numbered
  <2>1. /\ history[i].castId = nextId - i /\ history[i].spellId = spellOf[nextId - i]
        /\ history[i] \in Entry /\ nextId \in Nat /\ Len(history) \in Nat
    BY DEF IInv, TypeOK, Numbered
  <2>2. nextId - i \in Made /\ Held(nextId - i) /\ nextId - (nextId - i) = i
    BY <2>1 DEF Entry, Held
  <2>3. PICK a \in Made : a = nextId - i
    BY <2>2
  <2>4. At(a)' = history'[i] /\ At(a) = history[i] /\ Held(a)
    BY <2>2, <2>3 DEF At
  <2> QED
    BY <2>1, <2>4
<1>3. \A t : WaitingIds(t)'
               = {a \in Made : Held(a) /\ spellOf[a] = t /\ IsWaiting(At(a)')}
  BY DEF WaitingIds, IdsWaiting, Made, Held, At, IsWaiting
<1>4. \A t : WaitingIds(t) = {a \in Made : Held(a) /\ spellOf[a] = t /\ IsWaiting(At(a))}
  BY DEF WaitingIds, IdsWaiting, Made, Held, At
<1> QED
  BY <1>1, <1>2, <1>3, <1>4

LEMMA SendStep ==
  ASSUME IInv, TypeOK', Send
  PROVE  IInv'
<1>0. PICK b, s : b = Head(scopes) /\ s = spellOf[b]
  OBVIOUS
<1>1. /\ b \in Made /\ Held(b) /\ b = scopes[1] /\ Len(scopes) \in Nat \ {0}
      /\ FindCastId(history, b) = nextId - b /\ nextId - b \in 1..Len(history)
  BY <1>0, ActiveFound DEF Send
<1>2. /\ b \notin unanswered
      /\ unanswered' = unanswered \union {b}
      /\ overlapped' = overlapped \union InFlight(s)
                         \union (IF InFlight(s) # {} \/ ~(FindCastId(history, b) # 0)
                                 THEN {b} ELSE {})
      /\ BeginCast(s)
      /\ UNCHANGED <<tombstones, nextId, scopes, targeting, result, spellOf, muddled, told>>
  BY <1>0 DEF Send, Sends
<1>3. At(b).castResult = "WAITING_FOR_CAST" /\ ~At(b).ambiguous /\ At(b) \in Entry
  <2>1. nextId - b # 0
    <3>1. Len(history) \in Nat
      BY DEF IInv, TypeOK
    <3> QED
      BY <1>1, <3>1
  <2>2. At(b).castResult = "WAITING_FOR_CAST"
    BY <1>0, <1>1, <2>1 DEF Send, Undecided, At
  <2>3. At(b) \in Entry
    BY <1>1 DEF At, IInv, TypeOK
  <2> QED
    BY <1>1, <2>2, <2>3 DEF IInv, FreshPlain
<1>4. overlapped \subseteq overlapped' /\ InFlight(s) \subseteq overlapped'
  BY <1>2
<1>5. /\ Len(history') = Len(history)
      /\ \A a \in Made : Held(a) =>
           At(a)' = IF a = b THEN [At(a) EXCEPT !.castResult = "WAITING_FOR_SERVER"] ELSE At(a)
  BY <1>0, <1>2, BeginActive DEF Send
<1>6. /\ At(b)'.castId = At(b).castId /\ At(b)'.spellId = At(b).spellId
      /\ At(b)'.castResult = "WAITING_FOR_SERVER" /\ ~At(b)'.ambiguous
  BY <1>1, <1>3, <1>5 DEF Entry
<1>7. /\ Made' = Made /\ Ids' = Ids /\ \A a : Held(a)' <=> Held(a)
      /\ Numbered'
      /\ \A t : WaitingIds(t)'
                  = {a \in Made : Held(a) /\ spellOf[a] = t /\ IsWaiting(At(a)')}
      /\ \A t : WaitingIds(t) = {a \in Made : Held(a) /\ spellOf[a] = t /\ IsWaiting(At(a))}
  <2>1. \A a \in Made : Held(a) => At(a)'.castId = At(a).castId /\ At(a)'.spellId = At(a).spellId
    BY <1>5, <1>6
  <2> QED
    BY <1>2, <1>5, <2>1, Kept
<1>8. b \notin WaitingIds(s) /\ b \notin InFlight(s)
  BY <1>2, <1>3, <1>7 DEF IsWaiting, InFlight
<1>9. WaitingIds(s)' = WaitingIds(s) \union {b} /\ InFlight(s)' = InFlight(s) \union {b}
  <2>1. spellOf[b] = s /\ IsWaiting(At(b)')
    BY <1>0, <1>6 DEF IsWaiting
  <2>2. \A a \in Made : Held(a) /\ a # b => At(a)' = At(a)
    BY <1>5
  <2>3. \A a : a \in WaitingIds(s)' <=> a \in WaitingIds(s) \union {b}
    BY <1>1, <1>7, <2>1, <2>2
  <2>4. InFlight(s)' = {a \in unanswered' : spellOf[a] = s}
    BY <1>2 DEF InFlight
  <2>5. InFlight(s)' = InFlight(s) \union {b}
    BY <1>2, <2>1, <2>4 DEF InFlight
  <2> QED
    BY <2>3, <2>5
<1>10. ASSUME NEW t, t # s PROVE WaitingIds(t)' = WaitingIds(t) /\ InFlight(t)' = InFlight(t)
  <2>1. WaitingIds(t)' = WaitingIds(t)
    <3>1. spellOf[b] # t
      BY <1>0, <1>10
    <3>2. \A a \in Made : Held(a) /\ a # b => At(a)' = At(a)
      BY <1>5
    <3>3. \A a : a \in WaitingIds(t)' <=> a \in WaitingIds(t)
      BY <1>7, <3>1, <3>2
    <3> QED
      BY <3>3
  <2>2. InFlight(t)' = InFlight(t)
    BY <1>0, <1>2, <1>10 DEF InFlight
  <2> QED
    BY <2>1, <2>2
<1>11. ScopesFit'
  BY <1>2, <1>7 DEF IInv, ScopesFit
<1>12. FreshPlain'
  BY <1>1, <1>5, <1>6, <1>7 DEF IInv, FreshPlain
<1>13. TargetOpen'
  <2>1. targeting # 0 => targeting \in Made /\ targeting # b
    BY <1>1 DEF IInv, TargetOpen, TypeOK, Made, Ids
  <2>2. history # <<>> => history' # <<>>
    BY <1>5 DEF IInv, TypeOK
  <2>3. PICK c : c = targeting
    OBVIOUS
  <2>4. c # 0 => /\ c \notin unanswered'
                 /\ Held(c)' => At(c)'.castResult = "WAITING_FOR_CAST"
    BY <1>2, <1>5, <1>7, <2>1, <2>3 DEF IInv, TargetOpen
  <2> QED
    BY <1>2, <2>2, <2>3, <2>4 DEF IInv, TargetOpen, Held, At
<1>14. Counted'
  <2> SUFFICES ASSUME NEW t \in Spells \ (tombstones \union muddled)
               PROVE /\ Cardinality(WaitingIds(t)') = Cardinality(InFlight(t)')
                     /\ \A a \in WaitingIds(t)' : ~At(a)'.ambiguous => a \in unanswered'
    BY <1>2 DEF Counted
  <2>1. /\ Cardinality(WaitingIds(t)) = Cardinality(InFlight(t))
        /\ \A a \in WaitingIds(t) : ~At(a).ambiguous => a \in unanswered
    BY DEF IInv, Counted
  <2>2. Cardinality(WaitingIds(t)') = Cardinality(InFlight(t)')
    <3>1. CASE t = s
      <4>1. IsFiniteSet(WaitingIds(s)) /\ IsFiniteSet(InFlight(s))
        BY CountFinite DEF IInv
      <4> QED
        BY <1>8, <1>9, <2>1, <3>1, <4>1, CountAdds
    <3>2. CASE t # s
      BY <1>10, <2>1, <3>2
    <3> QED
      BY <3>1, <3>2
  <2>3. ASSUME NEW a \in WaitingIds(t)', ~At(a)'.ambiguous PROVE a \in unanswered'
    <3>1. CASE a = b
      BY <1>2, <3>1
    <3>2. CASE a # b
      <4>1. a \in WaitingIds(t)
        BY <1>9, <1>10, <3>2
      <4>2. At(a)' = At(a)
        BY <1>5, <1>7, <3>2, <4>1
      <4> QED
        BY <1>2, <2>1, <2>3, <4>1, <4>2
    <3> QED
      BY <3>1, <3>2
  <2> QED
    BY <2>2, <2>3
<1>15. AloneKept'
  <2> SUFFICES ASSUME NEW a \in unanswered' \ overlapped',
                      spellOf[a] \notin tombstones \union muddled
               PROVE /\ InFlight(spellOf[a])' = {a}
                     /\ Held(a)' /\ IsWaiting(At(a)') /\ ~At(a)'.ambiguous
    BY <1>2 DEF AloneKept, IsWaiting
  <2>1. PICK t : t = spellOf[a]
    OBVIOUS
  <2>2. InFlight(t)' = {a} /\ Held(a)' /\ IsWaiting(At(a)') /\ ~At(a)'.ambiguous
    <3>1. CASE a = b
      <4>1. InFlight(s) = {} /\ t = s
        BY <1>0, <1>2, <2>1, <3>1
      <4> QED
        BY <1>1, <1>6, <1>7, <1>9, <3>1, <4>1 DEF IsWaiting
    <3>2. CASE a # b
      <4>1. a \in unanswered \ overlapped /\ a \in Made
        BY <1>2, <1>4, <3>2 DEF IInv, TypeOK
      <4>2. t # s
        BY <1>4, <2>1, <4>1 DEF InFlight
      <4>3. InFlight(t) = {a} /\ Held(a) /\ IsWaiting(At(a)) /\ ~At(a).ambiguous
        BY <2>1, <4>1 DEF IInv, AloneKept
      <4>4. At(a)' = At(a)
        BY <1>5, <3>2, <4>1, <4>3
      <4> QED
        BY <1>7, <1>10, <4>2, <4>3, <4>4
    <3> QED
      BY <3>1, <3>2
  <2> QED
    BY <1>2, <2>1, <2>2 DEF InFlight
<1>16. ResultTrue' /\ ToldKept'
  BY <1>2, <1>7 DEF IInv, ResultTrue, ToldKept
<1>17. ResultSettled'
  <2> SUFFICES ASSUME result.phase # "none", NEW a, a = result.id, Held(a)'
               PROVE /\ ~At(a)'.ambiguous
                     /\ At(a)'.castResult \in {"SERVER_SUCCESS", "SERVER_FAILURE"}
    BY <1>2 DEF ResultSettled, Held, At
  <2>1. Held(a) /\ a \in Made
    BY <1>7 DEF Held
  <2>2. /\ ~At(a).ambiguous /\ At(a).castResult \in {"SERVER_SUCCESS", "SERVER_FAILURE"}
    BY <2>1 DEF IInv, ResultSettled
  <2>3. a # b
    BY <1>3, <2>2
  <2> QED
    BY <1>5, <2>1, <2>2, <2>3
<1>18. ExactOrNone' /\ AloneIsIdentified'
  BY <1>2, <1>4 DEF IInv, ExactOrNone, AloneIsIdentified
<1> QED
  BY <1>7, <1>11, <1>12, <1>13, <1>14, <1>15, <1>16, <1>17, <1>18 DEF IInv

LEMMA SendTargetedStep ==
  ASSUME IInv, TypeOK', SendTargeted
  PROVE  IInv'
<1>0. PICK c, b, s : c = targeting /\ b = nextId - 1 /\ s = spellOf[c]
  OBVIOUS
<1>1. c \in Made /\ c \notin unanswered /\ history # <<>> /\ scopes = <<>> /\ result = NoResult
  BY <1>0 DEF SendTargeted, IInv, TypeOK, TargetOpen, Made, Ids
<1>2. /\ unanswered' = unanswered \union {c}
      /\ overlapped' = overlapped \union InFlight(s) \union {c}
      /\ BeginCast(s) /\ targeting' = 0
      /\ UNCHANGED <<tombstones, nextId, scopes, result, spellOf, told>>
  BY <1>0 DEF SendTargeted, Sends
<1>3. /\ Len(history') = Len(history) /\ b \in Made /\ Held(b)
      /\ \A a \in Made : Held(a) =>
           At(a)' = IF a = b THEN [At(a) EXCEPT !.castResult = "WAITING_FOR_SERVER",
                                                !.ambiguous = TRUE]
                             ELSE At(a)
  BY <1>0, <1>1, <1>2, BeginNewest
<1>4. At(b) \in Entry /\ At(b).spellId = spellOf[b]
  <2>1. b \in Ids
    <3>1. nextId \in Nat
      BY DEF IInv, TypeOK
    <3>2. b \in 1..(nextId - 1)
      BY <1>3 DEF Made
    <3> QED
      BY <3>1, <3>2 DEF Ids
  <2> QED
    BY <1>3, <2>1, FoundById DEF IInv
<1>5. /\ At(b)'.castId = At(b).castId /\ At(b)'.spellId = At(b).spellId
      /\ At(b)'.castResult = "WAITING_FOR_SERVER" /\ At(b)'.ambiguous
  BY <1>3, <1>4 DEF Entry
<1>6. /\ Made' = Made /\ Ids' = Ids /\ \A a : Held(a)' <=> Held(a)
      /\ Numbered'
      /\ \A t : WaitingIds(t)'
                  = {a \in Made : Held(a) /\ spellOf[a] = t /\ IsWaiting(At(a)')}
      /\ \A t : WaitingIds(t) = {a \in Made : Held(a) /\ spellOf[a] = t /\ IsWaiting(At(a))}
  <2>1. \A a \in Made : Held(a) => At(a)'.castId = At(a).castId /\ At(a)'.spellId = At(a).spellId
    BY <1>3, <1>5
  <2> QED
    BY <1>2, <1>3, <2>1, Kept
<1>7. muddled \subseteq muddled'
  BY DEF SendTargeted
<1>8. c # b => s \in muddled' /\ spellOf[b] \in muddled'
  <2> SUFFICES ASSUME c # b PROVE s \in muddled' /\ spellOf[b] \in muddled'
    OBVIOUS
  <2>1. nextId # c + 1 /\ nextId - b = 1
    BY <1>0, <1>1 DEF Made, IInv, TypeOK
  <2>2. 1 \in 1..Len(history) \intersect {1}
    BY <1>1 DEF IInv, TypeOK
  <2>3. muddled' = muddled \union {s}
                     \union {history[i].spellId : i \in 1..Len(history) \intersect {1}}
    BY <1>0, <2>1 DEF SendTargeted
  <2>4. history[1].spellId = spellOf[b]
    BY <1>4, <2>1 DEF At
  <2> QED
    BY <2>2, <2>3, <2>4
<1>9. c = b => At(b).castResult = "WAITING_FOR_CAST"
  BY <1>0, <1>1, <1>3 DEF SendTargeted, IInv, TargetOpen
<1>10. \A a \in Made : Held(a) /\ a # b => At(a)' = At(a)
  BY <1>3
<1>11. ASSUME NEW t, t # s, t \notin muddled'
       PROVE WaitingIds(t)' = WaitingIds(t) /\ InFlight(t)' = InFlight(t) /\ b \notin WaitingIds(t)'
  <2>1. spellOf[b] # t
    BY <1>0, <1>8, <1>11
  <2>2. \A a : a \in WaitingIds(t)' <=> a \in WaitingIds(t)
    BY <1>6, <1>10, <2>1
  <2>3. InFlight(t)' = InFlight(t)
    BY <1>0, <1>2, <1>11 DEF InFlight
  <2> QED
    BY <1>6, <2>1, <2>2, <2>3
<1>12. ASSUME c = b
       PROVE /\ WaitingIds(s)' = WaitingIds(s) \union {b} /\ InFlight(s)' = InFlight(s) \union {b}
             /\ b \notin WaitingIds(s) /\ b \notin InFlight(s)
  <2>1. spellOf[b] = s /\ IsWaiting(At(b)') /\ ~IsWaiting(At(b))
    BY <1>0, <1>5, <1>9, <1>12 DEF IsWaiting
  <2>2. \A a : a \in WaitingIds(s)' <=> a \in WaitingIds(s) \union {b}
    BY <1>3, <1>6, <1>10, <2>1
  <2>3. InFlight(s)' = {a \in unanswered' : spellOf[a] = s}
    BY <1>2 DEF InFlight
  <2>4. InFlight(s)' = InFlight(s) \union {b}
    BY <1>2, <1>12, <2>1, <2>3 DEF InFlight
  <2> QED
    BY <1>1, <1>6, <1>12, <2>1, <2>2, <2>4 DEF InFlight
<1>13. ScopesFit' /\ TargetOpen' /\ ResultTrue' /\ ResultSettled' /\ ToldKept'
  BY <1>1, <1>2, <1>6
  DEF IInv, ScopesFit, TargetOpen, ResultTrue, ResultSettled, ToldKept, NoResult
<1>14. FreshPlain'
  BY <1>3, <1>5, <1>6 DEF IInv, FreshPlain
<1>15. Counted'
  <2> SUFFICES ASSUME NEW t \in Spells \ (tombstones \union muddled')
               PROVE /\ Cardinality(WaitingIds(t)') = Cardinality(InFlight(t)')
                     /\ \A a \in WaitingIds(t)' : ~At(a)'.ambiguous => a \in unanswered'
    BY <1>2 DEF Counted
  <2>1. /\ Cardinality(WaitingIds(t)) = Cardinality(InFlight(t))
        /\ \A a \in WaitingIds(t) : ~At(a).ambiguous => a \in unanswered
    BY <1>7 DEF IInv, Counted
  <2>2. Cardinality(WaitingIds(t)') = Cardinality(InFlight(t)')
    <3>1. CASE t = s
      <4>1. IsFiniteSet(WaitingIds(s)) /\ IsFiniteSet(InFlight(s)) /\ c = b
        BY <1>8, <3>1, CountFinite DEF IInv
      <4> QED
        BY <1>12, <2>1, <3>1, <4>1, CountAdds
    <3>2. CASE t # s
      BY <1>11, <2>1, <3>2
    <3> QED
      BY <3>1, <3>2
  <2>3. ASSUME NEW a \in WaitingIds(t)', ~At(a)'.ambiguous PROVE a \in unanswered'
    <3>1. a # b
      BY <1>5, <2>3
    <3>2. a \in WaitingIds(t)
      BY <1>8, <1>11, <1>12, <3>1
    <3>3. At(a)' = At(a)
      BY <1>6, <1>10, <3>1, <3>2
    <3> QED
      BY <1>2, <2>1, <2>3, <3>2, <3>3
  <2> QED
    BY <2>2, <2>3
<1>16. AloneKept'
  <2> SUFFICES ASSUME NEW a \in unanswered' \ overlapped',
                      spellOf[a] \notin tombstones \union muddled'
               PROVE /\ InFlight(spellOf[a])' = {a}
                     /\ Held(a)' /\ IsWaiting(At(a)') /\ ~At(a)'.ambiguous
    BY <1>2 DEF AloneKept, IsWaiting
  <2>1. PICK t : t = spellOf[a]
    OBVIOUS
  <2>2. a \in unanswered \ overlapped /\ a \in Made /\ t # s /\ a # c
    BY <1>2, <2>1 DEF IInv, TypeOK, InFlight
  <2>3. InFlight(t) = {a} /\ Held(a) /\ IsWaiting(At(a)) /\ ~At(a).ambiguous
    BY <1>7, <2>1, <2>2 DEF IInv, AloneKept
  <2>4. a # b
    BY <1>8, <2>1, <2>2
  <2>5. InFlight(t)' = {a} /\ Held(a)' /\ At(a)' = At(a)
    BY <1>6, <1>10, <1>11, <2>1, <2>2, <2>3, <2>4
  <2> QED
    BY <1>2, <2>1, <2>3, <2>5 DEF InFlight
<1>17. ExactOrNone' /\ AloneIsIdentified'
  BY <1>2, <1>7 DEF IInv, ExactOrNone, AloneIsIdentified
<1> QED
  BY <1>6, <1>13, <1>14, <1>15, <1>16, <1>17 DEF IInv

LEMMA LocalFailureStep ==
  ASSUME IInv, TypeOK', LocalFailure
  PROVE  IInv'
<1>0. PICK b : b = Head(scopes)
  OBVIOUS
<1>1. /\ b \in Made /\ Held(b) /\ b = scopes[1] /\ Len(scopes) \in Nat \ {0}
      /\ FindCastId(history, b) = nextId - b /\ nextId - b \in 1..Len(history)
  BY <1>0, ActiveFound DEF LocalFailure
<1>2. /\ history' = [history EXCEPT ![nextId - b].castResult = "SERVER_FAILURE"]
      /\ UNCHANGED <<tombstones, nextId, scopes, targeting, result, spellOf, unanswered,
                     overlapped, muddled, told>>
  BY <1>0, <1>1 DEF LocalFailure, SetResult, IInv, TypeOK
<1>3. At(b).castResult = "WAITING_FOR_CAST" /\ At(b) \in Entry
  <2>1. nextId - b # 0
    <3>1. Len(history) \in Nat
      BY DEF IInv, TypeOK
    <3> QED
      BY <1>1, <3>1
  <2>2. At(b).castResult = "WAITING_FOR_CAST"
    BY <1>0, <1>1, <2>1 DEF LocalFailure, Undecided, At
  <2> QED
    BY <1>1, <2>2 DEF At, IInv, TypeOK
<1>4. /\ Len(history') = Len(history)
      /\ \A a \in Made : Held(a) =>
           At(a)' = IF a = b THEN [At(a) EXCEPT !.castResult = "SERVER_FAILURE"] ELSE At(a)
  <2>1. history \in Seq(Entry) /\ nextId \in Nat
    BY DEF IInv, TypeOK
  <2>2. ASSUME NEW a \in Made, Held(a)
        PROVE At(a)' = IF a = b THEN [At(a) EXCEPT !.castResult = "SERVER_FAILURE"] ELSE At(a)
    <3>1. nextId - a \in 1..Len(history)
      BY <2>1, <2>2 DEF Held, Made
    <3>2. nextId - a = nextId - b <=> a = b
      BY <1>1, <2>1 DEF Made
    <3> QED
      BY <1>2, <2>1, <3>1, <3>2 DEF At
  <2> QED
    BY <1>2, <2>1, <2>2
<1>5. /\ At(b)'.castId = At(b).castId /\ At(b)'.spellId = At(b).spellId
      /\ At(b)'.castResult = "SERVER_FAILURE"
  BY <1>1, <1>3, <1>4 DEF Entry
<1>6. /\ Made' = Made /\ Ids' = Ids /\ \A a : Held(a)' <=> Held(a)
      /\ Numbered'
      /\ \A t : WaitingIds(t)'
                  = {a \in Made : Held(a) /\ spellOf[a] = t /\ IsWaiting(At(a)')}
      /\ \A t : WaitingIds(t) = {a \in Made : Held(a) /\ spellOf[a] = t /\ IsWaiting(At(a))}
  <2>1. \A a \in Made : Held(a) => At(a)'.castId = At(a).castId /\ At(a)'.spellId = At(a).spellId
    BY <1>4, <1>5
  <2> QED
    BY <1>2, <1>4, <2>1, Kept
<1>7. \A a \in Made : Held(a) /\ a # b => At(a)' = At(a)
  BY <1>4
<1>8. \A t : WaitingIds(t)' = WaitingIds(t) /\ InFlight(t)' = InFlight(t) /\ b \notin WaitingIds(t)
  <2> SUFFICES ASSUME NEW t PROVE WaitingIds(t)' = WaitingIds(t) /\ InFlight(t)' = InFlight(t)
                                  /\ b \notin WaitingIds(t)
    OBVIOUS
  <2>1. ~IsWaiting(At(b)) /\ ~IsWaiting(At(b)')
    BY <1>3, <1>5 DEF IsWaiting
  <2>2. \A a : a \in WaitingIds(t)' <=> a \in WaitingIds(t)
    BY <1>6, <1>7, <2>1
  <2> QED
    BY <1>2, <1>6, <2>1, <2>2 DEF InFlight
<1>9. ScopesFit' /\ ResultTrue' /\ ToldKept' /\ ExactOrNone' /\ AloneIsIdentified'
  BY <1>2, <1>6
  DEF IInv, ScopesFit, ResultTrue, ToldKept, ExactOrNone, AloneIsIdentified
<1>10. FreshPlain'
  BY <1>5, <1>6, <1>7 DEF IInv, FreshPlain
<1>11. TargetOpen'
  <2>1. targeting # 0 => targeting \in Made /\ targeting # b
    BY <1>1 DEF IInv, TargetOpen, TypeOK, Made, Ids
  <2>2. history # <<>> => history' # <<>>
    BY <1>4 DEF IInv, TypeOK
  <2>3. PICK c : c = targeting
    OBVIOUS
  <2>4. c # 0 => (Held(c)' => At(c)'.castResult = "WAITING_FOR_CAST")
    BY <1>6, <1>7, <2>1, <2>3 DEF IInv, TargetOpen
  <2> QED
    BY <1>2, <2>2, <2>3, <2>4 DEF IInv, TargetOpen, Held, At
<1>12. Counted'
  <2> SUFFICES ASSUME NEW t \in Spells \ (tombstones \union muddled)
               PROVE /\ Cardinality(WaitingIds(t)') = Cardinality(InFlight(t)')
                     /\ \A a \in WaitingIds(t)' : ~At(a)'.ambiguous => a \in unanswered
    BY <1>2 DEF Counted
  <2>1. \A a \in WaitingIds(t) : At(a)' = At(a)
    BY <1>6, <1>7, <1>8
  <2> QED
    BY <1>8, <2>1 DEF IInv, Counted
<1>13. AloneKept'
  <2> SUFFICES ASSUME NEW a \in unanswered \ overlapped,
                      spellOf[a] \notin tombstones \union muddled
               PROVE /\ InFlight(spellOf[a])' = {a}
                     /\ Held(a)' /\ IsWaiting(At(a)') /\ ~At(a)'.ambiguous
    BY <1>2 DEF AloneKept, IsWaiting
  <2>1. /\ InFlight(spellOf[a]) = {a} /\ Held(a) /\ IsWaiting(At(a)) /\ ~At(a).ambiguous
        /\ a \in Made
    BY DEF IInv, TypeOK, AloneKept
  <2>2. a # b
    BY <1>3, <2>1 DEF IsWaiting
  <2> QED
    BY <1>2, <1>6, <1>7, <2>1, <2>2 DEF InFlight
<1>14. ResultSettled'
  <2> SUFFICES ASSUME result.phase # "none", NEW a, a = result.id, Held(a)'
               PROVE /\ ~At(a)'.ambiguous
                     /\ At(a)'.castResult \in {"SERVER_SUCCESS", "SERVER_FAILURE"}
    BY <1>2 DEF ResultSettled, Held, At
  <2>1. Held(a) /\ a \in Made
    BY <1>6 DEF Held
  <2>2. /\ ~At(a).ambiguous /\ At(a).castResult \in {"SERVER_SUCCESS", "SERVER_FAILURE"}
    BY <2>1 DEF IInv, ResultSettled
  <2>3. a # b
    BY <1>3, <2>2
  <2> QED
    BY <1>7, <2>1, <2>2, <2>3
<1> QED
  BY <1>6, <1>9, <1>10, <1>11, <1>12, <1>13, <1>14 DEF IInv

(* The steps that touch neither the history nor the truth.                   *)
LEMMA SameEntries ==
  ASSUME IInv, UNCHANGED <<history, tombstones, nextId, spellOf, unanswered, overlapped, muddled>>
  PROVE  /\ Made' = Made /\ Ids' = Ids /\ \A a : (Held(a)' <=> Held(a)) /\ At(a)' = At(a)
         /\ Numbered' /\ FreshPlain' /\ Counted' /\ AloneKept'
<1>1. Made' = Made /\ Ids' = Ids /\ \A a : (Held(a)' <=> Held(a)) /\ At(a)' = At(a)
  BY DEF Made, Ids, Held, At
<1>2. Numbered' /\ FreshPlain'
  BY <1>1 DEF IInv, Numbered, FreshPlain
<1>3. \A s : WaitingIds(s)' = WaitingIds(s) /\ InFlight(s)' = InFlight(s)
  BY DEF WaitingIds, InFlight
<1>4. Counted'
  BY <1>1, <1>3 DEF IInv, Counted
<1>5. AloneKept'
  <2> SUFFICES ASSUME NEW a \in unanswered \ overlapped,
                      spellOf[a] \notin tombstones \union muddled
               PROVE /\ InFlight(spellOf[a])' = {a}
                     /\ Held(a)' /\ IsWaiting(At(a)') /\ ~At(a)'.ambiguous
    BY DEF AloneKept, IsWaiting
  <2>1. InFlight(spellOf[a]) = {a} /\ Held(a) /\ IsWaiting(At(a)) /\ ~At(a).ambiguous
    BY DEF IInv, AloneKept
  <2> QED
    BY <1>1, <2>1 DEF InFlight
<1> QED
  BY <1>1, <1>2, <1>4, <1>5

LEMMA ReturnsStep ==
  ASSUME IInv, TypeOK', Returns
  PROVE  IInv'
<1>0. PICK b : b = Head(scopes)
  OBVIOUS
<1>1. /\ b \in Made /\ Held(b) /\ b = scopes[1] /\ Len(scopes) \in Nat \ {0}
      /\ FindCastId(history, b) = nextId - b /\ nextId - b \in 1..Len(history)
  BY <1>0, ActiveFound DEF Returns
<1>2. /\ scopes' = Tail(scopes)
      /\ UNCHANGED <<history, tombstones, nextId, result, spellOf, unanswered, overlapped,
                     muddled, told>>
  BY DEF Returns
<1>3. /\ Made' = Made /\ Ids' = Ids /\ \A a : (Held(a)' <=> Held(a)) /\ At(a)' = At(a)
      /\ Numbered' /\ FreshPlain' /\ Counted' /\ AloneKept'
  BY <1>2, SameEntries
<1>4. Len(scopes') = Len(scopes) - 1 /\ \A i \in 1..(Len(scopes) - 1) : scopes'[i] = scopes[i + 1]
  <2>1. scopes \in Seq(Made)
    BY DEF IInv, TypeOK
  <2> QED
    BY <1>1, <1>2, <2>1
<1>5. \A i \in 1..Len(scopes') : /\ i + 1 \in 1..Len(scopes) /\ scopes'[i] = scopes[i + 1]
                                 /\ scopes'[i] < b
  <2>1. \A i \in 1..Len(scopes') : i + 1 \in 1..Len(scopes) /\ scopes'[i] = scopes[i + 1] /\ 1 < i + 1
    BY <1>1, <1>4
  <2>2. 1 \in 1..Len(scopes)
    BY <1>1
  <2> QED
    BY <1>1, <2>1, <2>2 DEF IInv, ScopesFit
<1>6. ScopesFit'
  <2>1. \A i, j \in 1..Len(scopes') : i < j => i + 1 < j + 1
    BY <1>1, <1>4
  <2>2. \A i, j \in 1..Len(scopes') : i < j => scopes'[j] < scopes'[i]
    BY <1>5, <2>1 DEF IInv, ScopesFit
  <2>3. \A i \in 1..Len(scopes') : Held(scopes[i])'
    <3> SUFFICES ASSUME NEW i \in 1..Len(scopes'), NEW a, a = scopes'[i] PROVE Held(a)'
      BY DEF Held
    <3> QED
      BY <1>3, <1>5 DEF IInv, ScopesFit
  <2> QED
    BY <2>2, <2>3 DEF ScopesFit
<1>7. TargetOpen'
  <2>0. PICK c : c = targeting'
    OBVIOUS
  <2> SUFFICES ASSUME c # 0
               PROVE /\ c \notin unanswered /\ \A i \in 1..Len(scopes') : scopes'[i] # c
                     /\ history # <<>>
                     /\ Held(c) => At(c).castResult = "WAITING_FOR_CAST"
    BY <1>2, <1>3, <2>0 DEF TargetOpen, Held, At
  <2>1. CASE c = targeting
    BY <1>5, <2>1 DEF IInv, TargetOpen
  <2>2. CASE c = b /\ b \notin unanswered /\ Undecided(b)
    <3>1. \A i \in 1..Len(scopes') : scopes'[i] # b
      <4>1. b \in Int
        BY <1>1 DEF Made
      <4> QED
        BY <1>5, <4>1
    <3>2. history # <<>>
      BY <1>1
    <3>3. nextId - b # 0
      <4>1. Len(history) \in Nat
        BY DEF IInv, TypeOK
      <4> QED
        BY <1>1, <4>1
    <3>4. At(b).castResult = "WAITING_FOR_CAST"
      BY <1>1, <2>2, <3>3 DEF Undecided, At
    <3> QED
      BY <2>2, <3>1, <3>2, <3>4
  <2>3. c = targeting \/ (c = b /\ b \notin unanswered /\ Undecided(b))
    BY <1>0, <2>0 DEF Returns
  <2> QED
    BY <2>1, <2>2, <2>3
<1>8. ResultTrue' /\ ToldKept' /\ ExactOrNone' /\ AloneIsIdentified'
  BY <1>2, <1>3 DEF IInv, ResultTrue, ToldKept, ExactOrNone, AloneIsIdentified
<1>9. ResultSettled'
  BY <1>2, <1>3 DEF IInv, ResultSettled, Held, At
<1> QED
  BY <1>3, <1>6, <1>7, <1>8, <1>9 DEF IInv

(* What the identity of an answer says of the attempt that was answered.     *)
LEMMA IdentityTrue ==
  ASSUME IInv, NEW a \in unanswered
  PROVE  /\ Identity(spellOf[a]) \in {0, a} \/ spellOf[a] \in muddled
         /\ a \notin overlapped /\ spellOf[a] \notin tombstones \union muddled
              => Identity(spellOf[a]) = a
<1>0. PICK s, d : s = spellOf[a] /\ d = Identity(s)
  OBVIOUS
<1>1. a \in Made /\ s \in Spells /\ a \in InFlight(s)
  BY <1>0 DEF IInv, TypeOK, InFlight
<1>2. IsFiniteSet(InFlight(s)) /\ IsFiniteSet(WaitingIds(s))
  BY CountFinite DEF IInv
<1>3. /\ d # 0 => WaitingIds(s) = {d} /\ ~At(d).ambiguous /\ s \notin tombstones
      /\ WaitingIds(s) = {a} /\ ~At(a).ambiguous /\ s \notin tombstones => d = a
  BY <1>0, <1>1, IdentityFound DEF IInv
<1>4. ASSUME d # 0, s \notin muddled PROVE d = a
  <2>1. Cardinality(WaitingIds(s)) = Cardinality(InFlight(s)) /\ d \in unanswered
    BY <1>1, <1>3, <1>4 DEF IInv, Counted
  <2>2. Cardinality(InFlight(s)) = 1
    BY <1>3, <1>4, <2>1, FS_Singleton
  <2>3. PICK x : InFlight(s) = {x}
    BY <1>2, <2>2, FS_Singleton
  <2>4. d \in InFlight(s)
    <3>1. d \in WaitingIds(s)
      BY <1>3, <1>4
    <3>2. spellOf[d] = s
      BY <3>1 DEF WaitingIds, IdsWaiting
    <3> QED
      BY <2>1, <3>2 DEF InFlight
  <2> QED
    BY <1>1, <2>3, <2>4
<1>5. ASSUME a \notin overlapped, s \notin tombstones \union muddled PROVE d = a
  <2>1. InFlight(s) = {a} /\ Held(a) /\ IsWaiting(At(a)) /\ ~At(a).ambiguous
    BY <1>0, <1>5 DEF IInv, AloneKept
  <2>2. a \in WaitingIds(s)
    BY <1>0, <1>1, <2>1 DEF WaitingIds, IdsWaiting, Held, At, Made
  <2>3. Cardinality(WaitingIds(s)) = 1
    <3>1. Cardinality(WaitingIds(s)) = Cardinality(InFlight(s))
      BY <1>1, <1>5 DEF IInv, Counted
    <3> QED
      BY <2>1, <3>1, FS_Singleton
  <2>4. PICK x : WaitingIds(s) = {x}
    BY <1>2, <2>3, FS_Singleton
  <2>5. WaitingIds(s) = {a}
    BY <2>2, <2>4
  <2> QED
    BY <1>3, <1>5, <2>1, <2>5
<1> QED
  BY <1>0, <1>4, <1>5

LEMMA CastResultStep ==
  ASSUME IInv, TypeOK', NEW a \in unanswered, NEW success \in BOOLEAN, CastResult(a, success)
  PROVE  IInv'
<1>0. PICK s, d : s = spellOf[a] /\ d = Identity(s)
  OBVIOUS
<1>1. /\ a \in Made /\ a \in Ids /\ s \in Spells
      /\ scopes = <<>> /\ result = NoResult /\ unanswered' = unanswered \ {a}
      /\ told' = Told("SPELL_CAST_RESULT_SELF", d, a)
      /\ result' = [phase |-> "signalled", attempt |-> a, id |-> d, success |-> success]
      /\ UNCHANGED <<tombstones, nextId, scopes, targeting, spellOf, overlapped, muddled>>
  BY <1>0 DEF CastResult, Correlate, Identity, IInv, TypeOK, Made, Ids
<1>20. PICK i, r :
        /\ r \in {"SERVER_SUCCESS", "SERVER_FAILURE"}
        /\ IF Waiting(history, s) = {} THEN i = 0 ELSE i \in Waiting(history, s)
        /\ history' = SetResult(MarkAmbiguous(history, tombstones, s), i, r)
        /\ nextId' = nextId
  BY <1>0, CastResultWrites DEF IInv
<1>21. PICK g : g = nextId - i
  OBVIOUS
<1>2.   /\ Len(history') = Len(history) /\ history' \in Seq(Entry)
        /\ WaitingIds(s) # {} => g \in WaitingIds(s)
        /\ \A b \in Made : Held(b) =>
             /\ At(b)'.castId = At(b).castId /\ At(b)'.spellId = At(b).spellId
             /\ At(b)'.castResult = IF b \in WaitingIds(s) /\ b = g THEN r ELSE At(b).castResult
             /\ At(b).ambiguous => At(b)'.ambiguous
             /\ b \notin WaitingIds(s) \/ WaitingIds(s) = {b} => At(b)'.ambiguous = At(b).ambiguous
             /\ b \in WaitingIds(s) /\ s \notin tombstones /\ WaitingIds(s) # {b}
                  => At(b)'.ambiguous
  <2>1. TypeOK /\ Numbered /\ r \in CastResults /\ Made' = Made
    BY <1>20 DEF IInv, CastResults, Made
  <2> QED
    BY <1>20, <1>21, <2>1, CorrelateEntries
<1>3. /\ Made' = Made /\ Ids' = Ids /\ \A b : Held(b)' <=> Held(b)
      /\ Numbered'
      /\ \A t : WaitingIds(t)'
                  = {b \in Made : Held(b) /\ spellOf[b] = t /\ IsWaiting(At(b)')}
      /\ \A t : WaitingIds(t) = {b \in Made : Held(b) /\ spellOf[b] = t /\ IsWaiting(At(b))}
  <2>1. \A b \in Made : Held(b) => At(b)'.castId = At(b).castId /\ At(b)'.spellId = At(b).spellId
    BY <1>2
  <2> QED
    BY <1>1, <1>2, <2>1, Kept
<1>4. r # "WAITING_FOR_CAST" /\ r # "WAITING_FOR_SERVER"
      /\ r \in {"SERVER_SUCCESS", "SERVER_FAILURE"}
  BY <1>20
<1>5. \A b \in Made : Held(b) => (IsWaiting(At(b)') <=> IsWaiting(At(b)) /\ ~(b \in WaitingIds(s) /\ b = g))
  BY <1>2, <1>4 DEF IsWaiting
<1>6. \A t : t # s => WaitingIds(t)' = WaitingIds(t) /\ InFlight(t)' = InFlight(t)
  <2> SUFFICES ASSUME NEW t, t # s
               PROVE WaitingIds(t)' = WaitingIds(t) /\ InFlight(t)' = InFlight(t)
    OBVIOUS
  <2>1. \A b : b \in WaitingIds(t)' <=> b \in WaitingIds(t)
    BY <1>3, <1>5
  <2>2. InFlight(t)' = InFlight(t)
    BY <1>0, <1>1 DEF InFlight
  <2> QED
    BY <2>1, <2>2
<1>7. WaitingIds(s)' = WaitingIds(s) \ {g} /\ InFlight(s)' = InFlight(s) \ {a} /\ a \in InFlight(s)
  <2>1. \A b : b \in WaitingIds(s)' <=> b \in WaitingIds(s) /\ b # g
    BY <1>3, <1>5
  <2>2. InFlight(s)' = InFlight(s) \ {a} /\ a \in InFlight(s)
    BY <1>0, <1>1 DEF InFlight
  <2> QED
    BY <2>1, <2>2
<1>8. ScopesFit' /\ ToldKept'
  BY <1>1, <1>3 DEF IInv, ScopesFit, ToldKept, Told
<1>9. FreshPlain'
  <2> SUFFICES ASSUME NEW b \in Made, Held(b), At(b)'.castResult = "WAITING_FOR_CAST"
               PROVE ~At(b)'.ambiguous
    BY <1>3 DEF FreshPlain
  <2>1. At(b).castResult = "WAITING_FOR_CAST"
    BY <1>2, <1>4
  <2>2. b \notin WaitingIds(s)
    BY <1>3, <2>1 DEF IsWaiting
  <2> QED
    BY <1>2, <2>1, <2>2 DEF IInv, FreshPlain
<1>10. TargetOpen'
  <2>1. targeting # 0 => targeting \in Made
    BY DEF IInv, TypeOK, Made, Ids
  <2>2. history # <<>> => history' # <<>>
    BY <1>2 DEF IInv, TypeOK
  <2>3. PICK c : c = targeting
    OBVIOUS
  <2>4. c # 0 => (Held(c)' => At(c)'.castResult = "WAITING_FOR_CAST")
    <3> SUFFICES ASSUME c # 0, Held(c) PROVE At(c)'.castResult = "WAITING_FOR_CAST"
      BY <1>3
    <3>1. At(c).castResult = "WAITING_FOR_CAST" /\ c \in Made
      BY <2>1, <2>3 DEF IInv, TargetOpen
    <3>2. c \notin WaitingIds(s)
      BY <1>3, <3>1 DEF IsWaiting
    <3> QED
      BY <1>2, <3>1, <3>2
  <2> QED
    BY <1>1, <2>2, <2>3, <2>4 DEF IInv, TargetOpen, Held, At
<1>11. Counted'
  <2> SUFFICES ASSUME NEW t \in Spells \ (tombstones \union muddled)
               PROVE /\ Cardinality(WaitingIds(t)') = Cardinality(InFlight(t)')
                     /\ \A b \in WaitingIds(t)' : ~At(b)'.ambiguous => b \in unanswered'
    BY <1>1 DEF Counted
  <2>1. /\ Cardinality(WaitingIds(t)) = Cardinality(InFlight(t))
        /\ \A b \in WaitingIds(t) : ~At(b).ambiguous => b \in unanswered
    BY DEF IInv, Counted
  <2>2. CASE t # s
    <3>1. \A b \in WaitingIds(t) : b \in Made /\ Held(b) /\ b \notin WaitingIds(s) /\ spellOf[b] = t
      BY <1>3, <2>2
    <3>2. \A b \in WaitingIds(t) : At(b)'.ambiguous = At(b).ambiguous /\ b # a
      BY <1>0, <1>2, <2>2, <3>1
    <3> QED
      BY <1>1, <1>6, <2>1, <2>2, <3>2
  <2>3. CASE t = s
    <3>1. IsFiniteSet(WaitingIds(s)) /\ IsFiniteSet(InFlight(s))
      BY CountFinite DEF IInv
    <3>2. WaitingIds(s) # {}
      <4>1. Cardinality(InFlight(s)) # 0
        BY <1>7, <3>1, FS_EmptySet
      <4> QED
        BY <2>1, <2>3, <4>1, FS_EmptySet
    <3>3. g \in WaitingIds(s)
      BY <1>2, <3>2
    <3>4. Cardinality(WaitingIds(t)') = Cardinality(InFlight(t)')
      BY <1>7, <2>1, <2>3, <3>1, <3>3, CountDrops
    <3>5. ASSUME NEW b \in WaitingIds(s)' PROVE At(b)'.ambiguous
      <4>1. b \in WaitingIds(s) /\ b \in Made /\ Held(b) /\ b # g
        BY <1>3, <1>7
      <4>2. WaitingIds(s) # {b}
        BY <3>3, <4>1
      <4> QED
        BY <1>2, <2>3, <4>1, <4>2
    <3> QED
      BY <2>3, <3>4, <3>5
  <2> QED
    BY <2>2, <2>3
<1>12. AloneKept'
  <2> SUFFICES ASSUME NEW b \in unanswered' \ overlapped,
                      spellOf[b] \notin tombstones \union muddled
               PROVE /\ InFlight(spellOf[b])' = {b}
                     /\ Held(b)' /\ IsWaiting(At(b)') /\ ~At(b)'.ambiguous
    BY <1>1 DEF AloneKept, IsWaiting
  <2>1. PICK t : t = spellOf[b]
    OBVIOUS
  <2>2. b \in unanswered \ overlapped /\ b # a /\ b \in Made
    BY <1>1 DEF IInv, TypeOK
  <2>3. InFlight(t) = {b} /\ Held(b) /\ IsWaiting(At(b)) /\ ~At(b).ambiguous
    BY <2>1, <2>2 DEF IInv, AloneKept
  <2>4. t # s
    BY <1>7, <2>2, <2>3
  <2>5. b \notin WaitingIds(s)
    BY <1>3, <2>1, <2>4
  <2>6. InFlight(t)' = {b} /\ Held(b)' /\ IsWaiting(At(b)') /\ ~At(b)'.ambiguous
    BY <1>2, <1>3, <1>5, <1>6, <2>2, <2>3, <2>4, <2>5
  <2> QED
    BY <1>1, <2>1, <2>6 DEF InFlight
<1>13. /\ d \in {0, a} \/ s \in muddled
       /\ a \notin overlapped /\ s \notin tombstones \union muddled => d = a
  BY <1>0, IdentityTrue
<1>14. ResultTrue'
  BY <1>0, <1>1, <1>13 DEF ResultTrue
<1>15. ExactOrNone'
  BY <1>0, <1>1, <1>13 DEF ExactOrNone, Told
<1>16. AloneIsIdentified'
  BY <1>0, <1>1, <1>13 DEF AloneIsIdentified, Told
<1>17. ResultSettled'
  <2> SUFFICES ASSUME Held(d)'
               PROVE /\ ~At(d)'.ambiguous
                     /\ At(d)'.castResult \in {"SERVER_SUCCESS", "SERVER_FAILURE"}
    BY <1>1 DEF ResultSettled, Held, At
  <2>1. d \in Made /\ Held(d)
    BY <1>3 DEF Held
  <2>2. d # 0
    BY <2>1 DEF Made
  <2>3. WaitingIds(s) = {d} /\ ~At(d).ambiguous
    BY <1>0, <2>2, IdentityFound DEF IInv
  <2>4. g = d
    BY <1>2, <2>3
  <2> QED
    BY <1>2, <1>4, <2>1, <2>3, <2>4
<1> QED
  BY <1>3, <1>8, <1>9, <1>10, <1>11, <1>12, <1>14, <1>15, <1>16, <1>17 DEF IInv

LEMMA SpellFailedStep ==
  ASSUME IInv, TypeOK', SpellFailedByServer
  PROVE  IInv'
<1>1. /\ result.phase = "signalled" /\ result.attempt \in Made /\ result.id \in Ids
      /\ result \in [phase : {"signalled", "failed"}, attempt : Made, id : Ids, success : BOOLEAN]
      /\ UNCHANGED <<history, tombstones, nextId, scopes, targeting, spellOf, unanswered,
                     overlapped, muddled>>
  BY DEF SpellFailedByServer, IInv, TypeOK, NoResult
<1>2. /\ Made' = Made /\ Ids' = Ids /\ \A a : (Held(a)' <=> Held(a)) /\ At(a)' = At(a)
      /\ Numbered' /\ FreshPlain' /\ Counted' /\ AloneKept'
  BY <1>1, SameEntries
<1>3. ScopesFit' /\ TargetOpen'
  BY <1>1, <1>2 DEF IInv, ScopesFit, TargetOpen, Held, At
<1>4. CASE result.success
  <2>1. result' = NoResult /\ told' = told
    BY <1>4 DEF SpellFailedByServer
  <2>2. ResultTrue' /\ ResultSettled'
    BY <2>1 DEF ResultTrue, ResultSettled, NoResult
  <2>3. ToldKept' /\ ExactOrNone' /\ AloneIsIdentified'
    BY <1>1, <1>2, <2>1 DEF IInv, ToldKept, ExactOrNone, AloneIsIdentified
  <2> QED
    BY <1>2, <1>3, <2>2, <2>3 DEF IInv
<1>5. CASE ~result.success
  <2>1. PICK c : /\ c \in {0, result.id}
                 /\ result' = [result EXCEPT !.phase = "failed", !.id = c]
                 /\ told' = Told("SPELL_FAILED_SELF", c, result.attempt)
    BY <1>5 DEF SpellFailedByServer
  <2>2. /\ result'.phase = "failed" /\ result'.id = c /\ result'.attempt = result.attempt
    BY <1>1, <2>1
  <2>3. result.id \in {0, result.attempt} \/ spellOf[result.attempt] \in muddled
    BY <1>1 DEF IInv, ResultTrue
  <2>4. ResultTrue' /\ ToldKept' /\ ExactOrNone' /\ AloneIsIdentified'
    BY <1>1, <1>2, <2>1, <2>2, <2>3
    DEF ResultTrue, ToldKept, ExactOrNone, AloneIsIdentified, Told
  <2>5. ResultSettled'
    <3> SUFFICES ASSUME Held(c)
                 PROVE /\ ~At(c).ambiguous
                       /\ At(c).castResult \in {"SERVER_SUCCESS", "SERVER_FAILURE"}
      BY <1>1, <1>2, <2>2 DEF ResultSettled, Held, At
    <3>1. c # 0
      BY DEF Held, Made
    <3> QED
      BY <1>1, <2>1, <3>1 DEF IInv, ResultSettled
  <2> QED
    BY <1>2, <1>3, <2>4, <2>5 DEF IInv
<1> QED
  BY <1>4, <1>5

(* A retry carries the identity the failure was given.                       *)
LEMMA RetryTells ==
  ASSUME IInv, Retry
  PROVE  /\ result.attempt \in Made /\ result.id \in Ids /\ result.phase = "failed"
         /\ told' = told \/ (Held(result.id) /\ told' = Told("RETRY", result.id, result.attempt))
<1>1. result.attempt \in Made /\ result.id \in Ids /\ result.phase = "failed"
  <2>1. result.phase = "failed"
    BY DEF Retry, RetryFrom
  <2> QED
    BY <2>1 DEF IInv, TypeOK, NoResult
<1>2. FindCastId(history, result.id) # 0 =>
        Held(result.id) /\ history[FindCastId(history, result.id)].castId = result.id
  BY <1>1, FoundById DEF IInv, At
<1> QED
  BY <1>1, <1>2 DEF Retry, RetryFrom

LEMMA RetryStep ==
  ASSUME IInv, TypeOK', Retry
  PROVE  IInv'
<1>1. /\ result' = NoResult
      /\ UNCHANGED <<history, tombstones, nextId, scopes, targeting, spellOf, unanswered,
                     overlapped, muddled>>
  BY DEF Retry, RetryFrom
<1>2. /\ Made' = Made /\ Ids' = Ids /\ \A a : (Held(a)' <=> Held(a)) /\ At(a)' = At(a)
      /\ Numbered' /\ FreshPlain' /\ Counted' /\ AloneKept'
  BY <1>1, SameEntries
<1>3. ScopesFit' /\ TargetOpen' /\ ResultTrue' /\ ResultSettled'
  BY <1>1, <1>2
  DEF IInv, ScopesFit, TargetOpen, ResultTrue, ResultSettled, NoResult, Held, At
<1>4. ToldKept' /\ ExactOrNone' /\ AloneIsIdentified'
  <2>1. CASE told' = told
    BY <1>1, <1>2, <2>1 DEF IInv, ToldKept, ExactOrNone, AloneIsIdentified
  <2>2. CASE told' = Told("RETRY", result.id, result.attempt)
    <3>1. result.attempt \in Made /\ result.phase = "failed"
      BY RetryTells
    <3>2. result.id \in {0, result.attempt} \/ spellOf[result.attempt] \in muddled
      BY <3>1 DEF IInv, ResultTrue
    <3> QED
      BY <1>1, <1>2, <2>2, <3>1, <3>2 DEF ToldKept, ExactOrNone, AloneIsIdentified, Told
  <2> QED
    BY <2>1, <2>2, RetryTells
<1> QED
  BY <1>2, <1>3, <1>4 DEF IInv

LEMMA ResetStep ==
  ASSUME IInv, TypeOK', ResetPlayerContextState
  PROVE  IInv'
<1>1. /\ scopes = <<>> /\ result = NoResult
      /\ history' = <<>> /\ targeting' = 0 /\ told' = Nothing
      /\ muddled' = {spellOf[a] : a \in unanswered}
      /\ UNCHANGED <<nextId, scopes, result, spellOf, unanswered, overlapped>>
  BY DEF ResetPlayerContextState
<1>2. \A a : ~Held(a)'
  <2> SUFFICES ASSUME NEW a, Held(a)' PROVE FALSE
    OBVIOUS
  <2>1. a \in 1..(nextId - 1) /\ nextId - a <= 0 /\ nextId \in Nat
    BY <1>1 DEF Held, Made, IInv, TypeOK
  <2> QED
    BY <2>1
<1>3. Numbered' /\ FreshPlain' /\ TargetOpen' /\ ResultTrue' /\ ResultSettled' /\ ToldKept'
  BY <1>1, <1>2
  DEF Numbered, FreshPlain, TargetOpen, ResultTrue, ResultSettled, ToldKept, NoResult
<1>4. ScopesFit' /\ ExactOrNone' /\ AloneIsIdentified'
  BY <1>1 DEF ScopesFit, ExactOrNone, AloneIsIdentified, Nothing
<1>5. Counted'
  <2> SUFFICES ASSUME NEW t \in Spells \ muddled'
               PROVE WaitingIds(t)' = {} /\ InFlight(t)' = {}
    BY DEF Counted
  <2>1. WaitingIds(t)' = {}
    <3>1. WaitingIds(t)' = {b \in Made' : Held(b)' /\ spellOf'[b] = t /\ IsWaiting(At(b)')}
      BY DEF WaitingIds, IdsWaiting, Made, Held, At, IsWaiting
    <3> QED
      BY <1>2, <3>1
  <2>2. InFlight(t)' = {}
    BY <1>1 DEF InFlight
  <2> QED
    BY <2>1, <2>2
<1>6. AloneKept'
  BY <1>1 DEF AloneKept
<1> QED
  BY <1>3, <1>4, <1>5, <1>6 DEF IInv

LEMMA NextHolds ==
  ASSUME IInv, [Next]_vars
  PROVE  IInv'
<1>1. TypeOK'
  BY TypeStep DEF IInv
<1>2. ASSUME NEW s \in Spells, CastSpell(s) PROVE IInv'
  BY <1>1, <1>2, CastSpellStep
<1>3. CASE Send
  BY <1>1, <1>3, SendStep
<1>4. CASE SendTargeted
  BY <1>1, <1>4, SendTargetedStep
<1>5. CASE LocalFailure
  BY <1>1, <1>5, LocalFailureStep
<1>6. CASE Returns
  BY <1>1, <1>6, ReturnsStep
<1>7. ASSUME NEW a \in unanswered, NEW success \in BOOLEAN, CastResult(a, success) PROVE IInv'
  BY <1>1, <1>7, CastResultStep
<1>8. CASE SpellFailedByServer
  BY <1>1, <1>8, SpellFailedStep
<1>9. CASE Retry
  BY <1>1, <1>9, RetryStep
<1>10. CASE ResetPlayerContextState
  BY <1>1, <1>10, ResetStep
<1>11. CASE UNCHANGED vars
  <2>1. /\ Made' = Made /\ Ids' = Ids /\ \A a : (Held(a)' <=> Held(a)) /\ At(a)' = At(a)
        /\ Numbered' /\ FreshPlain' /\ Counted' /\ AloneKept'
    BY <1>11, SameEntries DEF vars
  <2>2. UNCHANGED <<nextId, scopes, targeting, history, tombstones, result, spellOf, unanswered,
                    overlapped, muddled, told>>
    BY <1>11 DEF vars
  <2>3. ScopesFit' /\ TargetOpen' /\ ResultTrue' /\ ResultSettled' /\ ToldKept'
    BY <2>1, <2>2
    DEF IInv, ScopesFit, TargetOpen, ResultTrue, ResultSettled, ToldKept, Held, At
  <2>4. ExactOrNone' /\ AloneIsIdentified'
    BY <2>2 DEF IInv, ExactOrNone, AloneIsIdentified
  <2> QED
    BY <1>1, <2>1, <2>3, <2>4 DEF IInv
<1> QED
  BY <1>2, <1>3, <1>4, <1>5, <1>6, <1>7, <1>8, <1>9, <1>10, <1>11 DEF Next

(* The number of waiting entries, by position again.                         *)
LEMMA CountedIsWaiting ==
  ASSUME IInv
  PROVE  HistoryInv
<1> SUFFICES ASSUME NEW s \in Spells \ (tombstones \union muddled)
             PROVE /\ Cardinality(Waiting(history, s)) = Cardinality(InFlight(s))
                   /\ \A i \in Waiting(history, s) :
                        ~history[i].ambiguous => history[i].castId \in unanswered
  BY DEF IInv, HistoryInv, WaitingIsInFlight
<1>1. /\ Cardinality(WaitingIds(s)) = Cardinality(InFlight(s))
      /\ \A a \in WaitingIds(s) : ~At(a).ambiguous => a \in unanswered
  BY DEF IInv, Counted
<1> QED
  BY <1>1, WaitingById DEF IInv

(* An entry that is not exact stays so for as long as the history holds it.  *)
LEMMA StaysAmbiguous ==
  ASSUME IInv, [Next]_vars, NEW a \in Made, Held(a), Held(a)', At(a).ambiguous
  PROVE  At(a)'.ambiguous
<1>0. a \in Ids /\ At(a) \in Entry
  <2>1. a \in Ids
    BY DEF Made, Ids, IInv, TypeOK
  <2> QED
    BY <2>1, FoundById DEF IInv
<1>1. ASSUME NEW s \in Spells, CastSpell(s) PROVE At(a)'.ambiguous
  BY <1>1, CastSpellEntries
<1>2. CASE Send
  <2>1. At(a)' = IF a = Head(scopes)
                 THEN [At(a) EXCEPT !.castResult = "WAITING_FOR_SERVER"] ELSE At(a)
    BY <1>2, BeginActive DEF Send, Sends
  <2> QED
    BY <1>0, <2>1 DEF Entry
<1>3. CASE SendTargeted
  <2>1. At(a)' = IF a = nextId - 1
                 THEN [At(a) EXCEPT !.castResult = "WAITING_FOR_SERVER", !.ambiguous = TRUE]
                 ELSE At(a)
    <3>1. history # <<>> /\ scopes = <<>> /\ nextId' = nextId
      BY <1>3 DEF SendTargeted, IInv, TargetOpen
    <3>2. PICK s : BeginCast(s)
      BY <1>3 DEF SendTargeted, Sends
    <3> QED
      BY <3>1, <3>2, BeginNewest
  <2> QED
    BY <1>0, <2>1 DEF Entry
<1>4. CASE LocalFailure
  <2>1. PICK k \in 1..Len(history) : history' = SetResult(history, k, "SERVER_FAILURE")
    BY <1>4, ActiveFound DEF LocalFailure
  <2>2. /\ history \in Seq(Entry) /\ Len(history) \in Nat /\ nextId \in Nat /\ nextId' = nextId
        /\ \A i \in 1..Len(history) : history[i] \in Entry
    BY <1>4 DEF LocalFailure, IInv, TypeOK
  <2>5. history' = [history EXCEPT ![k].castResult = "SERVER_FAILURE"]
    BY <2>1, <2>2 DEF SetResult
  <2>3. nextId - a \in 1..Len(history)
    BY <2>2 DEF Held, Made
  <2>4. history'[nextId - a].ambiguous = history[nextId - a].ambiguous
    <3>1. PICK m \in 1..Len(history) : m = nextId - a
      BY <2>3
    <3>2. history'[m] = IF m = k THEN [history[m] EXCEPT !.castResult = "SERVER_FAILURE"]
                        ELSE history[m]
      BY <2>2, <2>5
    <3> QED
      BY <2>2, <3>1, <3>2 DEF Entry
  <2> QED
    BY <2>2, <2>4 DEF At
<1>5. ASSUME NEW b \in unanswered, NEW success \in BOOLEAN, CastResult(b, success)
      PROVE At(a)'.ambiguous
  <2>1. PICK i, r : /\ r \in CastResults
                    /\ IF Waiting(history, spellOf[b]) = {} THEN i = 0
                       ELSE i \in Waiting(history, spellOf[b])
                    /\ history' = SetResult(MarkAmbiguous(history, tombstones, spellOf[b]), i, r)
                    /\ nextId' = nextId
    BY <1>5, CastResultWrites DEF CastResults, IInv
  <2>2. Made' = Made
    BY <2>1 DEF Made
  <2> QED
    BY <2>1, <2>2, CorrelateEntries DEF IInv
<1>6. CASE UNCHANGED <<history, nextId>>
  BY <1>6 DEF At
<1>7. CASE ResetPlayerContextState
  <2>1. nextId - a <= 0 /\ a \in 1..(nextId - 1) /\ nextId \in Nat
    BY <1>7 DEF ResetPlayerContextState, Held, Made, IInv, TypeOK
  <2> QED
    BY <2>1
<1>8. Returns \/ SpellFailedByServer \/ Retry \/ UNCHANGED vars => UNCHANGED <<history, nextId>>
  BY DEF Returns, SpellFailedByServer, Retry, RetryFrom, vars
<1> QED
  BY <1>1, <1>2, <1>3, <1>4, <1>5, <1>6, <1>7, <1>8 DEF Next

(* An identity made known is that of an exact entry.                         *)
LEMMA ToldIsExact ==
  ASSUME IInv, [Next]_vars, told' # told
  PROVE  told'.id # 0 => ~At(told'.id).ambiguous
<1>1. ASSUME NEW a \in unanswered, NEW success \in BOOLEAN, CastResult(a, success)
      PROVE told'.id # 0 => ~At(told'.id).ambiguous
  <2>1. told' = Told("SPELL_CAST_RESULT_SELF", Identity(spellOf[a]), a)
    BY <1>1 DEF CastResult, Correlate, Identity
  <2>2. told'.id = Identity(spellOf[a])
    BY <2>1 DEF Told
  <2> QED
    BY <2>2, IdentityFound DEF IInv
<1>2. CASE SpellFailedByServer
  <2>1. PICK c : /\ c \in {0, result.id}
                 /\ told' = Told("SPELL_FAILED_SELF", c, result.attempt)
                 /\ c # 0 => FindCastId(history, result.id) # 0
    BY <1>2 DEF SpellFailedByServer
  <2>2. result.phase = "signalled" /\ result.id \in Ids
    BY <1>2 DEF SpellFailedByServer, IInv, TypeOK, NoResult
  <2>3. c # 0 => Held(c) /\ c = result.id
    BY <2>1, <2>2, FoundById DEF IInv
  <2>4. told'.id = c
    BY <2>1 DEF Told
  <2> QED
    BY <2>2, <2>3, <2>4 DEF IInv, ResultSettled
<1>3. CASE Retry
  <2>1. Held(result.id) /\ told' = Told("RETRY", result.id, result.attempt)
        /\ result.phase = "failed"
    BY <1>3, RetryTells
  <2>2. told'.id = result.id
    BY <2>1 DEF Told
  <2> QED
    BY <2>1, <2>2 DEF IInv, ResultSettled
<1>4. CASE ResetPlayerContextState
  BY <1>4 DEF ResetPlayerContextState, Nothing
<1>5. \A s \in Spells : CastSpell(s) => told' = told
  BY DEF CastSpell
<1>6. Send \/ SendTargeted \/ LocalFailure \/ Returns \/ UNCHANGED vars => told' = told
  BY DEF Send, SendTargeted, LocalFailure, Returns, vars
<1> QED
  BY <1>1, <1>2, <1>3, <1>4, <1>5, <1>6 DEF Next

LEMMA AmbiguousStep ==
  ASSUME IInv, [Next]_vars, NEW i \in 1..Len(history), history[i].ambiguous
  PROVE  /\ \A j \in 1..Len(history') :
              history'[j].castId = history[i].castId => history'[j].ambiguous
         /\ told' # told => told'.id # history[i].castId
<1>0. PICK a : a = history[i].castId
  OBVIOUS
<1>1. /\ a \in Made /\ a = nextId - i /\ nextId - a = i /\ a # 0
      /\ Held(a) /\ At(a) = history[i]
  <2>1. history[i] \in Entry /\ a = nextId - i /\ nextId \in Nat /\ Len(history) \in Nat
    BY <1>0 DEF IInv, TypeOK, Numbered
  <2>2. a \in Made /\ a # 0
    <3>1. a \in Made
      BY <1>0, <2>1 DEF Entry
    <3> QED
      BY <3>1 DEF Made
  <2>3. nextId - a = i
    BY <2>1
  <2> QED
    BY <2>1, <2>2, <2>3 DEF Held, At
<1>2. ASSUME NEW j \in 1..Len(history'), history'[j].castId = a PROVE history'[j].ambiguous
  <2>1. /\ TypeOK' /\ Numbered'
    BY NextHolds DEF IInv
  <2>2. history'[j] \in Entry' /\ a = nextId' - j /\ nextId' \in Nat /\ Len(history') \in Nat
    BY <1>2, <2>1 DEF TypeOK, Numbered
  <2>3. a \in Made'
    BY <1>2, <2>2 DEF Entry
  <2>4. nextId' - a = j
    <3>1. PICK n \in Int : n = nextId'
      BY <2>2
    <3>2. a = n - j /\ j \in Int
      BY <2>2, <3>1
    <3>3. n - a = j
      BY <3>2
    <3> QED
      BY <3>1, <3>3
  <2>5. Held(a)' /\ At(a)' = history'[j]
    BY <2>2, <2>3, <2>4 DEF Held, At
  <2> QED
    BY <1>1, <2>5, StaysAmbiguous
<1>3. told' # told => told'.id # a
  BY <1>1, ToldIsExact
<1> QED
  BY <1>0, <1>2, <1>3
------------------------------------------------------------------------------
LEMMA Inductive == Spec => []IInv
<1>1. Init => IInv
  BY InitHolds
<1>2. IInv /\ [Next]_vars => IInv'
  BY NextHolds
<1> QED
  BY <1>1, <1>2, PTL DEF Spec

(* castqueue.h:38-44: as many entries wait as attempts of the spell are in   *)
(* flight, and a waiting entry that is exact is in flight, evictions and     *)
(* every order of answers included, for every capacity.                      *)
THEOREM HistoryTheorem == Spec => []HistoryInv
<1>1. IInv => HistoryInv
  BY CountedIsWaiting
<1> QED
  BY <1>1, Inductive, PTL

(* EVENTS.md:254-263: an identity given to a result, a failure or a retry is *)
(* that of the attempt the server answered, or none.                         *)
THEOREM ExactTheorem == Spec => []ExactOrNone
<1>1. IInv => ExactOrNone
  BY DEF IInv
<1> QED
  BY <1>1, Inductive, PTL

(* EVENTS.md:262-264: an attempt that was alone of its spell is identified.  *)
THEOREM AloneTheorem == Spec => []AloneIsIdentified
<1>1. IInv => AloneIsIdentified
  BY DEF IInv
<1> QED
  BY <1>1, Inductive, PTL

(* spellcast.cpp:198-200: an entry that is not exact never becomes exact     *)
(* again, and its identity is never made known.                              *)
THEOREM AmbiguousTheorem == Spec => AmbiguousForGood
<1>1. IInv /\ [Next]_vars =>
        [\A i \in 1..Len(history) :
           history[i].ambiguous =>
             /\ \A j \in 1..Len(history') :
                  history'[j].castId = history[i].castId => history'[j].ambiguous
             /\ told' # told => told'.id # history[i].castId]_vars
  BY AmbiguousStep
<1> QED
  BY <1>1, Inductive, PTL DEF Spec, AmbiguousForGood
==============================================================================






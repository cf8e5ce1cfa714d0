------------------------------ MODULE CastDeque ------------------------------
(***************************************************************************)
(* What class CastQueue (castqueue.h) promises, as operators on sequences: *)
(* element 1 is the front of the queue.  CastQueue.tla shows that the ring *)
(* buffer of the source implements them; the models of the components that *)
(* own a CastQueue use these operators and not the ring.                   *)
(*                                                                         *)
(* An entry is a record with at least the fields castId, spellId,          *)
(* castResult and ambiguous (resultCorrelationAmbiguous).  Identifiers are *)
(* small naturals; 0 is the value-initialised field, as in the source.     *)
(***************************************************************************)
EXTENDS Integers, Sequences

(* enum CastResult *)
CastResults ==
  {"WAITING_FOR_CAST", "WAITING_FOR_SERVER", "SERVER_SUCCESS", "SERVER_FAILURE"}

IsWaiting(p) == p.castResult = "WAITING_FOR_SERVER"

(* The positions of the entries a search of the source would stop at. *)
WithSpellId(items, s) == {i \in 1..Len(items) : items[i].spellId = s}
WithCastId(items, c)  == {i \in 1..Len(items) : items[i].castId = c}
Waiting(items, s)     == {i \in WithSpellId(items, s) : IsWaiting(items[i])}
Successful(items, s)  ==
  {i \in WithSpellId(items, s) : items[i].castResult = "SERVER_SUCCESS"}

(* The searches return a position, or 0 for nullptr.  They run from the    *)
(* front, except findOldestWaitingForServerSpellId.                        *)
FirstOf(S) == IF S = {} THEN 0 ELSE CHOOSE i \in S : \A j \in S : i <= j
LastOf(S)  == IF S = {} THEN 0 ELSE CHOOSE i \in S : \A j \in S : j <= i

FindSpellId(items, s)         == FirstOf(WithSpellId(items, s))
FindCastId(items, c)          == FirstOf(WithCastId(items, c))
FindOldestWaiting(items, s)   == LastOf(Waiting(items, s))
FindNewestWaiting(items, s)   == FirstOf(Waiting(items, s))
FindNewestSuccessful(items, s) == FirstOf(Successful(items, s))

(* findUniqueWaitingForServerSpellId: the position it returns ... *)
FindUniqueWaiting(items, tombstones, s) ==
  LET W == Waiting(items, s)
  IN IF /\ s \notin tombstones
        /\ \E i \in W : W = {i} /\ ~items[i].ambiguous
     THEN FirstOf(W) ELSE 0

(* ... and the cohort it marks: several waiting entries can never be told  *)
(* apart again.                                                            *)
MarkAmbiguous(items, tombstones, s) ==
  LET W == Waiting(items, s)
  IN IF s \notin tombstones /\ \E i, j \in W : i # j
     THEN [i \in 1..Len(items) |->
             IF i \in W THEN [items[i] EXCEPT !.ambiguous = TRUE] ELSE items[i]]
     ELSE items

SetResult(items, i, r) ==
  IF i = 0 THEN items ELSE [items EXCEPT ![i].castResult = r]

(* pushFront on a full queue drops the entry at the back; a waiting one     *)
(* leaves a tombstone for its spell.                                        *)
PushedFront(items, p, max) ==
  <<p>> \o (IF Len(items) = max THEN SubSeq(items, 1, max - 1) ELSE items)

EvictionTombstones(items, tombstones, max) ==
  IF Len(items) = max /\ IsWaiting(items[max])
  THEN tombstones \union {items[max].spellId} ELSE tombstones

(* push on a full queue drops the entry at the front. *)
Pushed(items, p, max) ==
  Append(IF Len(items) = max THEN Tail(items) ELSE items, p)

RemovedAt(items, i) == SubSeq(items, 1, i - 1) \o SubSeq(items, i + 1, Len(items))
==============================================================================

---------------------------- MODULE CastCorrelation ----------------------------
(***************************************************************************)
(* Which attempt a server result belongs to.  SMSG_CAST_RESULT carries a     *)
(* spell and no cast sequence, so Nampower correlates it with gCastHistory   *)
(* (CastResultHandlerHook) and hands the identity on to SPELL_CAST_RESULT_   *)
(* SELF, SPELL_FAILED_SELF and the retry queues.                             *)
(*                                                                         *)
(* `unanswered` is the truth the program does not see: the attempts the      *)
(* client sent and whose answer is on its way, in whatever order.  `told`    *)
(* compares what Nampower made of an answer with that truth.  Handlers run   *)
(* inside the client cast and inside a result, and may cast again; `scopes`  *)
(* is the nest of ActiveAttemptScope objects, innermost first.               *)
(***************************************************************************)
EXTENDS CastDeque, FiniteSets

CONSTANTS
  Spells,          (* spell identifiers *)
  HistorySize,     (* capacity of gCastHistory, 30 in main.cpp *)
  MaxAttempts,     (* bound: cast attempts in a behaviour *)
  MaxNesting       (* bound: client casts on the call stack at a time *)

ASSUME SpellAssumption == Spells \subseteq Nat \ {0}
ASSUME SizeAssumption == HistorySize \in Nat \ {0}
ASSUME BoundAssumption == MaxAttempts \in Nat /\ MaxNesting \in Nat

Attempts == 1..MaxAttempts

VARIABLES
  history,     (* gCastHistory, newest first *)
  tombstones,  (* its unresolvedEvictionSpellIds *)
  nextId,      (* gNextCastId *)
  scopes,      (* attempts whose ActiveAttemptScope is alive, innermost first *)
  targeting,   (* the attempt the client wants a terrain click for, 0 if none *)
  result,      (* the server result being handled *)
  spellOf,     (* the spell of each attempt *)
  unanswered,  (* attempts sent and not answered *)
  overlapped,  (* attempts that shared their time in flight with another attempt
                  of the spell, or were sent outside their scope *)
  muddled,     (* spells an entry of which was taken for another attempt: a terrain
                  click sent after other attempts, or an answer older than the UI load *)
  told         (* the last identity made known: what, the id, the true attempt *)

vars == <<history, tombstones, nextId, scopes, targeting, result, spellOf, unanswered,
          overlapped, muddled, told>>

NoResult == [phase |-> "none"]
Nothing  == [what |-> "nothing", id |-> 0, attempt |-> 0]
Told(w, c, a) == [what |-> w, id |-> c, attempt |-> a]

Init ==
  /\ history = <<>> /\ tombstones = {}
  /\ nextId = 1
  /\ scopes = <<>> /\ targeting = 0
  /\ result = NoResult
  /\ spellOf = [a \in Attempts |-> 0]
  /\ unanswered = {} /\ overlapped = {} /\ muddled = {}
  /\ told = Nothing

InFlight(s) == {a \in unanswered : spellOf[a] = s}
------------------------------------------------------------------------------
(* Spell_C_CastSpellHook up to the client call: the entry of the attempt,    *)
(* and its scope.  Bound: the attempts made inside one client call fit in    *)
(* the history, so that no attempt outlives its entry there.                 *)
Nests ==
  /\ nextId <= MaxAttempts /\ Len(scopes) < MaxNesting
  /\ scopes # <<>> => nextId - scopes[Len(scopes)] < HistorySize

ForgetsEvicted(s) ==          (* mutant: the evicted entry leaves no tombstone *)
  /\ Nests
  /\ nextId' = nextId + 1
  /\ history' = PushedFront(history,
       [castId |-> nextId, spellId |-> s,
        castResult |-> "WAITING_FOR_CAST", ambiguous |-> FALSE], HistorySize)
  /\ spellOf' = [spellOf EXCEPT ![nextId] = s]
  /\ scopes' = <<nextId>> \o scopes
  /\ UNCHANGED <<tombstones, targeting, result, unanswered, overlapped, muddled, told>>

CastSpell(s) ==
  /\ Nests
  /\ nextId' = nextId + 1
  /\ history' = PushedFront(history,
       [castId |-> nextId, spellId |-> s,
        castResult |-> "WAITING_FOR_CAST", ambiguous |-> FALSE], HistorySize)
  /\ tombstones' = EvictionTombstones(history, tombstones, HistorySize)
  /\ spellOf' = [spellOf EXCEPT ![nextId] = s]
  /\ scopes' = <<nextId>> \o scopes
  /\ UNCHANGED <<targeting, result, unanswered, overlapped, muddled, told>>

AlwaysNewest(s) ==               (* mutant: the active attempt is not looked up *)
  history' = [i \in 1..Len(history) |->
                IF i = 1
                THEN [history[i] EXCEPT !.castResult = "WAITING_FOR_SERVER",
                                        !.ambiguous = TRUE]
                ELSE history[i]]

(* BeginCast: the entry of the active attempt, or else the newest one, which *)
(* is then never exact.                                                      *)
BeginCast(s) ==
  LET scoped == IF scopes # <<>> /\ spellOf[Head(scopes)] = s
                THEN FindCastId(history, Head(scopes)) ELSE 0
      last   == IF scoped = 0 /\ history # <<>> THEN 1 ELSE scoped
  IN history' = [i \in 1..Len(history) |->
                   IF i = last
                   THEN [history[i] EXCEPT !.castResult = "WAITING_FOR_SERVER",
                                           !.ambiguous = @ \/ scoped = 0]
                   ELSE history[i]]

(* SendCastHook: the packet is on its way.                                   *)
Sends(a, exactly) ==
  LET others == InFlight(spellOf[a])
  IN /\ unanswered' = unanswered \union {a}
     /\ overlapped' = overlapped \union others
                        \union (IF others # {} \/ ~exactly THEN {a} ELSE {})
     /\ BeginCast(spellOf[a])

(* An attempt that the client has neither sent nor refused.                  *)
Undecided(a) ==
  LET i == FindCastId(history, a)
  IN i = 0 \/ history[i].castResult = "WAITING_FOR_CAST"

Send ==
  /\ scopes # <<>> /\ Head(scopes) \notin unanswered
  /\ Undecided(Head(scopes))
  /\ Sends(Head(scopes), FindCastId(history, Head(scopes)) # 0)
  /\ UNCHANGED <<tombstones, nextId, scopes, targeting, result, spellOf, muddled, told>>

(* The client sends a terrain spell on a later click, outside its scope.     *)
SendTargeted ==
  /\ scopes = <<>> /\ result = NoResult
  /\ targeting # 0
  /\ targeting' = 0
  /\ Sends(targeting, FALSE)
  /\ muddled' = IF nextId = targeting + 1 THEN muddled
                ELSE muddled \union {spellOf[targeting]}
                       \union {history[i].spellId : i \in 1..Len(history) \intersect {1}}
  /\ UNCHANGED <<tombstones, nextId, scopes, result, spellOf, told>>

(* Spell_C_SpellFailedHook for a failure the client finds itself: cooldown   *)
(* and on-swing failures close the entry of the active attempt.              *)
LocalFailure ==
  /\ scopes # <<>> /\ Head(scopes) \notin unanswered
  /\ Undecided(Head(scopes))
  /\ history' = SetResult(history, FindCastId(history, Head(scopes)), "SERVER_FAILURE")
  /\ history' # history
  /\ UNCHANGED <<tombstones, nextId, scopes, targeting, result, spellOf, unanswered,
                 overlapped, muddled, told>>

(* The client call returns and the scope ends; a terrain spell that was not  *)
(* sent may leave the client waiting for a click.                            *)
Returns ==
  /\ scopes # <<>>
  /\ scopes' = Tail(scopes)
  /\ targeting' \in {targeting} \union
       (IF Head(scopes) \notin unanswered /\ Undecided(Head(scopes))
        THEN {Head(scopes)} ELSE {})
  /\ UNCHANGED <<history, tombstones, nextId, result, spellOf, unanswered, overlapped, muddled, told>>
------------------------------------------------------------------------------
(* CastResultHandlerHook for the answer to attempt a: mark, correlate, move  *)
(* the entry the heuristic picks, and signal SPELL_CAST_RESULT_SELF.         *)
Correlate(a, marked, id, success) ==
  LET s == spellOf[a]
      i == IF success THEN FindOldestWaiting(marked, s) ELSE FindNewestWaiting(marked, s)
  IN /\ scopes = <<>> /\ result = NoResult
     /\ a \in unanswered
     /\ unanswered' = unanswered \ {a}
     /\ history' = SetResult(marked, i, IF success THEN "SERVER_SUCCESS" ELSE "SERVER_FAILURE")
     /\ told' = Told("SPELL_CAST_RESULT_SELF", id, a)
     /\ result' = [phase |-> "signalled", attempt |-> a, id |-> id, success |-> success]
     /\ UNCHANGED <<tombstones, nextId, scopes, targeting, spellOf, overlapped, muddled>>

IdAt(i) == IF i = 0 THEN 0 ELSE history[i].castId

NeverMarks(a, success) ==        (* mutant: the cohort is not marked *)
  Correlate(a, history, IdAt(FindUniqueWaiting(history, tombstones, spellOf[a])), success)

ForgetsMarks(a, success) ==      (* mutant: the last of a cohort is exact again *)
  LET W == Waiting(history, spellOf[a])
  IN Correlate(a, MarkAmbiguous(history, tombstones, spellOf[a]),
               IF Cardinality(W) = 1 THEN IdAt(FirstOf(W)) ELSE 0, success)

CastResult(a, success) ==
  Correlate(a, MarkAmbiguous(history, tombstones, spellOf[a]),
            IdAt(FindUniqueWaiting(history, tombstones, spellOf[a])), success)

(* The original handler, once the handlers of the event have returned: a     *)
(* rejection reaches Spell_C_SpellFailedHook, which keeps the identity only  *)
(* while the attempt is still in the history.                                *)
SpellFailedByServer ==
  LET s == spellOf[result.attempt]
      i == IF result.id = 0 THEN 0 ELSE FindCastId(history, result.id)
      attemptId == IF i # 0 /\ history[i].spellId = s THEN result.id ELSE 0
  IN /\ scopes = <<>> /\ result.phase = "signalled"
     /\ IF result.success
        THEN result' = NoResult /\ UNCHANGED told
        ELSE /\ result' = [result EXCEPT !.phase = "failed", !.id = attemptId]
             /\ told' = Told("SPELL_FAILED_SELF", attemptId, result.attempt)
     /\ UNCHANGED <<history, tombstones, nextId, scopes, targeting, spellOf, unanswered,
                    overlapped, muddled>>

(* The rest of the hook, after the handlers of SPELL_FAILED_SELF: the entry  *)
(* of the attempt is looked up again and copied into a queue for a retry.    *)
RetryFrom(i) ==
  /\ scopes = <<>> /\ result.phase = "failed"
  /\ result' = NoResult
  /\ told' = IF i = 0 THEN told ELSE Told("RETRY", history[i].castId, result.attempt)
  /\ UNCHANGED <<history, tombstones, nextId, scopes, targeting, spellOf, unanswered,
                 overlapped, muddled>>

Retry == RetryFrom(IF result.id = 0 THEN 0 ELSE FindCastId(history, result.id))

(* ResetPlayerContextState, on a UI load.                                    *)
ResetPlayerContextState ==
  /\ scopes = <<>> /\ result = NoResult /\ history # <<>>
  /\ history' = <<>> /\ tombstones' = {}
  /\ targeting' = 0
  /\ muddled' = {spellOf[a] : a \in unanswered}
  /\ told' = Nothing
  /\ UNCHANGED <<nextId, scopes, result, spellOf, unanswered, overlapped>>

Next ==
  \/ \E s \in Spells : CastSpell(s)
  \/ Send \/ SendTargeted \/ LocalFailure \/ Returns
  \/ \E a \in unanswered, success \in BOOLEAN : CastResult(a, success)
  \/ SpellFailedByServer \/ Retry
  \/ ResetPlayerContextState

Spec == Init /\ [][Next]_vars
------------------------------------------------------------------------------
(* The variables have their types.                                           *)
Ids   == 0..(nextId - 1)
Made  == 1..(nextId - 1)
Entry == [castId : Made, spellId : Spells, castResult : CastResults, ambiguous : BOOLEAN]
TypeOK ==
  /\ nextId \in 1..(MaxAttempts + 1)
  /\ history \in Seq(Entry) /\ Len(history) <= HistorySize
  /\ tombstones \subseteq Spells
  /\ scopes \in Seq(Made) /\ Len(scopes) <= MaxNesting
  /\ targeting \in Ids
  /\ result \in {NoResult} \union
       [phase : {"signalled", "failed"}, attempt : Made, id : Ids, success : BOOLEAN]
  /\ spellOf \in [Attempts -> Spells \union {0}] /\ \A a \in Made : spellOf[a] \in Spells
  /\ unanswered \subseteq Made /\ overlapped \subseteq Made /\ muddled \subseteq Spells
  /\ told \in [what : {"nothing", "SPELL_CAST_RESULT_SELF", "SPELL_FAILED_SELF", "RETRY"},
               id : Ids, attempt : Ids]

(* EVENTS.md:254-263, spellevents.cpp:617-620: an identity given to a result, *)
(* a failure or a retry is that of the attempt the server answered, or none. *)
ExactOrNone ==
  told.attempt = 0 \/ told.id \in {0, told.attempt} \/ spellOf[told.attempt] \in muddled

(* EVENTS.md:262-264: an attempt that was the only one of its spell in       *)
(* flight from its send to its answer is identified, unless an unresolved    *)
(* entry of the spell was evicted.                                           *)
AloneIsIdentified ==
  told.what = "SPELL_CAST_RESULT_SELF" /\ told.attempt \notin overlapped
    => told.id = told.attempt \/ spellOf[told.attempt] \in tombstones \union muddled

(* Why both hold: per spell without a tombstone, as many entries wait as     *)
(* attempts are in flight, and an entry not marked ambiguous is in flight.   *)
WaitingIsInFlight ==
  \A s \in Spells \ (tombstones \union muddled) :
    /\ Cardinality(Waiting(history, s)) = Cardinality(InFlight(s))
    /\ \A i \in Waiting(history, s) :
         ~history[i].ambiguous => history[i].castId \in unanswered

(* castqueue.h:38-44: the history and what surrounds it stay in their ranges, *)
(* evictions included, with that count.                                      *)
HistoryInv == TypeOK /\ WaitingIsInFlight

(* spellcast.cpp:198-200: an entry the fallback touched, or a member of an   *)
(* unresolved cohort, never regains an exact identity, wherever a scan or an *)
(* eviction moves it.                                                        *)
AmbiguousForGood ==
  [][\A i \in 1..Len(history) :
       history[i].ambiguous =>
         /\ \A j \in 1..Len(history') :
              history'[j].castId = history[i].castId => history'[j].ambiguous
         /\ told' # told => told'.id # history[i].castId]_vars
==============================================================================

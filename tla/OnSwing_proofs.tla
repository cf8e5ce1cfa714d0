---------------------------- MODULE OnSwing_proofs ----------------------------
(***************************************************************************)
(* Ownership of the on-next-swing spell for any number of attempts, spells   *)
(* and nested handlers: the state keeps its types, a buffer is always the     *)
(* newer of the two generations, no frame displaces a newer generation, no   *)
(* generation fails that the server may still answer (unless answers to its  *)
(* spell outlived a UI load), and what Lua hears of each generation is one   *)
(* story that ends where the state does.                                     *)
(***************************************************************************)
EXTENDS OnSwing, TLAPS

(* One step of NewerWins.                                                    *)
NewerStep ==
  /\ armed # 0 /\ armed' # 0 => armed <= armed'
  /\ buffered # 0 /\ buffered' # 0 => buffered <= buffered'

(* The steps the actions build are steps.                                    *)
LEMMA StepForms ==
  ASSUME TypeOK
  PROVE  /\ LegacyPop \in Step /\ OtherEvent \in Step
         /\ \A e \in Events, a \in Made : Tell(e, a) \in Step
         /\ \A a \in Made : /\ Replay(a) \in Step
                            /\ [do |-> "LegacyPush", id |-> a] \in Step
         /\ \A s \in Spells, a \in Ids : Fail(s, a) \in Step
         /\ Clear \in Step
  BY DEF TypeOK, Step, LegacyPop, OtherEvent, Tell, Replay, Fail, Clear, Made, Ids

(* What the frame on top may hold, by its kind.                              *)
LEMMA TopForms ==
  ASSUME TypeOK, todo # <<>>
  PROVE  /\ Top \in Step /\ Tail(todo) \in Seq(Step)
         /\ Top.do = "Tell" => Top.event \in Events /\ Top.id \in Made
         /\ Top.do = "Replay" => Top.id \in Made
         /\ Top.do = "Fail" => Top.spell \in Spells /\ Top.id \in Ids
         /\ Top.do = "Return" =>
              /\ Top.id \in Made /\ Top.armed \in Ids /\ Top.buffered \in Ids
              /\ Top.failed \in BOOLEAN
              /\ Top.armed < Top.id /\ Top.buffered < Top.id
<1>1. Top \in Step /\ Tail(todo) \in Seq(Step)
  BY DEF TypeOK, Top
<1> QED
  BY <1>1 DEF Step

(* Sequences of steps the actions put together.                              *)
LEMMA StepSequences ==
  ASSUME TypeOK
  PROVE  /\ \A e \in Events, a \in Ids : TellIf(e, a) \in Seq(Step)
         /\ \A e \in Events, a \in Ids : EndBuffer(e, a) \in Seq(Step)
         /\ \A x, y \in Seq(Step) : x \o y \in Seq(Step)
         /\ \A x \in Step : <<x>> \in Seq(Step)
         /\ <<>> \in Seq(Step)
<1>1. \A a \in Ids : a # 0 => a \in Made
  BY DEF TypeOK, Ids, Made
<1>2. \A e \in Events, a \in Made : Tell(e, a) \in Step
  BY StepForms
<1>3. LegacyPop \in Step
  BY StepForms
<1>4. \A e \in Events, a \in Ids : TellIf(e, a) \in Seq(Step)
  BY <1>1, <1>2 DEF TellIf
<1>5. \A e \in Events, a \in Ids : EndBuffer(e, a) \in Seq(Step)
  BY <1>1, <1>2, <1>3 DEF EndBuffer
<1> QED
  BY <1>4, <1>5

(* The steps are those of the attempts made: more attempts, more steps.      *)
LEMMA StepsGrow ==
  ASSUME TypeOK, nextId' \in {nextId, nextId + 1}
  PROVE  /\ Step \subseteq Step' /\ Seq(Step) \subseteq Seq(Step')
         /\ Ids \subseteq Ids' /\ Made \subseteq Made'
<1>1. Ids \subseteq Ids' /\ Made \subseteq Made' /\ Made \union {nextId} \subseteq Made' \union {nextId'}
  <2>1. nextId \in Nat \ {0}
    BY MaxAttemptsAssumption DEF TypeOK
  <2>2. CASE nextId' = nextId
    BY <2>2 DEF Ids, Made
  <2>3. CASE nextId' = nextId + 1
    BY <2>1, <2>3 DEF Ids, Made
  <2> QED
    BY <2>2, <2>3
<1>2. Step \subseteq Step'
  BY <1>1 DEF Step, Events, ArmedEnd, BufferEnd
<1> QED
  BY <1>1, <1>2

(* A step that makes no attempt keeps the types if what it writes has them.  *)
LEMMA KeepTypes ==
  ASSUME TypeOK, UNCHANGED <<nextId, spellOf, playerOf>>,
         armed' \in Ids, buffered' \in Ids, todo' \in Seq(Step), inLua' \in BOOLEAN,
         legacy' \in BOOLEAN, player' \in Players, inFlight' \subseteq Made,
         muddled' \subseteq Spells,
         heard' \in [Attempts -> Seq(Events)]
  PROVE  TypeOK'
<1>1. Seq(Step) \subseteq Seq(Step') /\ Ids \subseteq Ids' /\ Made \subseteq Made' /\ Made' = Made
  BY StepsGrow DEF Made
<1> QED
  BY <1>1 DEF TypeOK, Events, ArmedEnd, BufferEnd, Attempts

(* A new attempt: its frame keeps a snapshot of older attempts only.         *)
LEMMA AttemptTypes ==
  ASSUME TypeOK, NEW s \in Spells, NEW p \in Players, NEW rest \in Seq(Step),
         BeginAttempt(s, p, rest)
  PROVE  TypeOK'
<1> USE MaxAttemptsAssumption
<1>1. nextId \in Attempts /\ nextId' = nextId + 1 /\ nextId' \in 1..(MaxAttempts + 1)
  BY DEF TypeOK, BeginAttempt, Attempts
<1>2. /\ Step \subseteq Step' /\ Seq(Step) \subseteq Seq(Step')
      /\ Ids \subseteq Ids' /\ Made \subseteq Made'
  BY <1>1, StepsGrow
<1>3. Made' = Made \union {nextId} /\ Ids \subseteq Nat /\ \A i \in Ids : i < nextId
  BY <1>1 DEF TypeOK, Made, Ids
<1>4. Return(nextId, FALSE) \in Step'
  <2>1. /\ armed \in Ids' /\ buffered \in Ids' /\ nextId \in Made'
        /\ armed < nextId /\ buffered < nextId
    BY <1>2, <1>3 DEF TypeOK
  <2> QED
    BY <2>1 DEF Return, Step
<1>5. todo' \in Seq(Step')
  <2>1. <<Return(nextId, FALSE)>> \in Seq(Step') /\ rest \in Seq(Step')
    <3>1. \A x \in Step' : <<x>> \in Seq(Step')
      OBVIOUS
    <3> QED
      BY <1>2, <1>4, <3>1
  <2>2. \A x, y \in Seq(Step') : x \o y \in Seq(Step')
    OBVIOUS
  <2> QED
    BY <2>1, <2>2 DEF BeginAttempt
<1>6. /\ spellOf' \in [Attempts -> Spells \union {NoSpell}]
      /\ playerOf' \in [Attempts -> Players \union {0}]
      /\ \A a \in Made' : spellOf'[a] \in Spells
  <2>1. \A a \in Made : a \in Attempts /\ a # nextId
    BY <1>1 DEF TypeOK, Made, Attempts
  <2> QED
    BY <1>1, <1>3, <2>1 DEF TypeOK, BeginAttempt
<1> QED
  BY <1>1, <1>2, <1>5, <1>6 DEF TypeOK, BeginAttempt, Events, ArmedEnd, BufferEnd, Attempts

(* What ending the state puts in front of the other frames.                  *)
LEMMA FinishSteps ==
  ASSUME TypeOK, todo # <<>>
  PROVE  Finish \in Seq(Step) /\ <<OtherEvent>> \o Tail(todo) \in Seq(Step)
<1>1. <<OtherEvent>> \in Seq(Step) /\ Tail(todo) \in Seq(Step)
  BY StepForms, StepSequences, TopForms
<1> QED
  BY <1>1, StepSequences DEF Finish

LEMMA ReturnsInv ==
  ASSUME OwnershipInv, NEW accepted \in BOOLEAN, Returns(accepted)
  PROVE  OwnershipInv' /\ NewerStep
<1>1. /\ todo # <<>> /\ Top.id \in Made /\ Top.armed < Top.id /\ Top.buffered < Top.id
      /\ Top.id \in Ids /\ Top.id \in Nat /\ Top.id # 0
      /\ armed \in Nat /\ buffered \in Nat /\ armed \in Ids /\ buffered \in Ids /\ 0 \in Ids
  <2>1. todo # <<>> /\ Top.do = "Return"
    BY DEF Returns, At, Top
  <2>2. Top.id \in Made /\ Top.armed < Top.id /\ Top.buffered < Top.id
    BY <2>1, TopForms DEF OwnershipInv
  <2> QED
    BY <2>1, <2>2, MaxAttemptsAssumption DEF OwnershipInv, TypeOK, Made, Ids
<1>2. inFlight' \subseteq Made
  BY <1>1 DEF Returns, OwnershipInv, TypeOK
<1>3. Finish \in Seq(Step)
  BY <1>1, FinishSteps DEF OwnershipInv
<1>4. CASE Keep(Finish)
  <2>1. /\ armed' = armed /\ buffered' = buffered
        /\ todo' \in Seq(Step) /\ inLua' \in BOOLEAN
    BY <1>3, <1>4 DEF Keep, Become, Goto
  <2>2. TypeOK'
    BY <1>1, <1>2, <2>1, KeepTypes DEF Returns, OwnershipInv, TypeOK
  <2> QED
    BY <1>1, <2>1, <2>2 DEF OwnershipInv, BufferBehindOlder, NewerStep
<1>5. CASE ~Changed /\ ArmOnSwingState(Top.id)
  <2>1. armed' = Top.id /\ buffered' = 0 /\ inLua' \in BOOLEAN
    BY <1>5 DEF ArmOnSwingState, Become, Goto
  <2>2. todo' \in Seq(Step)
    <3>1. /\ TellIf("ARMED_REPLACED", armed) \in Seq(Step)
          /\ EndBuffer("BUFFER_CANCELLED", buffered) \in Seq(Step)
          /\ <<Tell("ARMED", Top.id)>> \in Seq(Step)
      BY <1>1, StepForms, StepSequences DEF OwnershipInv, Events, ArmedEnd, BufferEnd
    <3> QED
      BY <1>3, <1>5, <3>1, StepSequences DEF OwnershipInv, ArmOnSwingState, Become, Goto
  <2>3. TypeOK'
    BY <1>1, <1>2, <2>1, <2>2, KeepTypes DEF Returns, OwnershipInv, TypeOK
  <2> QED
    BY <1>1, <1>5, <2>1, <2>3 DEF OwnershipInv, BufferBehindOlder, NewerStep, Changed
<1>6. CASE ~Changed /\ armed # 0 /\ BufferOnSwingState(Top.id)
  <2>1. armed' = armed /\ buffered' = Top.id /\ inLua' \in BOOLEAN
    BY <1>6 DEF BufferOnSwingState, Become, Goto
  <2>2. todo' \in Seq(Step)
    <3>1. /\ EndBuffer("BUFFER_REPLACED", buffered) \in Seq(Step)
          /\ <<Tell("BUFFERED", Top.id), [do |-> "LegacyPush", id |-> Top.id]>> \in Seq(Step)
      <4>1. Tell("BUFFERED", Top.id) \in Step /\ [do |-> "LegacyPush", id |-> Top.id] \in Step
        BY <1>1, StepForms DEF OwnershipInv, Events
      <4>2. EndBuffer("BUFFER_REPLACED", buffered) \in Seq(Step)
        BY <1>1, StepSequences DEF OwnershipInv, Events, BufferEnd
      <4> QED
        BY <4>1, <4>2
    <3> QED
      BY <1>3, <1>6, <3>1, StepSequences DEF OwnershipInv, BufferOnSwingState, Become, Goto
  <2>3. TypeOK'
    BY <1>1, <1>2, <2>1, <2>2, KeepTypes DEF Returns, OwnershipInv, TypeOK
  <2> QED
    BY <1>1, <1>6, <2>1, <2>3 DEF OwnershipInv, BufferBehindOlder, NewerStep, Changed
<1> QED
  BY <1>4, <1>5, <1>6 DEF Returns

(* What SpellStopCasting, a matching failure and a swing leave: no           *)
(* generation at all, and the events that say so.                            *)
LEMMA EndedInv ==
  ASSUME OwnershipInv, armed' = 0, buffered' = 0, todo' \in Seq(Step), inLua' \in BOOLEAN,
         UNCHANGED <<nextId, spellOf, playerOf, player, muddled, heard, legacy>>,
         inFlight' \subseteq inFlight
  PROVE  OwnershipInv' /\ NewerStep
<1>1. 0 \in Ids
  BY MaxAttemptsAssumption DEF OwnershipInv, TypeOK, Ids
<1>2. TypeOK'
  BY <1>1, KeepTypes DEF OwnershipInv, TypeOK
<1> QED
  BY <1>2 DEF OwnershipInv, BufferBehindOlder, NewerStep

LEMMA CancelInv ==
  ASSUME OwnershipInv, CancelOnSwingState
  PROVE  OwnershipInv' /\ NewerStep
<1>1. todo # <<>>
  BY DEF CancelOnSwingState, At
<1>2. /\ TellIf("CANCELLED", armed) \in Seq(Step)
      /\ EndBuffer("BUFFER_CANCELLED", buffered) \in Seq(Step)
      /\ <<OtherEvent>> \in Seq(Step) /\ Tail(todo) \in Seq(Step)
  BY <1>1, StepForms, TopForms, StepSequences DEF OwnershipInv, TypeOK, Events, ArmedEnd, BufferEnd
<1>3. todo' \in Seq(Step)
  BY <1>2, StepSequences DEF OwnershipInv, CancelOnSwingState, Become, Goto
<1> QED
  BY <1>3, EndedInv DEF CancelOnSwingState, Become, Goto, data

(* A step that leaves the state alone and only moves the frames on.          *)
LEMMA KeptInv ==
  ASSUME OwnershipInv, armed' = armed, buffered' = buffered, todo' \in Seq(Step),
         inLua' \in BOOLEAN, legacy' \in BOOLEAN, player' \in Players,
         UNCHANGED <<nextId, spellOf, playerOf, muddled>>, inFlight' \subseteq inFlight,
         heard' \in [Attempts -> Seq(Events)]
  PROVE  OwnershipInv' /\ NewerStep
<1>1. armed \in Nat /\ buffered \in Nat
  BY MaxAttemptsAssumption DEF OwnershipInv, TypeOK, Ids
<1>2. TypeOK'
  BY KeepTypes DEF OwnershipInv, TypeOK
<1> QED
  BY <1>1, <1>2 DEF OwnershipInv, BufferBehindOlder, NewerStep

LEMMA FailInv ==
  ASSUME OwnershipInv, FailOnSwingState
  PROVE  OwnershipInv' /\ NewerStep
<1>1. todo # <<>>
  BY DEF FailOnSwingState, At
<1>2. /\ <<OtherEvent>> \in Seq(Step) /\ Tail(todo) \in Seq(Step)
      /\ <<OtherEvent>> \o Tail(todo) \in Seq(Step)
  BY <1>1, StepForms, TopForms, StepSequences DEF OwnershipInv
<1>3. CASE Keep(<<OtherEvent>> \o Tail(todo))
  BY <1>2, <1>3, KeptInv DEF FailOnSwingState, Keep, Become, Goto, OwnershipInv, TypeOK, data
<1>4. CASE armed # 0 /\ Become(0, 0,
             <<Tell("FAILED", armed)>> \o EndBuffer("BUFFER_CANCELLED", buffered)
               \o <<OtherEvent>> \o Tail(todo))
  <2>1. armed \in Made
    BY <1>4, MaxAttemptsAssumption DEF OwnershipInv, TypeOK, Ids, Made
  <2>2. /\ <<Tell("FAILED", armed)>> \in Seq(Step)
        /\ EndBuffer("BUFFER_CANCELLED", buffered) \in Seq(Step)
    BY <2>1, StepForms, StepSequences DEF OwnershipInv, TypeOK, Events, ArmedEnd, BufferEnd
  <2>3. todo' \in Seq(Step)
    BY <1>2, <1>4, <2>2, StepSequences DEF OwnershipInv, Become, Goto
  <2> QED
    BY <1>4, <2>3, EndedInv DEF FailOnSwingState, Become, Goto, data
<1> QED
  BY <1>3, <1>4 DEF FailOnSwingState

LEMMA SpellGoInv ==
  ASSUME OwnershipInv, NEW a \in inFlight, SpellGo(a)
  PROVE  OwnershipInv' /\ NewerStep
<1>1. inFlight' \subseteq inFlight /\ <<>> \in Seq(Step)
  BY StepSequences DEF OwnershipInv, SpellGo
<1>2. CASE Keep(<<>>)
  BY <1>1, <1>2, KeptInv DEF SpellGo, Keep, Become, Goto, OwnershipInv, TypeOK
<1>3. CASE armed # 0 /\ Become(0, 0, <<Tell("CONSUMED", armed)>> \o
             (IF buffered # 0
              THEN <<Tell("BUFFER_POPPED", buffered), LegacyPop, Replay(buffered)>>
              ELSE <<>>))
  <2>1. armed \in Made /\ (buffered # 0 => buffered \in Made)
    BY <1>3, MaxAttemptsAssumption DEF OwnershipInv, TypeOK, Ids, Made
  <2>2. <<Tell("CONSUMED", armed)>> \in Seq(Step)
    BY <2>1, StepForms, StepSequences DEF OwnershipInv, Events, ArmedEnd
  <2>3. ASSUME buffered # 0
        PROVE  <<Tell("BUFFER_POPPED", buffered), LegacyPop, Replay(buffered)>> \in Seq(Step)
    <3>1. /\ Tell("BUFFER_POPPED", buffered) \in Step
          /\ LegacyPop \in Step /\ Replay(buffered) \in Step
      BY <2>1, <2>3, StepForms DEF OwnershipInv, Events, BufferEnd
    <3> QED
      BY <3>1
  <2>4. todo' \in Seq(Step)
    BY <1>1, <1>3, <2>2, <2>3, StepSequences DEF OwnershipInv, Become, Goto
  <2> QED
    BY <1>1, <1>3, <2>4, EndedInv DEF SpellGo, Become, Goto
<1> QED
  BY <1>2, <1>3 DEF SpellGo

(* Attempts leave the state alone until the client call returns.             *)
LEMMA AttemptInv ==
  ASSUME OwnershipInv, NEW s \in Spells, NEW p \in Players, NEW rest \in Seq(Step),
         BeginAttempt(s, p, rest)
  PROVE  OwnershipInv' /\ NewerStep
<1>1. armed' = armed /\ buffered' = buffered /\ armed \in Nat /\ buffered \in Nat
  BY MaxAttemptsAssumption DEF OwnershipInv, TypeOK, Ids, BeginAttempt
<1> QED
  BY <1>1, AttemptTypes DEF OwnershipInv, BufferBehindOlder, NewerStep

LEMMA ReplayInv ==
  ASSUME OwnershipInv, ReplayBuffer
  PROVE  OwnershipInv' /\ NewerStep
<1>1. todo # <<>> /\ Top.id \in Made /\ Tail(todo) \in Seq(Step)
  <2>1. todo # <<>> /\ Top.do = "Replay"
    BY DEF ReplayBuffer, At, Top
  <2> QED
    BY <2>1, TopForms DEF OwnershipInv
<1>2. CASE Keep(<<Tell("BUFFER_CANCELLED", Top.id)>> \o Tail(todo)) /\ UNCHANGED <<data, heard, legacy>>
  <2>1. <<Tell("BUFFER_CANCELLED", Top.id)>> \o Tail(todo) \in Seq(Step)
    <3>1. <<Tell("BUFFER_CANCELLED", Top.id)>> \in Seq(Step)
      BY <1>1, StepForms, StepSequences DEF OwnershipInv, Events, BufferEnd
    <3> QED
      BY <1>1, <3>1, StepSequences DEF OwnershipInv
  <2> QED
    BY <1>2, <2>1, KeptInv DEF Keep, Become, Goto, OwnershipInv, TypeOK, data
<1>3. CASE playerOf[Top.id] = player /\ BeginAttempt(spellOf[Top.id], playerOf[Top.id], Tail(todo))
  <2>1. spellOf[Top.id] \in Spells /\ playerOf[Top.id] \in Players
    BY <1>1, <1>3 DEF OwnershipInv, TypeOK
  <2> QED
    BY <1>1, <1>3, <2>1, AttemptInv
<1> QED
  BY <1>2, <1>3 DEF ReplayBuffer

(* A frame inside the client cast reports a local failure, once.             *)
LEMMA ClientFailsInv ==
  ASSUME OwnershipInv, ClientFails
  PROVE  OwnershipInv' /\ NewerStep
<1>1. todo # <<>> /\ Top.do = "Return"
  BY DEF ClientFails, At, Top
<1>2. Tail(todo) \in Seq(Step) /\ Top \in Step /\ Top.id \in Made /\ Top.id \in Ids
  BY <1>1, TopForms, MaxAttemptsAssumption DEF OwnershipInv, TypeOK, Made, Ids
<1>3. Fail(spellOf[Top.id], Top.id) \in Step
  BY <1>2, StepForms DEF OwnershipInv, TypeOK
<1>4. [Top EXCEPT !.failed = TRUE] \in Step
  <2>1. [Top EXCEPT !.failed = TRUE]
          \in {r \in [do : {"Return"}, id : Made, armed : Ids, buffered : Ids,
                     failed : BOOLEAN] : r.armed < r.id /\ r.buffered < r.id}
    <3>1. Top \in {r \in [do : {"Return"}, id : Made, armed : Ids, buffered : Ids,
                         failed : BOOLEAN] : r.armed < r.id /\ r.buffered < r.id}
      BY <1>1, <1>2 DEF Step
    <3> QED
      BY <3>1
  <2> QED
    BY <2>1 DEF Step
<1>5. <<Fail(spellOf[Top.id], Top.id), [Top EXCEPT !.failed = TRUE]>> \o Tail(todo) \in Seq(Step)
  <2>1. <<Fail(spellOf[Top.id], Top.id), [Top EXCEPT !.failed = TRUE]>> \in Seq(Step)
    BY <1>3, <1>4
  <2> QED
    BY <1>2, <2>1, StepSequences DEF OwnershipInv
<1> QED
  BY <1>5, KeptInv DEF ClientFails, Keep, Become, Goto, OwnershipInv, TypeOK, data

LEMMA ServerRejectsInv ==
  ASSUME OwnershipInv, NEW a \in inFlight, ServerRejects(a)
  PROVE  OwnershipInv' /\ NewerStep
<1>1. a \in Made /\ inFlight \subseteq Ids /\ 0 \in Ids /\ spellOf[a] \in Spells
  BY MaxAttemptsAssumption DEF OwnershipInv, TypeOK, Made, Ids
<1>2. \A id \in {0} \union Correlated(a) : Fail(spellOf[a], id) \in Step
  <2>1. {0} \union Correlated(a) \subseteq Ids
    BY <1>1 DEF Correlated
  <2> QED
    BY <1>1, <2>1, StepForms DEF OwnershipInv
<1>3. todo' \in Seq(Step) /\ inFlight' \subseteq inFlight
  BY <1>2, StepSequences DEF OwnershipInv, ServerRejects
<1> QED
  BY <1>3, KeptInv DEF ServerRejects, OwnershipInv, TypeOK

LEMMA SignalInv ==
  ASSUME OwnershipInv, Signal
  PROVE  OwnershipInv' /\ NewerStep
<1>1. todo # <<>> /\ Top.do = "Tell"
  BY DEF Signal, At, Top
<1>2. Tail(todo) \in Seq(Step) /\ Top.event \in Events /\ Top.id \in Made
  BY <1>1, TopForms DEF OwnershipInv
<1>3. Top.id \in Attempts
  BY <1>2, MaxAttemptsAssumption DEF OwnershipInv, TypeOK, Made, Attempts
<1>4. heard' \in [Attempts -> Seq(Events)]
  <2>1. heard \in [Attempts -> Seq(Events)] /\ heard[Top.id] \in Seq(Events)
    BY <1>3 DEF OwnershipInv, TypeOK
  <2>2. Append(heard[Top.id], Top.event) \in Seq(Events)
    BY <1>2, <2>1
  <2>3. CASE heard' = [heard EXCEPT ![Top.id] = Append(@, Top.event)]
    BY <2>1, <2>2, <2>3
  <2>4. CASE heard' = heard
    BY <2>1, <2>4
  <2> QED
    BY <2>3, <2>4 DEF Signal
<1> QED
  BY <1>2, <1>4, KeptInv DEF Signal, Goto, OwnershipInv, TypeOK, data

LEMMA StepInv == OwnershipInv /\ [Next]_vars => OwnershipInv' /\ NewerStep
<1> SUFFICES ASSUME OwnershipInv, [Next]_vars PROVE OwnershipInv' /\ NewerStep
  OBVIOUS
<1>t. todo # <<>> => Tail(todo) \in Seq(Step)
  BY TopForms DEF OwnershipInv
<1>1. ASSUME NEW s \in Spells, Cast(s) PROVE OwnershipInv' /\ NewerStep
  BY <1>1, AttemptInv DEF Cast, OwnershipInv, TypeOK
<1>2. ASSUME NEW r \in BOOLEAN, Returns(r) PROVE OwnershipInv' /\ NewerStep
  BY <1>2, ReturnsInv
<1>3. ASSUME NEW a \in inFlight, ServerRejects(a)
      PROVE  OwnershipInv' /\ NewerStep
  BY <1>3, ServerRejectsInv
<1>4. ASSUME NEW a \in inFlight, SpellGo(a) PROVE OwnershipInv' /\ NewerStep
  BY <1>4, SpellGoInv
<1>5. CASE ClientFails
  BY <1>5, ClientFailsInv
<1>6. CASE FailOnSwingState
  BY <1>6, FailInv
<1>7. CASE StopCasting
  <2>1. <<Clear>> \o todo \in Seq(Step)
    <3>1. <<Clear>> \in Seq(Step) /\ todo \in Seq(Step)
      BY StepForms, StepSequences DEF OwnershipInv, TypeOK
    <3> QED
      BY <3>1, StepSequences DEF OwnershipInv
  <2> QED
    BY <1>7, <2>1, KeptInv DEF StopCasting, OwnershipInv, TypeOK, data
<1>8. CASE CancelOnSwingState
  BY <1>8, CancelInv
<1>9. CASE ReplayBuffer
  BY <1>9, ReplayInv
<1>10. CASE Signal
  BY <1>10, SignalInv
<1>11. CASE SignalOther
  BY <1>11, <1>t, KeptInv DEF SignalOther, At, OwnershipInv, TypeOK, data
<1>12. ASSUME NEW k \in {"LegacyPop", "LegacyPush"}, SignalLegacy(k)
       PROVE  OwnershipInv' /\ NewerStep
  <2>1. todo' = Tail(todo) /\ todo # <<>> /\ inLua' \in BOOLEAN /\ legacy' \in BOOLEAN
    BY <1>12 DEF SignalLegacy, Goto, At, OwnershipInv, TypeOK
  <2> QED
    BY <1>12, <1>t, <2>1, KeptInv DEF SignalLegacy, OwnershipInv, TypeOK, data
<1>13. CASE PlayerChanges
  BY <1>13, KeptInv DEF PlayerChanges, OwnershipInv, TypeOK
<1>14. CASE ResetPlayerContextState
  <2>1. armed' = 0 /\ buffered' = 0 /\ 0 \in Ids
    BY <1>14, MaxAttemptsAssumption DEF ResetPlayerContextState, OwnershipInv, TypeOK, Ids
  <2>2. heard' \in [Attempts -> Seq(Events)]
    BY <1>14 DEF ResetPlayerContextState
  <2>3. TypeOK'
    BY <1>14, <2>1, <2>2, KeepTypes DEF ResetPlayerContextState, OwnershipInv, TypeOK, data
  <2> QED
    BY <2>1, <2>3 DEF OwnershipInv, BufferBehindOlder, NewerStep
<1>15. CASE UNCHANGED vars
  BY <1>15, KeptInv DEF vars, data, OwnershipInv, TypeOK
<1> QED
  BY <1>1, <1>2, <1>3, <1>4, <1>5, <1>6, <1>7, <1>8, <1>9, <1>10, <1>11, <1>12, <1>13,
     <1>14, <1>15 DEF Next

LEMMA InitInv == Init => OwnershipInv
<1> SUFFICES ASSUME Init PROVE OwnershipInv
  OBVIOUS
<1>1. nextId \in 1..(MaxAttempts + 1) /\ 0 \in Ids /\ Made = {}
  BY MaxAttemptsAssumption DEF Init, Ids, Made
<1>2. todo \in Seq(Step) /\ heard \in [Attempts -> Seq(Events)]
  BY DEF Init
<1> QED
  BY <1>1, <1>2, PlayersAssumption DEF Init, OwnershipInv, TypeOK, BufferBehindOlder

(* The state of gOnSwingState keeps its types, frames keep only older        *)
(* generations, and a buffer is newer than the generation it waits behind.   *)
THEOREM OwnershipTheorem == Spec => []OwnershipInv
<1>1. OwnershipInv /\ [Next]_vars => OwnershipInv'
  BY StepInv
<1> QED
  BY <1>1, InitInv, PTL DEF Spec

(* No frame puts an older generation in the place of a newer one, however    *)
(* deep the handlers that cast inside its callbacks.                         *)
THEOREM NewerWinsTheorem == Spec => NewerWins
<1>1. OwnershipInv /\ [Next]_vars => OwnershipInv'
  BY StepInv
<1>2. OwnershipInv /\ [Next]_vars =>
        [/\ armed # 0 /\ armed' # 0 => armed <= armed'
         /\ buffered # 0 /\ buffered' # 0 => buffered <= buffered']_vars
  BY StepInv DEF NewerStep
<1> QED
  BY <1>1, <1>2, InitInv, PTL DEF Spec, NewerWins

(* One step of CasterIsPlayer.                                               *)
CasterStep == \A a \in Attempts : a = nextId /\ nextId' > nextId => playerOf'[a] = player

(* Only the cast hook makes an attempt, and from a key or a handler it takes *)
(* the active player.                                                        *)
LEMMA CasterKept == OwnershipInv /\ [Next]_vars => CasterStep
<1> SUFFICES ASSUME OwnershipInv, [Next]_vars PROVE CasterStep
  OBVIOUS
<1>1. nextId \in Nat /\ playerOf \in [Attempts -> Players \union {0}]
  BY MaxAttemptsAssumption DEF OwnershipInv, TypeOK
<1>2. CASE nextId' = nextId
  BY <1>1, <1>2 DEF CasterStep
<1>3. ASSUME NEW s, NEW rest, BeginAttempt(s, player, rest) PROVE CasterStep
  BY <1>1, <1>3 DEF BeginAttempt, CasterStep
<1>4. ASSUME NEW s \in Spells, Cast(s) PROVE CasterStep
  BY <1>3, <1>4 DEF Cast
<1>5. CASE ReplayBuffer
  <2>1. CASE UNCHANGED data
    BY <1>2, <2>1 DEF data
  <2>2. CASE playerOf[Top.id] = player /\ BeginAttempt(spellOf[Top.id], playerOf[Top.id], Tail(todo))
    BY <1>3, <2>2
  <2> QED
    BY <1>5, <2>1, <2>2 DEF ReplayBuffer
<1>6. ASSUME NEW r \in BOOLEAN, Returns(r) PROVE CasterStep
  BY <1>2, <1>6 DEF Returns
<1>7. ASSUME NEW a \in inFlight, ServerRejects(a) PROVE CasterStep
  BY <1>2, <1>7 DEF ServerRejects
<1>8. ASSUME NEW a \in inFlight, SpellGo(a) PROVE CasterStep
  BY <1>2, <1>8 DEF SpellGo
<1>9. ASSUME NEW k \in {"LegacyPop", "LegacyPush"}, SignalLegacy(k) PROVE CasterStep
  BY <1>2, <1>9 DEF SignalLegacy, data
<1>10. CASE ClientFails \/ FailOnSwingState \/ StopCasting \/ CancelOnSwingState
  BY <1>2, <1>10 DEF ClientFails, FailOnSwingState, StopCasting, CancelOnSwingState, data
<1>11. CASE Signal \/ SignalOther \/ PlayerChanges \/ ResetPlayerContextState \/ UNCHANGED vars
  BY <1>2, <1>11 DEF Signal, SignalOther, PlayerChanges, ResetPlayerContextState, vars, data
<1> QED
  BY <1>4, <1>5, <1>6, <1>7, <1>8, <1>9, <1>10, <1>11 DEF Next

(* A buffered request that is replayed is handed to the client only with the *)
(* caster the player still is, whatever object replaced the player since.    *)
THEOREM CasterTheorem == Spec => CasterIsPlayer
<1>1. OwnershipInv /\ [Next]_vars => OwnershipInv'
  BY StepInv
<1>2. OwnershipInv /\ [Next]_vars =>
        [\A a \in Attempts : a = nextId /\ nextId' > nextId => playerOf'[a] = player]_vars
  BY CasterKept DEF CasterStep
<1> QED
  BY <1>1, <1>2, InitInv, PTL DEF Spec, CasterIsPlayer
------------------------------------------------------------------------------
(* A generation that Lua was told has failed is never an attempt the server  *)
(* has still to answer, for any number of attempts and any nesting of        *)
(* handlers, unless its spell is muddled by a UI load.  An attempt goes on   *)
(* its way when the frame inside the client cast returns; so what has to be  *)
(* kept is that a failure, told or on the call stack, is of an attempt that  *)
(* has no such frame left, or whose frame has already seen the client fail.  *)

(* What lies on the stack: its steps, the frames inside a client cast, and   *)
(* the attempts that a step says, or may say, have failed.                   *)
On(t)     == {t[i] : i \in 1..Len(t)}
Frames(t) == {r \in On(t) : r.do = "Return"}
Claims(t) == {r.id : r \in {s \in On(t) : s.do = "Fail" \/ (s.do = "Tell" /\ s.event = "FAILED")}}

(* An inner frame is of a younger attempt.                                   *)
InnerYounger(t) ==
  \A i, j \in 1..Len(t) :
    i < j /\ t[i].do = "Return" /\ t[j].do = "Return" => t[j].id < t[i].id

(* Attempt a is not on its way and will not be.                              *)
Done(a) == a \notin inFlight /\ \A r \in Frames(todo) : r.id = a => r.failed

(* What is kept of an attempt that failed.  A UI load leaves nothing told    *)
(* and nothing on the stack, so it may exempt spells anew.                   *)
Over(a) == spellOf[a] \notin muddled => Done(a)

ToldFailed(a) == \E i \in DOMAIN heard[a] : heard[a][i] = "FAILED"

Inv ==
  /\ OwnershipInv
  /\ InnerYounger(todo)
  /\ \A r \in Frames(todo) : r.id \notin inFlight
  /\ \A a \in Claims(todo) : a # 0 => Over(a)
  /\ \A a \in Attempts : ToldFailed(a) => Over(a)
  /\ \A a \in Attempts : a \notin Made => heard[a] = <<>>
------------------------------------------------------------------------------
(* Sequences of steps put on top of each other.                              *)
LEMMA OnConcat ==
  ASSUME NEW S, NEW x \in Seq(S), NEW y \in Seq(S)
  PROVE  On(x \o y) = On(x) \union On(y)
<1> DEFINE u == x \o y
           k == Len(x)
           n == Len(y)
<1>1. /\ Len(u) = k + n /\ k \in Nat /\ n \in Nat
      /\ \A i \in 1..k : u[i] = x[i]
      /\ \A i \in 1..n : u[k + i] = y[i]
  OBVIOUS
<1> HIDE DEF u, k, n
<1>2. \A i \in 1..(k + n) : i \in 1..k \/ (i - k \in 1..n /\ k + (i - k) = i)
  BY <1>1
<1>3. \A i \in 1..n : k + i \in 1..(k + n)
  BY <1>1
<1>4. \A i \in 1..k : i \in 1..(k + n)
  BY <1>1
<1>5. ASSUME NEW i \in 1..Len(u) PROVE u[i] \in On(x) \union On(y)
  <2>1. CASE i \in 1..k
    BY <1>1, <2>1 DEF On, k
  <2>2. CASE i - k \in 1..n /\ k + (i - k) = i
    <3>1. u[k + (i - k)] = y[i - k]
      BY <1>1, <2>2
    <3> QED
      BY <2>2, <3>1 DEF On, n
  <2> QED
    BY <1>1, <1>2, <2>1, <2>2
<1>6. ASSUME NEW i \in 1..k PROVE x[i] \in On(u)
  BY <1>1, <1>4 DEF On
<1>7. ASSUME NEW i \in 1..n PROVE y[i] \in On(u)
  BY <1>1, <1>3 DEF On
<1>8. On(u) \subseteq On(x) \union On(y)
  BY <1>5 DEF On
<1>9. On(x) \subseteq On(u) /\ On(y) \subseteq On(u)
  BY <1>6, <1>7 DEF On, k, n
<1> QED
  BY <1>8, <1>9 DEF u

LEMMA OnFew ==
  /\ On(<<>>) = {}
  /\ \A f : On(<<f>>) = {f}
  /\ \A f, g : On(<<f, g>>) = {f, g}
  /\ \A f, g, h : On(<<f, g, h>>) = {f, g, h}
<1>1. On(<<>>) = {}
  BY DEF On
<1>2. ASSUME NEW f PROVE On(<<f>>) = {f}
  BY DEF On
<1>3. ASSUME NEW f, NEW g PROVE On(<<f, g>>) = {f, g}
  <2>1. 1..Len(<<f, g>>) = {1, 2}
    OBVIOUS
  <2> QED
    BY <2>1 DEF On
<1>4. ASSUME NEW f, NEW g, NEW h PROVE On(<<f, g, h>>) = {f, g, h}
  <2>1. 1..Len(<<f, g, h>>) = {1, 2, 3}
    OBVIOUS
  <2> QED
    BY <2>1 DEF On
<1> QED
  BY <1>1, <1>2, <1>3, <1>4

LEMMA OnOne ==
  ASSUME NEW f
  PROVE  /\ f.do = "Return" => Frames(<<f>>) = {f} /\ Claims(<<f>>) = {}
         /\ f.do = "Fail" => Frames(<<f>>) = {} /\ Claims(<<f>>) = {f.id}
<1>1. On(<<f>>) = {f}
  BY OnFew
<1> QED
  BY <1>1 DEF Frames, Claims

LEMMA Concat ==
  ASSUME NEW x \in Seq(Step), NEW y \in Seq(Step)
  PROVE  /\ Frames(x \o y) = Frames(x) \union Frames(y)
         /\ Claims(x \o y) = Claims(x) \union Claims(y)
  BY OnConcat DEF Frames, Claims

(* Frames of younger attempts on top of older ones.                          *)
LEMMA YoungerOnTop ==
  ASSUME NEW S, NEW x \in Seq(S), NEW y \in Seq(S), InnerYounger(x), InnerYounger(y),
         \A q \in Frames(x), r \in Frames(y) : r.id < q.id
  PROVE  InnerYounger(x \o y)
<1> DEFINE u == x \o y
           k == Len(x)
           n == Len(y)
<1>1. /\ Len(u) = k + n /\ k \in Nat /\ n \in Nat
      /\ \A i \in 1..k : u[i] = x[i]
      /\ \A i \in 1..n : u[k + i] = y[i]
  OBVIOUS
<1>2. /\ \A i \in 1..k : x[i].do = "Return" => x[i] \in Frames(x)
      /\ \A i \in 1..n : y[i].do = "Return" => y[i] \in Frames(y)
  BY DEF Frames, On
<1> HIDE DEF u, k, n
<1>3. \A i \in 1..(k + n) : i \in 1..k \/ (i - k \in 1..n /\ u[i] = y[i - k])
  <2>1. TAKE i \in 1..(k + n)
  <2>2. i \in 1..k \/ (i - k \in 1..n /\ k + (i - k) = i)
    BY <1>1
  <2> QED
    BY <1>1, <2>2
<1>4. ASSUME NEW i \in 1..(k + n), NEW j \in 1..(k + n), i < j, u[i].do = "Return", u[j].do = "Return"
      PROVE  u[j].id < u[i].id
  <2>1. CASE i \in 1..k /\ j \in 1..k
    BY <1>1, <1>4, <2>1 DEF InnerYounger, k
  <2>2. CASE i \in 1..k /\ j - k \in 1..n /\ u[j] = y[j - k]
    BY <1>1, <1>2, <1>4, <2>2
  <2>3. CASE i - k \in 1..n /\ u[i] = y[i - k] /\ j - k \in 1..n /\ u[j] = y[j - k]
    <3>1. i - k < j - k
      BY <1>1, <1>4
    <3> QED
      BY <1>4, <2>3, <3>1 DEF InnerYounger, n
  <2>4. ~(i - k \in 1..n /\ j \in 1..k)
    BY <1>1, <1>4
  <2> QED
    BY <1>3, <2>1, <2>2, <2>3, <2>4
<1> QED
  BY <1>1, <1>4 DEF InnerYounger, u

(* Steps that are no frames leave the order of the frames below.             *)
LEMMA YoungerConcat ==
  ASSUME NEW x \in Seq(Step), NEW y \in Seq(Step), Frames(x) = {}, InnerYounger(y)
  PROVE  InnerYounger(x \o y)
<1>1. InnerYounger(x)
  BY DEF Frames, On, InnerYounger
<1> QED
  BY <1>1, YoungerOnTop

(* What is left without the step on top.                                     *)
LEMMA Below ==
  ASSUME NEW t \in Seq(Step), t # <<>>
  PROVE  /\ On(t) = {Head(t)} \union On(Tail(t))
         /\ InnerYounger(t) => /\ InnerYounger(Tail(t))
                               /\ Head(t).do = "Return" =>
                                    \A r \in Frames(Tail(t)) : r.id < Head(t).id
<1> DEFINE u == Tail(t)
           n == Len(t)
<1>1. Head(t) = t[1] /\ Len(u) = n - 1 /\ n \in Nat /\ n # 0 /\ u \in Seq(Step)
  OBVIOUS
<1>2. \A i \in 1..(n - 1) : u[i] = t[i + 1]
  OBVIOUS
<1> HIDE DEF u, n
<1>3. \A i \in 1..(n - 1) : i + 1 \in 1..n /\ 1 < i + 1
  BY <1>1
<1>4. \A i \in 1..n : i = 1 \/ (i - 1 \in 1..(n - 1) /\ (i - 1) + 1 = i)
  BY <1>1
<1>5. 1 \in 1..n
  BY <1>1
<1>6. ASSUME NEW i \in 1..n PROVE t[i] \in {Head(t)} \union On(u)
  <2>1. CASE i = 1
    BY <1>1, <2>1
  <2>2. CASE i - 1 \in 1..(n - 1) /\ (i - 1) + 1 = i
    <3>1. u[i - 1] = t[i]
      BY <1>2, <2>2
    <3> QED
      BY <1>1, <2>2, <3>1 DEF On
  <2> QED
    BY <1>4, <2>1, <2>2
<1>7. ASSUME NEW i \in 1..(n - 1) PROVE u[i] \in On(t)
  BY <1>2, <1>3 DEF On, n
<1>8. On(t) = {Head(t)} \union On(u)
  <2>1. Head(t) \in On(t)
    BY <1>1, <1>5 DEF On, n
  <2>2. On(t) \subseteq {Head(t)} \union On(u)
    BY <1>6 DEF On, n
  <2>3. On(u) \subseteq On(t)
    BY <1>1, <1>7 DEF On
  <2> QED
    BY <2>1, <2>2, <2>3
<1>9. ASSUME InnerYounger(t) PROVE InnerYounger(u)
  <2>1. SUFFICES ASSUME NEW i \in 1..(n - 1), NEW j \in 1..(n - 1), i < j, u[i].do = "Return", u[j].do = "Return"
                 PROVE  u[j].id < u[i].id
    BY <1>1 DEF InnerYounger
  <2>2. i + 1 < j + 1 /\ i + 1 \in 1..n /\ j + 1 \in 1..n
    BY <1>3, <2>1
  <2> QED
    BY <1>2, <1>9, <2>1, <2>2 DEF InnerYounger, n
<1>10. ASSUME InnerYounger(t), Head(t).do = "Return", NEW r \in Frames(u)
       PROVE  r.id < Head(t).id
  <2>1. PICK i \in 1..(n - 1) : r = u[i]
    BY <1>1 DEF Frames, On
  <2>2. r = t[i + 1] /\ i + 1 \in 1..n /\ 1 < i + 1 /\ r.do = "Return"
    BY <1>2, <1>3, <2>1 DEF Frames
  <2> QED
    BY <1>1, <1>5, <1>10, <2>2 DEF InnerYounger, n
<1> QED
  BY <1>8, <1>9, <1>10 DEF u
------------------------------------------------------------------------------
(* Steps that are no frames and say of no attempt that it failed.            *)
Quiet(t) == Frames(t) = {} /\ Claims(t) = {}

LEMMA QuietConcat ==
  ASSUME NEW x \in Seq(Step), NEW y \in Seq(Step), Quiet(x)
  PROVE  /\ Quiet(y) => Quiet(x \o y)
         /\ Frames(x \o y) = Frames(y) /\ Claims(x \o y) = Claims(y)
         /\ InnerYounger(y) => InnerYounger(x \o y)
<1>1. /\ Frames(x \o y) = Frames(x) \union Frames(y)
      /\ Claims(x \o y) = Claims(x) \union Claims(y)
  BY Concat
<1>2. Frames(x) = {} /\ Claims(x) = {}
  BY DEF Quiet
<1>3. InnerYounger(y) => InnerYounger(x \o y)
  BY <1>2, YoungerConcat
<1>4. Frames(x \o y) = Frames(y) /\ Claims(x \o y) = Claims(y)
  BY <1>1, <1>2
<1> QED
  BY <1>3, <1>4 DEF Quiet

LEMMA QuietSteps ==
  /\ Quiet(<<>>)
  /\ Quiet(<<OtherEvent>>) /\ Quiet(<<Clear>>)
  /\ \A e, a : e # "FAILED" =>
       /\ Quiet(<<Tell(e, a)>>) /\ Quiet(TellIf(e, a)) /\ Quiet(EndBuffer(e, a))
       /\ Quiet(<<Tell(e, a), LegacyPop, Replay(a)>>)
       /\ Quiet(<<Tell(e, a), [do |-> "LegacyPush", id |-> a]>>)
<1>1. Quiet(<<>>)
  BY OnFew DEF Quiet, Frames, Claims
<1>2. ASSUME NEW f, f.do \notin {"Return", "Fail", "Tell"} PROVE Quiet(<<f>>)
  BY <1>2, OnFew DEF Quiet, Frames, Claims
<1>3. Quiet(<<OtherEvent>>) /\ Quiet(<<Clear>>)
  BY <1>2 DEF OtherEvent, Clear
<1>4. ASSUME NEW e, NEW a, e # "FAILED"
      PROVE  /\ Quiet(<<Tell(e, a)>>)
             /\ Quiet(<<Tell(e, a), LegacyPop>>)
             /\ Quiet(<<Tell(e, a), LegacyPop, Replay(a)>>)
             /\ Quiet(<<Tell(e, a), [do |-> "LegacyPush", id |-> a]>>)
  BY <1>4, OnFew DEF Quiet, Frames, Claims, Tell, LegacyPop, Replay
<1> QED
  BY <1>1, <1>3, <1>4 DEF TellIf, EndBuffer
LEMMA NoFrames ==
  ASSUME NEW S, NEW t \in Seq(S), Frames(t) = {}
  PROVE  InnerYounger(t)
  BY DEF Frames, On, InnerYounger

(* The frame on top and the frames below it.                                 *)
LEMMA TopFrames ==
  ASSUME Inv, todo # <<>>
  PROVE  /\ Tail(todo) \in Seq(Step) /\ InnerYounger(Tail(todo))
         /\ Frames(Tail(todo)) \subseteq Frames(todo)
         /\ Claims(Tail(todo)) \subseteq Claims(todo)
         /\ Top \in On(todo)
         /\ Top.do = "Return" => Top \in Frames(todo)
         /\ Top.do = "Return" => \A r \in Frames(Tail(todo)) : r.id < Top.id
         /\ Top.do = "Fail" => Top.id \in Claims(todo)
         /\ Top.do = "Tell" /\ Top.event = "FAILED" => Top.id \in Claims(todo)
<1>1. todo \in Seq(Step) /\ Tail(todo) \in Seq(Step)
  BY TopForms DEF Inv, OwnershipInv, TypeOK
<1>2. /\ On(todo) = {Top} \union On(Tail(todo))
      /\ InnerYounger(Tail(todo))
      /\ Top.do = "Return" => \A r \in Frames(Tail(todo)) : r.id < Top.id
  BY <1>1, Below DEF Inv, Top
<1>3. Frames(Tail(todo)) \subseteq Frames(todo) /\ Claims(Tail(todo)) \subseteq Claims(todo)
  BY <1>2 DEF Frames, Claims
<1>4. /\ Top.do = "Return" => Top \in Frames(todo)
      /\ Top.do = "Fail" => Top.id \in Claims(todo)
      /\ Top.do = "Tell" /\ Top.event = "FAILED" => Top.id \in Claims(todo)
  BY <1>2 DEF Frames, Claims
<1> QED
  BY <1>1, <1>2, <1>3, <1>4

(* Ids on the stack are of attempts made.                                    *)
LEMMA StackIds ==
  ASSUME TypeOK
  PROVE  /\ \A r \in Frames(todo) : r.id \in Made /\ r.failed \in BOOLEAN
         /\ Claims(todo) \subseteq Ids
<1>1. On(todo) \subseteq Step
  BY DEF TypeOK, On
<1>2. Made \subseteq Ids
  BY MaxAttemptsAssumption DEF TypeOK, Made, Ids
<1>3. ASSUME NEW r \in Frames(todo) PROVE r.id \in Made /\ r.failed \in BOOLEAN
  BY <1>1 DEF Frames, Step
<1>4. ASSUME NEW r \in On(todo), r.do = "Fail" \/ (r.do = "Tell" /\ r.event = "FAILED")
      PROVE  r.id \in Ids
  BY <1>1, <1>2, <1>4 DEF Step
<1> QED
  BY <1>3, <1>4 DEF Claims

(* A step that makes no attempt and puts no frame on the stack.              *)
LEMMA Moved ==
  ASSUME Inv, OwnershipInv', nextId' = nextId, UNCHANGED <<spellOf, muddled>>,
         InnerYounger(todo'), Frames(todo') \subseteq Frames(todo),
         NEW sent, inFlight' \subseteq inFlight \union sent,
         \A a \in Attempts : Done(a) => a \notin sent,
         \A r \in Frames(todo') : r.id \notin sent,
         Claims(todo') \subseteq Claims(todo),
         \A a \in Attempts : ToldFailed(a)' => ToldFailed(a) \/ a \in Claims(todo),
         \A a \in Attempts \ Made : heard'[a] = <<>>
  PROVE  Inv'
<1>1. \A a \in Claims(todo) : a # 0 => a \in Attempts
  BY StackIds, MaxAttemptsAssumption DEF Inv, OwnershipInv, TypeOK, Ids, Attempts
<1>2. ASSUME NEW a \in Attempts, Over(a) PROVE Over(a)'
  BY <1>2 DEF Over, Done
<1>3. \A r \in Frames(todo') : r.id \notin inFlight'
  BY DEF Inv
<1>4. \A a \in Claims(todo') : a # 0 => Over(a)'
  BY <1>1, <1>2 DEF Inv
<1>5. \A a \in Attempts : ToldFailed(a)' => Over(a)'
  <2>1. \A a \in Attempts : a # 0
    BY DEF Attempts
  <2> QED
    BY <1>2, <2>1 DEF Inv
<1>6. Made' = Made
  BY DEF Made
<1> QED
  BY <1>3, <1>4, <1>5, <1>6 DEF Inv
(* A step that leaves what Lua heard and sends nothing.                      *)
LEMMA MovedOn ==
  ASSUME Inv, OwnershipInv', nextId' = nextId, heard' = heard,
         UNCHANGED <<spellOf, muddled>>, inFlight' \subseteq inFlight,
         InnerYounger(todo'), Frames(todo') \subseteq Frames(todo),
         Claims(todo') \subseteq Claims(todo)
  PROVE  Inv'
<1>1. \A a \in Attempts : ToldFailed(a)' => ToldFailed(a)
  BY DEF ToldFailed
<1>2. \A a \in Attempts \ Made : heard'[a] = <<>>
  BY DEF Inv
<1> DEFINE sent == {}
<1>3. /\ inFlight' \subseteq inFlight \union sent
      /\ \A a \in Attempts : Done(a) => a \notin sent
      /\ \A r \in Frames(todo') : r.id \notin sent
  OBVIOUS
<1>4. \A a \in Attempts : ToldFailed(a)' => ToldFailed(a) \/ a \in Claims(todo)
  BY <1>1
<1> HIDE DEF sent
<1> QED
  BY <1>2, <1>3, <1>4, Moved

LEMMA ReturnsKept ==
  ASSUME Inv, OwnershipInv', NEW accepted \in BOOLEAN, Returns(accepted)
  PROVE  Inv'
<1>1. todo # <<>> /\ Top.do = "Return" /\ (accepted => ~Top.failed)
  BY DEF Returns, At, Top
<1>2. TypeOK /\ armed \in Ids /\ buffered \in Ids
  BY DEF Inv, OwnershipInv, TypeOK
<1>3. /\ Tail(todo) \in Seq(Step) /\ InnerYounger(Tail(todo))
      /\ Frames(Tail(todo)) \subseteq Frames(todo)
      /\ Claims(Tail(todo)) \subseteq Claims(todo)
      /\ Top \in Frames(todo)
      /\ \A r \in Frames(Tail(todo)) : r.id < Top.id
  BY <1>1, TopFrames
<1>4. Top.id \in Made /\ Top.id \in Nat
  BY <1>1, <1>2, TopForms, MaxAttemptsAssumption DEF TypeOK, Made
<1>5. /\ Finish \in Seq(Step) /\ Frames(Finish) = Frames(Tail(todo))
      /\ Claims(Finish) = Claims(Tail(todo)) /\ InnerYounger(Finish)
  <2>1. <<OtherEvent>> \in Seq(Step)
    BY <1>2, StepForms, StepSequences
  <2>2. Quiet(<<OtherEvent>>)
    BY QuietSteps
  <2>3. Finish \in Seq(Step)
    BY <1>1, <1>2, FinishSteps
  <2>4. /\ Frames(<<OtherEvent>> \o Tail(todo)) = Frames(Tail(todo))
        /\ Claims(<<OtherEvent>> \o Tail(todo)) = Claims(Tail(todo))
        /\ InnerYounger(<<OtherEvent>> \o Tail(todo))
    BY <1>3, <2>1, <2>2, QuietConcat
  <2> QED
    BY <2>3, <2>4 DEF Finish
<1>6. \E x \in Seq(Step) : Quiet(x) /\ todo' \in {x \o Finish, Finish}
  <2>1. CASE Keep(Finish)
    <3>1. <<>> \in Seq(Step) /\ Quiet(<<>>)
      BY QuietSteps
    <3>2. todo' = Finish
      BY <2>1 DEF Keep, Become, Goto
    <3> QED
      BY <3>1, <3>2
  <2>2. CASE ArmOnSwingState(Top.id)
    <3> DEFINE x == TellIf("ARMED_REPLACED", armed)
               y == EndBuffer("BUFFER_CANCELLED", buffered)
               z == <<Tell("ARMED", Top.id)>>
    <3>1. x \in Seq(Step) /\ y \in Seq(Step)
      BY <1>2, StepSequences DEF Events, ArmedEnd, BufferEnd
    <3>2. z \in Seq(Step)
      BY <1>2, <1>4, StepForms, StepSequences DEF Events
    <3>3. Quiet(x) /\ Quiet(y) /\ Quiet(z)
      BY QuietSteps
    <3>4. todo' = x \o y \o z \o Finish
      BY <2>2 DEF ArmOnSwingState, Become, Goto
    <3> HIDE DEF x, y, z
    <3>5. x \o y \in Seq(Step) /\ Quiet(x \o y)
      BY <3>1, <3>3, QuietConcat
    <3> DEFINE w == x \o y
    <3>6. w \in Seq(Step) /\ Quiet(w) /\ todo' = w \o z \o Finish
      BY <3>4, <3>5
    <3> HIDE DEF w
    <3>7. w \o z \in Seq(Step) /\ Quiet(w \o z)
      BY <3>2, <3>3, <3>6, QuietConcat
    <3> QED
      BY <3>6, <3>7
  <2>3. CASE BufferOnSwingState(Top.id)
    <3> DEFINE x == EndBuffer("BUFFER_REPLACED", buffered)
               z == <<Tell("BUFFERED", Top.id), [do |-> "LegacyPush", id |-> Top.id]>>
    <3>1. x \in Seq(Step)
      BY <1>2, StepSequences DEF Events, ArmedEnd, BufferEnd
    <3>2. z \in Seq(Step)
      <4>1. Tell("BUFFERED", Top.id) \in Step /\ [do |-> "LegacyPush", id |-> Top.id] \in Step
        BY <1>2, <1>4, StepForms DEF Events
      <4> QED
        BY <4>1
    <3>3. Quiet(x) /\ Quiet(z)
      BY QuietSteps
    <3>4. todo' = x \o z \o Finish
      BY <2>3 DEF BufferOnSwingState, Become, Goto
    <3> HIDE DEF x, z
    <3>5. x \o z \in Seq(Step) /\ Quiet(x \o z)
      BY <3>1, <3>2, <3>3, QuietConcat
    <3> QED
      BY <3>4, <3>5
  <2> QED
    BY <2>1, <2>2, <2>3 DEF Returns
<1>7. /\ InnerYounger(todo') /\ Frames(todo') = Frames(Tail(todo))
      /\ Claims(todo') = Claims(Tail(todo))
  BY <1>5, <1>6, QuietConcat
<1>8. nextId' = nextId /\ heard' = heard /\ UNCHANGED <<spellOf, muddled>>
  BY DEF Returns
<1> DEFINE sent == IF accepted THEN {Top.id} ELSE {}
<1>9. inFlight' \subseteq inFlight \union sent
  BY DEF Returns
<1>10. \A a \in Attempts : Done(a) => a \notin sent
  BY <1>1, <1>3 DEF Done
<1>11. \A r \in Frames(todo') : r.id \notin sent
  BY <1>3, <1>4, <1>7
<1>12. \A a \in Attempts : ToldFailed(a)' => ToldFailed(a) \/ a \in Claims(todo)
  BY <1>8 DEF ToldFailed
<1>13. \A a \in Attempts \ Made : heard'[a] = <<>>
  BY <1>8 DEF Inv
<1>14. Frames(todo') \subseteq Frames(todo) /\ Claims(todo') \subseteq Claims(todo)
  BY <1>3, <1>7
<1> HIDE DEF sent
<1> QED
  BY <1>7, <1>8, <1>9, <1>10, <1>11, <1>12, <1>13, <1>14, Moved

LEMMA ClientFailsKept ==
  ASSUME Inv, OwnershipInv', ClientFails
  PROVE  Inv'
<1>1. todo # <<>> /\ Top.do = "Return"
  BY DEF ClientFails, At, Top
<1>2. TypeOK
  BY DEF Inv, OwnershipInv
<1>3. /\ Tail(todo) \in Seq(Step)
      /\ Frames(Tail(todo)) \subseteq Frames(todo)
      /\ Claims(Tail(todo)) \subseteq Claims(todo)
      /\ InnerYounger(Tail(todo))
      /\ Top \in Frames(todo)
      /\ \A r \in Frames(Tail(todo)) : r.id < Top.id
  BY <1>1, TopFrames
<1> DEFINE f == Fail(spellOf[Top.id], Top.id)
           g == [Top EXCEPT !.failed = TRUE]
           x == <<f, g>>
           n == Len(Tail(todo))
<1>4. Top.id \in Made /\ Top.id \in Nat /\ Top.id \notin inFlight /\ Top \in Step
  BY <1>1, <1>2, <1>3, TopForms, MaxAttemptsAssumption DEF TypeOK, Made, Inv
<1>5. g.do = "Return" /\ g.id = Top.id /\ g.failed = TRUE
  BY <1>1, <1>4 DEF Step
<1>6. f.do = "Fail" /\ f.id = Top.id
  BY DEF Fail
<1>7. /\ todo' = x \o Tail(todo) /\ heard' = heard /\ inFlight' = inFlight /\ nextId' = nextId
      /\ UNCHANGED <<spellOf, muddled>>
  BY DEF ClientFails, Keep, Become, Goto, data
<1>8. f \in Step /\ g \in Step
  <2>1. f \in Step
    <3>1. Top.id \in Ids /\ spellOf[Top.id] \in Spells
      BY <1>2, <1>4, MaxAttemptsAssumption DEF TypeOK, Made, Ids
    <3> QED
      BY <1>2, <3>1, StepForms
  <2>2. Top \in {r \in [do : {"Return"}, id : Made, armed : Ids, buffered : Ids,
                       failed : BOOLEAN] : r.armed < r.id /\ r.buffered < r.id}
    BY <1>1, <1>4 DEF Step
  <2>3. g \in {r \in [do : {"Return"}, id : Made, armed : Ids, buffered : Ids,
                     failed : BOOLEAN] : r.armed < r.id /\ r.buffered < r.id}
    BY <2>2
  <2> QED
    BY <2>1, <2>3 DEF Step
<1> HIDE DEF f, g
<1>9. x \in Seq(Step) /\ On(x) = {f, g} /\ InnerYounger(x)
  <2>1. x \in Seq(Step)
    BY <1>8
  <2>2. On(x) = {f, g}
    BY OnFew
  <2>3. Len(x) = 2 /\ x[1] = f
    OBVIOUS
  <2>4. InnerYounger(x)
    <3>1. \A i, j \in 1..2 : i < j => i = 1
      OBVIOUS
    <3> QED
      BY <1>6, <2>3, <3>1 DEF InnerYounger
  <2> QED
    BY <2>1, <2>2, <2>4
<1> HIDE DEF x
<1>10. Frames(x) = {g} /\ Claims(x) = {Top.id}
  BY <1>5, <1>6, <1>9 DEF Frames, Claims
<1>13. InnerYounger(todo')
  BY <1>3, <1>5, <1>7, <1>9, <1>10, YoungerOnTop
<1>14. /\ Frames(todo') = {g} \union Frames(Tail(todo))
       /\ Claims(todo') = {Top.id} \union Claims(Tail(todo))
  BY <1>3, <1>7, <1>9, <1>10, Concat
<1>15. \A r \in Frames(todo') : r.id \notin inFlight'
  BY <1>3, <1>4, <1>5, <1>7, <1>14 DEF Inv
<1>16. ASSUME NEW a, Over(a) PROVE Over(a)'
  BY <1>3, <1>5, <1>7, <1>14, <1>16 DEF Over, Done
<1>17. ASSUME NEW a, a = Top.id PROVE Over(a)'
  BY <1>3, <1>4, <1>5, <1>7, <1>14, <1>17 DEF Over, Done
<1>18. \A a \in Claims(todo') : a # 0 => Over(a)'
  BY <1>3, <1>14, <1>16, <1>17 DEF Inv
<1>19. \A a \in Attempts : ToldFailed(a)' => Over(a)'
  BY <1>7, <1>16 DEF Inv, ToldFailed
<1>20. \A a \in Attempts : a \notin Made' => heard'[a] = <<>>
  BY <1>7 DEF Inv, Made
<1> QED
  BY <1>13, <1>15, <1>18, <1>19, <1>20 DEF Inv

LEMMA AttemptKept ==
  ASSUME Inv, OwnershipInv', NEW s, NEW p, NEW rest \in Seq(Step),
         InnerYounger(rest), Frames(rest) \subseteq Frames(todo),
         Claims(rest) \subseteq Claims(todo), BeginAttempt(s, p, rest)
  PROVE  Inv'
<1> DEFINE g == Return(nextId, FALSE)
<1>1. g.do = "Return" /\ g.id = nextId
  BY DEF Return
<1>2. nextId \in Nat /\ nextId' = nextId + 1 /\ nextId \notin Made /\ Made \subseteq Made'
      /\ nextId \notin Ids /\ nextId \in Attempts
  BY MaxAttemptsAssumption DEF BeginAttempt, Inv, OwnershipInv, TypeOK, Made, Ids, Attempts
<1>3. /\ todo' = <<g>> \o rest /\ heard' = heard /\ inFlight' = inFlight
      /\ muddled' = muddled /\ \A a \in Attempts : a # nextId => spellOf'[a] = spellOf[a]
  BY DEF BeginAttempt, Inv, OwnershipInv, TypeOK
<1>4. g \in Step' /\ rest \in Seq(Step')
  <2>1. TypeOK
    BY DEF Inv, OwnershipInv
  <2>2. Step \subseteq Step' /\ Seq(Step) \subseteq Seq(Step')
    BY <1>2, <2>1, StepsGrow
  <2>3. todo' \in Seq(Step')
    BY DEF OwnershipInv, TypeOK
  <2>4. g \in Step'
    <3> DEFINE u == <<g>> \o rest
    <3>1. u[1] = g /\ 1 \in 1..Len(u)
      OBVIOUS
    <3>2. u \in Seq(Step')
      BY <1>3, <2>3
    <3> HIDE DEF u, g
    <3> QED
      BY <3>1, <3>2
  <2> QED
    BY <2>2, <2>4
<1> HIDE DEF g
<1> DEFINE x == <<g>>
<1>5. x \in Seq(Step') /\ On(x) = {g} /\ InnerYounger(x)
  <2>1. x \in Seq(Step') /\ Len(x) = 1
    BY <1>4
  <2>2. On(x) = {g}
    BY OnFew
  <2>3. \A i, j \in 1..1 : ~(i < j)
    OBVIOUS
  <2> QED
    BY <2>1, <2>2, <2>3 DEF InnerYounger
<1>15. todo' = x \o rest
  BY <1>3
<1> HIDE DEF x
<1>16. Frames(x) = {g} /\ Claims(x) = {}
  BY <1>1, <1>5 DEF Frames, Claims
<1>6. \A r \in Frames(todo) : r.id \in Made /\ r.id < nextId
  <2>1. \A r \in Frames(todo) : r.id \in Made
    BY StackIds DEF Inv, OwnershipInv
  <2> QED
    BY <1>2, <2>1 DEF Made
<1>7. InnerYounger(todo')
  BY <1>1, <1>4, <1>5, <1>6, <1>15, <1>16, YoungerOnTop
<1>8. /\ Frames(todo') = {g} \union Frames(rest)
      /\ Claims(todo') = Claims(rest)
  <2>1. On(todo') = {g} \union On(rest)
    BY <1>4, <1>5, <1>15, OnConcat
  <2> QED
    BY <1>1, <2>1 DEF Frames, Claims
<1>9. nextId \notin inFlight
  BY <1>2 DEF Inv, OwnershipInv, TypeOK
<1>10. \A r \in Frames(todo') : r.id \notin inFlight'
  BY <1>1, <1>3, <1>8, <1>9 DEF Inv
<1>11. ASSUME NEW a \in Attempts, Over(a), a # nextId PROVE Over(a)'
  BY <1>1, <1>3, <1>8, <1>11 DEF Over, Done
<1>12. \A a \in Claims(todo') : a # 0 => Over(a)'
  <2>1. Claims(todo) \subseteq Ids
    BY StackIds DEF Inv, OwnershipInv
  <2>2. \A a \in Claims(todo') : a # nextId /\ a \in Claims(todo)
    BY <1>2, <1>8, <2>1
  <2>3. \A a \in Ids : a # 0 => a \in Attempts
    BY MaxAttemptsAssumption DEF Inv, OwnershipInv, TypeOK, Ids, Attempts
  <2> QED
    BY <1>11, <2>1, <2>2, <2>3 DEF Inv
<1>13. ASSUME NEW a \in Attempts, ToldFailed(a)' PROVE Over(a)'
  <2>1. ToldFailed(a)
    BY <1>3, <1>13 DEF ToldFailed
  <2>2. heard[a] # <<>>
    BY <2>1 DEF ToldFailed
  <2>3. a # nextId
    BY <1>2, <2>2 DEF Inv
  <2> QED
    BY <1>11, <2>1, <2>3 DEF Inv
<1>14. \A a \in Attempts : a \notin Made' => heard'[a] = <<>>
  BY <1>2, <1>3 DEF Inv
<1> QED
  BY <1>7, <1>10, <1>12, <1>13, <1>14 DEF Inv

(* A server rejection finds no frame on the stack.                           *)
LEMMA ServerRejectsKept ==
  ASSUME Inv, OwnershipInv', NEW a \in inFlight, ServerRejects(a)
  PROVE  Inv'
<1>1. PICK id \in {0} \union Correlated(a) : todo' = <<Fail(spellOf[a], id)>>
  BY DEF ServerRejects
<1>2. /\ heard' = heard /\ inFlight' = inFlight \ {a} /\ nextId' = nextId /\ todo = <<>>
      /\ UNCHANGED <<spellOf, muddled>>
  BY DEF ServerRejects
<1> DEFINE f == Fail(spellOf[a], id)
<1>f. f.do = "Fail" /\ f.id = id /\ todo' = <<f>>
  BY <1>1 DEF Fail
<1> HIDE DEF f
<1>3. Frames(todo') = {} /\ Claims(todo') = {id} /\ Frames(todo) = {}
  BY <1>2, <1>f, OnFew DEF Frames, Claims
<1>4. InnerYounger(todo')
  <2>1. todo' \in Seq(Step')
    BY DEF OwnershipInv, TypeOK
  <2> QED
    BY <1>3, <2>1, NoFrames
<1>5. \A b : Over(b)' <=> (spellOf[b] \notin muddled => b \notin inFlight')
  BY <1>2, <1>3 DEF Over, Done
<1>6. \A b \in Claims(todo') : b # 0 => Over(b)'
  <2>1. CASE id = 0
    BY <1>3, <2>1
  <2>2. CASE spellOf[a] \notin muddled
    <3>1. id \in {0, a} /\ a \notin inFlight'
      BY <1>2, <2>2 DEF Correlated
    <3> QED
      BY <1>3, <1>5, <3>1
  <2>3. CASE spellOf[a] \in muddled /\ id # 0
    <3>1. spellOf[id] = spellOf[a]
      BY <2>3 DEF Correlated
    <3> QED
      BY <1>3, <1>5, <2>3, <3>1
  <2> QED
    BY <2>1, <2>2, <2>3
<1>7. \A b \in Attempts : ToldFailed(b)' => Over(b)'
  <2>1. \A b \in Attempts : ToldFailed(b)' => Over(b)
    BY <1>2 DEF Inv, ToldFailed
  <2> QED
    BY <1>2, <1>5, <2>1 DEF Over, Done
<1>8. \A b \in Attempts : b \notin Made' => heard'[b] = <<>>
  BY <1>2 DEF Inv, Made
<1> QED
  BY <1>3, <1>4, <1>6, <1>7, <1>8 DEF Inv
LEMMA FailKept ==
  ASSUME Inv, OwnershipInv', FailOnSwingState
  PROVE  Inv'
<1>1. todo # <<>> /\ Top.do = "Fail"
  BY DEF FailOnSwingState, At, Top
<1>2. TypeOK
  BY DEF Inv, OwnershipInv
<1>3. /\ Tail(todo) \in Seq(Step) /\ InnerYounger(Tail(todo))
      /\ Frames(Tail(todo)) \subseteq Frames(todo)
      /\ Claims(Tail(todo)) \subseteq Claims(todo)
      /\ Top.id \in Claims(todo)
  BY <1>1, TopFrames
<1> DEFINE y == <<OtherEvent>> \o Tail(todo)
<1>4. /\ y \in Seq(Step) /\ Frames(y) = Frames(Tail(todo))
      /\ Claims(y) = Claims(Tail(todo)) /\ InnerYounger(y)
  <2>1. <<OtherEvent>> \in Seq(Step) /\ Quiet(<<OtherEvent>>)
    BY <1>2, StepForms, StepSequences, QuietSteps
  <2>2. y \in Seq(Step)
    BY <1>1, <1>2, FinishSteps
  <2> QED
    BY <1>3, <2>1, <2>2, QuietConcat
<1> HIDE DEF y
<1>5. /\ nextId' = nextId /\ heard' = heard /\ inFlight' = inFlight
      /\ UNCHANGED <<spellOf, muddled>>
  BY DEF FailOnSwingState, data
<1>6. CASE todo' = y
  BY <1>3, <1>4, <1>5, <1>6, MovedOn
<1>7. CASE /\ armed # 0 /\ armed = Top.id
           /\ todo' = <<Tell("FAILED", armed)>> \o EndBuffer("BUFFER_CANCELLED", buffered)
                      \o <<OtherEvent>> \o Tail(todo)
  <2> DEFINE x == <<Tell("FAILED", armed)>>
             z == EndBuffer("BUFFER_CANCELLED", buffered)
             q == <<OtherEvent>>
  <2>1. armed \in Made /\ buffered \in Ids
    BY <1>2, <1>7, MaxAttemptsAssumption DEF TypeOK, Ids, Made
  <2>2. x \in Seq(Step)
    BY <1>2, <2>1, StepForms, StepSequences DEF Events, ArmedEnd
  <2>3. z \in Seq(Step)
    BY <1>2, <2>1, StepSequences DEF Events, BufferEnd
  <2>4. Frames(x) = {} /\ Claims(x) = {Top.id}
    BY <1>7, OnFew DEF Frames, Claims, Tell
  <2>5. Quiet(z) /\ Quiet(q)
    BY QuietSteps
  <2>6. todo' = x \o z \o q \o Tail(todo)
    BY <1>7
  <2>7. q \in Seq(Step)
    BY <1>2, StepForms, StepSequences
  <2> HIDE DEF x, z, q
  <2> DEFINE w == x \o z
  <2>8. w \in Seq(Step) /\ Frames(w) = {} /\ Claims(w) = {Top.id}
    BY <2>2, <2>3, <2>4, <2>5, Concat DEF Quiet
  <2> HIDE DEF w
  <2> DEFINE v == w \o q
  <2>9. v \in Seq(Step) /\ Frames(v) = {} /\ Claims(v) = {Top.id}
    BY <2>5, <2>8, <2>7, Concat DEF Quiet
  <2>10. todo' = v \o Tail(todo)
    BY <2>6 DEF w
  <2> HIDE DEF v
  <2>11. /\ Frames(todo') = Frames(Tail(todo)) /\ InnerYounger(todo')
        /\ Claims(todo') = {Top.id} \union Claims(Tail(todo))
    <3>1. /\ Frames(v \o Tail(todo)) = Frames(v) \union Frames(Tail(todo))
          /\ Claims(v \o Tail(todo)) = Claims(v) \union Claims(Tail(todo))
      BY <1>3, <2>9, Concat
    <3>2. InnerYounger(v \o Tail(todo))
      BY <1>3, <2>9, YoungerConcat
    <3> QED
      BY <2>10, <2>9, <3>1, <3>2
  <2>12. Frames(todo') \subseteq Frames(todo) /\ Claims(todo') \subseteq Claims(todo)
    BY <1>3, <2>11
  <2> QED
    BY <1>5, <2>11, <2>12, MovedOn
<1> QED
  BY <1>6, <1>7 DEF FailOnSwingState, Keep, Become, Goto, y

LEMMA SignalKept ==
  ASSUME Inv, OwnershipInv', Signal
  PROVE  Inv'
<1>1. todo # <<>> /\ Top.do = "Tell"
  BY DEF Signal, At, Top
<1>2. /\ InnerYounger(Tail(todo))
      /\ Frames(Tail(todo)) \subseteq Frames(todo)
      /\ Claims(Tail(todo)) \subseteq Claims(todo)
      /\ Top.event = "FAILED" => Top.id \in Claims(todo)
  BY <1>1, TopFrames
<1>3. Top.id \in Made /\ heard \in [Attempts -> Seq(Events)] /\ Top.event \in Events
  BY <1>1, TopForms DEF Inv, OwnershipInv, TypeOK
<1>4. /\ todo' = Tail(todo) /\ nextId' = nextId /\ inFlight' = inFlight
      /\ UNCHANGED <<spellOf, muddled>>
  BY DEF Signal, Goto, data
<1>5. CASE heard' = heard
  BY <1>2, <1>4, <1>5, MovedOn
<1>6. CASE heard' = [heard EXCEPT ![Top.id] = Append(@, Top.event)]
  <2>1. ASSUME NEW a \in Attempts, ToldFailed(a)'
        PROVE  ToldFailed(a) \/ a \in Claims(todo)
    <3>1. CASE a # Top.id
      <4>1. heard'[a] = heard[a]
        BY <1>3, <1>6, <3>1
      <4> QED
        BY <2>1, <4>1 DEF ToldFailed
    <3>2. CASE a = Top.id
      <4> DEFINE h == heard[a]
                 e == Top.event
      <4>1. heard'[a] = Append(h, e) /\ h \in Seq(Events) /\ e \in Events
        BY <1>3, <1>6, <3>2
      <4> HIDE DEF h, e
      <4>2. \A i \in DOMAIN Append(h, e) : i \in DOMAIN h \/ Append(h, e)[i] = e
        BY <4>1
      <4>3. \A i \in DOMAIN h : Append(h, e)[i] = h[i]
        BY <4>1
      <4>4. PICK i \in DOMAIN Append(h, e) : Append(h, e)[i] = "FAILED"
        BY <2>1, <4>1 DEF ToldFailed
      <4>5. (\E j \in DOMAIN h : h[j] = "FAILED") \/ e = "FAILED"
        BY <4>2, <4>3, <4>4
      <4> QED
        BY <1>2, <3>2, <4>5 DEF ToldFailed, h, e
    <3> QED
      BY <3>1, <3>2
  <2>2. \A a \in Attempts \ Made : heard'[a] = <<>>
    <3>1. \A a \in Attempts \ Made : heard'[a] = heard[a]
      BY <1>3, <1>6
    <3> QED
      BY <3>1 DEF Inv
  <2> DEFINE sent == {}
  <2>3. /\ inFlight' \subseteq inFlight \union sent
        /\ \A a \in Attempts : Done(a) => a \notin sent
        /\ \A r \in Frames(todo') : r.id \notin sent
    BY <1>4
  <2> HIDE DEF sent
  <2>4. /\ InnerYounger(todo') /\ Frames(todo') \subseteq Frames(todo)
        /\ Claims(todo') \subseteq Claims(todo)
    BY <1>2, <1>4
  <2> QED
    BY <1>4, <2>1, <2>2, <2>3, <2>4, Moved
<1> QED
  BY <1>5, <1>6 DEF Signal

LEMMA SpellGoKept ==
  ASSUME Inv, OwnershipInv', NEW a \in inFlight, SpellGo(a)
  PROVE  Inv'
<1>1. /\ nextId' = nextId /\ heard' = heard /\ inFlight' \subseteq inFlight
      /\ UNCHANGED <<spellOf, muddled>>
  BY DEF SpellGo
<1>2. Quiet(todo')
  <2>1. CASE Keep(<<>>)
    BY <2>1, QuietSteps DEF Keep, Become, Goto
  <2>2. CASE armed # 0 /\ Become(0, 0, <<Tell("CONSUMED", armed)>> \o
               (IF buffered # 0
                THEN <<Tell("BUFFER_POPPED", buffered), LegacyPop, Replay(buffered)>>
                ELSE <<>>))
    <3>1. TypeOK /\ armed \in Made /\ (buffered # 0 => buffered \in Made)
      BY <2>2, MaxAttemptsAssumption DEF Inv, OwnershipInv, TypeOK, Ids, Made
    <3> DEFINE x == <<Tell("CONSUMED", armed)>>
               y == <<Tell("BUFFER_POPPED", buffered), LegacyPop, Replay(buffered)>>
               e == <<>>
    <3>2. x \in Seq(Step) /\ Quiet(x)
      BY <3>1, StepForms, StepSequences, QuietSteps DEF Events, ArmedEnd
    <3>3. buffered # 0 => y \in Seq(Step)
      <4>1. ASSUME buffered # 0
            PROVE  /\ Tell("BUFFER_POPPED", buffered) \in Step
                   /\ LegacyPop \in Step /\ Replay(buffered) \in Step
        BY <3>1, <4>1, StepForms DEF Events, BufferEnd
      <4> QED
        BY <4>1
    <3>4. Quiet(y) /\ Quiet(e) /\ e \in Seq(Step)
      <4>1. "BUFFER_POPPED" # "FAILED"
        OBVIOUS
      <4>2. Quiet(y)
        BY <4>1, QuietSteps
      <4>3. Quiet(e) /\ e \in Seq(Step)
        BY QuietSteps
      <4> QED
        BY <4>2, <4>3
    <3>5. todo' = x \o (IF buffered # 0 THEN y ELSE e)
      BY <2>2 DEF Become, Goto
    <3> HIDE DEF x, y, e
    <3> QED
      BY <3>2, <3>3, <3>4, <3>5, QuietConcat
  <2> QED
    BY <2>1, <2>2 DEF SpellGo
<1>3. todo' \in Seq(Step')
  BY DEF OwnershipInv, TypeOK
<1>4. Frames(todo') = {} /\ Claims(todo') = {}
  BY <1>2 DEF Quiet
<1> QED
  BY <1>1, <1>3, <1>4, NoFrames, MovedOn

(* A frame goes on, or ends, without news of a failure.                      *)
LEMMA QuietTop ==
  ASSUME Inv, OwnershipInv', NEW x \in Seq(Step), Quiet(x), NEW y,
         y = todo \/ (todo # <<>> /\ y = Tail(todo)),
         todo' = x \o y, nextId' = nextId, heard' = heard, inFlight' = inFlight,
         UNCHANGED <<spellOf, muddled>>
  PROVE  Inv'
<1>1. /\ y \in Seq(Step) /\ InnerYounger(y)
      /\ Frames(y) \subseteq Frames(todo) /\ Claims(y) \subseteq Claims(todo)
  BY TopFrames DEF Inv, OwnershipInv, TypeOK
<1>2. /\ Frames(todo') = Frames(y) /\ Claims(todo') = Claims(y) /\ InnerYounger(todo')
  BY <1>1, QuietConcat
<1> QED
  BY <1>1, <1>2, MovedOn
LEMMA StepKept == Inv /\ [Next]_vars => Inv'
<1> SUFFICES ASSUME Inv, [Next]_vars PROVE Inv'
  OBVIOUS
<1>o. OwnershipInv' /\ TypeOK
  BY StepInv DEF Inv, OwnershipInv
<1>t. todo \in Seq(Step) /\ InnerYounger(todo) /\ <<>> \in Seq(Step) /\ Quiet(<<>>)
  BY <1>o, QuietSteps DEF Inv, TypeOK
<1>u. todo # <<>> => /\ Tail(todo) \in Seq(Step) /\ InnerYounger(Tail(todo))
                     /\ Frames(Tail(todo)) \subseteq Frames(todo)
                     /\ Claims(Tail(todo)) \subseteq Claims(todo)
  BY TopFrames
<1>1. ASSUME NEW s \in Spells, Cast(s) PROVE Inv'
  BY <1>1, <1>o, <1>t, AttemptKept DEF Cast
<1>2. ASSUME NEW r \in BOOLEAN, Returns(r) PROVE Inv'
  BY <1>2, <1>o, ReturnsKept
<1>3. ASSUME NEW a \in inFlight, ServerRejects(a) PROVE Inv'
  BY <1>3, <1>o, ServerRejectsKept
<1>4. ASSUME NEW a \in inFlight, SpellGo(a) PROVE Inv'
  BY <1>4, <1>o, SpellGoKept
<1>5. CASE ClientFails
  BY <1>5, <1>o, ClientFailsKept
<1>6. CASE FailOnSwingState
  BY <1>6, <1>o, FailKept
<1>7. CASE StopCasting
  <2> DEFINE x == <<Clear>>
  <2>1. x \in Seq(Step)
    BY <1>o, StepForms, StepSequences
  <2>2. Quiet(x)
    BY QuietSteps
  <2>3. /\ todo' = x \o todo /\ nextId' = nextId /\ heard' = heard /\ inFlight' = inFlight
        /\ UNCHANGED <<spellOf, muddled>>
    BY <1>7 DEF StopCasting, data
  <2> HIDE DEF x
  <2> QED
    BY <1>o, <2>1, <2>2, <2>3, QuietTop
<1>8. CASE CancelOnSwingState
  <2> DEFINE x == TellIf("CANCELLED", armed)
             y == EndBuffer("BUFFER_CANCELLED", buffered)
             z == <<OtherEvent>>
  <2>1. /\ nextId' = nextId /\ heard' = heard /\ inFlight' = inFlight /\ todo # <<>>
        /\ UNCHANGED <<spellOf, muddled>> /\ todo' = x \o y \o z \o Tail(todo)
    BY <1>8 DEF CancelOnSwingState, Become, Goto, At, data
  <2>2. x \in Seq(Step) /\ y \in Seq(Step) /\ z \in Seq(Step)
    BY <1>o, StepForms, StepSequences DEF TypeOK, Events, ArmedEnd, BufferEnd
  <2>3. Quiet(x) /\ Quiet(y) /\ Quiet(z)
    BY QuietSteps
  <2> HIDE DEF x, y, z
  <2> DEFINE v == x \o y
             w == v \o z
  <2>4. v \in Seq(Step) /\ Quiet(v)
    BY <2>2, <2>3, QuietConcat
  <2>5. todo' = w \o Tail(todo)
    BY <2>1
  <2> HIDE DEF v
  <2>6. w \in Seq(Step) /\ Quiet(w)
    BY <2>2, <2>3, <2>4, QuietConcat
  <2> HIDE DEF w
  <2> QED
    BY <1>o, <2>1, <2>5, <2>6, QuietTop
<1>9. CASE ReplayBuffer
  <2>1. todo # <<>> /\ Top.id \in Made
    <3>1. todo # <<>> /\ Top.do = "Replay"
      BY <1>9 DEF ReplayBuffer, At, Top
    <3> QED
      BY <1>o, <3>1, TopForms
  <2>2. CASE /\ UNCHANGED <<data, heard, legacy>>
             /\ Keep(<<Tell("BUFFER_CANCELLED", Top.id)>> \o Tail(todo))
    <3> DEFINE x == <<Tell("BUFFER_CANCELLED", Top.id)>>
    <3>1. x \in Seq(Step)
      BY <1>o, <2>1, StepForms, StepSequences DEF Events, BufferEnd
    <3>2. Quiet(x)
      BY QuietSteps
    <3>3. /\ todo' = x \o Tail(todo) /\ nextId' = nextId /\ heard' = heard /\ inFlight' = inFlight
          /\ UNCHANGED <<spellOf, muddled>>
      BY <2>2 DEF Keep, Become, Goto, data
    <3> HIDE DEF x
    <3> QED
      BY <1>o, <2>1, <3>1, <3>2, <3>3, QuietTop
  <2>3. CASE BeginAttempt(spellOf[Top.id], playerOf[Top.id], Tail(todo))
    BY <1>o, <1>u, <2>1, <2>3, AttemptKept
  <2> QED
    BY <1>9, <2>2, <2>3 DEF ReplayBuffer
<1>10. CASE Signal
  BY <1>10, <1>o, SignalKept
<1>11. CASE SignalOther
  BY <1>11, <1>o, <1>u, MovedOn DEF SignalOther, At, data
<1>12. ASSUME NEW k \in {"LegacyPop", "LegacyPush"}, SignalLegacy(k) PROVE Inv'
  <2>1. /\ todo' = Tail(todo) /\ todo # <<>>
        /\ nextId' = nextId /\ heard' = heard /\ inFlight' = inFlight
        /\ UNCHANGED <<spellOf, muddled>>
    BY <1>12 DEF SignalLegacy, Goto, At, data
  <2> QED
    BY <1>o, <1>u, <2>1, MovedOn
<1>13. CASE PlayerChanges
  BY <1>13, <1>o, <1>t, MovedOn DEF PlayerChanges
<1>14. CASE ResetPlayerContextState
  <2>1. /\ todo' = todo /\ todo = <<>> /\ nextId' = nextId /\ inFlight' = inFlight
        /\ heard' = [a \in Attempts |-> <<>>]
    BY <1>14 DEF ResetPlayerContextState
  <2>2. \A a \in Attempts : ~ToldFailed(a)'
    BY <2>1 DEF ToldFailed
  <2>3. \A a \in Attempts : heard'[a] = <<>>
    BY <2>1
  <2>4. Frames(todo') = {} /\ Claims(todo') = {} /\ InnerYounger(todo')
    BY <1>t, <2>1, OnFew DEF Frames, Claims
  <2> QED
    BY <1>o, <2>2, <2>3, <2>4 DEF Inv
<1>15. CASE UNCHANGED vars
  BY <1>15, <1>o, <1>t, MovedOn DEF vars, data
<1> QED
  BY <1>1, <1>2, <1>3, <1>4, <1>5, <1>6, <1>7, <1>8, <1>9, <1>10, <1>11, <1>12, <1>13,
     <1>14, <1>15 DEF Next

LEMMA StartKept == Init => Inv
<1> SUFFICES ASSUME Init PROVE Inv
  OBVIOUS
<1>1. OwnershipInv
  BY InitInv
<1>2. On(todo) = {} /\ InnerYounger(todo)
  BY DEF Init, On, InnerYounger
<1>3. \A a \in Attempts : heard[a] = <<>>
  BY DEF Init
<1> QED
  BY <1>1, <1>2, <1>3 DEF Inv, Frames, Claims, ToldFailed

(* No attempt of which Lua heard that it failed is one the server may still  *)
(* answer: a late rejection ends the generation it was correlated to and no  *)
(* other, whatever the handlers between the packet and the failure do.  It   *)
(* holds through any number of UI loads, except of a spell with answers      *)
(* under way at the last one, which may be taken for a newer attempt's.      *)
THEOREM FailedIsRejectedTheorem == Spec => []FailedIsRejected
<1>1. Inv /\ [Next]_vars => Inv'
  BY StepKept
<1>2. Inv => FailedIsRejected
  BY DEF Inv, Over, Done, ToldFailed, FailedIsRejected
<1> QED
  BY <1>1, <1>2, StartKept, PTL DEF Spec
------------------------------------------------------------------------------
(* What Lua hears of a generation.  The steps that tell of an attempt, or    *)
(* still may: its events, its replay and its frame in the client.  An end    *)
(* may lie on top of an announcement that is no longer current, and a pop    *)
(* on top of the replay; otherwise an attempt has one such step at most.     *)
Telling(s) == s.do \in {"Tell", "Replay", "Return"}
Opening(s) == s.do = "Tell" /\ s.event \in {"ARMED", "BUFFERED"}
Closing(s) == s.do = "Tell" /\ s.event \in ArmedEnd \union BufferEnd
Follows(s, r) ==
  \/ (Closing(s) \/ s.do = "Replay") /\ Opening(r)
  \/ Closing(s) /\ s.event = "BUFFER_POPPED" /\ r.do = "Replay"
Agree(s, r) == Telling(s) /\ Telling(r) /\ s.id = r.id => Follows(s, r)
InOrder(t) == \A i, j \in 1..Len(t) : i < j => Agree(t[i], t[j])

Current(a) == a \in {armed, buffered}
Popped == {<<"BUFFER_POPPED">>, <<"BUFFERED", "BUFFER_POPPED">>}

(* A pending step continues the story Lua has heard.                         *)
Fits(s) ==
  /\ Opening(s) /\ StillCurrent(s) => heard[s.id] = <<>>
  /\ Closing(s) => ~Current(s.id) /\ Append(heard[s.id], s.event) \in Stories
  /\ Closing(s) /\ s.event = "BUFFER_POPPED" => Append(heard[s.id], s.event) \in Popped
  /\ s.do = "Replay" => /\ ~Current(s.id)
                        /\ heard[s.id] \in Popped \/ Tell("BUFFER_POPPED", s.id) \in On(todo)
  /\ s.do = "Return" => ~Current(s.id) /\ heard[s.id] = <<>>

(* A current generation was announced or is about to be; one that was        *)
(* announced and is over is about to be ended; and so for the legacy events. *)
Awaits(e, a) ==
  a # 0 => heard[a] = <<e>> \/ (heard[a] = <<>> /\ Tell(e, a) \in On(todo))
EndsToCome(a) == \E s \in On(todo) : Closing(s) /\ s.id = a
Push(a) == [do |-> "LegacyPush", id |-> a]

StoryInv ==
  /\ Inv
  /\ OneEnding
  /\ InOrder(todo)
  /\ \A s \in On(todo) : Fits(s)
  /\ Awaits("ARMED", armed) /\ Awaits("BUFFERED", buffered)
  /\ \A a \in Attempts : /\ heard[a] = <<"ARMED">> /\ a # armed => EndsToCome(a)
                         /\ heard[a] = <<"BUFFERED">> /\ a # buffered => EndsToCome(a)
  /\ legacy /\ buffered = 0 => LegacyPop \in On(todo)
  /\ ~legacy /\ buffered # 0 => Push(buffered) \in On(todo)
------------------------------------------------------------------------------
(* Steps put on top of others, in order.                                     *)
LEMMA OrderOnTop ==
  ASSUME NEW S, NEW x \in Seq(S), NEW y \in Seq(S), InOrder(x), InOrder(y),
         \A s \in On(x), r \in On(y) : Agree(s, r)
  PROVE  InOrder(x \o y)
<1> DEFINE u == x \o y
           k == Len(x)
           n == Len(y)
<1>1. /\ Len(u) = k + n /\ k \in Nat /\ n \in Nat
      /\ \A i \in 1..k : u[i] = x[i]
      /\ \A i \in 1..n : u[k + i] = y[i]
  OBVIOUS
<1>2. /\ \A i \in 1..k : x[i] \in On(x)
      /\ \A i \in 1..n : y[i] \in On(y)
  BY DEF On
<1> HIDE DEF u, k, n
<1>3. \A i \in 1..(k + n) : i \in 1..k \/ (i - k \in 1..n /\ u[i] = y[i - k])
  <2>1. TAKE i \in 1..(k + n)
  <2>2. i \in 1..k \/ (i - k \in 1..n /\ k + (i - k) = i)
    BY <1>1
  <2> QED
    BY <1>1, <2>2
<1>4. ASSUME NEW i \in 1..(k + n), NEW j \in 1..(k + n), i < j
      PROVE  Agree(u[i], u[j])
  <2>1. CASE i \in 1..k /\ j \in 1..k
    BY <1>1, <1>4, <2>1 DEF InOrder, k
  <2>2. CASE i \in 1..k /\ j - k \in 1..n /\ u[j] = y[j - k]
    BY <1>1, <1>2, <1>4, <2>2
  <2>3. CASE i - k \in 1..n /\ u[i] = y[i - k] /\ j - k \in 1..n /\ u[j] = y[j - k]
    <3>1. i - k < j - k
      BY <1>1, <1>4
    <3> QED
      BY <1>4, <2>3, <3>1 DEF InOrder, n
  <2>4. ~(i - k \in 1..n /\ j \in 1..k)
    BY <1>1, <1>4
  <2> QED
    BY <1>3, <2>1, <2>2, <2>3, <2>4
<1> QED
  BY <1>1, <1>4 DEF InOrder, u

(* What is below the top agrees with it and stays in order.                  *)
LEMMA OrderBelow ==
  ASSUME NEW S, NEW t \in Seq(S), t # <<>>, InOrder(t)
  PROVE  /\ InOrder(Tail(t))
         /\ \A r \in On(Tail(t)) : Agree(Head(t), r)
<1> DEFINE u == Tail(t)
           n == Len(t)
<1>1. Head(t) = t[1] /\ Len(u) = n - 1 /\ n \in Nat /\ n # 0
  OBVIOUS
<1>2. \A i \in 1..(n - 1) : u[i] = t[i + 1]
  OBVIOUS
<1> HIDE DEF u, n
<1>3. \A i \in 1..(n - 1) : i + 1 \in 1..n /\ 1 < i + 1
  BY <1>1
<1>4. 1 \in 1..n
  BY <1>1
<1>5. ASSUME NEW i \in 1..(n - 1), NEW j \in 1..(n - 1), i < j
      PROVE  Agree(u[i], u[j])
  <2>1. i + 1 < j + 1 /\ i + 1 \in 1..n /\ j + 1 \in 1..n
    BY <1>3, <1>5
  <2> QED
    BY <1>2, <2>1 DEF InOrder, n
<1>6. ASSUME NEW r \in On(u) PROVE Agree(Head(t), r)
  <2>1. PICK i \in 1..(n - 1) : r = u[i]
    BY <1>1 DEF On
  <2>2. r = t[i + 1] /\ i + 1 \in 1..n /\ 1 < i + 1
    BY <1>2, <1>3, <2>1
  <2> QED
    BY <1>1, <1>4, <2>2 DEF InOrder, n
<1> QED
  BY <1>1, <1>5, <1>6 DEF InOrder, u

LEMMA ConcatAssoc ==
  ASSUME NEW S, NEW x \in Seq(S), NEW y \in Seq(S), NEW z \in Seq(S)
  PROVE  (x \o y) \o z = x \o (y \o z)
  OBVIOUS

(* One step on top.                                                          *)
LEMMA OnPut ==
  ASSUME NEW S, NEW f \in S, NEW y \in Seq(S)
  PROVE  On(<<f>> \o y) = {f} \union On(y)
<1> DEFINE x == <<f>>
<1>1. x \in Seq(S)
  OBVIOUS
<1>2. On(x) = {f}
  BY OnFew
<1> HIDE DEF x
<1>3. On(x \o y) = {f} \union On(y)
  BY <1>1, <1>2, OnConcat
<1> QED
  BY <1>3 DEF x

LEMMA PutOne ==
  ASSUME NEW S, NEW f \in S, NEW y \in Seq(S), InOrder(y), \A r \in On(y) : Agree(f, r)
  PROVE  <<f>> \o y \in Seq(S) /\ InOrder(<<f>> \o y) /\ On(<<f>> \o y) = {f} \union On(y)
<1> DEFINE x == <<f>>
<1>1. x \in Seq(S) /\ Len(x) = 1
  OBVIOUS
<1>2. On(x) = {f}
  BY OnFew
<1>3. InOrder(x)
  BY <1>1 DEF InOrder
<1>4. \A s \in On(x), r \in On(y) : Agree(s, r)
  BY <1>2
<1> HIDE DEF x
<1>5. InOrder(x \o y)
  BY <1>1, <1>3, <1>4, OrderOnTop
<1>6. On(x \o y) = {f} \union On(y) /\ x \o y \in Seq(S)
  BY <1>1, <1>2, OnConcat
<1> QED
  BY <1>5, <1>6 DEF x

(* A step that tells of no attempt.                                          *)
LEMMA PutMute ==
  ASSUME NEW S, NEW f \in S, NEW y \in Seq(S), InOrder(y), ~Telling(f)
  PROVE  <<f>> \o y \in Seq(S) /\ InOrder(<<f>> \o y) /\ On(<<f>> \o y) = {f} \union On(y)
<1>1. \A r \in On(y) : Agree(f, r)
  BY DEF Agree
<1> QED
  BY <1>1, PutOne

LEMMA PutTwo ==
  ASSUME NEW S, NEW f \in S, NEW g \in S, NEW y \in Seq(S), InOrder(y),
         \A r \in On(y) : Agree(f, r) /\ Agree(g, r), Agree(f, g)
  PROVE  /\ <<f, g>> \o y \in Seq(S) /\ InOrder(<<f, g>> \o y)
         /\ On(<<f, g>> \o y) = {f, g} \union On(y)
<1> DEFINE x == <<f, g>>
<1>1. x \in Seq(S) /\ Len(x) = 2 /\ x[1] = f /\ x[2] = g
  OBVIOUS
<1>2. On(x) = {f, g}
  BY OnFew
<1> HIDE DEF x
<1>3. InOrder(x)
  <2>1. ASSUME NEW i \in 1..2, NEW j \in 1..2, i < j PROVE i = 1 /\ j = 2
    BY <2>1
  <2> QED
    BY <1>1, <2>1 DEF InOrder
<1>4. \A s \in On(x), r \in On(y) : Agree(s, r)
  BY <1>2
<1>5. InOrder(x \o y)
  BY <1>1, <1>3, <1>4, OrderOnTop
<1>6. On(x \o y) = {f, g} \union On(y) /\ x \o y \in Seq(S)
  BY <1>1, <1>2, OnConcat
<1> QED
  BY <1>5, <1>6 DEF x

(* The end of a generation of which only announcements are left below.       *)
LEMMA PutEnd ==
  ASSUME NEW S, NEW e \in ArmedEnd, NEW a, NEW y \in Seq(S), InOrder(y),
         a # 0 => Tell(e, a) \in S,
         \A r \in On(y) : a # 0 /\ Telling(r) /\ r.id = a => Opening(r)
  PROVE  /\ TellIf(e, a) \o y \in Seq(S) /\ InOrder(TellIf(e, a) \o y)
         /\ On(TellIf(e, a) \o y) = (IF a # 0 THEN {Tell(e, a)} ELSE {}) \union On(y)
<1>1. CASE a = 0
  <2>1. TellIf(e, a) = <<>> /\ <<>> \o y = y
    BY <1>1 DEF TellIf
  <2> QED
    BY <1>1, <2>1
<1>2. CASE a # 0
  <2> DEFINE f == Tell(e, a)
  <2>1. f \in S /\ Closing(f) /\ f.id = a
    BY <1>2 DEF Tell, Closing
  <2>2. \A r \in On(y) : Agree(f, r)
    BY <1>2, <2>1 DEF Agree, Follows
  <2>3. TellIf(e, a) = <<f>>
    BY <1>2 DEF TellIf
  <2> HIDE DEF f
  <2>4. <<f>> \o y \in Seq(S) /\ InOrder(<<f>> \o y) /\ On(<<f>> \o y) = {f} \union On(y)
    BY <2>1, <2>2, PutOne
  <2> QED
    BY <1>2, <2>3, <2>4 DEF f
<1> QED
  BY <1>1, <1>2

LEMMA PutBufferEnd ==
  ASSUME NEW S, NEW e \in BufferEnd, NEW b, NEW y \in Seq(S), InOrder(y),
         b # 0 => Tell(e, b) \in S, LegacyPop \in S,
         \A r \in On(y) : b # 0 /\ Telling(r) /\ r.id = b => Opening(r)
  PROVE  /\ EndBuffer(e, b) \o y \in Seq(S) /\ InOrder(EndBuffer(e, b) \o y)
         /\ On(EndBuffer(e, b) \o y) = (IF b # 0 THEN {Tell(e, b), LegacyPop} ELSE {}) \union On(y)
<1>1. CASE b = 0
  <2>1. EndBuffer(e, b) = <<>> /\ <<>> \o y = y
    BY <1>1 DEF EndBuffer
  <2> QED
    BY <1>1, <2>1
<1>2. CASE b # 0
  <2> DEFINE f == Tell(e, b)
             g == LegacyPop
  <2>1. f \in S /\ g \in S /\ Closing(f) /\ f.id = b
    BY <1>2 DEF Tell, Closing
  <2>2. ~Telling(g)
    BY DEF LegacyPop, Telling
  <2>3. \A r \in On(y) : Agree(f, r)
    BY <1>2, <2>1 DEF Agree, Follows
  <2>4. \A r : Agree(g, r) /\ Agree(r, g)
    BY <2>2 DEF Agree
  <2>5. EndBuffer(e, b) = <<f, g>>
    BY <1>2 DEF EndBuffer
  <2> HIDE DEF f, g
  <2>6. /\ <<f, g>> \o y \in Seq(S) /\ InOrder(<<f, g>> \o y)
        /\ On(<<f, g>> \o y) = {f, g} \union On(y)
    BY <2>1, <2>3, <2>4, PutTwo
  <2> QED
    BY <1>2, <2>5, <2>6 DEF f, g
<1> QED
  BY <1>1, <1>2
------------------------------------------------------------------------------
(* A step that tells Lua nothing: it takes steps that are no events from the *)
(* stack, puts the set new on top, ends generations, and makes current only  *)
(* attempts of the set fresh, of which nothing is left below.                *)
LEMMA Goes ==
  ASSUME StoryInv, Inv', heard' = heard, legacy' = legacy, InOrder(todo'),
         NEW new, NEW old, NEW fresh,
         On(todo') = new \union old, old \subseteq On(todo),
         \A s \in On(todo) : s.do \in {"Tell", "LegacyPop", "LegacyPush"} => s \in old,
         \A s \in old : Telling(s) => s.id \notin fresh,
         armed' \in {0, armed} \union fresh, buffered' \in {0, buffered} \union fresh,
         \A s \in new : Fits(s)',
         armed # 0 /\ armed' # armed => \E s \in new : Closing(s) /\ s.id = armed,
         buffered # 0 /\ buffered' # buffered => \E s \in new : Closing(s) /\ s.id = buffered,
         armed' \notin {0, armed} => heard[armed'] = <<>> /\ Tell("ARMED", armed') \in new,
         buffered' \notin {0, buffered} => /\ heard[buffered'] = <<>>
                                           /\ Tell("BUFFERED", buffered') \in new
                                           /\ Push(buffered') \in new,
         buffered # 0 /\ buffered' = 0 => LegacyPop \in new
  PROVE  StoryInv'
<1>1. \A s \in On(todo) : Telling(s) => s.id \in Nat /\ s.id # 0
  <2>1. On(todo) \subseteq Step
    <3>1. todo \in Seq(Step)
      BY DEF StoryInv, Inv, OwnershipInv, TypeOK
    <3> QED
      BY <3>1 DEF On
  <2>2. \A r \in Step : Telling(r) => r.id \in Made
    BY DEF Step, Telling
  <2> QED
    BY <2>1, <2>2, MaxAttemptsAssumption DEF StoryInv, Inv, OwnershipInv, TypeOK, Made
<1>2. \A s \in old : Telling(s) /\ ~Current(s.id) => ~Current(s.id)'
  BY <1>1 DEF Current
<1>3. ASSUME NEW s \in On(todo), s.do \in {"Tell", "LegacyPop", "LegacyPush"}
      PROVE  s \in On(todo')
  BY <1>3
<1>4. ASSUME NEW s \in old PROVE Fits(s)'
  <2>1. Fits(s)
    BY DEF StoryInv
  <2>2. Opening(s) /\ StillCurrent(s)' => StillCurrent(s)
    <3>1. Opening(s) => s.id \notin fresh /\ s.id # 0
      BY <1>1, <1>4 DEF Opening, Telling
    <3> QED
      BY <3>1 DEF Opening, StillCurrent
  <2>3. Telling(s) /\ ~Current(s.id) => ~Current(s.id)'
    BY <1>2, <1>4
  <2>4. Tell("BUFFER_POPPED", s.id) \in On(todo) => Tell("BUFFER_POPPED", s.id) \in On(todo')
    BY <1>3 DEF Tell
  <2>5. Opening(s) /\ StillCurrent(s)' => heard[s.id] = <<>>
    BY <2>1, <2>2 DEF Fits
  <2>6. /\ Closing(s) => ~Current(s.id)' /\ Append(heard[s.id], s.event) \in Stories
        /\ Closing(s) /\ s.event = "BUFFER_POPPED" => Append(heard[s.id], s.event) \in Popped
    BY <2>1, <2>3 DEF Fits, Closing, Telling
  <2>7. s.do = "Replay" => /\ ~Current(s.id)'
                           /\ heard[s.id] \in Popped \/ Tell("BUFFER_POPPED", s.id) \in On(todo')
    BY <2>1, <2>3, <2>4 DEF Fits, Telling
  <2>8. s.do = "Return" => ~Current(s.id)' /\ heard[s.id] = <<>>
    BY <2>1, <2>3 DEF Fits, Telling
  <2> QED
    BY <2>5, <2>6, <2>7, <2>8 DEF Fits
<1>5. \A s \in On(todo') : Fits(s)'
  BY <1>4
<1>6. Awaits("ARMED", armed)'
  <2>1. CASE armed' = armed
    <3>1. Tell("ARMED", armed) \in On(todo) => Tell("ARMED", armed) \in On(todo')
      BY <1>3 DEF Tell
    <3> QED
      BY <2>1, <3>1 DEF StoryInv, Awaits
  <2>2. CASE armed' # armed
    BY <2>2 DEF Awaits
  <2> QED
    BY <2>1, <2>2
<1>7. Awaits("BUFFERED", buffered)'
  <2>1. CASE buffered' = buffered
    <3>1. Tell("BUFFERED", buffered) \in On(todo) => Tell("BUFFERED", buffered) \in On(todo')
      BY <1>3 DEF Tell
    <3> QED
      BY <2>1, <3>1 DEF StoryInv, Awaits
  <2>2. CASE buffered' # buffered
    BY <2>2 DEF Awaits
  <2> QED
    BY <2>1, <2>2
<1>8. ASSUME NEW a \in Attempts
      PROVE  /\ heard[a] = <<"ARMED">> /\ a # armed' => EndsToCome(a)'
             /\ heard[a] = <<"BUFFERED">> /\ a # buffered' => EndsToCome(a)'
  <2>1. EndsToCome(a) => EndsToCome(a)'
    BY <1>3 DEF EndsToCome, Closing
  <2>2. a # 0
    BY DEF Attempts
  <2>3. a = armed /\ a # armed' => EndsToCome(a)'
    BY <2>2 DEF EndsToCome
  <2>4. a = buffered /\ a # buffered' => EndsToCome(a)'
    BY <2>2 DEF EndsToCome
  <2> QED
    BY <2>1, <2>3, <2>4 DEF StoryInv
<1>9. legacy' /\ buffered' = 0 => LegacyPop \in On(todo')
  <2>1. LegacyPop \in On(todo) => LegacyPop \in On(todo')
    BY <1>3 DEF LegacyPop
  <2> QED
    BY <2>1 DEF StoryInv
<1>10. ~legacy' /\ buffered' # 0 => Push(buffered') \in On(todo')
  <2>1. Push(buffered) \in On(todo) => Push(buffered) \in On(todo')
    BY <1>3 DEF Push
  <2> QED
    BY <2>1 DEF StoryInv
<1>11. OneEnding'
  BY DEF StoryInv, OneEnding
<1> QED
  BY <1>5, <1>6, <1>7, <1>8, <1>9, <1>10, <1>11 DEF StoryInv
------------------------------------------------------------------------------
(* The top of the stack and the rest.                                        *)
LEMMA TopStory ==
  ASSUME StoryInv, todo # <<>>
  PROVE  /\ Top \in Step /\ Tail(todo) \in Seq(Step) /\ InOrder(Tail(todo))
         /\ On(todo) = {Top} \union On(Tail(todo))
         /\ \A r \in On(Tail(todo)) : Agree(Top, r)
         /\ Fits(Top)
         /\ \A r \in On(Tail(todo)) : Fits(r)
<1>1. todo \in Seq(Step) /\ Top \in Step /\ Tail(todo) \in Seq(Step)
  BY TopForms DEF StoryInv, Inv, OwnershipInv, TypeOK
<1>2. On(todo) = {Top} \union On(Tail(todo))
  BY <1>1, Below DEF Top
<1>3. InOrder(Tail(todo)) /\ \A r \in On(Tail(todo)) : Agree(Top, r)
  BY <1>1, OrderBelow DEF StoryInv, Top
<1> QED
  BY <1>1, <1>2, <1>3 DEF StoryInv

LEMMA AppendFew ==
  ASSUME NEW S, NEW f \in S, NEW e \in S
  PROVE  Append(<<>>, e) = <<e>> /\ Append(<<f>>, e) = <<f, e>>
<1>1. Append(<<>>, e) = <<e>>
  OBVIOUS
<1> DEFINE x == Append(<<f>>, e)
           y == <<f, e>>
<1>2. x \in Seq(S) /\ Len(x) = 2 /\ x[1] = f /\ x[2] = e
  OBVIOUS
<1>3. y \in Seq(S) /\ Len(y) = 2 /\ y[1] = f /\ y[2] = e
  OBVIOUS
<1> HIDE DEF x, y
<1>4. \A i \in 1..2 : i = 1 \/ i = 2
  OBVIOUS
<1>5. x = y
  BY <1>2, <1>3, <1>4
<1> QED
  BY <1>1, <1>5 DEF x, y

LEMMA AppendFacts ==
  ASSUME NEW S, NEW z \in Seq(S), NEW e \in S
  PROVE  /\ Append(z, e) \in Seq(S) /\ Len(Append(z, e)) = Len(z) + 1
         /\ \A i \in 1..Len(z) : Append(z, e)[i] = z[i]
         /\ Append(z, e)[Len(z) + 1] = e
  OBVIOUS

LEMMA AppendTwo ==
  ASSUME NEW S, NEW f \in S, NEW g \in S, NEW e \in S
  PROVE  Append(<<f, g>>, e) = <<f, g, e>>
<1> DEFINE x == Append(<<f, g>>, e)
           y == <<f, g, e>>
<1>1. x \in Seq(S) /\ Len(x) = 3 /\ x[1] = f /\ x[2] = g /\ x[3] = e
  <2> DEFINE z == <<f, g>>
  <2>1. z \in Seq(S) /\ Len(z) = 2 /\ z[1] = f /\ z[2] = g
    OBVIOUS
  <2> HIDE DEF z
  <2>2. /\ Append(z, e) \in Seq(S) /\ Len(Append(z, e)) = 3
        /\ Append(z, e)[1] = f /\ Append(z, e)[2] = g /\ Append(z, e)[3] = e
    <3>1. /\ Append(z, e) \in Seq(S) /\ Len(Append(z, e)) = Len(z) + 1
          /\ \A i \in 1..Len(z) : Append(z, e)[i] = z[i]
          /\ Append(z, e)[Len(z) + 1] = e
      BY <2>1, AppendFacts
    <3>2. 1 \in 1..Len(z) /\ 2 \in 1..Len(z) /\ Len(z) + 1 = 3
      BY <2>1
    <3> QED
      BY <2>1, <3>1, <3>2
  <2> QED
    BY <2>2 DEF z
<1>2. y \in Seq(S) /\ Len(y) = 3 /\ y[1] = f /\ y[2] = g /\ y[3] = e
  OBVIOUS
<1> HIDE DEF x, y
<1>3. \A i \in 1..3 : i = 1 \/ i = 2 \/ i = 3
  OBVIOUS
<1>4. x = y
  BY <1>1, <1>2, <1>3
<1> QED
  BY <1>4 DEF x, y

(* What may be told of the generations of the state.                         *)
LEMMA CurrentStory ==
  ASSUME StoryInv
  PROVE  /\ TypeOK
         /\ armed \in Nat /\ buffered \in Nat
         /\ armed # 0 => armed \in Made /\ armed \in Attempts
         /\ buffered # 0 => /\ buffered \in Made /\ buffered \in Attempts
                            /\ armed # 0 /\ armed # buffered
         /\ armed # 0 => \A e \in ArmedEnd : Append(heard[armed], e) \in Stories
         /\ buffered # 0 => \A e \in BufferEnd : Append(heard[buffered], e) \in Stories
         /\ buffered # 0 => Append(heard[buffered], "BUFFER_POPPED") \in Popped
         /\ \A s \in On(todo) : Telling(s) /\ Current(s.id) => Opening(s)
         /\ \A s \in On(todo) : Telling(s) => s.id \in Made
<1>1. TypeOK /\ armed \in Ids /\ buffered \in Ids
  BY DEF StoryInv, Inv, OwnershipInv, TypeOK
<1>2. /\ armed \in Nat /\ buffered \in Nat
      /\ armed # 0 => armed \in Made /\ armed \in Attempts
      /\ buffered # 0 => buffered \in Made /\ buffered \in Attempts
  BY <1>1, MaxAttemptsAssumption DEF TypeOK, Ids, Made, Attempts
<1>3. buffered # 0 => armed # 0 /\ armed # buffered
  BY <1>2 DEF StoryInv, Inv, OwnershipInv, BufferBehindOlder
<1>4. ASSUME armed # 0, NEW e \in ArmedEnd PROVE Append(heard[armed], e) \in Stories
  <2>1. heard[armed] = <<>> \/ heard[armed] = <<"ARMED">>
    BY <1>4 DEF StoryInv, Awaits
  <2>2. Append(<<>>, e) = <<e>> /\ Append(<<"ARMED">>, e) = <<"ARMED", e>>
    <3>1. e \in Events /\ "ARMED" \in Events
      BY DEF Events
    <3> QED
      BY <3>1, AppendFew
  <2>3. <<e>> \in Stories /\ <<"ARMED", e>> \in Stories
    BY DEF Stories
  <2> QED
    BY <2>1, <2>2, <2>3
<1>5. ASSUME buffered # 0, NEW e \in BufferEnd
      PROVE  /\ Append(heard[buffered], e) \in Stories
             /\ e = "BUFFER_POPPED" => Append(heard[buffered], e) \in Popped
  <2>1. heard[buffered] = <<>> \/ heard[buffered] = <<"BUFFERED">>
    BY <1>5 DEF StoryInv, Awaits
  <2>2. Append(<<>>, e) = <<e>> /\ Append(<<"BUFFERED">>, e) = <<"BUFFERED", e>>
    <3>1. e \in Events /\ "BUFFERED" \in Events
      BY DEF Events
    <3> QED
      BY <3>1, AppendFew
  <2>3. <<e>> \in Stories /\ <<"BUFFERED", e>> \in Stories
    BY DEF Stories
  <2>4. e = "BUFFER_POPPED" => <<e>> \in Popped /\ <<"BUFFERED", e>> \in Popped
    BY DEF Popped
  <2> QED
    BY <2>1, <2>2, <2>3, <2>4
<1>6. buffered # 0 => Append(heard[buffered], "BUFFER_POPPED") \in Popped
  BY <1>5 DEF BufferEnd
<1>7. \A s \in On(todo) : Telling(s) /\ Current(s.id) => Opening(s)
  <2>1. \A s \in Step : s.do = "Tell" => Opening(s) \/ Closing(s)
    BY DEF Step, Opening, Closing, Events
  <2>2. On(todo) \subseteq Step
    BY <1>1 DEF TypeOK, On
  <2> QED
    BY <2>1, <2>2 DEF StoryInv, Fits, Telling
<1>8. \A s \in On(todo) : Telling(s) => s.id \in Made
  <2>1. \A r \in Step : Telling(r) => r.id \in Made
    BY DEF Step, Telling
  <2>2. On(todo) \subseteq Step
    BY <1>1 DEF TypeOK, On
  <2> QED
    BY <2>1, <2>2
<1> QED
  BY <1>1, <1>2, <1>3, <1>4, <1>5, <1>6, <1>7, <1>8

(* What the steps that end the state put on top of the others.               *)
EndSteps(e) ==
  (IF armed # 0 THEN {Tell(e, armed)} ELSE {})
    \union (IF buffered # 0 THEN {Tell("BUFFER_CANCELLED", buffered), LegacyPop} ELSE {})

LEMMA EndsOnTop ==
  ASSUME StoryInv, NEW e \in ArmedEnd, NEW y \in Seq(Step), InOrder(y),
         \A r \in On(y) : Telling(r) /\ Current(r.id) => Opening(r)
  PROVE  LET t == TellIf(e, armed) \o EndBuffer("BUFFER_CANCELLED", buffered) \o y
         IN  InOrder(t) /\ t \in Seq(Step) /\ On(t) = EndSteps(e) \union On(y)
<1> DEFINE x == TellIf(e, armed)
           z == EndBuffer("BUFFER_CANCELLED", buffered)
           w == z \o y
<1>1. /\ TypeOK /\ armed \in Ids /\ buffered \in Ids
      /\ armed # 0 => armed \in Made /\ armed # buffered
      /\ buffered # 0 => buffered \in Made /\ armed # buffered
  BY CurrentStory DEF TypeOK
<1>2. LegacyPop \in Step /\ x \in Seq(Step) /\ z \in Seq(Step)
  BY <1>1, StepForms, StepSequences DEF Events, BufferEnd
<1>3. /\ armed # 0 => Tell(e, armed) \in Step
      /\ buffered # 0 => Tell("BUFFER_CANCELLED", buffered) \in Step
  BY <1>1, StepForms DEF Events, BufferEnd
<1>4. \A r \in On(y) : buffered # 0 /\ Telling(r) /\ r.id = buffered => Opening(r)
  BY DEF Current
<1>5. /\ w \in Seq(Step) /\ InOrder(w)
      /\ On(w) = (IF buffered # 0 THEN {Tell("BUFFER_CANCELLED", buffered), LegacyPop} ELSE {})
                   \union On(y)
  <2>1. "BUFFER_CANCELLED" \in BufferEnd
    BY DEF BufferEnd
  <2>2. buffered # 0 => Tell("BUFFER_CANCELLED", buffered) \in Step
    BY <1>3
  <2>3. LegacyPop \in Step
    BY <1>2
  <2>4. PICK c : c = "BUFFER_CANCELLED"
    OBVIOUS
  <2>5. PICK b : b = buffered
    OBVIOUS
  <2>6. /\ EndBuffer(c, b) \o y \in Seq(Step) /\ InOrder(EndBuffer(c, b) \o y)
        /\ On(EndBuffer(c, b) \o y) = (IF b # 0 THEN {Tell(c, b), LegacyPop} ELSE {}) \union On(y)
    <3>1. c \in BufferEnd /\ (b # 0 => Tell(c, b) \in Step)
      BY <2>1, <2>2, <2>4, <2>5
    <3>2. \A r \in On(y) : b # 0 /\ Telling(r) /\ r.id = b => Opening(r)
      BY <1>4, <2>5
    <3> QED
      BY <2>3, <3>1, <3>2, PutBufferEnd
  <2> QED
    BY <2>4, <2>5, <2>6
<1>6. \A r \in On(w) : armed # 0 /\ Telling(r) /\ r.id = armed => Opening(r)
  BY <1>1, <1>5 DEF Current, Tell, LegacyPop, Telling
<1>7. (x \o z) \o y = x \o w
  BY <1>2, ConcatAssoc
<1> HIDE DEF w
<1>8. /\ x \o w \in Seq(Step) /\ InOrder(x \o w)
      /\ On(x \o w) = (IF armed # 0 THEN {Tell(e, armed)} ELSE {}) \union On(w)
  <2>1. e \in ArmedEnd \union BufferEnd
    OBVIOUS
  <2> HIDE DEF z
  <2> QED
    BY <1>2, <1>3, <1>5, <1>6, <2>1, PutEnd
<1>9. On(x \o w) = EndSteps(e) \union On(y)
  BY <1>5, <1>8 DEF EndSteps
<1> QED
  BY <1>7, <1>8, <1>9

(* The events of the end fit once the state is no longer theirs.             *)
LEMMA EndsFit ==
  ASSUME StoryInv, NEW e \in ArmedEnd, heard' = heard,
         armed # 0 => armed \notin {armed', buffered'},
         buffered # 0 => buffered \notin {armed', buffered'}
  PROVE  \A s \in EndSteps(e) : Fits(s)'
<1>1. ASSUME NEW s, s = Tell(e, armed), armed # 0 PROVE Fits(s)'
  <2>1. s.do = "Tell" /\ s.event = e /\ s.id = armed
    BY <1>1 DEF Tell
  <2>2. e \notin {"ARMED", "BUFFERED", "BUFFER_POPPED"}
    BY DEF ArmedEnd
  <2> QED
    BY <1>1, <2>1, <2>2, CurrentStory DEF Fits, Opening, Closing, Current
<1>2. ASSUME NEW s, s = Tell("BUFFER_CANCELLED", buffered), buffered # 0 PROVE Fits(s)'
  <2>1. s.do = "Tell" /\ s.event = "BUFFER_CANCELLED" /\ s.id = buffered
    BY <1>2 DEF Tell
  <2>2. "BUFFER_CANCELLED" \in BufferEnd
    BY DEF BufferEnd
  <2> QED
    BY <1>2, <2>1, <2>2, CurrentStory DEF Fits, Opening, Closing, Current
<1>3. ASSUME NEW s, s = LegacyPop PROVE Fits(s)'
  BY <1>3 DEF LegacyPop, Fits, Opening, Closing
<1> QED
  BY <1>1, <1>2, <1>3 DEF EndSteps

(* The generations the steps end.                                            *)
LEMMA EndsClose ==
  ASSUME NEW e \in ArmedEnd
  PROVE  /\ armed # 0 => \E s \in EndSteps(e) : Closing(s) /\ s.id = armed
         /\ buffered # 0 => \E s \in EndSteps(e) : Closing(s) /\ s.id = buffered
         /\ buffered # 0 => LegacyPop \in EndSteps(e)
<1>1. ASSUME armed # 0 PROVE \E s \in EndSteps(e) : Closing(s) /\ s.id = armed
  <2>1. Tell(e, armed) \in EndSteps(e)
    BY <1>1 DEF EndSteps
  <2>2. Closing(Tell(e, armed)) /\ Tell(e, armed).id = armed
    BY DEF Closing, Tell
  <2> QED
    BY <2>1, <2>2
<1>2. ASSUME buffered # 0 PROVE \E s \in EndSteps(e) : Closing(s) /\ s.id = buffered
  <2> DEFINE f == Tell("BUFFER_CANCELLED", buffered)
  <2>1. f \in EndSteps(e)
    BY <1>2 DEF EndSteps
  <2>2. Closing(f) /\ f.id = buffered
    BY DEF Closing, Tell, BufferEnd
  <2> QED
    BY <2>1, <2>2
<1>3. buffered # 0 => LegacyPop \in EndSteps(e)
  BY DEF EndSteps
<1> QED
  BY <1>1, <1>2, <1>3
------------------------------------------------------------------------------
(* A step that ends and begins no generation and tells Lua nothing.          *)
LEMMA GoesOn ==
  ASSUME StoryInv, Inv', heard' = heard, legacy' = legacy, InOrder(todo'),
         armed' = armed, buffered' = buffered,
         NEW new, NEW old,
         On(todo') = new \union old, old \subseteq On(todo),
         \A s \in On(todo) : s.do \in {"Tell", "LegacyPop", "LegacyPush"} => s \in old,
         \A s \in new : Fits(s)'
  PROVE  StoryInv'
<1>1. PICK fresh : fresh = {}
  OBVIOUS
<1>2. armed' \in {0, armed} \union fresh /\ buffered' \in {0, buffered} \union fresh
  OBVIOUS
<1>3. \A s \in old : Telling(s) => s.id \notin fresh
  BY <1>1
<1>4. /\ ~(armed # 0 /\ armed' # armed) /\ ~(buffered # 0 /\ buffered' # buffered)
      /\ ~(armed' \notin {0, armed}) /\ ~(buffered' \notin {0, buffered})
      /\ ~(buffered # 0 /\ buffered' = 0)
  OBVIOUS
<1> QED
  BY <1>2, <1>3, <1>4, Goes

LEMMA MuteFits ==
  /\ \A s : ~Telling(s) => Fits(s)'
  /\ ~Telling(OtherEvent) /\ ~Telling(LegacyPop) /\ ~Telling(Clear)
  /\ \A a : ~Telling(Push(a))
  /\ \A s, a : ~Telling(Fail(s, a))
<1>1. \A s : ~Telling(s) => Fits(s)'
  BY DEF Telling, Fits, Opening, Closing
<1> QED
  BY <1>1 DEF Telling, OtherEvent, LegacyPop, Clear, Push, Fail

(* Only the one step goes, and it is no event.                               *)
LEMMA Gone ==
  ASSUME StoryInv, todo # <<>>, Top.do \notin {"Tell", "LegacyPop", "LegacyPush"}
  PROVE  \A s \in On(todo) : s.do \in {"Tell", "LegacyPop", "LegacyPush"} => s \in On(Tail(todo))
  BY TopStory

(* The frame in the client returns.                                          *)
LEMMA FinishStory ==
  ASSUME StoryInv, todo # <<>>
  PROVE  /\ Finish \in Seq(Step) /\ InOrder(Finish)
         /\ On(Finish) = {OtherEvent} \union On(Tail(todo))
<1>1. OtherEvent \in Step /\ Tail(todo) \in Seq(Step) /\ InOrder(Tail(todo))
  BY TopStory, CurrentStory, StepForms
<1>2. ~Telling(OtherEvent)
  BY MuteFits
<1>3. PICK f, y : f = OtherEvent /\ y = Tail(todo)
  OBVIOUS
<1>4. f \in Step /\ ~Telling(f) /\ y \in Seq(Step) /\ InOrder(y)
  BY <1>1, <1>2, <1>3
<1>5. <<f>> \o y \in Seq(Step) /\ InOrder(<<f>> \o y) /\ On(<<f>> \o y) = {f} \union On(y)
  BY <1>4, PutMute
<1> QED
  BY <1>3, <1>5 DEF Finish

LEMMA KeepFinish ==
  ASSUME StoryInv, Inv', todo # <<>>, Top.do \notin {"Tell", "LegacyPop", "LegacyPush"},
         heard' = heard, legacy' = legacy, Keep(Finish)
  PROVE  StoryInv'
<1>1. todo' = Finish /\ armed' = armed /\ buffered' = buffered
  BY DEF Keep, Become, Goto
<1>2. PICK new : new = {OtherEvent}
  OBVIOUS
<1>3. PICK old : old = On(Tail(todo))
  OBVIOUS
<1>4. InOrder(todo') /\ On(todo') = new \union old
  BY <1>1, <1>2, <1>3, FinishStory
<1>5. \A s \in new : Fits(s)'
  BY <1>2, MuteFits
<1>6. old \subseteq On(todo)
  BY <1>3, TopStory
<1>7. \A s \in On(todo) : s.do \in {"Tell", "LegacyPop", "LegacyPush"} => s \in old
  BY <1>3, Gone
<1> QED
  BY <1>1, <1>4, <1>5, <1>6, <1>7, GoesOn

(* The attempt of the frame: not told of yet, and nothing else is its.       *)
LEMMA FrameStory ==
  ASSUME StoryInv, todo # <<>>, Top.do = "Return"
  PROVE  /\ Top.id \in Made /\ Top.id \in Nat /\ Top.id # 0
         /\ heard[Top.id] = <<>> /\ ~Current(Top.id)
         /\ \A r \in On(Tail(todo)) : Telling(r) => r.id # Top.id
<1>1. TypeOK
  BY CurrentStory
<1>2. Top.id \in Made
  BY <1>1, TopForms
<1>3. heard[Top.id] = <<>> /\ ~Current(Top.id)
  BY TopStory DEF Fits
<1>4. \A r \in On(Tail(todo)) : Telling(r) => r.id # Top.id
  BY TopStory DEF Agree, Telling, Follows, Closing
<1> QED
  BY <1>1, <1>2, <1>3, <1>4, MaxAttemptsAssumption DEF TypeOK, Made

LEMMA ArmStory ==
  ASSUME StoryInv, Inv', todo # <<>>, Top.do = "Return", heard' = heard, legacy' = legacy,
         ArmOnSwingState(Top.id)
  PROVE  StoryInv'
<1>1. /\ Top.id \in Made /\ Top.id \in Nat /\ Top.id # 0
      /\ heard[Top.id] = <<>> /\ ~Current(Top.id)
      /\ \A r \in On(Tail(todo)) : Telling(r) => r.id # Top.id
  BY FrameStory
<1>2. PICK a : a = Top.id
  OBVIOUS
<1>3. PICK f : f = Tell("ARMED", a)
  OBVIOUS
<1>4. f \in Step /\ Opening(f) /\ f.id = a /\ f.do = "Tell" /\ f.event = "ARMED"
  <2>1. f \in Step
    BY <1>1, <1>2, <1>3, CurrentStory, StepForms DEF Events
  <2> QED
    BY <1>3, <2>1 DEF Opening, Tell
<1>5. PICK y : y = <<f>> \o Finish
  OBVIOUS
<1>6. \A r \in On(Finish) : Agree(f, r)
  BY <1>1, <1>2, <1>4, FinishStory, MuteFits DEF Agree
<1>7. y \in Seq(Step) /\ InOrder(y) /\ On(y) = {f, OtherEvent} \union On(Tail(todo))
  <2>1. <<f>> \o Finish \in Seq(Step) /\ InOrder(<<f>> \o Finish)
        /\ On(<<f>> \o Finish) = {f} \union On(Finish)
    BY <1>4, <1>6, FinishStory, PutOne
  <2> QED
    BY <1>5, <2>1, FinishStory
<1>8. \A r \in On(y) : Telling(r) /\ Current(r.id) => Opening(r)
  BY <1>4, <1>7, TopStory, CurrentStory, MuteFits
<1>9. /\ InOrder(todo') /\ On(todo') = EndSteps("ARMED_REPLACED") \union On(y)
      /\ armed' = a /\ buffered' = 0
  <2> DEFINE x == TellIf("ARMED_REPLACED", armed)
             z == EndBuffer("BUFFER_CANCELLED", buffered)
             v == x \o z
             g == <<f>>
  <2>1. todo' = ((x \o z) \o g) \o Finish /\ armed' = a /\ buffered' = 0
    BY <1>2, <1>3 DEF ArmOnSwingState, Become, Goto
  <2>2. x \in Seq(Step) /\ z \in Seq(Step)
    BY CurrentStory, StepSequences DEF TypeOK, Events, ArmedEnd, BufferEnd
  <2>3. g \in Seq(Step) /\ Finish \in Seq(Step)
    BY <1>4, FinishStory
  <2>4. InOrder(v \o y) /\ On(v \o y) = EndSteps("ARMED_REPLACED") \union On(y)
    <3>1. "ARMED_REPLACED" \in ArmedEnd
      BY DEF ArmedEnd
    <3> QED
      BY <1>7, <1>8, <3>1, EndsOnTop
  <2>5. y = g \o Finish
    BY <1>5
  <2> HIDE DEF x, z, g
  <2>6. v \in Seq(Step)
    BY <2>2
  <2>7. todo' = (v \o g) \o Finish
    BY <2>1
  <2> HIDE DEF v
  <2>8. todo' = v \o y
    BY <2>3, <2>5, <2>6, <2>7, ConcatAssoc
  <2> QED
    BY <2>1, <2>4, <2>8
<1>10. PICK new : new = EndSteps("ARMED_REPLACED") \union {f, OtherEvent}
  OBVIOUS
<1>11. PICK old : old = On(Tail(todo))
  OBVIOUS
<1>12. PICK fresh : fresh = {a}
  OBVIOUS
<1>13. /\ armed # 0 => armed \notin {armed', buffered'}
       /\ buffered # 0 => buffered \notin {armed', buffered'}
  BY <1>1, <1>2, <1>9 DEF Current
<1>14. \A s \in new : Fits(s)'
  <2>1. "ARMED_REPLACED" \in ArmedEnd
    BY DEF ArmedEnd
  <2>2. \A s \in EndSteps("ARMED_REPLACED") : Fits(s)'
    BY <1>13, <2>1, EndsFit
  <2>3. Fits(f)'
    <3>1. heard[f.id] = <<>>
      BY <1>1, <1>2, <1>4
    <3>2. ~Closing(f) /\ Opening(f) /\ f.do = "Tell"
      BY <1>4 DEF Closing, ArmedEnd, BufferEnd
    <3> QED
      BY <3>1, <3>2 DEF Fits
  <2>4. Fits(OtherEvent)'
    BY MuteFits
  <2> QED
    BY <1>10, <2>2, <2>3, <2>4
<1>15. On(todo') = new \union old /\ old \subseteq On(todo)
  BY <1>7, <1>9, <1>10, <1>11, TopStory
<1>16. \A s \in On(todo) : s.do \in {"Tell", "LegacyPop", "LegacyPush"} => s \in old
  BY <1>11, Gone
<1>17. \A s \in old : Telling(s) => s.id \notin fresh
  BY <1>1, <1>2, <1>11, <1>12
<1>18. /\ armed # 0 => \E s \in new : Closing(s) /\ s.id = armed
       /\ buffered # 0 => \E s \in new : Closing(s) /\ s.id = buffered
       /\ buffered # 0 => LegacyPop \in new
  <2>1. "ARMED_REPLACED" \in ArmedEnd
    BY DEF ArmedEnd
  <2> QED
    BY <1>10, <2>1, EndsClose
<1>19. Tell("ARMED", a) \in new /\ heard[a] = <<>>
  BY <1>1, <1>2, <1>3, <1>10
<1>20. armed' \in {0, armed} \union fresh /\ buffered' \in {0, buffered} \union fresh
  BY <1>9, <1>12
<1> QED
  BY <1>9, <1>14, <1>15, <1>16, <1>17, <1>18, <1>19, <1>20, Goes

LEMMA BufferStory ==
  ASSUME StoryInv, Inv', todo # <<>>, Top.do = "Return", heard' = heard, legacy' = legacy,
         BufferOnSwingState(Top.id)
  PROVE  StoryInv'
<1>1. /\ Top.id \in Made /\ Top.id \in Nat /\ Top.id # 0
      /\ heard[Top.id] = <<>> /\ ~Current(Top.id)
      /\ \A r \in On(Tail(todo)) : Telling(r) => r.id # Top.id
  BY FrameStory
<1>2. PICK a : a = Top.id
  OBVIOUS
<1>3. PICK f : f = Tell("BUFFERED", a)
  OBVIOUS
<1>4. f \in Step /\ Opening(f) /\ f.id = a /\ f.do = "Tell" /\ f.event = "BUFFERED"
  <2>1. f \in Step
    BY <1>1, <1>2, <1>3, CurrentStory, StepForms DEF Events
  <2> QED
    BY <1>3, <2>1 DEF Opening, Tell
<1>5. PICK g : g = Push(a)
  OBVIOUS
<1>6. g \in Step /\ ~Telling(g)
  <2>1. g \in Step
    BY <1>1, <1>2, <1>5, CurrentStory, StepForms DEF Push
  <2> QED
    BY <1>5, <2>1, MuteFits
<1>7. PICK y : y = <<f, g>> \o Finish
  OBVIOUS
<1>8. /\ \A r \in On(Finish) : Agree(f, r) /\ Agree(g, r)
      /\ Agree(f, g)
  BY <1>1, <1>2, <1>4, <1>6, FinishStory, MuteFits DEF Agree
<1>9. y \in Seq(Step) /\ InOrder(y) /\ On(y) = {f, g, OtherEvent} \union On(Tail(todo))
  <2>1. /\ <<f, g>> \o Finish \in Seq(Step) /\ InOrder(<<f, g>> \o Finish)
        /\ On(<<f, g>> \o Finish) = {f, g} \union On(Finish)
    BY <1>4, <1>6, <1>8, FinishStory, PutTwo
  <2> QED
    BY <1>7, <2>1, FinishStory
<1>10. \A r \in On(y) : buffered # 0 /\ Telling(r) /\ r.id = buffered => Opening(r)
  BY <1>4, <1>6, <1>9, TopStory, CurrentStory, MuteFits DEF Current
<1>11. PICK e : e = "BUFFER_REPLACED"
  OBVIOUS
<1>12. PICK b : b = buffered
  OBVIOUS
<1>13. PICK ends : ends = (IF b # 0 THEN {Tell(e, b), LegacyPop} ELSE {})
  OBVIOUS
<1>14. /\ InOrder(todo') /\ On(todo') = ends \union On(y)
       /\ armed' = armed /\ buffered' = a
  <2> DEFINE z == EndBuffer(e, b)
             h == <<f, g>>
  <2>1. todo' = (z \o h) \o Finish /\ armed' = armed /\ buffered' = a
    BY <1>2, <1>3, <1>5, <1>11, <1>12 DEF BufferOnSwingState, Become, Goto, Push
  <2>2. e \in BufferEnd /\ (b # 0 => Tell(e, b) \in Step) /\ LegacyPop \in Step
    BY <1>11, <1>12, CurrentStory, StepForms DEF BufferEnd, Events
  <2>3. z \in Seq(Step)
    BY <1>12, <2>2, CurrentStory, StepSequences DEF TypeOK, Events
  <2>4. h \in Seq(Step) /\ Finish \in Seq(Step)
    <3>1. h \in Seq(Step)
      BY <1>4, <1>6
    <3> QED
      BY <3>1, FinishStory
  <2>5. InOrder(z \o y) /\ On(z \o y) = ends \union On(y)
    <3>1. \A r \in On(y) : b # 0 /\ Telling(r) /\ r.id = b => Opening(r)
      BY <1>10, <1>12
    <3>2. /\ EndBuffer(e, b) \o y \in Seq(Step) /\ InOrder(EndBuffer(e, b) \o y)
          /\ On(EndBuffer(e, b) \o y) = (IF b # 0 THEN {Tell(e, b), LegacyPop} ELSE {}) \union On(y)
      BY <1>9, <2>2, <3>1, PutBufferEnd
    <3> QED
      BY <1>13, <3>2
  <2>6. y = h \o Finish
    BY <1>7
  <2> HIDE DEF z, h
  <2>7. todo' = z \o y
    BY <2>1, <2>3, <2>4, <2>6, ConcatAssoc
  <2> QED
    BY <2>1, <2>5, <2>7
<1>15. PICK new : new = ends \union {f, g, OtherEvent}
  OBVIOUS
<1>16. PICK old : old = On(Tail(todo))
  OBVIOUS
<1>17. PICK fresh : fresh = {a}
  OBVIOUS
<1>18. buffered # 0 => /\ Tell(e, b) \in new /\ LegacyPop \in new
                       /\ Closing(Tell(e, b)) /\ Tell(e, b).id = buffered
  BY <1>11, <1>12, <1>13, <1>15 DEF Closing, Tell, BufferEnd
<1>19. \A s \in new : Fits(s)'
  <2>1. ASSUME NEW s \in ends PROVE Fits(s)'
    <3>1. CASE s = LegacyPop
      BY <3>1, MuteFits
    <3>2. CASE s = Tell(e, b) /\ buffered # 0
      <4>1. s.do = "Tell" /\ s.event = "BUFFER_REPLACED" /\ s.id = buffered
        BY <1>11, <1>12, <3>2 DEF Tell
      <4>2. Append(heard[s.id], s.event) \in Stories
        BY <3>2, <4>1, CurrentStory DEF BufferEnd
      <4>3. buffered \notin {armed', buffered'}
        BY <1>1, <1>2, <1>14, <3>2, CurrentStory DEF Current
      <4> QED
        BY <4>1, <4>2, <4>3 DEF Fits, Opening, Current
    <3> QED
      BY <1>12, <1>13, <2>1, <3>1, <3>2
  <2>2. Fits(f)'
    <3>1. heard[f.id] = <<>>
      BY <1>1, <1>2, <1>4
    <3>2. ~Closing(f) /\ Opening(f) /\ f.do = "Tell"
      BY <1>4 DEF Closing, ArmedEnd, BufferEnd
    <3> QED
      BY <3>1, <3>2 DEF Fits
  <2>3. Fits(OtherEvent)' /\ Fits(g)'
    BY <1>6, MuteFits
  <2> QED
    BY <1>15, <2>1, <2>2, <2>3
<1>20. On(todo') = new \union old /\ old \subseteq On(todo)
  BY <1>9, <1>14, <1>15, <1>16, TopStory
<1>21. \A s \in On(todo) : s.do \in {"Tell", "LegacyPop", "LegacyPush"} => s \in old
  BY <1>16, Gone
<1>22. \A s \in old : Telling(s) => s.id \notin fresh
  BY <1>1, <1>2, <1>16, <1>17
<1>23. buffered # 0 => \E s \in new : Closing(s) /\ s.id = buffered
  BY <1>18
<1>24. Tell("BUFFERED", a) \in new /\ Push(a) \in new /\ heard[a] = <<>>
  BY <1>1, <1>2, <1>3, <1>5, <1>15
<1>25. armed' \in {0, armed} \union fresh /\ buffered' \in {0, buffered} \union fresh
  BY <1>14, <1>17
<1>26. buffered # 0 => LegacyPop \in new
  BY <1>18
<1> QED
  BY <1>14, <1>19, <1>20, <1>21, <1>22, <1>23, <1>24, <1>25, <1>26, Goes

LEMMA ReturnsStory ==
  ASSUME StoryInv, Inv', NEW accepted \in BOOLEAN, Returns(accepted)
  PROVE  StoryInv'
<1>1. todo # <<>> /\ Top.do = "Return" /\ heard' = heard /\ legacy' = legacy
  BY DEF Returns, At, Top
<1>2. CASE Keep(Finish)
  BY <1>1, <1>2, KeepFinish
<1>3. CASE ArmOnSwingState(Top.id)
  BY <1>1, <1>3, ArmStory
<1>4. CASE BufferOnSwingState(Top.id)
  BY <1>1, <1>4, BufferStory
<1> QED
  BY <1>2, <1>3, <1>4 DEF Returns

(* A stop or a matching failure ends the state.                              *)
LEMMA EndStory ==
  ASSUME StoryInv, Inv', todo # <<>>, Top.do \notin {"Tell", "LegacyPop", "LegacyPush"},
         heard' = heard, legacy' = legacy, NEW e \in ArmedEnd,
         armed' = 0, buffered' = 0,
         todo' = TellIf(e, armed) \o EndBuffer("BUFFER_CANCELLED", buffered)
                   \o <<OtherEvent>> \o Tail(todo)
  PROVE  StoryInv'
<1>1. PICK y : y = Finish
  OBVIOUS
<1>2. y \in Seq(Step) /\ InOrder(y) /\ On(y) = {OtherEvent} \union On(Tail(todo))
  BY <1>1, FinishStory
<1>3. \A r \in On(y) : Telling(r) /\ Current(r.id) => Opening(r)
  BY <1>2, TopStory, CurrentStory, MuteFits
<1>4. InOrder(todo') /\ On(todo') = EndSteps(e) \union On(y)
  <2> DEFINE x == TellIf(e, armed)
             z == EndBuffer("BUFFER_CANCELLED", buffered)
             v == x \o z
             g == <<OtherEvent>>
  <2>1. todo' = ((x \o z) \o g) \o Tail(todo)
    OBVIOUS
  <2>2. x \in Seq(Step) /\ z \in Seq(Step)
    BY CurrentStory, StepSequences DEF TypeOK, Events, BufferEnd
  <2>3. g \in Seq(Step) /\ Tail(todo) \in Seq(Step)
    BY CurrentStory, StepForms, StepSequences, TopStory
  <2>4. InOrder(v \o y) /\ On(v \o y) = EndSteps(e) \union On(y)
    BY <1>2, <1>3, EndsOnTop
  <2>5. y = g \o Tail(todo)
    BY <1>1 DEF Finish
  <2> HIDE DEF x, z, g
  <2>6. v \in Seq(Step)
    BY <2>2
  <2>7. todo' = (v \o g) \o Tail(todo)
    BY <2>1
  <2> HIDE DEF v
  <2>8. todo' = v \o y
    <3>1. (v \o g) \o Tail(todo) = v \o (g \o Tail(todo))
      <4>1. PICK p, q, r : p = v /\ q = g /\ r = Tail(todo)
        OBVIOUS
      <4>2. p \in Seq(Step) /\ q \in Seq(Step) /\ r \in Seq(Step)
        BY <2>3, <2>6, <4>1
      <4>3. (p \o q) \o r = p \o (q \o r)
        BY <4>2, ConcatAssoc
      <4> QED
        BY <4>1, <4>3
    <3> QED
      BY <2>5, <2>7, <3>1
  <2> QED
    BY <2>4, <2>8
<1>5. PICK new : new = EndSteps(e) \union {OtherEvent}
  OBVIOUS
<1>6. PICK old : old = On(Tail(todo))
  OBVIOUS
<1>7. PICK fresh : fresh = {}
  OBVIOUS
<1>8. \A s \in new : Fits(s)'
  <2>1. \A s \in EndSteps(e) : Fits(s)'
    BY EndsFit
  <2>2. Fits(OtherEvent)'
    BY MuteFits
  <2> QED
    BY <1>5, <2>1, <2>2
<1>9. On(todo') = new \union old /\ old \subseteq On(todo)
  BY <1>2, <1>4, <1>5, <1>6, TopStory
<1>10. \A s \in On(todo) : s.do \in {"Tell", "LegacyPop", "LegacyPush"} => s \in old
  BY <1>6, Gone
<1>11. \A s \in old : Telling(s) => s.id \notin fresh
  BY <1>7
<1>12. /\ armed # 0 => \E s \in new : Closing(s) /\ s.id = armed
       /\ buffered # 0 => \E s \in new : Closing(s) /\ s.id = buffered
       /\ buffered # 0 => LegacyPop \in new
  BY <1>5, EndsClose
<1>13. armed' \in {0, armed} \union fresh /\ buffered' \in {0, buffered} \union fresh
  OBVIOUS
<1> QED
  BY <1>4, <1>8, <1>9, <1>10, <1>11, <1>12, <1>13, Goes

LEMMA CancelStory ==
  ASSUME StoryInv, Inv', CancelOnSwingState
  PROVE  StoryInv'
<1>1. /\ todo # <<>> /\ Top.do = "Clear" /\ heard' = heard /\ legacy' = legacy
      /\ armed' = 0 /\ buffered' = 0
      /\ todo' = TellIf("CANCELLED", armed) \o EndBuffer("BUFFER_CANCELLED", buffered)
                   \o <<OtherEvent>> \o Tail(todo)
  BY DEF CancelOnSwingState, At, Top, Become, Goto
<1>2. "CANCELLED" \in ArmedEnd
  BY DEF ArmedEnd
<1>3. Top.do \notin {"Tell", "LegacyPop", "LegacyPush"}
  BY <1>1
<1> QED
  BY <1>1, <1>2, <1>3, EndStory

LEMMA FailStory ==
  ASSUME StoryInv, Inv', FailOnSwingState
  PROVE  StoryInv'
<1>1. todo # <<>> /\ Top.do = "Fail" /\ heard' = heard /\ legacy' = legacy
  BY DEF FailOnSwingState, At, Top
<1>2. Top.do \notin {"Tell", "LegacyPop", "LegacyPush"}
  BY <1>1
<1>3. CASE Keep(<<OtherEvent>> \o Tail(todo))
  BY <1>1, <1>2, <1>3, KeepFinish DEF Finish
<1>4. CASE armed # 0 /\ Become(0, 0,
             <<Tell("FAILED", armed)>> \o EndBuffer("BUFFER_CANCELLED", buffered)
               \o <<OtherEvent>> \o Tail(todo))
  <2>1. /\ armed' = 0 /\ buffered' = 0
        /\ todo' = <<Tell("FAILED", armed)>> \o EndBuffer("BUFFER_CANCELLED", buffered)
                     \o <<OtherEvent>> \o Tail(todo)
    BY <1>4 DEF Become, Goto
  <2>2. TellIf("FAILED", armed) = <<Tell("FAILED", armed)>>
    BY <1>4 DEF TellIf
  <2>3. "FAILED" \in ArmedEnd
    BY DEF ArmedEnd
  <2> QED
    BY <1>1, <1>2, <2>1, <2>2, <2>3, EndStory
<1> QED
  BY <1>3, <1>4 DEF FailOnSwingState

(* The client reports a failure: its frame stays.                            *)
LEMMA ClientFailsStory ==
  ASSUME StoryInv, Inv', ClientFails
  PROVE  StoryInv'
<1>1. /\ todo # <<>> /\ Top.do = "Return" /\ heard' = heard /\ legacy' = legacy
      /\ armed' = armed /\ buffered' = buffered
      /\ todo' = <<Fail(spellOf[Top.id], Top.id), [Top EXCEPT !.failed = TRUE]>> \o Tail(todo)
  BY DEF ClientFails, At, Top, Keep, Become, Goto
<1>2. /\ Top.id \in Made /\ Top.id \in Nat /\ Top.id # 0
      /\ heard[Top.id] = <<>> /\ ~Current(Top.id)
      /\ \A r \in On(Tail(todo)) : Telling(r) => r.id # Top.id
  BY <1>1, FrameStory
<1>3. PICK f : f = Fail(spellOf[Top.id], Top.id)
  OBVIOUS
<1>4. PICK g : g = [Top EXCEPT !.failed = TRUE]
  OBVIOUS
<1>5. PICK y : y = Tail(todo)
  OBVIOUS
<1>6. f \in Step /\ ~Telling(f)
  <2>1. TypeOK /\ spellOf[Top.id] \in Spells /\ Top.id \in Ids
    BY <1>2, CurrentStory, MaxAttemptsAssumption DEF TypeOK, Made, Ids
  <2> QED
    BY <1>3, <2>1, StepForms, MuteFits
<1>7. g \in Step /\ g.do = "Return" /\ g.id = Top.id
  <2>1. Top \in Step
    BY <1>1, TopStory
  <2> QED
    BY <1>1, <1>4, <2>1 DEF Step
<1>8. y \in Seq(Step) /\ InOrder(y)
  BY <1>1, <1>5, TopStory
<1>9. (\A r \in On(y) : Agree(f, r) /\ Agree(g, r)) /\ Agree(f, g)
  BY <1>2, <1>5, <1>6, <1>7 DEF Agree
<1>10. InOrder(todo') /\ On(todo') = {f, g} \union On(y)
  <2>1. InOrder(<<f, g>> \o y) /\ On(<<f, g>> \o y) = {f, g} \union On(y)
    BY <1>6, <1>7, <1>8, <1>9, PutTwo
  <2>2. todo' = <<f, g>> \o y
    BY <1>1, <1>3, <1>4, <1>5
  <2> QED
    BY <2>1, <2>2
<1>11. PICK new : new = {f, g}
  OBVIOUS
<1>12. PICK old : old = On(y)
  OBVIOUS
<1>13. \A s \in new : Fits(s)'
  <2>1. Fits(f)'
    BY <1>6, MuteFits
  <2>2. Fits(g)'
    BY <1>1, <1>2, <1>7 DEF Fits, Opening, Closing, Current
  <2> QED
    BY <1>11, <2>1, <2>2
<1>14. On(todo') = new \union old /\ old \subseteq On(todo)
  BY <1>1, <1>5, <1>10, <1>11, <1>12, TopStory
<1>15. \A s \in On(todo) : s.do \in {"Tell", "LegacyPop", "LegacyPush"} => s \in old
  <2>1. Top.do \notin {"Tell", "LegacyPop", "LegacyPush"}
    BY <1>1
  <2> QED
    BY <1>1, <1>5, <1>12, <2>1, Gone
<1> QED
  BY <1>1, <1>10, <1>13, <1>14, <1>15, GoesOn

(* A new frame in the client, of an attempt of which nothing was told.       *)
LEMMA AttemptStory ==
  ASSUME StoryInv, Inv', NEW s, NEW p, NEW rest,
         rest = todo \/ (todo # <<>> /\ rest = Tail(todo)
                           /\ Top.do \notin {"Tell", "LegacyPop", "LegacyPush"}),
         BeginAttempt(s, p, rest)
  PROVE  StoryInv'
<1>1. /\ heard' = heard /\ legacy' = legacy /\ armed' = armed /\ buffered' = buffered
      /\ todo' = <<Return(nextId, FALSE)>> \o rest /\ nextId <= MaxAttempts
      /\ nextId' = nextId + 1
  BY DEF BeginAttempt
<1>2. PICK f : f = Return(nextId, FALSE)
  OBVIOUS
<1>3. f.do = "Return" /\ f.id = nextId
  BY <1>2 DEF Return
<1>4. nextId \in Attempts /\ nextId \notin Made /\ heard[nextId] = <<>> /\ ~Current(nextId)
  <2>1. TypeOK
    BY CurrentStory
  <2>2. nextId \in Attempts /\ nextId \notin Made
    BY <1>1, <2>1, MaxAttemptsAssumption DEF TypeOK, Attempts, Made
  <2>3. nextId # armed /\ nextId # buffered
    BY <2>1, MaxAttemptsAssumption DEF TypeOK, Ids
  <2>4. heard[nextId] = <<>>
    BY <2>2 DEF StoryInv, Inv
  <2> QED
    BY <2>2, <2>3, <2>4 DEF Current
<1>5. todo' \in Seq(Step') /\ Len(rest) \in Nat /\ rest \in Seq(Step) /\ InOrder(rest)
  <2>1. todo' \in Seq(Step')
    BY DEF Inv, OwnershipInv, TypeOK
  <2>2. rest \in Seq(Step) /\ InOrder(rest)
    BY TopStory DEF StoryInv, Inv, OwnershipInv, TypeOK
  <2> QED
    BY <2>1, <2>2
<1>6. PICK S : S = Step'
  OBVIOUS
<1>7. rest \in Seq(S) /\ f \in S
  <2>1. Seq(Step) \subseteq Seq(Step')
    BY <1>1, CurrentStory, StepsGrow
  <2>2. f \in On(todo')
    <3>1. PICK A : A = {f} \union Step
      OBVIOUS
    <3>2. f \in A /\ rest \in Seq(A)
      BY <1>5, <3>1
    <3>3. On(<<f>> \o rest) = {f} \union On(rest)
      BY <3>2, OnPut
    <3> QED
      BY <1>1, <1>2, <3>3
  <2>3. On(todo') \subseteq Step'
    BY <1>5 DEF On
  <2> QED
    BY <1>5, <1>6, <2>1, <2>2, <2>3
<1>8. \A r \in On(rest) : Telling(r) => r.id \in Made
  BY TopStory, CurrentStory
<1>9. \A r \in On(rest) : Agree(f, r)
  BY <1>3, <1>4, <1>8 DEF Agree
<1>10. InOrder(todo') /\ On(todo') = {f} \union On(rest)
  <2>1. InOrder(<<f>> \o rest) /\ On(<<f>> \o rest) = {f} \union On(rest)
    BY <1>5, <1>7, <1>9, PutOne
  <2>2. todo' = <<f>> \o rest
    BY <1>1, <1>2
  <2> QED
    BY <2>1, <2>2
<1>11. PICK new : new = {f}
  OBVIOUS
<1>12. PICK old : old = On(rest)
  OBVIOUS
<1>13. \A r \in new : Fits(r)'
  BY <1>1, <1>3, <1>4, <1>11 DEF Fits, Opening, Closing, Current
<1>14. On(todo') = new \union old /\ old \subseteq On(todo)
  BY <1>10, <1>11, <1>12, TopStory
<1>15. \A r \in On(todo) : r.do \in {"Tell", "LegacyPop", "LegacyPush"} => r \in old
  BY <1>12, Gone
<1> QED
  BY <1>1, <1>10, <1>13, <1>14, <1>15, GoesOn

(* The replay of a popped buffer: an attempt, or the end of the buffer.      *)
LEMMA ReplayStory ==
  ASSUME StoryInv, Inv', ReplayBuffer
  PROVE  StoryInv'
<1>1. todo # <<>> /\ Top.do = "Replay"
  BY DEF ReplayBuffer, At, Top
<1>2. Top.do \notin {"Tell", "LegacyPop", "LegacyPush"}
  BY <1>1
<1>3. CASE BeginAttempt(spellOf[Top.id], playerOf[Top.id], Tail(todo))
  <2>1. PICK s, p, rest : s = spellOf[Top.id] /\ p = playerOf[Top.id] /\ rest = Tail(todo)
    OBVIOUS
  <2> QED
    BY <1>1, <1>2, <1>3, <2>1, AttemptStory
<1>4. CASE /\ UNCHANGED <<data, heard, legacy>>
           /\ Keep(<<Tell("BUFFER_CANCELLED", Top.id)>> \o Tail(todo))
  <2>1. PICK f : f = Tell("BUFFER_CANCELLED", Top.id)
    OBVIOUS
  <2>2. /\ heard' = heard /\ legacy' = legacy /\ armed' = armed /\ buffered' = buffered
        /\ todo' = <<f>> \o Tail(todo)
    BY <1>4, <2>1 DEF Keep, Become, Goto
  <2>3. /\ f.do = "Tell" /\ f.event = "BUFFER_CANCELLED" /\ f.id = Top.id
        /\ Closing(f) /\ ~Opening(f)
    BY <2>1 DEF Tell, Closing, Opening, BufferEnd
  <2>4. f \in Step /\ TypeOK
    <3>1. TypeOK /\ Top.id \in Made
      BY <1>1, CurrentStory, TopForms
    <3> QED
      BY <2>1, <3>1, StepForms DEF Events, BufferEnd
  <2>5. \A r \in On(Tail(todo)) : Telling(r) /\ r.id = Top.id => Opening(r)
    BY <1>1, TopStory DEF Agree, Telling, Follows, Closing
  <2>6. \A r \in On(Tail(todo)) : Agree(f, r)
    BY <2>3, <2>5 DEF Agree, Follows
  <2>7. InOrder(todo') /\ On(todo') = {f} \union On(Tail(todo))
    <3>1. /\ InOrder(<<f>> \o Tail(todo))
          /\ On(<<f>> \o Tail(todo)) = {f} \union On(Tail(todo))
      <4>1. PICK y : y = Tail(todo)
        OBVIOUS
      <4>2. y \in Seq(Step) /\ InOrder(y) /\ \A r \in On(y) : Agree(f, r)
        BY <1>1, <2>6, <4>1, TopStory
      <4>3. InOrder(<<f>> \o y) /\ On(<<f>> \o y) = {f} \union On(y)
        BY <2>4, <4>2, PutOne
      <4> QED
        BY <4>1, <4>3
    <3> QED
      BY <2>2, <3>1
  <2>8. ~Current(Top.id) /\ heard[Top.id] \in Popped
    <3>1. PICK g : g = Tell("BUFFER_POPPED", Top.id)
      OBVIOUS
    <3>2. g.do = "Tell" /\ g.event = "BUFFER_POPPED" /\ g.id = Top.id
      BY <3>1 DEF Tell
    <3>3. g \notin On(Tail(todo))
      BY <2>5, <3>2 DEF Telling, Opening
    <3>4. g \notin On(todo)
      BY <1>1, <3>2, <3>3, TopStory
    <3> QED
      BY <1>1, <3>1, <3>4, TopStory DEF Fits
  <2>9. Append(heard[Top.id], "BUFFER_CANCELLED") \in Stories
    <3>1. /\ Append(<<"BUFFER_POPPED">>, "BUFFER_CANCELLED")
               = <<"BUFFER_POPPED", "BUFFER_CANCELLED">>
          /\ Append(<<"BUFFERED", "BUFFER_POPPED">>, "BUFFER_CANCELLED")
               = <<"BUFFERED", "BUFFER_POPPED", "BUFFER_CANCELLED">>
      <4>1. {"BUFFER_POPPED", "BUFFERED", "BUFFER_CANCELLED"} \subseteq Events
        BY DEF Events, BufferEnd
      <4> QED
        BY <4>1, AppendFew, AppendTwo
    <3> QED
      BY <2>8, <3>1 DEF Popped, Stories
  <2>10. PICK new : new = {f}
    OBVIOUS
  <2>11. PICK old : old = On(Tail(todo))
    OBVIOUS
  <2>12. \A s \in new : Fits(s)'
    BY <2>2, <2>3, <2>8, <2>9, <2>10 DEF Fits, Current
  <2>13. On(todo') = new \union old /\ old \subseteq On(todo)
    BY <1>1, <2>7, <2>10, <2>11, TopStory
  <2>14. \A s \in On(todo) : s.do \in {"Tell", "LegacyPop", "LegacyPush"} => s \in old
    BY <1>1, <1>2, <2>11, Gone
  <2> QED
    BY <2>2, <2>7, <2>12, <2>13, <2>14, GoesOn
<1> QED
  BY <1>3, <1>4 DEF ReplayBuffer

(* A rejection arrives: nothing is on the stack but the failure to come.     *)
LEMMA ServerRejectsStory ==
  ASSUME StoryInv, Inv', NEW a \in inFlight, ServerRejects(a)
  PROVE  StoryInv'
<1>0. PICK id : todo' = <<Fail(spellOf[a], id)>>
  BY DEF ServerRejects
<1>1. PICK f : f = Fail(spellOf[a], id)
  OBVIOUS
<1>2. /\ heard' = heard /\ legacy' = legacy /\ armed' = armed /\ buffered' = buffered
      /\ todo = <<>> /\ todo' = <<f>>
  BY <1>0, <1>1 DEF ServerRejects
<1>3. On(todo) = {} /\ On(todo') = {f} /\ InOrder(todo')
  <2>1. Len(<<f>>) = 1
    OBVIOUS
  <2> QED
    BY <1>2, <2>1, OnFew DEF InOrder
<1>4. Fits(f)'
  BY <1>1, MuteFits
<1>5. PICK new, old : new = {f} /\ old = {}
  OBVIOUS
<1>6. /\ On(todo') = new \union old /\ old \subseteq On(todo) /\ \A s \in new : Fits(s)'
      /\ \A s \in On(todo) : s.do \in {"Tell", "LegacyPop", "LegacyPush"} => s \in old
  BY <1>3, <1>4, <1>5
<1> QED
  BY <1>2, <1>3, <1>6, GoesOn

(* The swing: the armed generation is consumed, the buffer popped.           *)
LEMMA SpellGoStory ==
  ASSUME StoryInv, Inv', NEW a \in inFlight, SpellGo(a)
  PROVE  StoryInv'
<1>1. heard' = heard /\ legacy' = legacy /\ todo = <<>> /\ On(todo) = {}
  BY OnFew DEF SpellGo
<1>2. CASE Keep(<<>>)
  <2>1. armed' = armed /\ buffered' = buffered /\ todo' = <<>>
    BY <1>2 DEF Keep, Become, Goto
  <2>2. InOrder(todo') /\ On(todo') = {}
    BY <2>1, OnFew DEF InOrder
  <2>3. PICK none : none = {}
    OBVIOUS
  <2>4. /\ On(todo') = none \union none /\ none \subseteq On(todo) /\ \A s \in none : Fits(s)'
        /\ \A s \in On(todo) : s.do \in {"Tell", "LegacyPop", "LegacyPush"} => s \in none
    BY <1>1, <2>2, <2>3
  <2> QED
    BY <1>1, <2>1, <2>2, <2>4, GoesOn
<1>3. CASE armed # 0 /\ Become(0, 0, <<Tell("CONSUMED", armed)>> \o
             (IF buffered # 0
              THEN <<Tell("BUFFER_POPPED", buffered), LegacyPop, Replay(buffered)>>
              ELSE <<>>))
  <2>1. PICK f, p, g, r : /\ f = Tell("CONSUMED", armed) /\ p = Tell("BUFFER_POPPED", buffered)
                          /\ g = LegacyPop /\ r = Replay(buffered)
    OBVIOUS
  <2>2. /\ f.do = "Tell" /\ f.event = "CONSUMED" /\ f.id = armed
        /\ p.do = "Tell" /\ p.event = "BUFFER_POPPED" /\ p.id = buffered
        /\ ~Telling(g)
        /\ r.do = "Replay" /\ r.id = buffered
    BY <2>1, MuteFits DEF Tell, Replay
  <2>3. /\ armed' = 0 /\ buffered' = 0
        /\ todo' = <<f>> \o (IF buffered # 0 THEN <<p, g, r>> ELSE <<>>)
    BY <1>3, <2>1 DEF Become, Goto
  <2>4. /\ f \in Step /\ g \in Step /\ (buffered # 0 => p \in Step /\ r \in Step)
        /\ armed # buffered
    <3>1. TypeOK /\ armed \in Made /\ (buffered # 0 => buffered \in Made) /\ armed # buffered
      BY <1>3, CurrentStory
    <3> QED
      BY <2>1, <3>1, StepForms DEF Events, ArmedEnd, BufferEnd
  <2>5. PICK y : y = IF buffered # 0 THEN <<p, g, r>> ELSE <<>>
    OBVIOUS
  <2>6. /\ y \in Seq(Step) /\ InOrder(y)
        /\ On(y) = IF buffered # 0 THEN {p, g, r} ELSE {}
    <3>1. CASE buffered = 0
      BY <2>5, <3>1, OnFew DEF InOrder
    <3>2. CASE buffered # 0
      <4>1. y = <<p, g, r>>
        BY <2>5, <3>2
      <4>2. On(y) = {p, g, r}
        BY <4>1, OnFew
      <4>3. y \in Seq(Step) /\ Len(y) = 3 /\ y[1] = p /\ y[2] = g /\ y[3] = r
        BY <2>4, <3>2, <4>1
      <4>4. Agree(p, g) /\ Agree(g, r) /\ Agree(p, r)
        BY <2>2 DEF Agree, Follows, Closing, BufferEnd
      <4>5. ASSUME NEW i \in 1..3, NEW j \in 1..3, i < j
            PROVE  (i = 1 /\ j = 2) \/ (i = 1 /\ j = 3) \/ (i = 2 /\ j = 3)
        BY <4>5
      <4>6. InOrder(y)
        BY <4>3, <4>4, <4>5 DEF InOrder
      <4> QED
        BY <3>2, <4>2, <4>3, <4>6
    <3> QED
      BY <3>1, <3>2
  <2>7. \A s \in On(y) : Agree(f, s)
    BY <2>2, <2>4, <2>6 DEF Agree
  <2>8. /\ InOrder(todo')
        /\ On(todo') = {f} \union (IF buffered # 0 THEN {p, g, r} ELSE {})
    <3>1. InOrder(<<f>> \o y) /\ On(<<f>> \o y) = {f} \union On(y)
      BY <2>4, <2>6, <2>7, PutOne
    <3> QED
      BY <2>3, <2>5, <2>6, <3>1
  <2>9. PICK new : new = On(todo')
    OBVIOUS
  <2>10. PICK none : none = {}
    OBVIOUS
  <2>11. Fits(f)'
    <3>1. Append(heard[armed], "CONSUMED") \in Stories
      BY <1>3, CurrentStory DEF ArmedEnd
    <3> QED
      BY <1>1, <1>3, <2>2, <2>3, <3>1 DEF Fits, Opening, Closing, Current
  <2>12. buffered # 0 => Fits(p)' /\ Fits(g)' /\ Fits(r)'
    <3>1. ASSUME buffered # 0 PROVE Fits(p)'
      <4>1. /\ Append(heard[buffered], "BUFFER_POPPED") \in Stories
            /\ Append(heard[buffered], "BUFFER_POPPED") \in Popped
        BY <3>1, CurrentStory DEF BufferEnd
      <4> QED
        BY <1>1, <2>2, <2>3, <3>1, <4>1 DEF Fits, Opening, Closing, Current
    <3>2. Fits(g)'
      BY <2>2, MuteFits
    <3>3. ASSUME buffered # 0 PROVE Fits(r)'
      <4>1. Tell("BUFFER_POPPED", r.id) \in On(todo')
        BY <2>1, <2>2, <2>8, <3>3
      <4> QED
        BY <2>2, <2>3, <3>3, <4>1 DEF Fits, Opening, Closing, Current
    <3> QED
      BY <3>1, <3>2, <3>3
  <2>13. \A s \in new : Fits(s)'
    BY <2>8, <2>9, <2>11, <2>12
  <2>14. /\ On(todo') = new \union none /\ none \subseteq On(todo)
         /\ \A s \in On(todo) : s.do \in {"Tell", "LegacyPop", "LegacyPush"} => s \in none
         /\ \A s \in none : Telling(s) => s.id \notin none
         /\ armed' \in {0, armed} \union none /\ buffered' \in {0, buffered} \union none
    BY <1>1, <2>3, <2>9, <2>10
  <2>15. /\ armed # 0 => \E s \in new : Closing(s) /\ s.id = armed
         /\ buffered # 0 => \E s \in new : Closing(s) /\ s.id = buffered
         /\ buffered # 0 => LegacyPop \in new
    <3>1. Closing(f) /\ Closing(p)
      BY <2>2 DEF Closing, ArmedEnd, BufferEnd
    <3> QED
      BY <2>1, <2>2, <2>8, <2>9, <3>1
  <2>16. InOrder(todo') /\ heard' = heard /\ legacy' = legacy
    BY <1>1, <2>8
  <2>17. /\ armed # 0 /\ armed' # armed => \E s \in new : Closing(s) /\ s.id = armed
         /\ buffered # 0 /\ buffered' # buffered => \E s \in new : Closing(s) /\ s.id = buffered
         /\ buffered # 0 /\ buffered' = 0 => LegacyPop \in new
         /\ armed' \in {0, armed} /\ buffered' \in {0, buffered}
    BY <2>3, <2>15
  <2> QED
    BY <2>13, <2>14, <2>16, <2>17, Goes
<1> QED
  BY <1>2, <1>3 DEF SpellGo
------------------------------------------------------------------------------
(* A step that has run: no end, and no announcement that is current.         *)
LEMMA Passes ==
  ASSUME StoryInv, Inv', todo # <<>>, todo' = Tail(todo),
         armed' = armed, buffered' = buffered, heard' = heard,
         ~Closing(Top), Opening(Top) => ~StillCurrent(Top),
         legacy' /\ buffered = 0 => LegacyPop \in On(Tail(todo)),
         ~legacy' /\ buffered # 0 => Push(buffered) \in On(Tail(todo))
  PROVE  StoryInv'
<1>1. On(todo) = {Top} \union On(todo') /\ InOrder(todo')
  BY TopStory
<1>2. \A s \in On(todo) : Closing(s) => s \in On(todo')
  BY <1>1
<1>3. ASSUME NEW s \in On(todo') PROVE Fits(s)'
  <2>1. Fits(s)
    BY <1>1 DEF StoryInv
  <2>2. Tell("BUFFER_POPPED", s.id) \in On(todo) => Tell("BUFFER_POPPED", s.id) \in On(todo')
    BY <1>2 DEF Tell, Closing, BufferEnd
  <2> QED
    BY <2>1, <2>2 DEF Fits, Current, StillCurrent
<1>4. /\ Tell("ARMED", armed) \in On(todo) => Tell("ARMED", armed) \in On(todo')
      /\ Tell("BUFFERED", buffered) \in On(todo) => Tell("BUFFERED", buffered) \in On(todo')
  BY <1>1 DEF Tell, Opening, StillCurrent
<1>5. Awaits("ARMED", armed)' /\ Awaits("BUFFERED", buffered)'
  BY <1>4 DEF StoryInv, Awaits
<1>6. \A a \in Attempts : EndsToCome(a) => EndsToCome(a)'
  BY <1>2 DEF EndsToCome
<1>7. \A a \in Attempts : /\ heard'[a] = <<"ARMED">> /\ a # armed' => EndsToCome(a)'
                          /\ heard'[a] = <<"BUFFERED">> /\ a # buffered' => EndsToCome(a)'
  BY <1>6 DEF StoryInv
<1>8. OneEnding'
  BY DEF StoryInv, OneEnding
<1> QED
  BY <1>1, <1>3, <1>5, <1>7, <1>8 DEF StoryInv

(* Lua hears of attempt a.                                                   *)
LEMMA HearsStory ==
  ASSUME StoryInv, Inv', todo # <<>>, Top.do = "Tell", todo' = Tail(todo), StillCurrent(Top),
         armed' = armed, buffered' = buffered, legacy' = legacy,
         heard' = [heard EXCEPT ![Top.id] = Append(@, Top.event)]
  PROVE  StoryInv'
<1>1. /\ On(todo) = {Top} \union On(todo') /\ InOrder(todo')
      /\ \A r \in On(todo') : Agree(Top, r)
      /\ Fits(Top) /\ Top \in Step
  BY TopStory
<1>2. PICK a, e : a = Top.id /\ e = Top.event
  OBVIOUS
<1>3. TypeOK /\ a \in Made /\ a \in Attempts /\ a # 0 /\ e \in Events
  <2>1. TypeOK /\ a \in Made /\ e \in Events
    BY <1>2, CurrentStory, TopForms
  <2> QED
    BY <2>1, MaxAttemptsAssumption DEF TypeOK, Made, Attempts
<1>4. PICK h : h = heard[a]
  OBVIOUS
<1>5. h \in Seq(Events) /\ heard'[a] = Append(h, e) /\ \A b \in Attempts : b # a => heard'[b] = heard[b]
  BY <1>2, <1>3, <1>4 DEF TypeOK
<1>6. Opening(Top) \/ Closing(Top)
  BY <1>2, <1>3 DEF Opening, Closing, Events
<1>7. Opening(Top) => /\ ~Closing(Top) /\ h = <<>> /\ Append(h, e) = <<e>>
                      /\ (e = "ARMED" /\ a = armed) \/ (e = "BUFFERED" /\ a = buffered)
  <2>1. Opening(Top) => ~Closing(Top)
    BY DEF Opening, Closing, ArmedEnd, BufferEnd
  <2>2. Opening(Top) => h = <<>>
    BY <1>1, <1>2, <1>4 DEF Fits
  <2>3. Append(<<>>, e) = <<e>>
    BY <1>3, AppendFew
  <2>4. Opening(Top) => (e = "ARMED" /\ a = armed) \/ (e = "BUFFERED" /\ a = buffered)
    BY <1>2 DEF Opening, StillCurrent
  <2> QED
    BY <2>1, <2>2, <2>3, <2>4
<1>8. Closing(Top) => /\ ~Current(a) /\ Append(h, e) \in Stories
                      /\ e = "BUFFER_POPPED" => Append(h, e) \in Popped
                      /\ e \notin {"ARMED", "BUFFERED"}
  <2>1. Closing(Top) => e \notin {"ARMED", "BUFFERED"}
    BY <1>2 DEF Closing, ArmedEnd, BufferEnd
  <2> QED
    BY <1>1, <1>2, <1>4, <2>1 DEF Fits
<1>9. OneEnding'
  <2>1. Append(h, e) \in Stories
    BY <1>6, <1>7, <1>8 DEF Stories
  <2>2. \A b \in Attempts : heard'[b] \in Stories
    BY <1>5, <2>1 DEF StoryInv, OneEnding
  <2> QED
    BY <2>2 DEF OneEnding, Stories
<1>10. ASSUME NEW r \in On(todo') PROVE Fits(r)'
  <2>1. Fits(r)
    BY <1>1 DEF StoryInv
  <2>2. Telling(r) => r.id \in Attempts
    <3>1. Telling(r) => r.id \in Made
      BY <1>1, CurrentStory
    <3> QED
      BY <1>3, <3>1, MaxAttemptsAssumption DEF TypeOK, Made, Attempts
  <2>3. CASE ~Telling(r)
    BY <2>3, MuteFits
  <2>4. CASE Telling(r) /\ r.id # a
    <3>1. heard'[r.id] = heard[r.id]
      BY <1>5, <2>2, <2>4
    <3>2. Tell("BUFFER_POPPED", r.id) \in On(todo) => Tell("BUFFER_POPPED", r.id) \in On(todo')
      BY <1>1, <1>2, <2>4 DEF Tell
    <3> QED
      BY <2>1, <3>1, <3>2 DEF Fits, Current, StillCurrent
  <2>5. CASE Telling(r) /\ r.id = a
    <3>1. Follows(Top, r)
      BY <1>1, <1>2, <2>5 DEF Agree, Telling
    <3>2. Closing(Top)
      BY <3>1 DEF Follows
    <3>3. CASE Opening(r)
      <4>1. ~Closing(r) /\ r.do = "Tell"
        BY <3>3 DEF Opening, Closing, ArmedEnd, BufferEnd
      <4>2. ~StillCurrent(r)'
        BY <1>8, <2>5, <3>2, <3>3 DEF Opening, StillCurrent, Current
      <4> QED
        BY <4>1, <4>2 DEF Fits
    <3>4. CASE Top.event = "BUFFER_POPPED" /\ r.do = "Replay"
      <4>1. heard'[r.id] \in Popped /\ ~Current(r.id)'
        BY <1>2, <1>5, <1>8, <2>5, <3>2, <3>4 DEF Current
      <4> QED
        BY <3>4, <4>1 DEF Fits, Opening, Closing, Popped
    <3> QED
      BY <1>1, <3>1, <3>3, <3>4 DEF Follows
  <2> QED
    BY <2>3, <2>4, <2>5
<1>11. Awaits("ARMED", armed)'
  <2>1. CASE armed = a
    <3>1. Opening(Top) /\ e = "ARMED"
      BY <1>3, <1>6, <1>7, <1>8, <2>1, CurrentStory DEF Current
    <3> QED
      BY <1>5, <1>7, <2>1, <3>1 DEF Awaits
  <2>2. CASE armed # a /\ armed # 0
    <3>1. heard'[armed] = heard[armed]
      BY <1>5, <2>2, CurrentStory
    <3>2. Tell("ARMED", armed) \in On(todo) => Tell("ARMED", armed) \in On(todo')
      BY <1>1, <1>2, <2>2 DEF Tell
    <3> QED
      BY <3>1, <3>2 DEF StoryInv, Awaits
  <2> QED
    BY <2>1, <2>2 DEF Awaits
<1>12. Awaits("BUFFERED", buffered)'
  <2>1. CASE buffered = a
    <3>1. Opening(Top) /\ e = "BUFFERED"
      BY <1>3, <1>6, <1>7, <1>8, <2>1, CurrentStory DEF Current
    <3> QED
      BY <1>5, <1>7, <2>1, <3>1 DEF Awaits
  <2>2. CASE buffered # a /\ buffered # 0
    <3>1. heard'[buffered] = heard[buffered]
      BY <1>5, <2>2, CurrentStory
    <3>2. Tell("BUFFERED", buffered) \in On(todo) => Tell("BUFFERED", buffered) \in On(todo')
      BY <1>1, <1>2, <2>2 DEF Tell
    <3> QED
      BY <3>1, <3>2 DEF StoryInv, Awaits
  <2> QED
    BY <2>1, <2>2 DEF Awaits
<1>13. ASSUME NEW b \in Attempts
       PROVE  /\ heard'[b] = <<"ARMED">> /\ b # armed' => EndsToCome(b)'
              /\ heard'[b] = <<"BUFFERED">> /\ b # buffered' => EndsToCome(b)'
  <2>1. CASE b # a
    <3>1. EndsToCome(b) => EndsToCome(b)'
      BY <1>1, <1>2, <2>1 DEF EndsToCome
    <3> QED
      BY <1>5, <2>1, <3>1 DEF StoryInv
  <2>2. CASE b = a /\ Opening(Top)
    <3>1. <<"ARMED">> # <<"BUFFERED">>
      OBVIOUS
    <3> QED
      BY <1>5, <1>7, <2>2, <3>1
  <2>3. CASE b = a /\ Closing(Top)
    <3>1. ASSUME NEW d, Append(h, e) = <<d>> PROVE d = e
      <4>1. /\ Len(Append(h, e)) = Len(h) + 1 /\ Len(h) \in Nat
            /\ Append(h, e)[Len(h) + 1] = e
        BY <1>3, <1>5
      <4>2. Len(<<d>>) = 1 /\ <<d>>[1] = d
        OBVIOUS
      <4>3. Len(h) + 1 = 1
        BY <3>1, <4>1, <4>2
      <4> QED
        BY <3>1, <4>1, <4>2, <4>3
    <3> QED
      BY <1>5, <1>8, <2>3, <3>1
  <2> QED
    BY <1>6, <2>1, <2>2, <2>3
<1>14. /\ legacy' /\ buffered' = 0 => LegacyPop \in On(todo')
       /\ ~legacy' /\ buffered' # 0 => Push(buffered') \in On(todo')
  <2>1. LegacyPop # Top /\ Push(buffered) # Top
    BY DEF LegacyPop, Push
  <2> QED
    BY <1>1, <2>1 DEF StoryInv
<1> QED
  BY <1>1, <1>9, <1>10, <1>11, <1>12, <1>13, <1>14 DEF StoryInv

LEMMA SignalStory ==
  ASSUME StoryInv, Inv', Signal
  PROVE  StoryInv'
<1>1. /\ todo # <<>> /\ Top.do = "Tell" /\ todo' = Tail(todo)
      /\ armed' = armed /\ buffered' = buffered /\ legacy' = legacy
  BY DEF Signal, At, Top, Goto
<1>2. CASE StillCurrent(Top)
  BY <1>1, <1>2, HearsStory DEF Signal
<1>3. CASE ~StillCurrent(Top)
  <2>1. heard' = heard /\ ~Closing(Top)
    BY <1>3 DEF Signal, StillCurrent, Closing, ArmedEnd, BufferEnd
  <2>2. On(todo) = {Top} \union On(Tail(todo))
    BY <1>1, TopStory
  <2>3. LegacyPop # Top /\ Push(buffered) # Top
    BY <1>1 DEF LegacyPop, Push
  <2>4. /\ legacy' /\ buffered = 0 => LegacyPop \in On(Tail(todo))
        /\ ~legacy' /\ buffered # 0 => Push(buffered) \in On(Tail(todo))
    BY <1>1, <2>2, <2>3 DEF StoryInv
  <2> QED
    BY <1>1, <1>3, <2>1, <2>4, Passes
<1> QED
  BY <1>2, <1>3

LEMMA LegacyStory ==
  ASSUME StoryInv, Inv', NEW k \in {"LegacyPop", "LegacyPush"}, SignalLegacy(k)
  PROVE  StoryInv'
<1>1. /\ todo # <<>> /\ Top.do = k /\ todo' = Tail(todo)
      /\ armed' = armed /\ buffered' = buffered /\ heard' = heard
  BY DEF SignalLegacy, At, Top, Goto
<1>2. ~Closing(Top) /\ ~Opening(Top)
  BY <1>1 DEF Closing, Opening
<1>3. On(todo) = {Top} \union On(Tail(todo)) /\ Top \in Step
  BY <1>1, TopStory
<1>4. /\ legacy' /\ buffered = 0 => LegacyPop \in On(Tail(todo))
      /\ ~legacy' /\ buffered # 0 => Push(buffered) \in On(Tail(todo))
  <2>1. CASE k = "LegacyPop"
    <3>1. Push(buffered) # Top
      BY <1>1, <2>1 DEF Push
    <3>2. IF buffered = 0 THEN legacy' = FALSE ELSE legacy' = legacy
      BY <2>1 DEF SignalLegacy
    <3> QED
      BY <1>3, <3>1, <3>2 DEF StoryInv
  <2>2. CASE k = "LegacyPush"
    <3>1. LegacyPop # Top
      BY <1>1, <2>2 DEF LegacyPop
    <3>2. Push(buffered) = Top => Top.id = buffered
      BY DEF Push
    <3>3. IF buffered = Top.id THEN legacy' = TRUE ELSE legacy' = legacy
      BY <2>2 DEF SignalLegacy
    <3>4. Top.id # 0
      BY <1>1, <1>3, <2>2, CurrentStory DEF Step, Made
    <3> QED
      BY <1>3, <3>1, <3>2, <3>3, <3>4 DEF StoryInv
  <2> QED
    BY <2>1, <2>2
<1> QED
  BY <1>1, <1>2, <1>4, Passes

LEMMA ResetStory ==
  ASSUME StoryInv, Inv', ResetPlayerContextState
  PROVE  StoryInv'
<1>1. /\ todo = <<>> /\ todo' = todo /\ armed' = 0 /\ buffered' = 0 /\ legacy' = FALSE
      /\ \A a \in Attempts : heard'[a] = <<>>
  BY DEF ResetPlayerContextState
<1>2. On(todo') = {} /\ InOrder(todo')
  BY <1>1, OnFew DEF InOrder
<1>3. OneEnding'
  <2>1. <<>> \in Stories
    BY DEF Stories
  <2> QED
    BY <1>1, <2>1 DEF OneEnding, Stories, Attempts
<1>4. \A d : <<>> # <<d>>
  OBVIOUS
<1> QED
  BY <1>1, <1>2, <1>3, <1>4 DEF StoryInv, Awaits, Attempts

LEMMA StoryStep == StoryInv /\ [Next]_vars => StoryInv'
<1> SUFFICES ASSUME StoryInv, [Next]_vars PROVE StoryInv'
  OBVIOUS
<1>i. Inv'
  BY StepKept DEF StoryInv
<1>t. todo \in Seq(Step) /\ InOrder(todo)
  BY DEF StoryInv, Inv, OwnershipInv, TypeOK
<1>s. ASSUME todo' = todo, armed' = armed, buffered' = buffered, heard' = heard,
             legacy' = legacy
      PROVE  StoryInv'
  <2>1. PICK none, old : none = {} /\ old = On(todo)
    OBVIOUS
  <2>2. /\ On(todo') = none \union old /\ old \subseteq On(todo) /\ \A s \in none : Fits(s)'
        /\ \A s \in On(todo) : s.do \in {"Tell", "LegacyPop", "LegacyPush"} => s \in old
        /\ InOrder(todo')
    BY <1>s, <1>t, <2>1
  <2> QED
    BY <1>i, <1>s, <2>2, GoesOn
<1>1. ASSUME NEW s \in Spells, Cast(s) PROVE StoryInv'
  <2>1. PICK p, rest : p = player /\ rest = todo
    OBVIOUS
  <2> QED
    BY <1>1, <1>i, <2>1, AttemptStory DEF Cast
<1>2. ASSUME NEW r \in BOOLEAN, Returns(r) PROVE StoryInv'
  BY <1>2, <1>i, ReturnsStory
<1>3. ASSUME NEW a \in inFlight, ServerRejects(a) PROVE StoryInv'
  BY <1>3, <1>i, ServerRejectsStory
<1>4. ASSUME NEW a \in inFlight, SpellGo(a) PROVE StoryInv'
  BY <1>4, <1>i, SpellGoStory
<1>5. CASE ClientFails
  BY <1>5, <1>i, ClientFailsStory
<1>6. CASE FailOnSwingState
  BY <1>6, <1>i, FailStory
<1>7. CASE StopCasting
  <2>1. PICK f, y : f = Clear /\ y = todo
    OBVIOUS
  <2>2. /\ todo' = <<f>> \o y /\ armed' = armed /\ buffered' = buffered
        /\ heard' = heard /\ legacy' = legacy
    BY <1>7, <2>1 DEF StopCasting
  <2>3. f \in Step /\ ~Telling(f) /\ y \in Seq(Step) /\ InOrder(y)
    BY <1>t, <2>1, CurrentStory, StepForms, MuteFits
  <2>4. InOrder(<<f>> \o y) /\ On(<<f>> \o y) = {f} \union On(y)
    BY <2>3, PutMute
  <2>5. PICK new, old : new = {f} /\ old = On(todo)
    OBVIOUS
  <2>6. /\ On(todo') = new \union old /\ old \subseteq On(todo) /\ InOrder(todo')
        /\ \A s \in On(todo) : s.do \in {"Tell", "LegacyPop", "LegacyPush"} => s \in old
    BY <2>1, <2>2, <2>4, <2>5
  <2>7. \A s \in new : Fits(s)'
    BY <2>3, <2>5, MuteFits
  <2> QED
    BY <1>i, <2>2, <2>6, <2>7, GoesOn
<1>8. CASE CancelOnSwingState
  BY <1>8, <1>i, CancelStory
<1>9. CASE ReplayBuffer
  BY <1>9, <1>i, ReplayStory
<1>10. CASE Signal
  BY <1>10, <1>i, SignalStory
<1>11. CASE SignalOther
  <2>1. /\ todo # <<>> /\ Top.do = "OtherEvent" /\ todo' = Tail(todo)
        /\ armed' = armed /\ buffered' = buffered /\ heard' = heard /\ legacy' = legacy
    BY <1>11 DEF SignalOther, At, Top
  <2>2. ~Closing(Top) /\ ~Opening(Top) /\ LegacyPop # Top /\ Push(buffered) # Top
    BY <2>1 DEF Closing, Opening, LegacyPop, Push
  <2>3. On(todo) = {Top} \union On(Tail(todo))
    BY <2>1, TopStory
  <2>4. /\ legacy' /\ buffered = 0 => LegacyPop \in On(Tail(todo))
        /\ ~legacy' /\ buffered # 0 => Push(buffered) \in On(Tail(todo))
    BY <2>1, <2>2, <2>3 DEF StoryInv
  <2> QED
    BY <1>i, <2>1, <2>2, <2>4, Passes
<1>12. ASSUME NEW k \in {"LegacyPop", "LegacyPush"}, SignalLegacy(k) PROVE StoryInv'
  BY <1>12, <1>i, LegacyStory
<1>13. CASE PlayerChanges
  BY <1>13, <1>s DEF PlayerChanges
<1>14. CASE ResetPlayerContextState
  BY <1>14, <1>i, ResetStory
<1>15. CASE UNCHANGED vars
  BY <1>15, <1>s DEF vars, data
<1> QED
  BY <1>1, <1>2, <1>3, <1>4, <1>5, <1>6, <1>7, <1>8, <1>9, <1>10, <1>11, <1>12, <1>13,
     <1>14, <1>15 DEF Next

LEMMA StoryStart == Init => StoryInv
<1> SUFFICES ASSUME Init PROVE StoryInv
  OBVIOUS
<1>1. Inv
  BY StartKept
<1>2. On(todo) = {} /\ InOrder(todo)
  BY OnFew DEF Init, InOrder
<1>3. \A a \in Attempts : heard[a] = <<>>
  BY DEF Init
<1>4. OneEnding
  <2>1. <<>> \in Stories
    BY DEF Stories
  <2> QED
    BY <1>3, <2>1 DEF OneEnding
<1>5. \A d : <<>> # <<d>>
  OBVIOUS
<1>6. armed = 0 /\ buffered = 0 /\ legacy = FALSE
  BY DEF Init
<1> QED
  BY <1>1, <1>2, <1>3, <1>4, <1>5, <1>6 DEF StoryInv, Awaits

(* What Lua hears of a generation is one of the stories of EVENTS.md: it is   *)
(* announced at most once and ends at most once, in that order, however      *)
(* deep handlers cast, stop and fail inside the events (spellcast.cpp).      *)
THEOREM OneEndingTheorem == Spec => []OneEnding
<1>1. StoryInv /\ [Next]_vars => StoryInv'
  BY StoryStep
<1>2. StoryInv => OneEnding
  BY DEF StoryInv
<1> QED
  BY <1>1, <1>2, StoryStart, PTL DEF Spec

(* When no frame is left, the generations that Lua has seen announced and    *)
(* not ended are those of gOnSwingState, and the legacy queue events agree.  *)
THEOREM HeardIsStateTheorem == Spec => []HeardIsState
<1>1. StoryInv /\ [Next]_vars => StoryInv'
  BY StoryStep
<1>2. StoryInv => HeardIsState
  <2> SUFFICES ASSUME StoryInv, todo = <<>>
               PROVE  /\ Announced("ARMED") = {armed} \ {0}
                      /\ Announced("BUFFERED") = {buffered} \ {0}
                      /\ legacy = (buffered # 0)
    BY DEF HeardIsState
  <2>1. On(todo) = {} /\ \A a : ~EndsToCome(a)
    BY OnFew DEF EndsToCome
  <2>2. /\ armed # 0 => armed \in Attempts /\ heard[armed] = <<"ARMED">>
        /\ buffered # 0 => buffered \in Attempts /\ heard[buffered] = <<"BUFFERED">>
    BY <2>1, CurrentStory DEF StoryInv, Awaits
  <2>3. \A a \in Attempts : /\ heard[a] = <<"ARMED">> => a = armed
                            /\ heard[a] = <<"BUFFERED">> => a = buffered
    BY <2>1 DEF StoryInv
  <2>4. \A a \in Attempts : a # 0
    BY DEF Attempts
  <2>5. Announced("ARMED") = {armed} \ {0} /\ Announced("BUFFERED") = {buffered} \ {0}
    BY <2>2, <2>3, <2>4 DEF Announced
  <2>6. legacy \in BOOLEAN /\ ~(legacy /\ buffered = 0) /\ ~(~legacy /\ buffered # 0)
    BY <2>1, CurrentStory DEF StoryInv, TypeOK
  <2>7. legacy = (buffered # 0)
    BY <2>6
  <2> QED
    BY <2>5, <2>7
<1> QED
  BY <1>1, <1>2, StoryStart, PTL DEF Spec
==============================================================================

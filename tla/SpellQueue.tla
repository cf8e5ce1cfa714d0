------------------------------ MODULE SpellQueue ------------------------------
(***************************************************************************)
(* The spell queues: Spell_C_CastSpellHook for spells that are not on-swing, *)
(* processQueues, CastQueuedNonGcdSpell, CastQueuedNormalSpell, the retries  *)
(* of Spell_C_SpellFailedHook and ClearQueuedSpells.                         *)
(*                                                                         *)
(* As in OnSwing, `todo` is the flattened C++ call stack: what its frames do *)
(* once the Lua handlers of the last event have returned.  The clock is      *)
(* abstracted to what the guards ask: is an end time still in the future.    *)
(* Windows and settings that only decide whether a press is queued are a     *)
(* choice.  No spell is being channelled here.                               *)
(***************************************************************************)
EXTENDS CastDeque

CONSTANTS
  Normal, NonGcd, OnHit,  (* the spells on the GCD, off it, and on next swing *)
  QueueSize,         (* capacity of gNonGcdCastQueue, 6 in main.cpp *)
  RetryLimit,        (* 3 in Spell_C_SpellFailedHook *)
  RetryRejected,     (* NP_RetryServerRejectedSpells *)
  Usages,            (* ways to play: whether NP_QueueSpellsOnCooldown is on, and
                        whether scripts call CastSpellByNameNoQueue; and the
                        bound of client casts in a behaviour of that kind *)
  MaxAttempts,       (* bound: client casts in any behaviour *)
  MaxPresses         (* bound: casts asked for by the player and by scripts *)

Spells   == Normal \union NonGcd \union OnHit
Attempts == 1..MaxAttempts

ASSUME SpellAssumption ==
  /\ Normal \intersect NonGcd = {} /\ OnHit \intersect (Normal \union NonGcd) = {}
ASSUME SizeAssumption == QueueSize \in Nat \ {0} /\ RetryLimit \in Nat
ASSUME SettingAssumption ==
  /\ RetryRejected \in BOOLEAN
  /\ Usages \subseteq [queueOnCooldown : BOOLEAN, noQueue : BOOLEAN, attempts : 0..MaxAttempts]
ASSUME BoundAssumption == MaxAttempts \in Nat /\ MaxPresses \in Nat

VARIABLES
  queue,         (* gNonGcdCastQueue, front first *)
  normal,        (* gLastNormalCastParams *)
  nonGcdQueued, normalQueued, cooldownNonGcd, cooldownNormal,  (* gCastData flags *)
  castEnd, delay, gcd,  (* gCastData.castEndMs, delayEndMs, gcdEndMs are in the future *)
  waiting,       (* the cooldown queues whose end time is in the future *)
  numRetries,    (* gCastData.numRetries *)
  processed,     (* gQueuesProcessed *)
  noQueueCast,   (* gNoQueueCast *)
  todo, inLua,
  nextId,        (* gNextCastId *)
  retriesOf,     (* numRetries of the attempt's entry in gCastHistory *)
  requestOf,     (* what the attempt was made for *)
  fate,          (* what became of it: open, refused (once), barred (from a
                    second call), sent, started or rejected *)
  usage,         (* the way this player plays *)
  presses,       (* casts asked for so far *)
  renewed        (* nextId when the server last started a spell of the player *)

queues  == <<queue, normal, nonGcdQueued, normalQueued, cooldownNonGcd, cooldownNormal>>
timers  == <<castEnd, delay, gcd, waiting>>
record  == <<nextId, retriesOf, requestOf, fate>>
asked   == <<usage, presses, renewed>>
vars == <<queues, timers, numRetries, processed, noQueueCast, todo, inLua, record, asked>>

Casting == castEnd \/ delay     (* EffectiveCastEndMs() > currentTime *)

(* A request: the spell, how many retries it stands for, the attempt it      *)
(* retries, where it comes from and whether the script said not to queue it. *)
Request(s, r, a, f, n) == [spell |-> s, retries |-> r, of |-> a, from |-> f, noQueue |-> n]
NoRequest == Request("none", 0, 0, "press", FALSE)

Do(kind, req, a) == [do |-> kind, req |-> req, id |-> a]
Then(kind) == Do(kind, NoRequest, 0)

Init ==
  /\ queue = <<>> /\ normal = NoRequest
  /\ nonGcdQueued = FALSE /\ normalQueued = FALSE
  /\ cooldownNonGcd = FALSE /\ cooldownNormal = FALSE
  /\ castEnd = FALSE /\ delay = FALSE /\ gcd = FALSE /\ waiting = {}
  /\ numRetries = 0 /\ processed = FALSE /\ noQueueCast = FALSE
  /\ todo = <<>> /\ inLua = TRUE
  /\ nextId = 1
  /\ retriesOf = [a \in Attempts |-> 0]
  /\ requestOf = [a \in Attempts |-> NoRequest]
  /\ fate = [a \in Attempts |-> "open"]
  /\ usage \in Usages /\ presses = 0 /\ renewed = 1

At(kind) == todo # <<>> /\ Head(todo).do = kind
Top      == Head(todo)
Push(req) == queue' = Pushed(queue, req, QueueSize)

(* Native code goes on with steps; Signal: after the handlers of an event.   *)
(* The client's own cast function may signal events at any time.             *)
Goto(steps)   == todo' = steps /\ inLua' = (steps = <<>> \/ Head(steps).do = "Client")
Signal(steps) == todo' = steps /\ inLua' = TRUE
------------------------------------------------------------------------------
(* The player or a handler casts a spell, or casts it with                   *)
(* CastSpellByNameNoQueue, which sets gNoQueueCast for as long as it lasts.  *)
Press(s, noQueue) ==
  /\ inLua /\ presses < MaxPresses
  /\ presses' = presses + 1
  /\ noQueueCast' = (noQueue \/ noQueueCast)
  /\ Goto(<<Do("Enter", Request(s, 0, 0, "press", noQueue), 0)>>
          \o (IF noQueue THEN <<Then("NoQueueDone")>> ELSE <<>>) \o todo)
  /\ UNCHANGED <<queues, timers, numRetries, processed, record, usage, renewed>>

NoQueueDone ==
  /\ At("NoQueueDone")
  /\ noQueueCast' = FALSE
  /\ Goto(Tail(todo))
  /\ UNCHANGED <<queues, timers, numRetries, processed, record, asked>>

(* CastQueuedNonGcdSpell and CastQueuedNormalSpell up to the cast hook.      *)
CastQueuedNonGcdSpell(rest) ==
  /\ IF queue # <<>>
     THEN /\ queue' = Tail(queue)
          /\ numRetries' = Head(queue).retries
          /\ Goto(<<Do("Enter", [Head(queue) EXCEPT !.from = "nonGcd"], 0),
                    Then("NonGcdPopped")>> \o rest)
     ELSE Goto(<<Then("NonGcdPopped")>> \o rest) /\ UNCHANGED <<queue, numRetries>>
  /\ UNCHANGED <<normal, normalQueued, cooldownNormal, timers, record, noQueueCast, asked>>

CastQueuedNormalSpell(rest) ==
  /\ normalQueued' = FALSE
  /\ numRetries' = normal.retries
  /\ Goto(<<Do("Enter", [normal EXCEPT !.from = "normal"], 0), Then("NormalPopped")>> \o rest)
  /\ UNCHANGED <<queue, normal, nonGcdQueued, cooldownNonGcd, timers, record, noQueueCast, asked>>

(* The part of processQueues after a queued normal spell was not cast.       *)
CooldownNormalReady == cooldownNormal /\ "normal" \notin waiting
CastCooldownNormal(rest) ==
  IF CooldownNormalReady
  THEN cooldownNormal' = FALSE /\ CastQueuedNormalSpell(rest)
  ELSE /\ Goto(rest)
       /\ UNCHANGED <<queues, timers, numRetries, record, noQueueCast, asked>>

(* processQueues: the first queue that is due.  recent: the last cast began  *)
(* less than MAX_TIME_SINCE_LAST_CAST_FOR_QUEUE ago.                         *)
ProcessQueues(rest) ==
  /\ processed' = TRUE
  /\ IF nonGcdQueued /\ ~Casting
     THEN CastQueuedNonGcdSpell(rest) /\ UNCHANGED <<nonGcdQueued, cooldownNonGcd>>
     ELSE IF cooldownNonGcd /\ "nonGcd" \notin waiting
     THEN /\ cooldownNonGcd' = FALSE /\ nonGcdQueued' = TRUE
          /\ CastQueuedNonGcdSpell(rest)
     ELSE IF normalQueued /\ ~Casting /\ ~gcd
     THEN \/ CastQueuedNormalSpell(rest) /\ UNCHANGED cooldownNormal
          \/ /\ Signal(<<Then("DropStale")>> \o rest)
             /\ UNCHANGED <<queues, timers, numRetries, record, noQueueCast, asked>>
     ELSE CastCooldownNormal(rest)

DropStale ==
  /\ At("DropStale")
  /\ IF CooldownNormalReady
     THEN CastCooldownNormal(Tail(todo))
     ELSE /\ normalQueued' = FALSE
          /\ Goto(Tail(todo))
          /\ UNCHANGED <<queue, normal, nonGcdQueued, cooldownNonGcd, cooldownNormal, timers,
                         numRetries, record, noQueueCast, asked>>
  /\ UNCHANGED processed

(* ISceneEndHook.                                                            *)
SameFrame == UNCHANGED processed (* mutant: gQueuesProcessed is never reset *)
NextFrame == processed' = FALSE

Frame ==
  /\ todo = <<>>
  /\ IF processed
     THEN /\ NextFrame
          /\ UNCHANGED <<queues, timers, numRetries, todo, inLua, record, noQueueCast, asked>>
     ELSE ProcessQueues(<<Then("EndFrame")>>)

EndFrame ==
  /\ At("EndFrame")
  /\ NextFrame
  /\ Goto(Tail(todo))
  /\ UNCHANGED <<queues, timers, numRetries, record, noQueueCast, asked>>

(* The end of CastQueuedNonGcdSpell: signal the pop, then the flag.          *)
NonGcdPopped ==
  /\ At("NonGcdPopped")
  /\ Signal(<<Then("NonGcdDone")>> \o Tail(todo))
  /\ UNCHANGED <<queues, timers, numRetries, processed, record, noQueueCast, asked>>

DoneQueued(flag) ==
  /\ At("NonGcdDone")
  /\ nonGcdQueued' = flag
  /\ numRetries' = 0
  /\ Goto(Tail(todo))
  /\ UNCHANGED <<queue, normal, normalQueued, cooldownNonGcd, cooldownNormal, timers,
                 processed, record, noQueueCast, asked>>
ClearsFlag == DoneQueued(FALSE)  (* mutant: what handlers queued is forgotten *)
NonGcdDone == DoneQueued(queue # <<>>)

(* The end of CastQueuedNormalSpell.                                         *)
NormalPopped ==
  /\ At("NormalPopped")
  /\ numRetries' = 0
  /\ Signal(Tail(todo))
  /\ UNCHANGED <<queues, timers, processed, record, noQueueCast, asked>>
------------------------------------------------------------------------------
(* Spell_C_CastSpellHook.  It begins with processQueues ...                  *)
Enter ==
  LET rest == <<[Top EXCEPT !.do = "ClearCooldown"]>> \o Tail(todo)
  IN /\ At("Enter")
     /\ IF processed
        THEN Goto(rest) /\ UNCHANGED <<queues, timers, numRetries, processed, record, noQueueCast, asked>>
        ELSE ProcessQueues(rest)

(* ... then a cooldown queue gives way to the new cast.                      *)
ClearCooldown ==
  LET rest == <<[Top EXCEPT !.do = "Decide"]>> \o Tail(todo)
  IN /\ At("ClearCooldown")
     /\ IF Top.req.spell \in Normal /\ cooldownNormal
        THEN cooldownNormal' = FALSE /\ Signal(rest) /\ UNCHANGED <<queue, cooldownNonGcd>>
        ELSE IF cooldownNonGcd
        THEN /\ cooldownNonGcd' = FALSE
             /\ queue' = IF queue = <<>> THEN queue ELSE Tail(queue)
             /\ Signal(rest) /\ UNCHANGED cooldownNormal
        ELSE Goto(rest) /\ UNCHANGED <<queue, cooldownNonGcd, cooldownNormal>>
     /\ UNCHANGED <<normal, nonGcdQueued, normalQueued, timers, numRetries, processed, record,
                    noQueueCast, asked>>

(* gLastNormalCastParams is written before it is known whether the spell     *)
(* will be queued.                                                           *)
Remember ==
  normal' = IF Top.req.spell \in Normal THEN [Top.req EXCEPT !.retries = 0] ELSE normal

InWindow == ~noQueueCast /\ (Casting \/ gcd)

QueueNormal ==
  /\ At("Decide") /\ Top.req.spell \in Normal /\ InWindow
  /\ Remember
  /\ Signal(<<Then("SetNormal")>> \o Tail(todo))
  /\ UNCHANGED <<queue, nonGcdQueued, normalQueued, cooldownNonGcd, cooldownNormal, timers,
                 numRetries, processed, record, noQueueCast, asked>>

QueueNonGcd ==
  /\ At("Decide") /\ Top.req.spell \in NonGcd /\ InWindow /\ Casting
  /\ IF \E i \in 1..Len(queue) : queue[i].spell = Top.req.spell
     THEN Goto(Tail(todo)) /\ UNCHANGED queue
     ELSE /\ Push([Top.req EXCEPT !.retries = 0])
          /\ Signal(<<Then("SetNonGcd")>> \o Tail(todo))
  /\ UNCHANGED <<normal, nonGcdQueued, normalQueued, cooldownNonGcd, cooldownNormal, timers,
                 numRetries, processed, record, noQueueCast, asked>>

(* Bound: past usage.attempts no cast goes further.                          *)
Exhausted == nextId > usage.attempts

(* Not queued while a cast, the GCD or the spam protection is in the way.    *)
Refuse ==
  /\ At("Decide") /\ (Top.req.spell \notin OnHit \/ Exhausted)
  /\ Remember
  /\ IF Casting THEN UNCHANGED gcd
     ELSE gcd' = (gcd /\ Top.req.spell \in Normal)
  /\ Goto(Tail(todo))
  /\ UNCHANGED <<queue, nonGcdQueued, normalQueued, cooldownNonGcd, cooldownNormal, castEnd, delay,
                 waiting, numRetries, processed, record, noQueueCast, asked>>

(* The attempt: a history entry and the call of the original client cast.    *)
Attempt(retries) ==
  /\ At("Decide") /\ ~Exhausted
  /\ Top.req.spell \notin OnHit => ~Casting /\ (Top.req.spell \in Normal => ~gcd)
  /\ Remember
  /\ gcd' = (gcd /\ Top.req.spell \in OnHit)
  /\ nextId' = nextId + 1
  /\ retriesOf' = [retriesOf EXCEPT ![nextId] = retries]
  /\ requestOf' = [requestOf EXCEPT ![nextId] = Top.req]
  /\ Signal(<<Do("Client", Top.req, nextId)>> \o Tail(todo))
  /\ UNCHANGED <<queue, nonGcdQueued, normalQueued, cooldownNonGcd, cooldownNormal, castEnd, delay,
                 waiting, numRetries, processed, fate, noQueueCast, asked>>
ForgetsRetries == Attempt(0)     (* mutant: the entry does not inherit numRetries *)
CastSpell == Attempt(numRetries)

(* A queued spell's flag is set once the handlers of its event returned.     *)
SetNormal ==
  /\ At("SetNormal")
  /\ normalQueued' = TRUE
  /\ Goto(Tail(todo))
  /\ UNCHANGED <<queue, normal, nonGcdQueued, cooldownNonGcd, cooldownNormal, timers,
                 numRetries, processed, record, noQueueCast, asked>>

SetNonGcd ==
  /\ At("SetNonGcd")
  /\ nonGcdQueued' = TRUE
  /\ Goto(Tail(todo))
  /\ UNCHANGED <<queue, normal, normalQueued, cooldownNonGcd, cooldownNormal, timers,
                 numRetries, processed, record, noQueueCast, asked>>

(* The hook calls the client again, after CancelSpell, only when an earlier  *)
(* cast had a cast time.                                                     *)
MayCallAgain ==
  /\ fate[Top.id] = "refused"
  /\ \E a \in 1..(nextId - 1) : /\ fate[a] \in {"sent", "started", "rejected"}
                               /\ requestOf[a].spell \in Normal
ClientCalled == At("Client") /\ (fate[Top.id] = "open" \/ MayCallAgain)

(* The client sends the spell; BeginCast sets the end times.                 *)
ClientSends ==
  /\ ClientCalled
  /\ fate' = [fate EXCEPT ![Top.id] = "sent"]
  /\ IF Top.req.spell \in Normal
     THEN gcd' = TRUE /\ UNCHANGED delay
     ELSE delay' = TRUE /\ UNCHANGED gcd
  /\ castEnd' \in IF Top.req.spell \in OnHit THEN {FALSE} ELSE BOOLEAN
  /\ Signal(Tail(todo))
  /\ UNCHANGED <<queues, waiting, numRetries, processed, nextId, retriesOf, requestOf, noQueueCast, asked>>

(* The client refuses it, and reports why ...                                *)
ClientRefuses ==
  /\ ClientCalled
  /\ fate' = [fate EXCEPT ![Top.id] = IF @ = "open" THEN "refused" ELSE "barred"]
  /\ Signal(<<Do("SpellFailed", Top.req, Top.id), Top>> \o Tail(todo))
  /\ UNCHANGED <<queues, timers, numRetries, processed, nextId, retriesOf, requestOf, noQueueCast, asked>>

(* ... and the hook signals SPELL_CAST_EVENT.                                *)
ClientReturns ==
  /\ At("Client")
  /\ fate' = [fate EXCEPT ![Top.id] = IF @ = "open" THEN "refused" ELSE @]
  /\ Signal(Tail(todo))
  /\ UNCHANGED <<queues, timers, numRetries, processed, nextId, retriesOf, requestOf, noQueueCast, asked>>
------------------------------------------------------------------------------
(* SpellStartHandlerHook for the spell of an attempt.  It finds the newest   *)
(* entry of the spell, be it of this attempt or not: its cast end may be     *)
(* corrected and its retries count anew.  So do those of                     *)
(* gLastNormalCastParams, whatever its spell: 0 stands for a spell of the    *)
(* player that no attempt was made for.  (What the handlers of               *)
(* SPELL_START_SELF do they might as well have done before the packet came.) *)
Newest(b, s) ==
  /\ b < nextId /\ requestOf[b].spell = s
  /\ \A c \in 1..(nextId - 1) : requestOf[c].spell = s => c <= b

SpellStart(a) ==
  /\ todo = <<>> /\ (a # 0 => fate[a] = "sent")
  /\ fate' = [b \in Attempts |-> IF b = a THEN "started" ELSE fate[b]]
  /\ castEnd' \in IF a = 0 THEN {castEnd} ELSE BOOLEAN
  /\ retriesOf' = [b \in Attempts |->
       IF a # 0 /\ Newest(b, requestOf[a].spell) THEN 0 ELSE retriesOf[b]]
  /\ normal' = [normal EXCEPT !.retries = 0]
  /\ renewed' = nextId
  /\ UNCHANGED <<queue, nonGcdQueued, normalQueued, cooldownNonGcd, cooldownNormal, delay, gcd,
                 waiting, numRetries, processed, todo, inLua, nextId, requestOf, noQueueCast,
                 usage, presses>>

(* A rejection, in place of the start or after it, which was not correlated  *)
(* reaches Spell_C_SpellFailedHook with id 0.  (A success result does        *)
(* nothing here.)                                                            *)
ServerRejects(a, correlated) ==
  /\ todo = <<>> /\ a \in Attempts /\ fate[a] \in {"sent", "started"}
  /\ fate' = [fate EXCEPT ![a] = "rejected"]
  /\ Signal(<<Do("SpellFailed", requestOf[a], IF correlated THEN a ELSE 0)>>)
  /\ UNCHANGED <<queues, castEnd, delay, gcd, waiting, numRetries, processed, nextId, retriesOf,
                 requestOf, noQueueCast, asked>>

(* Spell_C_SpellFailedHook, after what the client and SPELL_CAST_RESULT_SELF *)
(* ran: ResetCastFlags whatever the spell, then SPELL_FAILED_SELF.           *)
SpellFailed ==
  /\ At("SpellFailed")
  /\ castEnd' = FALSE /\ gcd' = FALSE
  /\ Signal(<<[Top EXCEPT !.do = "Failed"]>> \o Tail(todo))
  /\ UNCHANGED <<queues, delay, waiting, numRetries, processed, record, noQueueCast, asked>>

(* The failures Spell_C_SpellFailedHook does nothing (more) about.           *)
IgnoreFailure ==
  /\ At("SpellFailed") \/ At("Failed")
  /\ Goto(Tail(todo))
  /\ UNCHANGED <<queues, timers, numRetries, processed, record, noQueueCast, asked>>

(* The spell is on cooldown: its cooldown queue.  ignoreCancelDueToCooldown  *)
(* bars the second client call.                                              *)
Again(a) == [requestOf[a] EXCEPT !.retries = retriesOf[a], !.of = a]

QueueForCooldown ==
  /\ At("Failed") /\ Top.id # 0 /\ usage.queueOnCooldown /\ Top.req.spell \notin OnHit
  /\ IF Top.req.spell \in NonGcd
     THEN /\ cooldownNonGcd' = TRUE /\ waiting' = waiting \union {"nonGcd"}
          /\ Signal(<<Do("PushCooldown", Again(Top.id), 0)>> \o Tail(todo))
          /\ UNCHANGED cooldownNormal
     ELSE /\ cooldownNormal' = TRUE /\ waiting' = waiting \union {"normal"}
          /\ Signal(<<Do("KeepCooldown", Again(Top.id), 0)>> \o Tail(todo))
          /\ UNCHANGED cooldownNonGcd
  /\ fate' = [fate EXCEPT ![Top.id] = IF @ = "refused" THEN "barred" ELSE @]
  /\ UNCHANGED <<queue, normal, nonGcdQueued, normalQueued, castEnd, delay, gcd, numRetries,
                 processed, nextId, retriesOf, requestOf, noQueueCast, asked>>

PushCooldown ==
  /\ At("PushCooldown")
  /\ Push(Top.req)
  /\ Goto(Tail(todo))
  /\ UNCHANGED <<normal, nonGcdQueued, normalQueued, cooldownNonGcd, cooldownNormal, timers,
                 numRetries, processed, record, noQueueCast, asked>>

KeepCooldown ==
  /\ At("KeepCooldown")
  /\ normal' = Top.req
  /\ Goto(Tail(todo))
  /\ UNCHANGED <<queue, nonGcdQueued, normalQueued, cooldownNonGcd, cooldownNormal, timers,
                 numRetries, processed, record, noQueueCast, asked>>

AlwaysRetries(a) == TRUE         (* mutant: numRetries is not compared *)

(* The spell is retried, up to RetryLimit times.                             *)
MayRetry(a) == retriesOf[a] < RetryLimit

QueueForRetry ==
  LET a == Top.id
      again == [Again(a) EXCEPT !.retries = @ + 1]
  IN /\ At("Failed") /\ Top.id # 0 /\ RetryRejected /\ Top.req.spell \notin OnHit
     /\ MayRetry(a)
     /\ retriesOf' = [retriesOf EXCEPT ![a] = @ + 1]
     /\ IF Top.req.spell \in NonGcd
        THEN \/ delay' = TRUE /\ Signal(<<Do("PushRetry", again, 0)>> \o Tail(todo))
             \/ Goto(Tail(todo)) /\ UNCHANGED delay   (* it recently succeeded *)
        ELSE /\ IF gcd THEN Goto(Tail(todo))
                ELSE Signal(<<Do("KeepRetry", again, 0)>> \o Tail(todo))
             /\ UNCHANGED delay
     /\ UNCHANGED <<queues, castEnd, gcd, waiting, numRetries, processed, nextId, requestOf,
                    fate, noQueueCast, asked>>

PushRetry ==
  /\ At("PushRetry")
  /\ nonGcdQueued' = TRUE
  /\ Push(Top.req)
  /\ Goto(Tail(todo))
  /\ UNCHANGED <<normal, normalQueued, cooldownNonGcd, cooldownNormal, timers, numRetries,
                 processed, record, noQueueCast, asked>>

KeepRetry ==
  /\ At("KeepRetry")
  /\ normalQueued' = TRUE
  /\ normal' = Top.req
  /\ Goto(Tail(todo))
  /\ UNCHANGED <<queue, nonGcdQueued, cooldownNonGcd, cooldownNormal, timers, numRetries,
                 processed, record, noQueueCast, asked>>
------------------------------------------------------------------------------
(* Script_SpellStopCastingHook: ResetCastFlags and ClearQueuedSpells; the    *)
(* events come after every queue is empty.                                   *)
ClearQueuedSpells ==
  /\ inLua
  /\ queue # <<>> \/ nonGcdQueued \/ normalQueued \/ cooldownNonGcd \/ cooldownNormal
  /\ queue' = <<>>
  /\ nonGcdQueued' = FALSE /\ normalQueued' = FALSE
  /\ cooldownNonGcd' = FALSE /\ cooldownNormal' = FALSE
  /\ castEnd' = FALSE /\ gcd' = FALSE
  /\ Signal(todo)
  /\ UNCHANGED <<normal, delay, waiting, numRetries, processed, record, noQueueCast, asked>>

(* Time passes: end times are reached.                                       *)
Tick ==
  /\ todo = <<>>
  /\ castEnd' \in {castEnd, FALSE} /\ delay' \in {delay, FALSE} /\ gcd' \in {gcd, FALSE}
  /\ waiting' \in SUBSET waiting
  /\ timers' # timers
  /\ UNCHANGED <<queues, numRetries, processed, todo, inLua, record, noQueueCast, asked>>

Step ==
  \/ DropStale \/ EndFrame \/ NonGcdPopped \/ NonGcdDone \/ NormalPopped
  \/ NoQueueDone \/ Enter \/ ClearCooldown \/ QueueNormal \/ QueueNonGcd \/ Refuse \/ CastSpell
  \/ SetNormal \/ SetNonGcd
  \/ ClientSends \/ ClientRefuses \/ ClientReturns
  \/ SpellFailed \/ IgnoreFailure \/ QueueForCooldown \/ PushCooldown \/ KeepCooldown
  \/ QueueForRetry \/ PushRetry \/ KeepRetry

Next ==
  \/ \E s \in Spells, n \in BOOLEAN : (n => usage.noQueue) /\ Press(s, n)
  \/ Step \/ Frame \/ Tick \/ ClearQueuedSpells
  \/ \E a \in 0..MaxAttempts : SpellStart(a)
  \/ \E a \in Attempts, c \in BOOLEAN : ServerRejects(a, c)

Spec == Init /\ [][Next]_vars

(* Frames are rendered, time passes, and native code and handlers return:    *)
(* a Frame may come between any two ticks, hence strong fairness of Tick.    *)
LiveSpec == Spec /\ WF_vars(Step) /\ WF_vars(Frame) /\ SF_vars(Tick)
------------------------------------------------------------------------------
(* The variables have their types.                                           *)
Requests == [spell : Spells \union {"none"}, retries : 0..RetryLimit, of : 0..MaxAttempts,
             from : {"press", "nonGcd", "normal"}, noQueue : BOOLEAN]
Frames ==
  [do : {"Enter", "ClearCooldown", "Decide", "SetNormal", "SetNonGcd", "Client", "SpellFailed",
         "Failed", "PushCooldown", "KeepCooldown", "PushRetry", "KeepRetry", "NonGcdPopped",
         "NonGcdDone", "NormalPopped", "NoQueueDone", "DropStale", "EndFrame"},
   req : Requests, id : 0..MaxAttempts]
TypeOK ==
  /\ queue \in Seq(Requests) /\ Len(queue) <= QueueSize
  /\ normal \in Requests
  /\ {nonGcdQueued, normalQueued, cooldownNonGcd, cooldownNormal, castEnd, delay, gcd,
      processed, noQueueCast, inLua} \subseteq BOOLEAN
  /\ waiting \subseteq {"normal", "nonGcd"}
  /\ numRetries \in 0..RetryLimit
  /\ todo \in Seq(Frames)
  /\ nextId \in 1..(MaxAttempts + 1)
  /\ retriesOf \in [Attempts -> 0..RetryLimit]
  /\ requestOf \in [Attempts -> Requests]
  /\ fate \in [Attempts -> {"open", "refused", "barred", "sent", "started", "rejected"}]
  /\ usage \in Usages /\ presses \in 0..MaxPresses /\ renewed \in 1..nextId

(* Without cooldown queues, and between two frames: what gNonGcdCastQueue    *)
(* holds is flagged for processQueues, although handlers queue, retry and    *)
(* clear between the pop and the flag (spellcast.cpp:269-293).  (The flag    *)
(* may outlive its queue: a handler of NON_GCD_QUEUED may stop casting.)     *)
NothingOrphaned ==
  ~usage.queueOnCooldown /\ todo = <<>> /\ queue # <<>> => nonGcdQueued

(* spellevents.cpp:398: however pops, handlers and failures interleave, one  *)
(* press is never cast again automatically more than RetryLimit times        *)
(* between two starts of spells of the player, any of which lets the count   *)
(* begin anew (1234-1239; with cooldown queues, the wait for a cooldown adds *)
(* an attempt it does not count).  Counted are the attempts made since.      *)
Origins[a \in 0..MaxAttempts] ==
  IF a < renewed THEN 0
  ELSE 1 + Origins[IF requestOf[a].of < a THEN requestOf[a].of ELSE 0]
RetryBound ==
  ~usage.queueOnCooldown => \A a \in 1..(nextId - 1) : Origins[a] <= RetryLimit + 1

(* spellcast.cpp:282,307: gCastData.numRetries is global, and casts nest in  *)
(* casts; still an attempt counts every retry its request already stood for, *)
(* unless a spell started since.                                             *)
RetriesInherited == \A a \in renewed..(nextId - 1) : retriesOf[a] >= requestOf[a].retries

(* spellevents.cpp:398-440, 1234-1239, spellcast.cpp:282: an attempt counts  *)
(* the retries it stands for, hence no press is retried for ever while the   *)
(* server starts nothing.                                                    *)
RetriesCounted == RetriesInherited /\ RetryBound

(* No pressed spell is left behind: once presses stop, every queue runs dry  *)
(* (without cooldown queues, see NothingOrphaned).                           *)
Pending ==
  queue # <<>> \/ nonGcdQueued \/ normalQueued \/ cooldownNonGcd \/ cooldownNormal
Drains == <>[](~usage.queueOnCooldown => ~Pending)

(* SCRIPTS.md:1020: CastSpellByNameNoQueue "Will force a spell cast to never *)
(* queue": without retries, what a queue casts was not asked for that way.   *)
NoQueueIsNotQueued == At("Client") => ~(Top.req.noQueue /\ Top.req.from = "normal")

(* README.md:342: a new cast clears "the appropriate cooldown queue", and    *)
(* not a spell that waits in the regular non-GCD queue.                      *)
ClearsCooldownOnly ==
  [][At("ClearCooldown") /\ queue' # queue => Head(queue).of # 0]_vars
==============================================================================

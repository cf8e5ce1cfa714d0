--------------------------- MODULE SpellQueue_proofs ---------------------------
(***************************************************************************)
(* The spell queues, for any spells, capacity, number of retries, attempts   *)
(* and presses, both ways to play and any nesting of handlers.               *)
(*                                                                         *)
(* IInv says what may lie on the call stack, and in which order: a pop that  *)
(* has to end lies beneath the request it took off, the end of the scene at  *)
(* the bottom, and a queue whose flag is down has a SetNonGcd left.          *)
(* BoundInv adds, without cooldown queues, that every request that may still *)
(* be cast counts the attempts behind it that were made since the server     *)
(* last started a spell, and that what was popped is cast before anything    *)
(* can overwrite numRetries or gLastNormalCastParams.                        *)
(***************************************************************************)
EXTENDS SpellQueue, CastDeque_proofs

(* The frames of the call stack, and what the queue holds.                   *)
In(s) == {s[i] : i \in 1..Len(s)}

CastFrames == {"Enter", "ClearCooldown", "Decide"}
(* A queued request on its way back into the cast hook, and the frames that  *)
(* end the pop it came from, or make way for another.                        *)
Popped(b)  == b.do \in CastFrames /\ b.req.from # "press"
EndsPop(b) == b.do \in {"NonGcdPopped", "NonGcdDone", "NormalPopped", "DropStale"}
(* These are only reached once processQueues has run in the frame.           *)
InScene(b) ==
  b.do \in {"ClearCooldown", "Decide", "SetNormal", "SetNonGcd", "NonGcdPopped", "NonGcdDone",
            "NormalPopped", "DropStale", "EndFrame"} \/ Popped(b)

(* The end of the scene is at the bottom of the stack; a pop ends after the  *)
(* request it took off was dealt with.                                       *)
MayPrecede(b, c) == b.do # "EndFrame" /\ ~(EndsPop(b) /\ Popped(c))
Ordered(s) == \A i \in 1..Len(s), j \in 1..Len(s) : i < j => MayPrecede(s[i], s[j])

FrameOK(b) ==
  /\ b.do \in CastFrames /\ b.req.from = "press" => b.req.of = 0 /\ b.req.retries = 0
  /\ Popped(b) => numRetries >= b.req.retries
  /\ b.do \in {"PushRetry", "PushCooldown"} => b.req.spell \in NonGcd
  /\ b.do \in {"Client", "SpellFailed", "Failed"} /\ b.id # 0 =>
       b.id < nextId /\ b.req.spell = requestOf[b.id].spell

(* Without cooldown queues nothing waits for a cooldown, and what waits is   *)
(* flagged, or is about to be.                                               *)
NoCooldown == ~usage.queueOnCooldown =>
  /\ ~cooldownNonGcd /\ ~cooldownNormal
  /\ \A b \in In(todo) : b.do \notin {"PushCooldown", "KeepCooldown"}
Flagged == ~usage.queueOnCooldown /\ queue # <<>> /\ ~nonGcdQueued =>
  \E b \in In(todo) : b.do = "SetNonGcd"
SceneProcessed == (\E b \in In(todo) : InScene(b)) => processed
FramesOK == \A b \in In(todo) : FrameOK(b)
QueuedOK == \A q \in In(queue) : q.spell \in NonGcd
Untried == \A a \in Attempts : nextId <= a => fate[a] = "open"

IInv ==
  /\ TypeOK /\ NoCooldown /\ Flagged /\ SceneProcessed /\ Ordered(todo) /\ FramesOK
  /\ QueuedOK /\ Untried /\ RetriesInherited

(* The ways to count the attempts before an attempt that were made since the *)
(* server last started a spell: Origins is one of them.                      *)
Counts(f) ==
  f = [a \in 0..MaxAttempts |->
         IF a < renewed THEN 0 ELSE 1 + f[IF requestOf[a].of < a THEN requestOf[a].of ELSE 0]]

(* A request counts the retries it stands for.                               *)
Counted(r) == r.of < nextId /\ \A f : Counts(f) => f[r.of] <= r.retries
SomeCount == \E f : Counts(f)
EveryCount == \A f : Counts(f) =>
  /\ \A a \in 0..MaxAttempts : f[a] \in Nat
  /\ \A a \in 1..(nextId - 1) : f[a] <= requestOf[a].retries + 1
Unmade == \A a \in nextId..MaxAttempts : requestOf[a].of = 0
Asks(b) == b.do \in CastFrames \union {"PushRetry", "KeepRetry"}
AllCounted ==
  /\ \A q \in In(queue) : Counted(q)
  /\ \A b \in In(todo) : Asks(b) => Counted(b.req)
  /\ normalQueued \/ (\E b \in In(todo) : b.do = "SetNormal") => Counted(normal)
(* What was popped is cast at once, and nothing is in its way.               *)
NothingPopped == \A b \in In(todo) : ~Popped(b)
PoppedOnTop ==
  /\ todo # <<>> /\ (\A b \in In(Tail(todo)) : ~Popped(b))
  /\ ~inLua /\ ~Casting
  /\ Top.req.spell \in Normal =>
       ~gcd /\ ~normalQueued /\ \A b \in In(todo) : b.do # "SetNormal"
CastAtOnce == NothingPopped \/ PoppedOnTop

Bound == SomeCount /\ EveryCount /\ Unmade /\ AllCounted /\ CastAtOnce
BoundInv == ~usage.queueOnCooldown => Bound
------------------------------------------------------------------------------
(* Sequences and what is in them.                                            *)
LEMMA InEmpty ==
  In(<<>>) = {} /\ Ordered(<<>>)
  BY DEF In, Ordered

LEMMA InCons ==
  ASSUME NEW E, NEW s \in Seq(E), NEW a \in E, NEW u, u = <<a>> \o s
  PROVE  /\ u \in Seq(E) /\ u # <<>> /\ Head(u) = a /\ Tail(u) = s
         /\ In(u) = {a} \union In(s)
         /\ Ordered(s) /\ (\A c \in In(s) : MayPrecede(a, c)) => Ordered(u)
<1>1. /\ u \in Seq(E) /\ u # <<>> /\ Head(u) = a /\ Len(u) = Len(s) + 1 /\ Len(s) \in Nat
      /\ u[1] = a /\ \A i \in 1..Len(s) : u[i + 1] = s[i]
  OBVIOUS
<1>2. \A i \in 1..Len(u) : i # 1 => i - 1 \in 1..Len(s) /\ u[i] = s[i - 1]
  <2> SUFFICES ASSUME NEW i \in 1..Len(u), i # 1 PROVE i - 1 \in 1..Len(s) /\ u[i] = s[i - 1]
    OBVIOUS
  <2>1. i - 1 \in 1..Len(s) /\ (i - 1) + 1 = i
    BY <1>1
  <2> QED
    BY <1>1, <2>1
<1>3. Tail(u) = s
  <2>1. Tail(u) \in Seq(E) /\ Len(Tail(u)) = Len(s) /\ \A i \in 1..Len(s) : Tail(u)[i] = u[i + 1]
    BY <1>1
  <2>2. \A i \in 1..Len(s) : Tail(u)[i] = s[i]
    BY <1>1, <2>1
  <2> QED
    BY <2>1, <2>2, SeqEqual
<1>4. In(u) = {a} \union In(s)
  <2>1. \A x \in In(u) : x \in {a} \union In(s)
    BY <1>1, <1>2 DEF In
  <2>2. \A x \in In(s) : x \in In(u)
    <3> SUFFICES ASSUME NEW i \in 1..Len(s) PROVE s[i] \in In(u)
      BY DEF In
    <3>1. i + 1 \in 1..Len(u) /\ u[i + 1] = s[i]
      BY <1>1
    <3> QED
      BY <3>1 DEF In
  <2>3. a \in In(u)
    <3>1. 1 \in 1..Len(u)
      BY <1>1
    <3> QED
      BY <1>1, <3>1 DEF In
  <2> QED
    BY <2>1, <2>2, <2>3
<1>5. ASSUME Ordered(s), \A c \in In(s) : MayPrecede(a, c) PROVE Ordered(u)
  <2> SUFFICES ASSUME NEW i \in 1..Len(u), NEW j \in 1..Len(u), i < j
               PROVE  MayPrecede(u[i], u[j])
    BY DEF Ordered
  <2>1. j - 1 \in 1..Len(s) /\ u[j] = s[j - 1]
    BY <1>2
  <2>2. CASE i = 1
    BY <1>1, <1>5, <2>1, <2>2 DEF In
  <2>3. CASE i # 1
    <3>1. i - 1 \in 1..Len(s) /\ u[i] = s[i - 1]
      BY <1>2, <2>3
    <3>2. i - 1 < j - 1
      BY <1>1, <2>1
    <3> QED
      BY <1>5, <2>1, <3>1, <3>2 DEF Ordered
  <2> QED
    BY <2>2, <2>3
<1> QED
  BY <1>1, <1>3, <1>4, <1>5

LEMMA InTail ==
  ASSUME NEW E, NEW s \in Seq(E), s # <<>>, NEW t, t = Head(s), NEW u, u = Tail(s)
  PROVE  /\ u \in Seq(E) /\ t \in E /\ In(s) = {t} \union In(u) /\ In(u) \subseteq E
         /\ Ordered(s) => Ordered(u) /\ \A c \in In(u) : MayPrecede(t, c)
<1>1. /\ u \in Seq(E) /\ t \in E /\ t = s[1] /\ Len(s) \in Nat /\ 1 \in 1..Len(s)
      /\ Len(u) = Len(s) - 1 /\ \A i \in 1..Len(u) : i + 1 \in 1..Len(s) /\ u[i] = s[i + 1]
  OBVIOUS
<1>2. \A i \in 1..Len(s) : i # 1 => i - 1 \in 1..Len(u) /\ s[i] = u[i - 1]
  <2> SUFFICES ASSUME NEW i \in 1..Len(s), i # 1 PROVE i - 1 \in 1..Len(u) /\ s[i] = u[i - 1]
    OBVIOUS
  <2>1. i - 1 \in 1..Len(u) /\ (i - 1) + 1 = i
    BY <1>1
  <2> QED
    BY <1>1, <2>1
<1>3. In(s) = {t} \union In(u)
  <2>1. ASSUME NEW x \in In(s) PROVE x \in {t} \union In(u)
    <3>1. PICK i \in 1..Len(s) : x = s[i]
      BY DEF In
    <3>2. CASE i = 1
      BY <1>1, <3>1, <3>2
    <3>3. CASE i # 1
      BY <1>2, <3>1, <3>3 DEF In
    <3> QED
      BY <3>2, <3>3
  <2>2. \A x \in In(u) : x \in In(s)
    BY <1>1 DEF In
  <2>3. t \in In(s)
    BY <1>1 DEF In
  <2> QED
    BY <2>1, <2>2, <2>3
<1>4. In(u) \subseteq E
  BY <1>1 DEF In
<1>5. ASSUME Ordered(s) PROVE Ordered(u) /\ \A c \in In(u) : MayPrecede(t, c)
  <2>1. Ordered(u)
    BY <1>1, <1>5 DEF Ordered
  <2>2. ASSUME NEW i \in 1..Len(u) PROVE MayPrecede(t, u[i])
    <3>1. i + 1 \in 1..Len(s) /\ u[i] = s[i + 1] /\ 1 < i + 1
      BY <1>1
    <3> QED
      BY <1>1, <1>5, <3>1 DEF Ordered
  <2> QED
    BY <2>1, <2>2 DEF In
<1>6. u \in Seq(E) /\ t \in E
  BY <1>1
<1> QED
  BY <1>3, <1>4, <1>5, <1>6

LEMMA TailIn ==
  ASSUME NEW E, NEW s \in Seq(E), s # <<>>
  PROVE  /\ Tail(s) \in Seq(E) /\ Len(Tail(s)) < Len(s) /\ In(Tail(s)) \subseteq In(s)
         /\ Head(s) \in In(s) /\ Head(s) \in E
<1>1. PICK t, u : t = Head(s) /\ u = Tail(s)
  OBVIOUS
<1>2. /\ u \in Seq(E) /\ t \in E /\ t = s[1] /\ Len(s) \in Nat /\ 1 \in 1..Len(s)
      /\ Len(u) = Len(s) - 1 /\ \A i \in 1..Len(u) : i + 1 \in 1..Len(s) /\ u[i] = s[i + 1]
  BY <1>1
<1>3. In(u) \subseteq In(s) /\ t \in In(s) /\ Len(u) < Len(s)
  BY <1>2 DEF In
<1> QED
  BY <1>1, <1>2, <1>3

LEMMA InPushed ==
  ASSUME NEW E, NEW items \in Seq(E), NEW p \in E, NEW max \in Nat \ {0}, Len(items) <= max,
         NEW u, u = Pushed(items, p, max)
  PROVE  u \in Seq(E) /\ u # <<>> /\ Len(u) <= max /\ In(u) \subseteq {p} \union In(items)
<1>1. PICK r : r = IF Len(items) = max THEN Tail(items) ELSE items
  OBVIOUS
<1>2. u = Append(r, p)
  BY <1>1 DEF Pushed
<1>3. r \in Seq(E) /\ Len(r) \in Nat /\ Len(r) < max /\ In(r) \subseteq In(items)
  <2>1. CASE Len(items) = max
    <3>1. /\ r \in Seq(E) /\ Len(r) = max - 1
          /\ \A i \in 1..Len(r) : i + 1 \in 1..Len(items) /\ r[i] = items[i + 1]
      BY <1>1, <2>1
    <3> QED
      BY <2>1, <3>1 DEF In
  <2>2. CASE Len(items) # max
    BY <1>1, <2>2
  <2> QED
    BY <2>1, <2>2
<1>4. /\ u \in Seq(E) /\ Len(u) = Len(r) + 1
      /\ \A i \in 1..Len(u) : u[i] = IF i = Len(u) THEN p ELSE r[i]
  BY <1>2, <1>3
<1>5. ASSUME NEW i \in 1..Len(u) PROVE u[i] \in {p} \union In(items)
  <2>1. CASE i = Len(u)
    BY <1>4, <2>1
  <2>2. CASE i # Len(u)
    <3>1. i \in 1..Len(r)
      BY <1>3, <1>4, <2>2
    <3>2. u[i] = r[i] /\ r[i] \in In(r)
      BY <1>4, <2>2, <3>1 DEF In
    <3> QED
      BY <1>3, <3>2
  <2> QED
    BY <2>1, <2>2
<1>6. u # <<>> /\ Len(u) <= max
  BY <1>3, <1>4
<1> QED
  BY <1>4, <1>5, <1>6 DEF In
------------------------------------------------------------------------------
(* Frames on the call stack.                                                 *)
LEMMA PairSplit ==
  ASSUME NEW E, NEW s \in Seq(E), NEW a \in E, NEW b \in E
  PROVE  <<a, b>> \o s = <<a>> \o (<<b>> \o s)
<1> DEFINE u == <<a, b>> \o s
           v == <<b>> \o s
           w == <<a>> \o v
<1>2. /\ v \in Seq(E) /\ Len(v) = Len(s) + 1 /\ v[1] = b
      /\ \A i \in 1..Len(s) : v[i + 1] = s[i]
  OBVIOUS
<1>3. /\ w \in Seq(E) /\ Len(w) = Len(v) + 1 /\ w[1] = a
      /\ \A i \in 1..Len(v) : w[i + 1] = v[i]
  <2> HIDE DEF v
  <2> QED
    BY <1>2
<1>4. /\ u \in Seq(E) /\ Len(u) = Len(s) + 2 /\ u[1] = a /\ u[2] = b
      /\ \A i \in 1..Len(s) : u[i + 2] = s[i]
  OBVIOUS
<1> HIDE DEF u, v, w
<1>5. ASSUME NEW i \in 1..Len(u) PROVE u[i] = w[i]
  <2>1. CASE i = 1
    BY <1>3, <1>4, <2>1
  <2>2. CASE i = 2
    <3>1. 1 \in 1..Len(v) /\ w[1 + 1] = v[1]
      BY <1>2, <1>3
    <3> QED
      BY <1>2, <1>4, <2>2, <3>1
  <2>3. CASE i # 1 /\ i # 2
    <3>1. PICK k : k = i - 2
      OBVIOUS
    <3>2. k \in 1..Len(s) /\ k + 1 \in 1..Len(v) /\ i = k + 2 /\ i = (k + 1) + 1
      BY <1>2, <1>4, <2>3, <3>1
    <3>3. u[k + 2] = s[k] /\ v[k + 1] = s[k] /\ w[(k + 1) + 1] = v[k + 1]
      BY <1>2, <1>3, <1>4, <3>2
    <3> QED
      BY <3>2, <3>3
  <2> QED
    BY <2>1, <2>2, <2>3
<1>6. Len(u) = Len(w)
  BY <1>2, <1>3, <1>4
<1>7. u = w
  BY <1>3, <1>4, <1>5, <1>6, SeqEqual
<1> QED
  BY <1>7 DEF u, v, w

LEMMA StackPush ==
  ASSUME NEW T \in Seq(Frames), Ordered(T), NEW a \in Frames, \A c \in In(T) : MayPrecede(a, c),
         NEW u, u = <<a>> \o T
  PROVE  u \in Seq(Frames) /\ In(u) = {a} \union In(T) /\ Ordered(u)
<1>1. PICK E : E = Frames
  OBVIOUS
<1>2. u = <<a>> \o T
  OBVIOUS
<1>3. T \in Seq(E)
  BY <1>1
<1>4. a \in E
  BY <1>1
<1>5. /\ u \in Seq(E) /\ u # <<>> /\ Head(u) = a /\ Tail(u) = T
      /\ In(u) = {a} \union In(T)
      /\ Ordered(T) /\ (\A c \in In(T) : MayPrecede(a, c)) => Ordered(u)
  BY ONLY <1>2, <1>3, <1>4, InCons, Zenon
<1> QED
  BY <1>1, <1>5

LEMMA OnTop ==
  ASSUME NEW T \in Seq(Frames), NEW a \in Frames, NEW u, u = <<a>> \o T
  PROVE  /\ u \in Seq(Frames) /\ u # <<>> /\ Head(u) = a /\ Tail(u) = T
         /\ In(u) = {a} \union In(T)
<1>1. PICK E : E = Frames
  OBVIOUS
<1>2. u = <<a>> \o T
  OBVIOUS
<1>3. T \in Seq(E)
  BY <1>1
<1>4. a \in E
  BY <1>1
<1>5. /\ u \in Seq(E) /\ u # <<>> /\ Head(u) = a /\ Tail(u) = T
      /\ In(u) = {a} \union In(T)
      /\ Ordered(T) /\ (\A c \in In(T) : MayPrecede(a, c)) => Ordered(u)
  BY ONLY <1>2, <1>3, <1>4, InCons, Zenon
<1> QED
  BY <1>1, <1>5

LEMMA StackPair ==
  ASSUME NEW T \in Seq(Frames), Ordered(T), NEW a \in Frames, NEW b \in Frames,
         \A c \in {b} \union In(T) : MayPrecede(a, c), \A c \in In(T) : MayPrecede(b, c)
  PROVE  /\ <<a, b>> \o T \in Seq(Frames) /\ In(<<a, b>> \o T) = {a, b} \union In(T)
         /\ Ordered(<<a, b>> \o T)
<1>1. PICK v : v = <<b>> \o T
  OBVIOUS
<1>2. v \in Seq(Frames) /\ In(v) = {b} \union In(T) /\ Ordered(v)
  BY <1>1, StackPush
<1>3. PICK E : E = Frames
  OBVIOUS
<1>4. T \in Seq(E) /\ a \in E /\ b \in E
  BY <1>3
<1>5. <<a, b>> \o T = <<a>> \o (<<b>> \o T)
  BY <1>4, PairSplit
<1>6. \A c \in In(v) : MayPrecede(a, c)
  BY <1>2
<1>7. PICK u : u = <<a>> \o v
  OBVIOUS
<1>8. u \in Seq(Frames) /\ In(u) = {a} \union In(v) /\ Ordered(u)
  BY <1>2, <1>6, <1>7, StackPush
<1>9. <<a, b>> \o T = u
  BY <1>1, <1>5, <1>7
<1> QED
  BY <1>2, <1>8, <1>9

LEMMA Stack ==
  ASSUME IInv, todo # <<>>, NEW t, t = Top, NEW T, T = Tail(todo)
  PROVE  /\ t \in Frames /\ T \in Seq(Frames)
         /\ In(todo) = {t} \union In(T) /\ In(T) \subseteq Frames
         /\ Ordered(T) /\ (\A c \in In(T) : MayPrecede(t, c))
         /\ FrameOK(t) /\ (InScene(t) => processed)
<1>1. todo \in Seq(Frames) /\ Ordered(todo) /\ FramesOK /\ SceneProcessed
  BY DEF IInv, TypeOK
<1>2. /\ t \in Frames /\ T \in Seq(Frames)
      /\ In(todo) = {t} \union In(T) /\ In(T) \subseteq Frames
      /\ Ordered(todo) => Ordered(T) /\ \A c \in In(T) : MayPrecede(t, c)
  <2>1. t = Head(todo) /\ T = Tail(todo) /\ todo \in Seq(Frames)
    BY <1>1 DEF Top
  <2>2. PICK E : E = Frames
    OBVIOUS
  <2>3. todo \in Seq(E)
    BY <2>1, <2>2
  <2>4. /\ T \in Seq(E) /\ t \in E /\ In(todo) = {t} \union In(T) /\ In(T) \subseteq E
        /\ Ordered(todo) => Ordered(T) /\ \A c \in In(T) : MayPrecede(t, c)
    BY <2>1, <2>3, InTail
  <2> QED
    BY <2>2, <2>4
<1> QED
  BY <1>1, <1>2 DEF FramesOK, SceneProcessed

(* The record a frame is compared with: nothing of it changes, or a pop and  *)
(* an attempt change what no frame left on the stack asks for.               *)
LEMMA FrameKept ==
  ASSUME TypeOK, TypeOK', NEW b \in Frames, FrameOK(b),
         numRetries' = numRetries \/ ~Popped(b),
         nextId <= nextId',
         \A a \in Attempts : a < nextId => requestOf'[a].spell = requestOf[a].spell
  PROVE  FrameOK(b)'
<1>1. /\ numRetries \in Nat /\ numRetries' \in Nat /\ nextId \in Nat /\ nextId' \in Nat
      /\ b.id \in 0..MaxAttempts
  BY BoundAssumption, SizeAssumption DEF TypeOK, Frames
<1>2. Popped(b) => numRetries' >= b.req.retries
  BY DEF FrameOK
<1>3. ASSUME b.do \in {"Client", "SpellFailed", "Failed"}, b.id # 0
      PROVE  b.id < nextId' /\ b.req.spell = requestOf'[b.id].spell
  <2>1. b.id < nextId /\ b.req.spell = requestOf[b.id].spell
    BY <1>3 DEF FrameOK
  <2>2. b.id \in Attempts /\ b.id < nextId'
    BY <1>1, <1>3, <2>1, BoundAssumption DEF Attempts
  <2> QED
    BY <2>1, <2>2
<1>4. b.do \in CastFrames /\ b.req.from = "press" => b.req.of = 0 /\ b.req.retries = 0
  BY DEF FrameOK
<1>5. b.do \in {"PushRetry", "PushCooldown"} => b.req.spell \in NonGcd
  BY DEF FrameOK
<1> QED
  BY <1>2, <1>3, <1>4, <1>5 DEF FrameOK

(* A step that pushes the frames N and leaves the frames R on the stack.     *)
LEMMA Kept ==
  ASSUME IInv, TypeOK', usage' = usage /\ renewed' = renewed,
         NEW N, NEW R, In(todo)' = N \union R, R \subseteq In(todo), Ordered(todo)',
         \A b \in N : FrameOK(b)', \A b \in R : FrameOK(b)',
         ~usage.queueOnCooldown => ~cooldownNonGcd' /\ ~cooldownNormal',
         \A b \in N : b.do \in {"PushCooldown", "KeepCooldown"} => usage.queueOnCooldown,
         \A b \in N : InScene(b) => processed',
         \A b \in R : InScene(b) => processed',
         Flagged', QueuedOK', Untried', RetriesInherited'
  PROVE  IInv'
<1>1. FramesOK'
  BY DEF FramesOK
<1>2. NoCooldown'
  <2> SUFFICES ASSUME ~usage.queueOnCooldown
               PROVE  /\ ~cooldownNonGcd' /\ ~cooldownNormal'
                      /\ \A b \in N \union R : b.do \notin {"PushCooldown", "KeepCooldown"}
    BY DEF NoCooldown
  <2>1. ~cooldownNonGcd' /\ ~cooldownNormal'
    OBVIOUS
  <2>2. \A b \in R : b.do \notin {"PushCooldown", "KeepCooldown"}
    BY DEF IInv, NoCooldown
  <2> QED
    BY <2>1, <2>2
<1>3. SceneProcessed'
  BY DEF SceneProcessed
<1> QED
  BY <1>1, <1>2, <1>3 DEF IInv
------------------------------------------------------------------------------
(* The types, in the parts a step is looked at.                              *)
FlagsOK ==
  {nonGcdQueued, normalQueued, cooldownNonGcd, cooldownNormal, castEnd, delay, gcd,
   processed, noQueueCast, inLua} \subseteq BOOLEAN
RecordOK ==
  /\ waiting \subseteq {"normal", "nonGcd"}
  /\ numRetries \in 0..RetryLimit
  /\ nextId \in 1..(MaxAttempts + 1)
  /\ retriesOf \in [Attempts -> 0..RetryLimit]
  /\ requestOf \in [Attempts -> Requests]
  /\ fate \in [Attempts -> {"open", "refused", "barred", "sent", "started", "rejected"}]
  /\ usage \in Usages /\ presses \in 0..MaxPresses /\ renewed \in 1..nextId
QueuesOK == queue \in Seq(Requests) /\ Len(queue) <= QueueSize /\ normal \in Requests

LEMMA RequestFrames ==
  /\ NoRequest \in Requests
  /\ \A r \in Requests, a \in 0..MaxAttempts, k \in
       {"Enter", "ClearCooldown", "Decide", "SetNormal", "SetNonGcd", "Client", "SpellFailed",
        "Failed", "PushCooldown", "KeepCooldown", "PushRetry", "KeepRetry", "NonGcdPopped",
        "NonGcdDone", "NormalPopped", "NoQueueDone", "DropStale", "EndFrame"} :
       Do(k, r, a) \in Frames
  BY SizeAssumption, BoundAssumption DEF NoRequest, Request, Requests, Do, Frames

LEMMA ThenFrames ==
  ASSUME NEW k \in {"SetNormal", "SetNonGcd", "NonGcdPopped", "NonGcdDone", "NormalPopped",
                    "NoQueueDone", "DropStale", "EndFrame"},
         NEW a, a = Then(k)
  PROVE  /\ a \in Frames /\ a.do = k /\ ~Popped(a) /\ FrameOK(a) /\ FrameOK(a)'
         /\ a.do \notin {"PushCooldown", "KeepCooldown"}
<1>1. a.do = k /\ a.id = 0
  BY DEF Then, Do
<1>2. a \in Frames
  BY RequestFrames, BoundAssumption DEF Then
<1> QED
  BY <1>1, <1>2 DEF Popped, CastFrames, FrameOK

(* A step of one frame of the game, that moves on in its calls.              *)
LEMMA Moves ==
  ASSUME IInv, TypeOK', usage' = usage /\ renewed' = renewed, processed' = processed,
         NEW N, NEW R, In(todo)' = N \union R, R \subseteq In(todo), Ordered(todo)',
         numRetries' = numRetries \/ \A b \in R : ~Popped(b),
         nextId <= nextId',
         \A a \in Attempts : a < nextId => requestOf'[a].spell = requestOf[a].spell,
         \A b \in N : FrameOK(b)',
         \A b \in N : InScene(b) => processed,
         \A b \in N : b.do \in {"PushCooldown", "KeepCooldown"} => usage.queueOnCooldown,
         ~usage.queueOnCooldown => ~cooldownNonGcd' /\ ~cooldownNormal',
         Flagged', QueuedOK', Untried', RetriesInherited'
  PROVE  IInv'
<1>1. TypeOK /\ FramesOK /\ SceneProcessed
  BY DEF IInv
<1>2. R \subseteq Frames
  <2>1. todo \in Seq(Frames)
    BY <1>1 DEF TypeOK
  <2> QED
    BY <2>1 DEF In
<1>3. ASSUME NEW b \in R PROVE FrameOK(b)'
  <2>1. b \in Frames /\ FrameOK(b) /\ (numRetries' = numRetries \/ ~Popped(b))
    BY <1>1, <1>2 DEF FramesOK
  <2> QED
    BY <1>1, <2>1, FrameKept
<1>4. \A b \in R : InScene(b) => processed'
  BY <1>1 DEF SceneProcessed
<1>5. \A b \in N : InScene(b) => processed'
  OBVIOUS
<1> QED
  BY <1>3, <1>4, <1>5, Kept

(* One that leaves the record of attempts alone.                             *)
SameQueue(R) ==
  /\ queue' = queue
  /\ nonGcdQueued => nonGcdQueued'
  /\ \A b \in In(todo) : b.do = "SetNonGcd" => b \in R \/ nonGcdQueued'

LEMMA MovesOn ==
  ASSUME IInv, TypeOK',
         usage' = usage /\ renewed' = renewed, processed' = processed, numRetries' = numRetries,
         nextId' = nextId,
         requestOf' = requestOf, retriesOf' = retriesOf,
         cooldownNonGcd' => cooldownNonGcd, cooldownNormal' => cooldownNormal,
         NEW N, NEW R, In(todo)' = N \union R, R \subseteq In(todo), Ordered(todo)',
         fate' = fate \/ Untried', SameQueue(R) \/ (QueuedOK' /\ Flagged'),
         \A b \in N : FrameOK(b),
         \A b \in N : InScene(b) => processed,
         \A b \in N : b.do \notin {"PushCooldown", "KeepCooldown"}
  PROVE  IInv'
<1>1. TypeOK /\ NoCooldown /\ Flagged /\ QueuedOK /\ Untried /\ RetriesInherited
  BY DEF IInv
<1>2. \A b \in N : FrameOK(b)'
  BY DEF FrameOK
<1>3. ~usage.queueOnCooldown => ~cooldownNonGcd' /\ ~cooldownNormal'
  BY <1>1 DEF NoCooldown
<1>4. QueuedOK' /\ Flagged'
  <2> SUFFICES ASSUME SameQueue(R) PROVE QueuedOK' /\ Flagged'
    OBVIOUS
  <2> QED
    BY <1>1 DEF SameQueue, QueuedOK, Flagged
<1>5. Untried'
  <2> SUFFICES ASSUME fate' = fate PROVE Untried'
    OBVIOUS
  <2> QED
    BY <1>1 DEF Untried
<1>6. RetriesInherited'
  BY <1>1 DEF RetriesInherited
<1>7. nextId <= nextId' /\ \A a \in Attempts : a < nextId => requestOf'[a].spell = requestOf[a].spell
  BY <1>1 DEF TypeOK
<1>8. \A b \in N : b.do \in {"PushCooldown", "KeepCooldown"} => usage.queueOnCooldown
  OBVIOUS
<1>9. numRetries' = numRetries \/ \A b \in R : ~Popped(b)
  OBVIOUS
<1> QED
  BY <1>2, <1>3, <1>4, <1>5, <1>6, <1>7, <1>8, <1>9, Moves
------------------------------------------------------------------------------
(* What a step does to the call stack.                                       *)
LEMMA TopGone ==
  ASSUME IInv, todo # <<>>, NEW T, T = Tail(todo), todo' = T
  PROVE  /\ todo' \in Seq(Frames) /\ In(todo)' = {} \union In(T) /\ In(T) \subseteq In(todo)
         /\ Ordered(todo)'
<1>1. PICK t : t = Top
  OBVIOUS
<1>2. T \in Seq(Frames) /\ In(todo) = {t} \union In(T) /\ Ordered(T)
  BY <1>1, Stack
<1> QED
  BY <1>2

LEMMA TopReplaced ==
  ASSUME IInv, todo # <<>>, NEW T, T = Tail(todo), NEW a \in Frames, todo' = <<a>> \o T,
         a.do # "EndFrame", EndsPop(a) => EndsPop(Top)
  PROVE  /\ todo' \in Seq(Frames) /\ In(todo)' = {a} \union In(T) /\ In(T) \subseteq In(todo)
         /\ Ordered(todo)'
<1>1. PICK t : t = Top
  OBVIOUS
<1>2. /\ T \in Seq(Frames) /\ In(todo) = {t} \union In(T) /\ Ordered(T)
      /\ \A c \in In(T) : MayPrecede(t, c)
  BY <1>1, Stack
<1>3. \A c \in In(T) : MayPrecede(a, c)
  BY <1>1, <1>2 DEF MayPrecede
<1>4. PICK u : u = <<a>> \o T
  OBVIOUS
<1>5. u \in Seq(Frames) /\ In(u) = {a} \union In(T) /\ Ordered(u)
  BY <1>2, <1>3, <1>4, StackPush
<1> QED
  BY <1>2, <1>4, <1>5

LEMMA TopUnderTwo ==
  ASSUME IInv, todo # <<>>, NEW T, T = Tail(todo), NEW a \in Frames, NEW b \in Frames,
         todo' = <<a, b>> \o T,
         a.do # "EndFrame", ~EndsPop(a), b.do # "EndFrame", ~EndsPop(b)
  PROVE  /\ todo' \in Seq(Frames) /\ In(todo)' = {a, b} \union In(T) /\ In(T) \subseteq In(todo)
         /\ Ordered(todo)'
<1>1. PICK t : t = Top
  OBVIOUS
<1>2. T \in Seq(Frames) /\ In(todo) = {t} \union In(T) /\ Ordered(T)
  BY <1>1, Stack
<1>3. /\ \A c \in {b} \union In(T) : MayPrecede(a, c)
      /\ \A c \in In(T) : MayPrecede(b, c)
  BY DEF MayPrecede
<1>4. /\ <<a, b>> \o T \in Seq(Frames) /\ In(<<a, b>> \o T) = {a, b} \union In(T)
      /\ Ordered(<<a, b>> \o T)
  BY <1>2, <1>3, StackPair
<1> QED
  BY <1>2, <1>4

(* A frame of the stack is done, or gives way to the next one, and the       *)
(* record of attempts does not change.                                       *)
SameRecord ==
  /\ UNCHANGED <<usage, renewed, processed, numRetries, nextId, requestOf, retriesOf>>
  /\ cooldownNonGcd' => cooldownNonGcd
  /\ cooldownNormal' => cooldownNormal
  /\ fate' = fate \/ Untried'
QueueKept ==
  /\ queue' = queue
  /\ nonGcdQueued => nonGcdQueued'
  /\ Top.do = "SetNonGcd" => nonGcdQueued'

LEMMA DoneKeeps ==
  ASSUME IInv, QueuesOK', RecordOK', FlagsOK', todo # <<>>, todo' = Tail(todo),
         SameRecord, QueueKept \/ (QueuedOK' /\ Flagged')
  PROVE  IInv'
<1>1. PICK t, T : t = Top /\ T = Tail(todo)
  OBVIOUS
<1>2. In(todo) = {t} \union In(T)
  BY <1>1, Stack
<1>3. /\ todo' \in Seq(Frames) /\ In(todo)' = {} \union In(T) /\ In(T) \subseteq In(todo)
      /\ Ordered(todo)'
  BY <1>1, TopGone
<1>4. TypeOK'
  BY <1>3 DEF TypeOK, QueuesOK, FlagsOK, RecordOK
<1>5. SameQueue(In(T)) \/ (QueuedOK' /\ Flagged')
  <2> SUFFICES ASSUME QueueKept PROVE SameQueue(In(T))
    OBVIOUS
  <2> QED
    BY <1>1, <1>2 DEF QueueKept, SameQueue
<1>6. /\ usage' = usage /\ renewed' = renewed /\ processed' = processed
      /\ numRetries' = numRetries /\ nextId' = nextId
      /\ requestOf' = requestOf /\ retriesOf' = retriesOf
      /\ cooldownNonGcd' => cooldownNonGcd
      /\ cooldownNormal' => cooldownNormal
      /\ fate' = fate \/ Untried'
  BY DEF SameRecord
<1>7. PICK N : N = {}
  OBVIOUS
<1>8. /\ In(todo)' = N \union In(T)
      /\ \A b \in N : FrameOK(b)
      /\ \A b \in N : InScene(b) => processed
      /\ \A b \in N : b.do \notin {"PushCooldown", "KeepCooldown"}
  BY <1>3, <1>7
<1> QED
  BY <1>3, <1>4, <1>5, <1>6, <1>8, MovesOn

LEMMA NextKeeps ==
  ASSUME IInv, QueuesOK', RecordOK', FlagsOK', todo # <<>>,
         NEW a \in Frames, todo' = <<a>> \o Tail(todo), FrameOK(a),
         a.do \notin {"PushCooldown", "KeepCooldown", "EndFrame"},
         EndsPop(a) => EndsPop(Top), InScene(a) => InScene(Top),
         SameRecord, QueueKept \/ (QueuedOK' /\ Flagged')
  PROVE  IInv'
<1>1. PICK t, T : t = Top /\ T = Tail(todo)
  OBVIOUS
<1>2. /\ todo' = <<a>> \o T
      /\ a.do # "EndFrame" /\ a.do \notin {"PushCooldown", "KeepCooldown"}
  BY <1>1
<1>3. In(todo) = {t} \union In(T) /\ (InScene(t) => processed)
  BY <1>1, Stack
<1>4. /\ todo' \in Seq(Frames) /\ In(todo)' = {a} \union In(T) /\ In(T) \subseteq In(todo)
      /\ Ordered(todo)'
  BY <1>1, <1>2, TopReplaced
<1>5. TypeOK'
  BY <1>4 DEF TypeOK, QueuesOK, FlagsOK, RecordOK
<1>6. SameQueue(In(T)) \/ (QueuedOK' /\ Flagged')
  <2> SUFFICES ASSUME QueueKept PROVE SameQueue(In(T))
    OBVIOUS
  <2> QED
    BY <1>1, <1>3 DEF QueueKept, SameQueue
<1>7. /\ usage' = usage /\ renewed' = renewed /\ processed' = processed
      /\ numRetries' = numRetries /\ nextId' = nextId
      /\ requestOf' = requestOf /\ retriesOf' = retriesOf
      /\ cooldownNonGcd' => cooldownNonGcd
      /\ cooldownNormal' => cooldownNormal
      /\ fate' = fate \/ Untried'
  BY DEF SameRecord
<1>8. PICK N : N = {a}
  OBVIOUS
<1>9. /\ In(todo)' = N \union In(T)
      /\ \A b \in N : FrameOK(b)
      /\ \A b \in N : InScene(b) => processed
      /\ \A b \in N : b.do \notin {"PushCooldown", "KeepCooldown"}
  BY <1>1, <1>2, <1>3, <1>4, <1>8
<1> QED
  BY <1>4, <1>5, <1>6, <1>7, <1>9, MovesOn
------------------------------------------------------------------------------
(* The steps, one by one.                                                    *)
LEMMA TopTyped ==
  ASSUME IInv, todo # <<>>
  PROVE  /\ Top \in Frames /\ Top.req \in Requests /\ Top.id \in 0..MaxAttempts /\ FrameOK(Top)
         /\ [Top.req EXCEPT !.retries = 0] \in Requests
<1>1. PICK t : t = Top
  OBVIOUS
<1>2. t \in Frames /\ FrameOK(t)
  BY <1>1, Stack
<1>3. t.req \in Requests /\ t.id \in 0..MaxAttempts
  BY <1>2 DEF Frames
<1>4. [t.req EXCEPT !.retries = 0] \in Requests
  BY <1>3, SizeAssumption DEF Requests
<1> QED
  BY <1>1, <1>2, <1>3, <1>4

Fates == {"open", "refused", "barred", "sent", "started", "rejected"}

LEMMA FateChanged ==
  ASSUME IInv, NEW i \in 0..MaxAttempts, i # 0 => i < nextId, NEW v \in Fates,
         fate' = [fate EXCEPT ![i] = v], nextId' = nextId
  PROVE  Untried' /\ fate' \in [Attempts -> Fates]
<1>1. fate \in [Attempts -> Fates] /\ nextId \in Nat /\ nextId # 0 /\ Untried
  BY BoundAssumption DEF IInv, TypeOK, Fates
<1>2. ASSUME NEW a \in Attempts, nextId <= a PROVE fate'[a] = "open"
  <2>1. a # i
    BY <1>1, <1>2, BoundAssumption DEF Attempts
  <2> QED
    BY <1>1, <1>2, <2>1 DEF Untried
<1> QED
  BY <1>1, <1>2 DEF Untried
LEMMA NoQueueDoneKeeps ==
  ASSUME IInv, NoQueueDone
  PROVE  IInv'
<1>1. todo # <<>> /\ todo' = Tail(todo)
  BY DEF NoQueueDone, At, Top, Goto, Signal
<1>2. SameRecord /\ QueueKept
  BY DEF NoQueueDone, At, Top, queues, timers, record, asked, SameRecord, QueueKept
<1>3. QueuesOK' /\ RecordOK'
  BY DEF NoQueueDone, QueuesOK, RecordOK, IInv, TypeOK, queues, timers, record, asked
<1>4. FlagsOK'
  <2>1. {nonGcdQueued, normalQueued, cooldownNonGcd, cooldownNormal, castEnd, delay, gcd,
         processed, noQueueCast}' \subseteq BOOLEAN
    BY DEF NoQueueDone, IInv, TypeOK, queues, timers
  <2>2. inLua' \in BOOLEAN
    BY DEF NoQueueDone, Goto
  <2> QED
    BY <2>1, <2>2 DEF FlagsOK
<1> QED
  BY <1>1, <1>2, <1>3, <1>4, DoneKeeps

LEMMA SetNormalKeeps ==
  ASSUME IInv, SetNormal
  PROVE  IInv'
<1>1. todo # <<>> /\ todo' = Tail(todo)
  BY DEF SetNormal, At, Top, Goto, Signal
<1>2. SameRecord /\ QueueKept
  BY DEF SetNormal, At, Top, queues, timers, record, asked, SameRecord, QueueKept
<1>3. QueuesOK' /\ RecordOK'
  BY DEF SetNormal, QueuesOK, RecordOK, IInv, TypeOK, queues, timers, record, asked
<1>4. FlagsOK'
  BY DEF SetNormal, FlagsOK, IInv, TypeOK, queues, timers, record, asked, Goto, Signal
<1> QED
  BY <1>1, <1>2, <1>3, <1>4, DoneKeeps

LEMMA SetNonGcdKeeps ==
  ASSUME IInv, SetNonGcd
  PROVE  IInv'
<1>1. todo # <<>> /\ todo' = Tail(todo)
  BY DEF SetNonGcd, At, Top, Goto, Signal
<1>2. SameRecord /\ QueueKept
  BY DEF SetNonGcd, At, Top, queues, timers, record, asked, SameRecord, QueueKept
<1>3. QueuesOK' /\ RecordOK'
  BY DEF SetNonGcd, QueuesOK, RecordOK, IInv, TypeOK, queues, timers, record, asked
<1>4. FlagsOK'
  BY DEF SetNonGcd, FlagsOK, IInv, TypeOK, queues, timers, record, asked, Goto, Signal
<1> QED
  BY <1>1, <1>2, <1>3, <1>4, DoneKeeps

LEMMA IgnoreFailureKeeps ==
  ASSUME IInv, IgnoreFailure
  PROVE  IInv'
<1>1. todo # <<>> /\ todo' = Tail(todo)
  BY DEF IgnoreFailure, At, Top, Goto, Signal
<1>2. SameRecord /\ QueueKept
  BY DEF IgnoreFailure, At, Top, queues, timers, record, asked, SameRecord, QueueKept
<1>3. QueuesOK' /\ RecordOK'
  BY DEF IgnoreFailure, QueuesOK, RecordOK, IInv, TypeOK, queues, timers, record, asked
<1>4. FlagsOK'
  BY DEF IgnoreFailure, FlagsOK, IInv, TypeOK, queues, timers, record, asked, Goto, Signal
<1> QED
  BY <1>1, <1>2, <1>3, <1>4, DoneKeeps

LEMMA RefuseKeeps ==
  ASSUME IInv, Refuse
  PROVE  IInv'
<1>1. todo # <<>> /\ todo' = Tail(todo)
  BY DEF Refuse, At, Top, Goto, Signal
<1>2. SameRecord /\ QueueKept
  BY DEF Refuse, At, Top, queues, timers, record, asked, SameRecord, QueueKept
<1>3. QueuesOK'
  <2>1. normal' \in Requests
    BY <1>1, TopTyped DEF Refuse, Remember, IInv, TypeOK
  <2> QED
    BY <2>1 DEF Refuse, QueuesOK, IInv, TypeOK
<1>4. FlagsOK'
  <2>1. {nonGcdQueued, normalQueued, cooldownNonGcd, cooldownNormal, castEnd, delay, processed,
         noQueueCast}' \subseteq BOOLEAN
    BY DEF Refuse, IInv, TypeOK, queues, timers, record, asked
  <2>2. gcd \in BOOLEAN
    BY DEF IInv, TypeOK
  <2>3. gcd' \in BOOLEAN
    BY <2>2 DEF Refuse
  <2>4. inLua' \in BOOLEAN
    BY DEF Refuse, Goto
  <2> QED
    BY <2>1, <2>3, <2>4 DEF FlagsOK
<1>5. RecordOK'
  BY DEF Refuse, RecordOK, IInv, TypeOK, timers, record, asked
<1> QED
  BY <1>1, <1>2, <1>3, <1>4, <1>5, DoneKeeps

LEMMA KeepCooldownKeeps ==
  ASSUME IInv, KeepCooldown
  PROVE  IInv'
<1>1. todo # <<>> /\ todo' = Tail(todo)
  BY DEF KeepCooldown, At, Top, Goto, Signal
<1>2. SameRecord /\ QueueKept
  BY DEF KeepCooldown, At, Top, queues, timers, record, asked, SameRecord, QueueKept
<1>3. QueuesOK'
  <2>1. normal' \in Requests
    BY <1>1, TopTyped DEF KeepCooldown, IInv, TypeOK
  <2> QED
    BY <2>1 DEF KeepCooldown, QueuesOK, IInv, TypeOK
<1>4. FlagsOK'
  BY DEF KeepCooldown, FlagsOK, IInv, TypeOK, queues, timers, record, asked, Goto, Signal
<1>5. RecordOK'
  BY DEF KeepCooldown, RecordOK, IInv, TypeOK, timers, record, asked
<1> QED
  BY <1>1, <1>2, <1>3, <1>4, <1>5, DoneKeeps

LEMMA KeepRetryKeeps ==
  ASSUME IInv, KeepRetry
  PROVE  IInv'
<1>1. todo # <<>> /\ todo' = Tail(todo)
  BY DEF KeepRetry, At, Top, Goto, Signal
<1>2. SameRecord /\ QueueKept
  BY DEF KeepRetry, At, Top, queues, timers, record, asked, SameRecord, QueueKept
<1>3. QueuesOK'
  <2>1. normal' \in Requests
    BY <1>1, TopTyped DEF KeepRetry, IInv, TypeOK
  <2> QED
    BY <2>1 DEF KeepRetry, QueuesOK, IInv, TypeOK
<1>4. FlagsOK'
  BY DEF KeepRetry, FlagsOK, IInv, TypeOK, queues, timers, record, asked, Goto, Signal
<1>5. RecordOK'
  BY DEF KeepRetry, RecordOK, IInv, TypeOK, timers, record, asked
<1> QED
  BY <1>1, <1>2, <1>3, <1>4, <1>5, DoneKeeps

LEMMA ClientSendsKeeps ==
  ASSUME IInv, ClientSends
  PROVE  IInv'
<1>1. todo # <<>> /\ todo' = Tail(todo) /\ Top.do = "Client" /\ nextId' = nextId
  BY DEF ClientSends, ClientCalled, At, Top, Signal, record
<1>2. PICK i : i = Top.id
  OBVIOUS
<1>3. i \in 0..MaxAttempts /\ (i # 0 => i < nextId)
  BY <1>1, <1>2, TopTyped DEF FrameOK
<1>4. PICK v : v = "sent"
  OBVIOUS
<1>5. fate' = [fate EXCEPT ![i] = v]
  BY <1>2, <1>4 DEF ClientSends
<1>6. Untried' /\ fate' \in [Attempts -> Fates]
  <2>1. CASE v \in Fates
    BY <1>1, <1>3, <1>5, <2>1, FateChanged
  <2>2. CASE v \notin Fates
    <3>1. fate \in [Attempts -> Fates] /\ i \notin Attempts
      BY <1>4, <2>2 DEF IInv, TypeOK, Fates
    <3>2. fate' = fate
      BY <1>5, <3>1
    <3> QED
      BY <1>1, <3>1, <3>2 DEF IInv, Untried
  <2> QED
    BY <2>1, <2>2
<1>7. SameRecord /\ QueueKept
  BY <1>1, <1>6 DEF ClientSends, queues, timers, record, asked, SameRecord, QueueKept
<1>8. QueuesOK' /\ RecordOK'
  BY <1>6 DEF ClientSends, QueuesOK, RecordOK, IInv, TypeOK, Fates, queues, timers, record, asked
<1>9. FlagsOK'
  BY DEF ClientSends, FlagsOK, IInv, TypeOK, queues, timers, record, asked, Goto, Signal
<1> QED
  BY <1>1, <1>7, <1>8, <1>9, DoneKeeps

LEMMA ClientReturnsKeeps ==
  ASSUME IInv, ClientReturns
  PROVE  IInv'
<1>1. todo # <<>> /\ todo' = Tail(todo) /\ Top.do = "Client" /\ nextId' = nextId
  BY DEF ClientReturns, At, Top, Signal, record
<1>2. PICK i : i = Top.id
  OBVIOUS
<1>3. i \in 0..MaxAttempts /\ (i # 0 => i < nextId)
  BY <1>1, <1>2, TopTyped DEF FrameOK
<1>4. PICK v : v = IF fate[i] = "open" THEN "refused" ELSE fate[i]
  OBVIOUS
<1>5. fate' = [fate EXCEPT ![i] = v]
  BY <1>2, <1>4 DEF ClientReturns
<1>6. Untried' /\ fate' \in [Attempts -> Fates]
  <2>1. CASE v \in Fates
    BY <1>1, <1>3, <1>5, <2>1, FateChanged
  <2>2. CASE v \notin Fates
    <3>1. fate \in [Attempts -> Fates] /\ i \notin Attempts
      BY <1>4, <2>2 DEF IInv, TypeOK, Fates
    <3>2. fate' = fate
      BY <1>5, <3>1
    <3> QED
      BY <1>1, <3>1, <3>2 DEF IInv, Untried
  <2> QED
    BY <2>1, <2>2
<1>7. SameRecord /\ QueueKept
  BY <1>1, <1>6 DEF ClientReturns, queues, timers, record, asked, SameRecord, QueueKept
<1>8. QueuesOK' /\ RecordOK'
  BY <1>6 DEF ClientReturns, QueuesOK, RecordOK, IInv, TypeOK, Fates, queues, timers, record, asked
<1>9. FlagsOK'
  BY DEF ClientReturns, FlagsOK, IInv, TypeOK, queues, timers, record, asked, Goto, Signal
<1> QED
  BY <1>1, <1>7, <1>8, <1>9, DoneKeeps

LEMMA NonGcdPoppedKeeps ==
  ASSUME IInv, NonGcdPopped
  PROVE  IInv'
<1>1. PICK a : a = Then("NonGcdDone")
  OBVIOUS
<1>2. a \in Frames /\ a.do = "NonGcdDone" /\ FrameOK(a)
  BY <1>1, ThenFrames
<1>3. todo # <<>> /\ todo' = <<a>> \o Tail(todo) /\ Top.do = "NonGcdPopped"
  BY <1>1 DEF NonGcdPopped, At, Top, Signal
<1>4. EndsPop(Top) /\ InScene(Top) /\ a.do \notin {"PushCooldown", "KeepCooldown", "EndFrame"}
  BY <1>2, <1>3 DEF EndsPop, InScene
<1>5. SameRecord /\ QueueKept
  BY <1>3 DEF NonGcdPopped, queues, timers, record, asked, SameRecord, QueueKept
<1>6. QueuesOK' /\ RecordOK'
  BY DEF NonGcdPopped, QueuesOK, RecordOK, IInv, TypeOK, queues, timers, record, asked
<1>7. FlagsOK'
  BY DEF NonGcdPopped, FlagsOK, IInv, TypeOK, queues, timers, record, asked, Signal
<1> QED
  BY <1>2, <1>3, <1>4, <1>5, <1>6, <1>7, NextKeeps

LEMMA QueueNormalKeeps ==
  ASSUME IInv, QueueNormal
  PROVE  IInv'
<1>1. PICK a : a = Then("SetNormal")
  OBVIOUS
<1>2. a \in Frames /\ a.do = "SetNormal" /\ FrameOK(a)
  BY <1>1, ThenFrames
<1>3. todo # <<>> /\ todo' = <<a>> \o Tail(todo) /\ Top.do = "Decide"
  BY <1>1 DEF QueueNormal, At, Top, Signal
<1>4. /\ ~EndsPop(a) /\ InScene(Top)
      /\ a.do \notin {"PushCooldown", "KeepCooldown", "EndFrame"}
  BY <1>2, <1>3 DEF EndsPop, InScene
<1>5. SameRecord /\ QueueKept
  BY <1>3 DEF QueueNormal, queues, timers, record, asked, SameRecord, QueueKept
<1>6. QueuesOK'
  <2>1. normal' \in Requests
    BY <1>3, TopTyped DEF QueueNormal, Remember, IInv, TypeOK
  <2> QED
    BY <2>1 DEF QueueNormal, QueuesOK, IInv, TypeOK
<1>7. FlagsOK'
  BY DEF QueueNormal, FlagsOK, IInv, TypeOK, queues, timers, record, asked, Signal
<1>8. RecordOK'
  BY DEF QueueNormal, RecordOK, IInv, TypeOK, timers, record, asked
<1> QED
  BY <1>2, <1>3, <1>4, <1>5, <1>6, <1>7, <1>8, NextKeeps

LEMMA SpellFailedKeeps ==
  ASSUME IInv, SpellFailed
  PROVE  IInv'
<1>1. PICK t, a : t = Top /\ a = [t EXCEPT !.do = "Failed"]
  OBVIOUS
<1>2. todo # <<>> /\ todo' = <<a>> \o Tail(todo) /\ t.do = "SpellFailed"
  BY <1>1 DEF SpellFailed, At, Top, Signal
<1>3. t \in Frames /\ FrameOK(t)
  BY <1>1, <1>2, TopTyped
<1>4. a \in Frames /\ a.do = "Failed" /\ a.req = t.req /\ a.id = t.id
  BY <1>1, <1>3 DEF Frames
<1>5. FrameOK(a) /\ ~EndsPop(a) /\ ~InScene(a)
  BY <1>2, <1>3, <1>4 DEF FrameOK, EndsPop, InScene, Popped, CastFrames
<1>6. a.do \notin {"PushCooldown", "KeepCooldown", "EndFrame"}
  BY <1>4
<1>7. SameRecord /\ QueueKept
  BY <1>1, <1>2 DEF SpellFailed, queues, record, asked, SameRecord, QueueKept
<1>8. QueuesOK' /\ RecordOK'
  BY DEF SpellFailed, QueuesOK, RecordOK, IInv, TypeOK, queues, timers, record, asked
<1>9. FlagsOK'
  BY DEF SpellFailed, FlagsOK, IInv, TypeOK, queues, timers, record, asked, Signal
<1> QED
  BY <1>2, <1>4, <1>5, <1>6, <1>7, <1>8, <1>9, NextKeeps

(* What no frame on the stack needs any more: the number of retries of the   *)
(* pop that ends.                                                            *)
LEMMA PopEndKeeps ==
  ASSUME IInv, QueuesOK', RecordOK', FlagsOK', todo # <<>>, todo' = Tail(todo), EndsPop(Top),
         UNCHANGED <<usage, renewed, processed, nextId, requestOf, retriesOf, fate, queue,
                     cooldownNonGcd, cooldownNormal>>,
         Flagged'
  PROVE  IInv'
<1>1. PICK t, T, N : t = Top /\ T = Tail(todo) /\ N = {}
  OBVIOUS
<1>2. TypeOK /\ NoCooldown /\ QueuedOK /\ Untried /\ RetriesInherited
  BY DEF IInv
<1>3. /\ todo' \in Seq(Frames) /\ In(todo)' = {} \union In(T) /\ In(T) \subseteq In(todo)
      /\ Ordered(todo)'
  BY <1>1, TopGone
<1>4. \A b \in In(T) : ~Popped(b)
  BY <1>1, Stack DEF MayPrecede
<1>5. TypeOK'
  BY <1>3 DEF TypeOK, QueuesOK, FlagsOK, RecordOK
<1>6. usage' = usage /\ renewed' = renewed /\ processed' = processed
  OBVIOUS
<1>7. nextId <= nextId' /\ \A a \in Attempts : a < nextId => requestOf'[a].spell = requestOf[a].spell
  BY <1>2 DEF TypeOK
<1>8. /\ In(todo)' = N \union In(T)
      /\ \A b \in N : FrameOK(b)'
      /\ \A b \in N : InScene(b) => processed
      /\ \A b \in N : b.do \in {"PushCooldown", "KeepCooldown"} => usage.queueOnCooldown
  BY <1>1, <1>3
<1>9. ~usage.queueOnCooldown => ~cooldownNonGcd' /\ ~cooldownNormal'
  BY <1>2 DEF NoCooldown
<1>10. QueuedOK' /\ Untried' /\ RetriesInherited'
  BY <1>2 DEF QueuedOK, Untried, RetriesInherited
<1>11. numRetries' = numRetries \/ \A b \in In(T) : ~Popped(b)
  BY <1>4
<1> QED
  BY <1>3, <1>5, <1>6, <1>7, <1>8, <1>9, <1>10, <1>11, Moves

LEMMA NonGcdDoneKeeps ==
  ASSUME IInv, NonGcdDone
  PROVE  IInv'
<1>1. todo # <<>> /\ todo' = Tail(todo) /\ EndsPop(Top)
  BY DEF NonGcdDone, DoneQueued, At, Top, Goto, EndsPop
<1>2. UNCHANGED <<usage, renewed, processed, nextId, requestOf, retriesOf, fate, queue,
                  cooldownNonGcd, cooldownNormal>>
  BY DEF NonGcdDone, DoneQueued, record, asked
<1>3. nonGcdQueued' = (queue # <<>>) /\ queue' = queue
  BY DEF NonGcdDone, DoneQueued
<1>4. Flagged'
  BY <1>3 DEF Flagged
<1>5. QueuesOK' /\ RecordOK'
  BY SizeAssumption
     DEF NonGcdDone, DoneQueued, QueuesOK, RecordOK, IInv, TypeOK, timers, record, asked
<1>6. FlagsOK'
  <2>1. {normalQueued, cooldownNonGcd, cooldownNormal, castEnd, delay, gcd, processed,
         noQueueCast}' \subseteq BOOLEAN
    BY DEF NonGcdDone, DoneQueued, IInv, TypeOK, timers
  <2>2. nonGcdQueued' \in BOOLEAN
    BY <1>3
  <2>3. inLua' \in BOOLEAN
    BY DEF NonGcdDone, DoneQueued, Goto
  <2> QED
    BY <2>1, <2>2, <2>3 DEF FlagsOK
<1> QED
  BY <1>1, <1>2, <1>4, <1>5, <1>6, PopEndKeeps

LEMMA NormalPoppedKeeps ==
  ASSUME IInv, NormalPopped
  PROVE  IInv'
<1>1. todo # <<>> /\ todo' = Tail(todo) /\ EndsPop(Top) /\ Top.do = "NormalPopped"
  BY DEF NormalPopped, At, Top, Signal, EndsPop
<1>2. UNCHANGED <<usage, renewed, processed, nextId, requestOf, retriesOf, fate, queue, nonGcdQueued,
                  cooldownNonGcd, cooldownNormal>>
  BY DEF NormalPopped, queues, record, asked
<1>3. Flagged'
  <2>1. PICK t, T : t = Top /\ T = Tail(todo)
    OBVIOUS
  <2>2. In(todo) = {t} \union In(T) /\ In(todo)' = {} \union In(T) /\ t.do # "SetNonGcd"
    BY <1>1, <2>1, Stack, TopGone
  <2> QED
    BY <1>2, <2>2 DEF IInv, Flagged
<1>4. QueuesOK' /\ RecordOK'
  BY SizeAssumption
     DEF NormalPopped, QueuesOK, RecordOK, IInv, TypeOK, queues, timers, record, asked
<1>5. FlagsOK'
  BY DEF NormalPopped, FlagsOK, IInv, TypeOK, queues, timers, record, asked, Signal
<1> QED
  BY <1>1, <1>2, <1>3, <1>4, <1>5, PopEndKeeps

LEMMA ClientRefusesKeeps ==
  ASSUME IInv, ClientRefuses
  PROVE  IInv'
<1>1. PICK t, T, i, a : t = Top /\ T = Tail(todo) /\ i = t.id /\ a = Do("SpellFailed", t.req, i)
  OBVIOUS
<1>2. /\ todo # <<>> /\ todo' = <<a, t>> \o T /\ t.do = "Client" /\ nextId' = nextId
  BY <1>1 DEF ClientRefuses, ClientCalled, At, Top, Signal
<1>3. t \in Frames /\ FrameOK(t) /\ t.req \in Requests /\ i \in 0..MaxAttempts
  BY <1>1, <1>2, TopTyped
<1>4. a \in Frames /\ a.do = "SpellFailed" /\ a.req = t.req /\ a.id = i
  BY <1>1, <1>3, RequestFrames DEF Do
<1>5. FrameOK(a) /\ ~EndsPop(a) /\ ~InScene(a)
  BY <1>1, <1>2, <1>3, <1>4 DEF FrameOK, EndsPop, InScene, Popped, CastFrames
<1>6. ~EndsPop(t) /\ ~InScene(t)
  BY <1>2 DEF EndsPop, InScene, Popped, CastFrames
<1>7. /\ todo' \in Seq(Frames) /\ In(todo)' = {a, t} \union In(T) /\ In(T) \subseteq In(todo)
      /\ Ordered(todo)'
  BY <1>1, <1>2, <1>3, <1>4, <1>5, <1>6, TopUnderTwo
<1>8. Untried' /\ fate' \in [Attempts -> Fates]
  <2>1. PICK v : v = IF fate[i] = "open" THEN "refused" ELSE "barred"
    OBVIOUS
  <2>2. v \in Fates /\ fate' = [fate EXCEPT ![i] = v]
    BY <1>1, <2>1 DEF ClientRefuses, Fates
  <2>3. i # 0 => i < nextId
    BY <1>1, <1>2, <1>3 DEF FrameOK
  <2> QED
    BY <1>2, <1>3, <2>2, <2>3, FateChanged
<1>9. TypeOK'
  <2>1. QueuesOK' /\ RecordOK'
    BY <1>8 DEF ClientRefuses, QueuesOK, RecordOK, IInv, TypeOK, Fates, queues, timers, asked
  <2>2. FlagsOK'
    BY DEF ClientRefuses, FlagsOK, IInv, TypeOK, queues, timers, Signal
  <2> QED
    BY <1>7, <2>1, <2>2 DEF TypeOK, QueuesOK, FlagsOK, RecordOK
<1>10. In(todo) = {t} \union In(T)
  BY <1>1, <1>2, Stack
<1>11. SameQueue(In(T))
  BY <1>2, <1>10 DEF ClientRefuses, queues, SameQueue
<1>12. /\ usage' = usage /\ renewed' = renewed /\ processed' = processed
       /\ numRetries' = numRetries /\ nextId' = nextId
       /\ requestOf' = requestOf /\ retriesOf' = retriesOf
       /\ cooldownNonGcd' = cooldownNonGcd
       /\ cooldownNormal' = cooldownNormal
  BY DEF ClientRefuses, queues, asked
<1>13. PICK N : N = {a, t}
  OBVIOUS
<1>14. /\ In(todo)' = N \union In(T)
       /\ \A b \in N : FrameOK(b)
       /\ \A b \in N : InScene(b) => processed
       /\ \A b \in N : b.do \notin {"PushCooldown", "KeepCooldown"}
  BY <1>2, <1>3, <1>4, <1>5, <1>6, <1>7, <1>13
<1> QED
  BY <1>7, <1>8, <1>9, <1>11, <1>12, <1>14, MovesOn

LEMMA PushQueues ==
  ASSUME IInv, NEW p \in Requests, p.spell \in NonGcd, Push(p)
  PROVE  queue' \in Seq(Requests) /\ Len(queue') <= QueueSize /\ QueuedOK'
<1>1. PICK E, u : E = Requests /\ u = Pushed(queue, p, QueueSize)
  OBVIOUS
<1>2. queue \in Seq(E) /\ Len(queue) <= QueueSize /\ p \in E /\ QueueSize \in Nat \ {0}
  BY <1>1, SizeAssumption DEF IInv, TypeOK
<1>3. u \in Seq(E) /\ u # <<>> /\ Len(u) <= QueueSize /\ In(u) \subseteq {p} \union In(queue)
  BY <1>1, <1>2, InPushed
<1>4. queue' = u
  BY <1>1 DEF Push
<1>5. \A q \in In(u) : q.spell \in NonGcd
  BY <1>3 DEF IInv, QueuedOK
<1> QED
  BY <1>1, <1>3, <1>4, <1>5 DEF QueuedOK

LEMMA PushCooldownKeeps ==
  ASSUME IInv, PushCooldown
  PROVE  IInv'
<1>1. PICK t, T, p : t = Top /\ T = Tail(todo) /\ p = t.req
  OBVIOUS
<1>2. todo # <<>> /\ todo' = Tail(todo) /\ t.do = "PushCooldown" /\ Push(p)
  BY <1>1 DEF PushCooldown, At, Top, Goto
<1>3. p \in Requests /\ p.spell \in NonGcd
  BY <1>1, <1>2, TopTyped DEF FrameOK
<1>4. queue' \in Seq(Requests) /\ Len(queue') <= QueueSize /\ QueuedOK'
  BY <1>2, <1>3, PushQueues
<1>5. usage.queueOnCooldown
  <2>1. t \in In(todo)
    BY <1>1, <1>2, Stack
  <2> QED
    BY <1>2, <2>1 DEF IInv, NoCooldown
<1>6. Flagged'
  BY <1>5 DEF Flagged, PushCooldown, asked
<1>7. SameRecord
  BY DEF PushCooldown, record, asked, SameRecord
<1>8. QueuesOK' /\ RecordOK'
  BY <1>4 DEF PushCooldown, QueuesOK, RecordOK, IInv, TypeOK, timers, record, asked
<1>9. FlagsOK'
  BY DEF PushCooldown, FlagsOK, IInv, TypeOK, timers, Goto
<1> QED
  BY <1>2, <1>4, <1>6, <1>7, <1>8, <1>9, DoneKeeps

LEMMA PushRetryKeeps ==
  ASSUME IInv, PushRetry
  PROVE  IInv'
<1>1. PICK t, T, p : t = Top /\ T = Tail(todo) /\ p = t.req
  OBVIOUS
<1>2. todo # <<>> /\ todo' = Tail(todo) /\ t.do = "PushRetry" /\ Push(p)
  BY <1>1 DEF PushRetry, At, Top, Goto
<1>3. p \in Requests /\ p.spell \in NonGcd
  BY <1>1, <1>2, TopTyped DEF FrameOK
<1>4. queue' \in Seq(Requests) /\ Len(queue') <= QueueSize /\ QueuedOK'
  BY <1>2, <1>3, PushQueues
<1>5. Flagged'
  BY DEF Flagged, PushRetry
<1>6. SameRecord
  BY DEF PushRetry, record, asked, SameRecord
<1>7. QueuesOK' /\ RecordOK'
  BY <1>4 DEF PushRetry, QueuesOK, RecordOK, IInv, TypeOK, timers, record, asked
<1>8. FlagsOK'
  BY DEF PushRetry, FlagsOK, IInv, TypeOK, timers, Goto
<1> QED
  BY <1>2, <1>4, <1>5, <1>6, <1>7, <1>8, DoneKeeps

LEMMA QueueNonGcdKeeps ==
  ASSUME IInv, QueueNonGcd
  PROVE  IInv'
<1>1. PICK t, p, a : t = Top /\ p = [t.req EXCEPT !.retries = 0] /\ a = Then("SetNonGcd")
  OBVIOUS
<1>2. todo # <<>> /\ t.do = "Decide" /\ t.req.spell \in NonGcd
  BY <1>1 DEF QueueNonGcd, At, Top
<1>3. p \in Requests /\ p.spell \in NonGcd
  BY <1>1, <1>2, TopTyped DEF Requests
<1>4. SameRecord /\ nonGcdQueued' = nonGcdQueued
  BY DEF QueueNonGcd, record, asked, SameRecord
<1>5. RecordOK'
  BY DEF QueueNonGcd, RecordOK, IInv, TypeOK, timers, record, asked
<1>6. FlagsOK'
  <2>1. {nonGcdQueued, normalQueued, cooldownNonGcd, cooldownNormal, castEnd, delay, gcd, processed,
         noQueueCast}' \subseteq BOOLEAN
    BY DEF QueueNonGcd, IInv, TypeOK, timers
  <2>2. inLua' \in BOOLEAN
    BY DEF QueueNonGcd, Goto, Signal
  <2> QED
    BY <2>1, <2>2 DEF FlagsOK
<1>7. CASE queue' = queue /\ todo' = Tail(todo)
  <2>1. QueueKept
    BY <1>1, <1>2, <1>4, <1>7 DEF QueueKept
  <2>2. QueuesOK'
    BY <1>7 DEF QueueNonGcd, QueuesOK, IInv, TypeOK
  <2> QED
    BY <1>2, <1>4, <1>5, <1>6, <1>7, <2>1, <2>2, DoneKeeps
<1>8. CASE Push(p) /\ todo' = <<a>> \o Tail(todo)
  <2>1. queue' \in Seq(Requests) /\ Len(queue') <= QueueSize /\ QueuedOK'
    BY <1>3, <1>8, PushQueues
  <2>2. a \in Frames /\ a.do = "SetNonGcd" /\ FrameOK(a)
    BY <1>1, ThenFrames
  <2>3. /\ ~EndsPop(a) /\ InScene(Top)
        /\ a.do \notin {"PushCooldown", "KeepCooldown", "EndFrame"}
    BY <1>1, <1>2, <2>2 DEF EndsPop, InScene
  <2>4. Flagged'
    <3>1. PICK T : T = Tail(todo)
      OBVIOUS
    <3>2. In(todo)' = {a} \union In(T)
      BY <1>2, <1>8, <2>2, <2>3, <3>1, TopReplaced
    <3> QED
      BY <2>2, <3>2 DEF Flagged
  <2>5. QueuesOK'
    BY <2>1 DEF QueueNonGcd, QueuesOK, IInv, TypeOK
  <2> QED
    BY <1>2, <1>4, <1>5, <1>6, <1>8, <2>1, <2>2, <2>3, <2>4, <2>5, NextKeeps
<1> QED
  BY <1>1, <1>7, <1>8 DEF QueueNonGcd, Goto, Signal

LEMMA ClearCooldownKeeps ==
  ASSUME IInv, ClearCooldown
  PROVE  IInv'
<1>1. PICK t, a : t = Top /\ a = [t EXCEPT !.do = "Decide"]
  OBVIOUS
<1>2. todo # <<>> /\ todo' = <<a>> \o Tail(todo) /\ t.do = "ClearCooldown"
  BY <1>1 DEF ClearCooldown, At, Top, Signal, Goto
<1>3. t \in Frames /\ FrameOK(t)
  BY <1>1, <1>2, TopTyped
<1>4. a \in Frames /\ a.do = "Decide" /\ a.req = t.req /\ a.id = t.id
  BY <1>1, <1>3 DEF Frames
<1>5. FrameOK(a) /\ ~EndsPop(a) /\ InScene(t)
  BY <1>2, <1>3, <1>4 DEF FrameOK, EndsPop, InScene, Popped, CastFrames
<1>6. a.do \notin {"PushCooldown", "KeepCooldown", "EndFrame"}
  BY <1>4
<1>7. UNCHANGED <<usage, renewed, processed, numRetries, nextId, requestOf, retriesOf, fate, normal,
                  nonGcdQueued>>
  BY DEF ClearCooldown, record, asked
<1>8. (cooldownNonGcd' => cooldownNonGcd) /\ (cooldownNormal' => cooldownNormal)
  BY DEF ClearCooldown
<1>9. SameRecord
  BY <1>7, <1>8 DEF SameRecord
<1>10. RecordOK'
  BY DEF ClearCooldown, RecordOK, IInv, TypeOK, timers, record, asked
<1>11. FlagsOK'
  <2>1. {nonGcdQueued, normalQueued, castEnd, delay, gcd, processed, noQueueCast}' \subseteq BOOLEAN
    BY DEF ClearCooldown, IInv, TypeOK, timers
  <2>2. cooldownNonGcd' \in BOOLEAN /\ cooldownNormal' \in BOOLEAN
    BY DEF ClearCooldown, IInv, TypeOK
  <2>3. inLua' \in BOOLEAN
    BY DEF ClearCooldown, Goto, Signal
  <2> QED
    BY <2>1, <2>2, <2>3 DEF FlagsOK
<1>12. CASE queue' = queue
  <2>1. QueueKept
    BY <1>1, <1>2, <1>7, <1>12 DEF QueueKept
  <2>2. QueuesOK'
    BY <1>7, <1>12 DEF QueuesOK, IInv, TypeOK
  <2> QED
    BY <1>1, <1>2, <1>4, <1>5, <1>6, <1>9, <1>10, <1>11, <2>1, <2>2, NextKeeps
<1>13. CASE cooldownNonGcd /\ queue # <<>> /\ queue' = Tail(queue)
  <2>1. PICK E, u : E = Requests /\ u = Tail(queue)
    OBVIOUS
  <2>2. queue \in Seq(E) /\ Len(queue) <= QueueSize
    BY <2>1 DEF IInv, TypeOK
  <2>3. u \in Seq(E) /\ Len(u) < Len(queue) /\ In(u) \subseteq In(queue)
    BY <1>13, <2>1, <2>2, TailIn
  <2>4. Len(u) <= QueueSize
    BY <2>2, <2>3, SizeAssumption
  <2>5. QueuedOK'
    BY <1>13, <2>1, <2>3 DEF IInv, QueuedOK
  <2>6. Flagged'
    BY <1>7, <1>13 DEF IInv, NoCooldown, Flagged
  <2>7. QueuesOK'
    BY <1>7, <1>13, <2>1, <2>3, <2>4 DEF QueuesOK, IInv, TypeOK
  <2> QED
    BY <1>1, <1>2, <1>4, <1>5, <1>6, <1>9, <1>10, <1>11, <2>5, <2>6, <2>7, NextKeeps
<1> QED
  BY <1>12, <1>13 DEF ClearCooldown

LEMMA AgainRequest ==
  ASSUME IInv, NEW i \in Attempts, NEW r \in 0..RetryLimit
  PROVE  /\ Again(i) \in Requests /\ Again(i).spell = requestOf[i].spell /\ Again(i).of = i
         /\ Again(i).retries = retriesOf[i] /\ retriesOf[i] \in 0..RetryLimit
         /\ [Again(i) EXCEPT !.retries = r] \in Requests
         /\ [Again(i) EXCEPT !.retries = r].spell = requestOf[i].spell
         /\ [Again(i) EXCEPT !.retries = r].retries = r
         /\ [Again(i) EXCEPT !.retries = r].of = i
<1>1. PICK q, n : q = requestOf[i] /\ n = retriesOf[i]
  OBVIOUS
<1>2. q \in Requests /\ n \in 0..RetryLimit /\ i \in 0..MaxAttempts
  BY <1>1, BoundAssumption DEF IInv, TypeOK, Attempts
<1>3. PICK a : a = Again(i)
  OBVIOUS
<1>4. a = [q EXCEPT !.retries = n, !.of = i]
  BY <1>1, <1>3 DEF Again
<1>5. a \in Requests /\ a.spell = q.spell /\ a.of = i /\ a.retries = n
  BY <1>2, <1>4 DEF Requests
<1>6. PICK b : b = [a EXCEPT !.retries = r]
  OBVIOUS
<1>7. b \in Requests /\ b.spell = q.spell /\ b.retries = r /\ b.of = i
  BY <1>5, <1>6 DEF Requests
<1> QED
  BY <1>1, <1>2, <1>3, <1>5, <1>6, <1>7

LEMMA QueueForCooldownKeeps ==
  ASSUME IInv, QueueForCooldown
  PROVE  IInv'
<1>1. PICK t, T, i, p, k, a :
        /\ t = Top /\ T = Tail(todo) /\ i = t.id /\ p = Again(i)
        /\ k = IF t.req.spell \in NonGcd THEN "PushCooldown" ELSE "KeepCooldown"
        /\ a = Do(k, p, 0)
  OBVIOUS
<1>2. /\ todo # <<>> /\ todo' = <<a>> \o T /\ t.do = "Failed" /\ i # 0 /\ usage.queueOnCooldown
  BY <1>1 DEF QueueForCooldown, At, Top, Signal
<1>3. t \in Frames /\ FrameOK(t) /\ i \in 0..MaxAttempts
  BY <1>1, <1>2, TopTyped
<1>4. i \in Attempts /\ i < nextId /\ t.req.spell = requestOf[i].spell
  BY <1>1, <1>2, <1>3, BoundAssumption DEF Attempts, FrameOK
<1>5. p \in Requests /\ p.spell = t.req.spell
  <2>1. 0 \in 0..RetryLimit
    BY SizeAssumption
  <2>2. Again(i) \in Requests /\ Again(i).spell = requestOf[i].spell
    BY <1>4, <2>1, AgainRequest
  <2> QED
    BY <1>1, <1>4, <2>2
<1>6. a \in Frames /\ a.do \in {"PushCooldown", "KeepCooldown"} /\ a.req = p
      /\ (a.do = "PushCooldown" => t.req.spell \in NonGcd)
  <2>1. k \in {"PushCooldown", "KeepCooldown"} /\ (k = "PushCooldown" => t.req.spell \in NonGcd)
    BY <1>1
  <2>2. a.do = k /\ a.req = p
    BY <1>1 DEF Do
  <2>3. a \in Frames
    <3>1. 0 \in 0..MaxAttempts
      BY BoundAssumption
    <3>2. Do(k, p, 0) \in Frames
      BY <1>5, <2>1, <3>1, RequestFrames
    <3> QED
      BY <1>1, <3>2
  <2> QED
    BY <2>1, <2>2, <2>3
<1>7. FrameOK(a)' /\ ~EndsPop(a) /\ ~InScene(a) /\ a.do # "EndFrame"
  BY <1>5, <1>6 DEF FrameOK, EndsPop, InScene, Popped, CastFrames
<1>8. /\ todo' \in Seq(Frames) /\ In(todo)' = {a} \union In(T) /\ In(T) \subseteq In(todo)
      /\ Ordered(todo)'
  BY <1>1, <1>2, <1>6, <1>7, TopReplaced
<1>9. UNCHANGED <<usage, renewed, processed, queue, normal, numRetries, nextId, requestOf, retriesOf>>
  BY DEF QueueForCooldown, asked
<1>10. Untried' /\ fate' \in [Attempts -> Fates]
  <2>1. PICK v : v = IF fate[i] = "refused" THEN "barred" ELSE fate[i]
    OBVIOUS
  <2>2. v \in Fates /\ fate' = [fate EXCEPT ![i] = v]
    BY <1>1, <1>4, <2>1 DEF QueueForCooldown, Fates, IInv, TypeOK
  <2> QED
    BY <1>3, <1>4, <1>9, <2>2, FateChanged
<1>11. TypeOK'
  <2>1. waiting' \subseteq {"normal", "nonGcd"}
    BY DEF QueueForCooldown, IInv, TypeOK
  <2>2. QueuesOK' /\ RecordOK'
    BY <1>9, <1>10, <2>1 DEF QueueForCooldown, QueuesOK, RecordOK, IInv, TypeOK, Fates, asked
  <2>3. FlagsOK'
    BY DEF QueueForCooldown, FlagsOK, IInv, TypeOK, Signal
  <2> QED
    BY <1>8, <2>2, <2>3 DEF TypeOK, QueuesOK, FlagsOK, RecordOK
<1>12. Flagged'
  BY <1>2, <1>9 DEF Flagged
<1>13. QueuedOK' /\ RetriesInherited'
  BY <1>9 DEF IInv, QueuedOK, RetriesInherited
<1>14. nextId <= nextId' /\ \A b \in Attempts : b < nextId => requestOf'[b].spell = requestOf[b].spell
  BY <1>9 DEF IInv, TypeOK
<1>15. PICK N : N = {a}
  OBVIOUS
<1>16. /\ In(todo)' = N \union In(T)
       /\ \A b \in N : FrameOK(b)'
       /\ \A b \in N : InScene(b) => processed
       /\ \A b \in N : b.do \in {"PushCooldown", "KeepCooldown"} => usage.queueOnCooldown
  BY <1>2, <1>7, <1>8, <1>15
<1>17. ~usage.queueOnCooldown => ~cooldownNonGcd' /\ ~cooldownNormal'
  BY <1>2
<1>18. usage' = usage /\ renewed' = renewed /\ processed' = processed
       /\ (numRetries' = numRetries \/ \A b \in In(T) : ~Popped(b))
  BY <1>9
<1> QED
  BY <1>8, <1>10, <1>11, <1>12, <1>13, <1>14, <1>16, <1>17, <1>18, Moves

LEMMA QueueForRetryKeeps ==
  ASSUME IInv, QueueForRetry
  PROVE  IInv'
<1>1. PICK t, T, i, r, p, k, a :
        /\ t = Top /\ T = Tail(todo) /\ i = t.id /\ r = retriesOf[i] + 1
        /\ p = [Again(i) EXCEPT !.retries = r]
        /\ k = IF t.req.spell \in NonGcd THEN "PushRetry" ELSE "KeepRetry"
        /\ a = Do(k, p, 0)
  OBVIOUS
<1>2. todo # <<>> /\ t.do = "Failed" /\ i # 0 /\ retriesOf[i] < RetryLimit
  BY <1>1 DEF QueueForRetry, MayRetry, At, Top
<1>3. t \in Frames /\ FrameOK(t) /\ i \in 0..MaxAttempts
  BY <1>1, <1>2, TopTyped
<1>4. i \in Attempts /\ i < nextId /\ t.req.spell = requestOf[i].spell
  BY <1>1, <1>2, <1>3, BoundAssumption DEF Attempts, FrameOK
<1>5. /\ r \in 0..RetryLimit /\ p \in Requests /\ p.spell = t.req.spell
      /\ [Again(i) EXCEPT !.retries = @ + 1] = p
  <2>1. r \in 0..RetryLimit
    BY <1>1, <1>2, <1>4, SizeAssumption DEF IInv, TypeOK
  <2>2. /\ [Again(i) EXCEPT !.retries = r] \in Requests
        /\ [Again(i) EXCEPT !.retries = r].spell = requestOf[i].spell
        /\ Again(i).retries = retriesOf[i]
    BY <1>4, <2>1, AgainRequest
  <2> QED
    BY <1>1, <1>4, <2>1, <2>2
<1>6. a \in Frames /\ a.do \in {"PushRetry", "KeepRetry"} /\ a.req = p
      /\ (a.do = "PushRetry" => t.req.spell \in NonGcd)
  <2>1. k \in {"PushRetry", "KeepRetry"} /\ (k = "PushRetry" => t.req.spell \in NonGcd)
    BY <1>1
  <2>2. a.do = k /\ a.req = p
    BY <1>1 DEF Do
  <2>3. a \in Frames
    <3>1. 0 \in 0..MaxAttempts
      BY BoundAssumption
    <3>2. Do(k, p, 0) \in Frames
      BY <1>5, <2>1, <3>1, RequestFrames
    <3> QED
      BY <1>1, <3>2
  <2> QED
    BY <2>1, <2>2, <2>3
<1>7. FrameOK(a)' /\ ~EndsPop(a) /\ ~InScene(a) /\ a.do # "EndFrame"
  BY <1>5, <1>6 DEF FrameOK, EndsPop, InScene, Popped, CastFrames
<1>8. todo' = T \/ todo' = <<a>> \o T
  BY <1>1, <1>2, <1>5 DEF QueueForRetry, Goto, Signal, Top
<1>9. PICK N :
        /\ N \subseteq {a} /\ todo' \in Seq(Frames) /\ In(todo)' = N \union In(T)
        /\ In(T) \subseteq In(todo) /\ Ordered(todo)'
  <2>1. CASE todo' = T
    <3>1. /\ {} \subseteq {a} /\ todo' \in Seq(Frames) /\ In(todo)' = {} \union In(T)
          /\ In(T) \subseteq In(todo) /\ Ordered(todo)'
      BY <1>1, <1>2, <2>1, TopGone
    <3> QED
      BY <3>1
  <2>2. CASE todo' = <<a>> \o T
    <3>1. /\ {a} \subseteq {a} /\ todo' \in Seq(Frames) /\ In(todo)' = {a} \union In(T)
          /\ In(T) \subseteq In(todo) /\ Ordered(todo)'
      BY <1>1, <1>2, <1>6, <1>7, <2>2, TopReplaced
    <3> QED
      BY <3>1
  <2> QED
    BY <1>8, <2>1, <2>2
<1>10. /\ UNCHANGED <<usage, renewed, processed, numRetries, nextId, requestOf, fate>>
       /\ UNCHANGED <<queue, normal, nonGcdQueued, cooldownNonGcd, cooldownNormal>>
  BY DEF QueueForRetry, queues, asked
<1>11. retriesOf' = [retriesOf EXCEPT ![i] = r]
  BY <1>1, <1>4 DEF QueueForRetry, Top, IInv, TypeOK
<1>12. /\ retriesOf' \in [Attempts -> 0..RetryLimit]
       /\ \A b \in Attempts : retriesOf[b] \in Nat /\ retriesOf'[b] >= retriesOf[b]
  BY <1>1, <1>2, <1>4, <1>5, <1>11, SizeAssumption DEF IInv, TypeOK
<1>13. TypeOK'
  <2>1. QueuesOK' /\ RecordOK'
    BY <1>10, <1>12 DEF QueueForRetry, QueuesOK, RecordOK, IInv, TypeOK, asked
  <2>2. FlagsOK'
    <3>1. {nonGcdQueued, normalQueued, cooldownNonGcd, cooldownNormal, castEnd, gcd, processed,
           noQueueCast}' \subseteq BOOLEAN
      BY DEF QueueForRetry, IInv, TypeOK, queues
    <3>2. delay' \in BOOLEAN
      BY DEF QueueForRetry, IInv, TypeOK
    <3>3. inLua' \in BOOLEAN
      BY DEF QueueForRetry, Goto, Signal
    <3> QED
      BY <3>1, <3>2, <3>3 DEF FlagsOK
  <2> QED
    BY <1>9, <2>1, <2>2 DEF TypeOK, QueuesOK, FlagsOK, RecordOK
<1>14. Flagged'
  <2>1. In(todo) = {t} \union In(T)
    BY <1>1, <1>2, Stack
  <2> QED
    BY <1>2, <1>9, <1>10, <2>1 DEF IInv, Flagged
<1>15. QueuedOK' /\ Untried'
  BY <1>10 DEF IInv, QueuedOK, Untried
<1>16. RetriesInherited'
  <2> SUFFICES ASSUME NEW b \in renewed..(nextId - 1)
               PROVE  retriesOf'[b] >= requestOf[b].retries
    BY <1>10 DEF RetriesInherited
  <2>1. b \in Attempts /\ requestOf[b] \in Requests
    BY BoundAssumption DEF IInv, TypeOK, Attempts
  <2>2. retriesOf[b] >= requestOf[b].retries /\ requestOf[b].retries \in Nat
    BY <2>1, SizeAssumption DEF IInv, RetriesInherited, Requests
  <2>3. retriesOf'[b] \in Nat /\ retriesOf[b] \in Nat /\ retriesOf'[b] >= retriesOf[b]
    BY <1>12, <2>1, SizeAssumption
  <2> QED
    BY <2>2, <2>3
<1>17. nextId <= nextId' /\ \A b \in Attempts : b < nextId => requestOf'[b].spell = requestOf[b].spell
  BY <1>10 DEF IInv, TypeOK
<1>18. /\ \A b \in N : FrameOK(b)'
       /\ \A b \in N : InScene(b) => processed
       /\ \A b \in N : b.do \in {"PushCooldown", "KeepCooldown"} => usage.queueOnCooldown
  BY <1>6, <1>7, <1>9
<1>19. ~usage.queueOnCooldown => ~cooldownNonGcd' /\ ~cooldownNormal'
  BY <1>10 DEF IInv, NoCooldown
<1>20. usage' = usage /\ renewed' = renewed /\ processed' = processed
       /\ (numRetries' = numRetries \/ \A b \in In(T) : ~Popped(b))
  BY <1>10
<1> QED
  BY <1>9, <1>13, <1>14, <1>15, <1>16, <1>17, <1>18, <1>19, <1>20, Moves

(* Within the bound of its usage, an attempt finds room in the record.       *)
LEMMA RoomLeft ==
  ASSUME IInv, ~Exhausted
  PROVE  nextId <= MaxAttempts
<1>1. usage \in Usages /\ nextId \in 1..(MaxAttempts + 1)
  BY DEF IInv, TypeOK
<1>2. usage.attempts \in 0..MaxAttempts
  BY <1>1, SettingAssumption
<1> QED
  BY <1>1, <1>2, BoundAssumption DEF Exhausted

LEMMA CastSpellKeeps ==
  ASSUME IInv, CastSpell
  PROVE  IInv'
<1>1. PICK t, T, n, q, a : /\ t = Top /\ T = Tail(todo) /\ n = nextId /\ q = t.req
                           /\ a = Do("Client", q, n)
  OBVIOUS
<1>2. /\ todo # <<>> /\ todo' = <<a>> \o T /\ t.do = "Decide" /\ n <= MaxAttempts /\ nextId' = n + 1
      /\ requestOf' = [requestOf EXCEPT ![n] = q] /\ retriesOf' = [retriesOf EXCEPT ![n] = numRetries]
  <2>1. nextId <= MaxAttempts
    BY RoomLeft DEF CastSpell, Attempt
  <2> QED
    BY <1>1, <2>1 DEF CastSpell, Attempt, At, Top, Signal
<1>3. t \in Frames /\ FrameOK(t) /\ q \in Requests
  BY <1>1, <1>2, TopTyped
<1>4. n \in Attempts /\ n = nextId /\ n \in 0..MaxAttempts /\ n \in Nat
  BY <1>1, <1>2, BoundAssumption DEF Attempts, IInv, TypeOK
<1>5. a \in Frames /\ a.do = "Client" /\ a.req = q /\ a.id = n
  BY <1>1, <1>3, <1>4, RequestFrames DEF Do
<1>6. ~EndsPop(a) /\ ~InScene(a) /\ a.do # "EndFrame"
  BY <1>5 DEF EndsPop, InScene, Popped, CastFrames
<1>7. /\ todo' \in Seq(Frames) /\ In(todo)' = {a} \union In(T) /\ In(T) \subseteq In(todo)
      /\ Ordered(todo)'
  BY <1>1, <1>2, <1>5, <1>6, TopReplaced
<1>8. /\ requestOf \in [Attempts -> Requests] /\ retriesOf \in [Attempts -> 0..RetryLimit]
      /\ numRetries \in 0..RetryLimit
  BY DEF IInv, TypeOK
<1>9. /\ requestOf'[n] = q /\ retriesOf'[n] = numRetries
      /\ \A b \in Attempts : b # n => requestOf'[b] = requestOf[b] /\ retriesOf'[b] = retriesOf[b]
  BY <1>2, <1>4, <1>8
<1>10. FrameOK(a)'
  BY <1>2, <1>4, <1>5, <1>9 DEF FrameOK, Popped, CastFrames
<1>11. numRetries >= q.retries
  <2>1. q.retries \in Nat /\ numRetries \in Nat
    BY <1>3, <1>8, SizeAssumption DEF Requests
  <2>2. CASE q.from = "press"
    BY <1>1, <1>2, <1>3, <2>1, <2>2 DEF FrameOK, CastFrames
  <2>3. CASE q.from # "press"
    BY <1>1, <1>2, <1>3, <2>3 DEF FrameOK, Popped, CastFrames
  <2> QED
    BY <2>2, <2>3
<1>12. RetriesInherited'
  <2>0. renewed' = renewed /\ renewed \in 1..nextId
    BY DEF CastSpell, Attempt, asked, IInv, TypeOK
  <2> SUFFICES ASSUME NEW b \in renewed..(nextId' - 1) PROVE retriesOf'[b] >= requestOf'[b].retries
    BY <2>0 DEF RetriesInherited
  <2>1. b \in 1..n /\ b \in Attempts
    BY <1>2, <1>4, <2>0, BoundAssumption DEF Attempts
  <2>2. CASE b = n
    BY <1>9, <1>11, <2>2
  <2>3. CASE b # n
    <3>1. b \in renewed..(nextId - 1)
      BY <1>4, <2>0, <2>1, <2>3
    <3> QED
      BY <1>9, <2>1, <2>3, <3>1 DEF IInv, RetriesInherited
  <2> QED
    BY <2>2, <2>3
<1>13. Untried'
  <2> SUFFICES ASSUME NEW b \in Attempts, nextId' <= b PROVE fate'[b] = "open"
    BY DEF Untried
  <2>1. nextId <= b /\ fate' = fate
    BY <1>2, <1>4, BoundAssumption DEF CastSpell, Attempt, Attempts
  <2> QED
    BY <2>1 DEF IInv, Untried
<1>14. TypeOK'
  <2>1. normal' \in Requests
    BY <1>2, TopTyped DEF CastSpell, Attempt, Remember, IInv, TypeOK
  <2>2. QueuesOK'
    BY <2>1 DEF CastSpell, Attempt, QueuesOK, IInv, TypeOK
  <2>3. /\ requestOf' \in [Attempts -> Requests] /\ retriesOf' \in [Attempts -> 0..RetryLimit]
        /\ nextId' \in 1..(MaxAttempts + 1) /\ renewed' \in 1..nextId'
    <3>1. renewed' = renewed /\ renewed \in 1..n
      BY <1>4 DEF CastSpell, Attempt, asked, IInv, TypeOK
    <3> QED
      BY <1>2, <1>3, <1>4, <1>8, <3>1, BoundAssumption
  <2>4. RecordOK'
    BY <2>3 DEF CastSpell, Attempt, RecordOK, IInv, TypeOK, asked
  <2>5. FlagsOK'
    <3>1. {nonGcdQueued, normalQueued, cooldownNonGcd, cooldownNormal, castEnd, delay, processed,
           noQueueCast}' \subseteq BOOLEAN
      BY DEF CastSpell, Attempt, IInv, TypeOK
    <3>2. gcd' \in BOOLEAN
      BY DEF CastSpell, Attempt
    <3>3. inLua' \in BOOLEAN
      BY DEF CastSpell, Attempt, Signal
    <3> QED
      BY <3>1, <3>2, <3>3 DEF FlagsOK
  <2> QED
    BY <1>7, <2>2, <2>4, <2>5 DEF TypeOK, QueuesOK, FlagsOK, RecordOK
<1>15. UNCHANGED <<usage, renewed, processed, numRetries, queue, nonGcdQueued, cooldownNonGcd,
                   cooldownNormal>>
  BY DEF CastSpell, Attempt, asked
<1>16. Flagged'
  <2>1. In(todo) = {t} \union In(T)
    BY <1>1, <1>2, Stack
  <2> QED
    BY <1>2, <1>7, <1>15, <2>1 DEF IInv, Flagged
<1>17. QueuedOK'
  BY <1>15 DEF IInv, QueuedOK
<1>18. nextId <= nextId' /\ \A b \in Attempts : b < nextId => requestOf'[b].spell = requestOf[b].spell
  BY <1>2, <1>4, <1>9
<1>19. PICK N : N = {a}
  OBVIOUS
<1>20. /\ In(todo)' = N \union In(T)
       /\ \A b \in N : FrameOK(b)'
       /\ \A b \in N : InScene(b) => processed
       /\ \A b \in N : b.do \in {"PushCooldown", "KeepCooldown"} => usage.queueOnCooldown
  BY <1>5, <1>6, <1>7, <1>10, <1>19
<1>21. ~usage.queueOnCooldown => ~cooldownNonGcd' /\ ~cooldownNormal'
  BY <1>15 DEF IInv, NoCooldown
<1>22. usage' = usage /\ renewed' = renewed /\ processed' = processed
       /\ (numRetries' = numRetries \/ \A b \in In(T) : ~Popped(b))
  BY <1>15
<1> QED
  BY <1>7, <1>12, <1>13, <1>14, <1>16, <1>17, <1>18, <1>20, <1>21, <1>22, Moves

(* A step that pushes on the stack, or leaves it alone.                      *)
LEMMA StayKeeps ==
  ASSUME IInv, QueuesOK', RecordOK', FlagsOK', todo' = todo, SameRecord,
         (queue' = queue /\ nonGcdQueued' = nonGcdQueued) \/ (QueuedOK' /\ Flagged')
  PROVE  IInv'
<1>1. PICK N, R : N = {} /\ R = In(todo)
  OBVIOUS
<1>2. /\ todo' \in Seq(Frames) /\ In(todo)' = N \union R /\ R \subseteq In(todo) /\ Ordered(todo)'
  BY <1>1 DEF IInv, TypeOK
<1>3. TypeOK'
  BY <1>2 DEF TypeOK, QueuesOK, FlagsOK, RecordOK
<1>4. SameQueue(R) \/ (QueuedOK' /\ Flagged')
  BY <1>1 DEF SameQueue
<1>5. /\ usage' = usage /\ renewed' = renewed /\ processed' = processed
      /\ numRetries' = numRetries /\ nextId' = nextId
      /\ requestOf' = requestOf /\ retriesOf' = retriesOf
      /\ cooldownNonGcd' => cooldownNonGcd
      /\ cooldownNormal' => cooldownNormal
      /\ fate' = fate \/ Untried'
  BY DEF SameRecord
<1>6. /\ \A b \in N : FrameOK(b)
      /\ \A b \in N : InScene(b) => processed
      /\ \A b \in N : b.do \notin {"PushCooldown", "KeepCooldown"}
  BY <1>1
<1> QED
  BY <1>2, <1>3, <1>4, <1>5, <1>6, MovesOn

LEMMA TickKeeps ==
  ASSUME IInv, Tick
  PROVE  IInv'
<1>1. SameRecord /\ todo' = todo /\ queue' = queue /\ nonGcdQueued' = nonGcdQueued
  BY DEF Tick, SameRecord, queues, record, asked
<1>2. QueuesOK' /\ RecordOK'
  BY DEF Tick, QueuesOK, RecordOK, IInv, TypeOK, queues, record, asked
<1>3. FlagsOK'
  BY DEF Tick, FlagsOK, IInv, TypeOK, queues
<1> QED
  BY <1>1, <1>2, <1>3, StayKeeps

LEMMA ClearQueuedSpellsKeeps ==
  ASSUME IInv, ClearQueuedSpells
  PROVE  IInv'
<1>1. SameRecord /\ todo' = todo /\ queue' = <<>>
  BY DEF ClearQueuedSpells, SameRecord, Signal, record, asked
<1>2. QueuedOK' /\ Flagged'
  BY <1>1, InEmpty DEF QueuedOK, Flagged
<1>3. QueuesOK' /\ RecordOK'
  BY <1>1, SizeAssumption
     DEF ClearQueuedSpells, QueuesOK, RecordOK, IInv, TypeOK, record, asked
<1>4. FlagsOK'
  BY DEF ClearQueuedSpells, FlagsOK, IInv, TypeOK, Signal
<1> QED
  BY <1>1, <1>2, <1>3, <1>4, StayKeeps

(* The server starts a spell: the counts of its newest attempt and of        *)
(* gLastNormalCastParams begin anew.                                         *)
LEMMA SpellStartKeeps ==
  ASSUME IInv, NEW a \in 0..MaxAttempts, SpellStart(a)
  PROVE  IInv'
<1>1. /\ todo = <<>> /\ todo' = <<>> /\ queue' = queue /\ nonGcdQueued' = nonGcdQueued
      /\ nextId' = nextId /\ requestOf' = requestOf /\ renewed' = nextId
      /\ usage' = usage /\ processed' = processed
      /\ cooldownNonGcd' = cooldownNonGcd /\ cooldownNormal' = cooldownNormal
  BY DEF SpellStart
<1>2. PICK N, R : N = {} /\ R = {}
  OBVIOUS
<1>3. /\ todo' \in Seq(Frames) /\ In(todo)' = N \union R /\ R \subseteq In(todo) /\ Ordered(todo)'
      /\ In(todo) = {}
  BY <1>1, <1>2, InEmpty DEF In, Ordered
<1>4. fate' \in [Attempts -> Fates] /\ Untried'
  <2>1. /\ fate \in [Attempts -> Fates]
        /\ fate' = [b \in Attempts |-> IF b = a THEN "started" ELSE fate[b]]
    BY DEF SpellStart, IInv, TypeOK, Fates
  <2>2. \A b \in Attempts : b # a => fate'[b] = fate[b]
    BY <2>1
  <2>3. a \in Attempts => fate[a] = "sent"
    BY BoundAssumption DEF SpellStart, Attempts
  <2>4. \A b \in Attempts : nextId <= b => b # a
    BY <2>3 DEF IInv, Untried
  <2>5. "started" \in Fates
    BY DEF Fates
  <2>6. fate' \in [Attempts -> Fates]
    BY <2>1, <2>5
  <2> QED
    BY <1>1, <2>2, <2>4, <2>6 DEF IInv, Untried
<1>5. retriesOf' \in [Attempts -> 0..RetryLimit]
  <2>1. retriesOf \in [Attempts -> 0..RetryLimit] /\ 0 \in 0..RetryLimit
    BY SizeAssumption DEF IInv, TypeOK
  <2>2. \A b \in Attempts :
          (IF a # 0 /\ Newest(b, requestOf[a].spell) THEN 0 ELSE retriesOf[b]) \in 0..RetryLimit
    BY <2>1
  <2> QED
    BY <2>2 DEF SpellStart
<1>6. normal' \in Requests
  <2>1. PICK q : q = normal
    OBVIOUS
  <2>2. q \in Requests /\ normal' = [q EXCEPT !.retries = 0]
    BY <2>1 DEF SpellStart, IInv, TypeOK
  <2> QED
    BY <2>2, SizeAssumption DEF Requests
<1>7. renewed' \in 1..nextId'
  BY <1>1, BoundAssumption DEF IInv, TypeOK
<1>8. TypeOK'
  <2>1. RecordOK'
    BY <1>1, <1>4, <1>5, <1>7 DEF SpellStart, RecordOK, IInv, TypeOK, Fates
  <2>2. QueuesOK'
    BY <1>1, <1>6 DEF QueuesOK, IInv, TypeOK
  <2>3. FlagsOK'
    <3>1. {nonGcdQueued, normalQueued, cooldownNonGcd, cooldownNormal, delay, gcd, processed,
           noQueueCast, inLua}' \subseteq BOOLEAN
      BY DEF SpellStart, IInv, TypeOK
    <3>2. castEnd' \in BOOLEAN
      BY DEF SpellStart, IInv, TypeOK
    <3> QED
      BY <3>1, <3>2 DEF FlagsOK
  <2> QED
    BY <1>3, <2>1, <2>2, <2>3 DEF TypeOK, QueuesOK, FlagsOK, RecordOK
<1>9. RetriesInherited'
  BY <1>1, BoundAssumption DEF RetriesInherited, IInv, TypeOK
<1>10. QueuedOK' /\ Flagged'
  <2>1. In(queue)' = In(queue)
    BY <1>1 DEF In
  <2> QED
    BY <1>1, <1>3, <2>1 DEF IInv, QueuedOK, Flagged
<1>11. NoCooldown' /\ FramesOK' /\ SceneProcessed'
  BY <1>1, <1>2, <1>3 DEF IInv, NoCooldown, FramesOK, SceneProcessed
<1> QED
  BY <1>3, <1>4, <1>8, <1>9, <1>10, <1>11 DEF IInv

LEMMA ServerRejectsKeeps ==
  ASSUME IInv, NEW a \in Attempts, NEW c \in BOOLEAN, ServerRejects(a, c)
  PROVE  IInv'
<1>1. PICK i, b, s, N, R : /\ i = IF c THEN a ELSE 0
                           /\ b = Do("SpellFailed", requestOf[a], i)
                           /\ s = <<b>>
                           /\ N = {b} /\ R = In(todo)
  OBVIOUS
<1>2. /\ todo = <<>> /\ todo' = s /\ nextId' = nextId
      /\ fate[a] \in {"sent", "started"} /\ fate' = [fate EXCEPT ![a] = "rejected"]
  BY <1>1 DEF ServerRejects, Signal
<1>3. a \in 0..MaxAttempts /\ a < nextId /\ i \in {0, a} /\ requestOf[a] \in Requests
  BY <1>1, <1>2, BoundAssumption DEF IInv, TypeOK, Untried, Attempts
<1>4. b \in Frames /\ b.do = "SpellFailed" /\ b.id = i /\ b.req = requestOf[a]
  <2>1. i \in 0..MaxAttempts
    BY <1>3, BoundAssumption
  <2>2. Do("SpellFailed", requestOf[a], i) \in Frames
    BY <1>3, <2>1, RequestFrames
  <2> QED
    BY <1>1, <2>2 DEF Do
<1>5. FrameOK(b) /\ ~InScene(b)
  BY <1>3, <1>4 DEF FrameOK, InScene, Popped, CastFrames
<1>6. s \in Seq(Frames) /\ In(s) = {b} /\ Ordered(s)
  <2>1. Len(s) = 1 /\ s[1] = b /\ s \in Seq(Frames)
    BY <1>1, <1>4
  <2> QED
    BY <2>1 DEF In, Ordered
<1>7. R = {}
  BY <1>1, <1>2, InEmpty
<1>8. "rejected" \in Fates
  BY DEF Fates
<1>9. Untried' /\ fate' \in [Attempts -> Fates]
  BY <1>2, <1>3, <1>8, FateChanged
<1>10. SameRecord
  BY <1>9 DEF ServerRejects, SameRecord, queues, asked
<1>11. TypeOK'
  <2>1. QueuesOK' /\ RecordOK'
    BY <1>9 DEF ServerRejects, QueuesOK, RecordOK, IInv, TypeOK, Fates, queues, asked
  <2>2. FlagsOK'
    BY DEF ServerRejects, FlagsOK, IInv, TypeOK, queues, Signal
  <2> QED
    BY <1>2, <1>6, <2>1, <2>2 DEF TypeOK, QueuesOK, FlagsOK, RecordOK
<1>12. /\ In(todo)' = N \union R /\ R \subseteq In(todo) /\ Ordered(todo)'
  BY <1>1, <1>2, <1>6, <1>7
<1>13. SameQueue(R)
  BY <1>1 DEF ServerRejects, queues, SameQueue
<1>14. /\ usage' = usage /\ renewed' = renewed /\ processed' = processed
       /\ numRetries' = numRetries /\ nextId' = nextId
       /\ requestOf' = requestOf /\ retriesOf' = retriesOf
       /\ cooldownNonGcd' => cooldownNonGcd
       /\ cooldownNormal' => cooldownNormal
       /\ fate' = fate \/ Untried'
  BY <1>10 DEF SameRecord
<1>15. /\ \A x \in N : FrameOK(x)
       /\ \A x \in N : InScene(x) => processed
       /\ \A x \in N : x.do \notin {"PushCooldown", "KeepCooldown"}
  BY <1>1, <1>4, <1>5
<1> QED
  BY <1>11, <1>12, <1>13, <1>14, <1>15, MovesOn

(* A cast that is asked for comes on top of the stack.                       *)
LEMMA PressPushed ==
  ASSUME IInv, NEW s \in Spells, NEW c \in BOOLEAN, Press(s, c)
  PROVE  \E a, b, N :
           /\ a \in Frames /\ b \in Frames
           /\ a.do = "Enter" /\ b.do = "NoQueueDone"
           /\ a.req.from = "press" /\ a.req.of = 0 /\ a.req.retries = 0
           /\ N \subseteq {a, b} /\ In(todo)' = N \union In(todo)
           /\ todo' \in Seq(Frames) /\ Ordered(todo)'
<1>1. PICK q, a, b, S, R : /\ q = Request(s, 0, 0, "press", c)
                           /\ a = Do("Enter", q, 0) /\ b = Then("NoQueueDone")
                           /\ S = todo /\ R = In(todo)
  OBVIOUS
<1>2. S \in Seq(Frames) /\ Ordered(S)
  BY <1>1 DEF IInv, TypeOK
<1>3. a \in Frames /\ a.do = "Enter" /\ a.req.from = "press" /\ a.req.of = 0 /\ a.req.retries = 0
  <2>1. q \in Requests /\ q.from = "press" /\ q.of = 0 /\ q.retries = 0
    BY <1>1, SizeAssumption, BoundAssumption DEF Request, Requests
  <2>2. 0 \in 0..MaxAttempts
    BY BoundAssumption
  <2>3. Do("Enter", q, 0) \in Frames
    BY <2>1, <2>2, RequestFrames
  <2> QED
    BY <1>1, <2>1, <2>3 DEF Do
<1>4. b \in Frames /\ b.do = "NoQueueDone"
  BY <1>1, ThenFrames
<1>5. /\ \A x \in {b} \union In(S) : MayPrecede(a, x)
      /\ \A x \in In(S) : MayPrecede(a, x)
      /\ \A x \in In(S) : MayPrecede(b, x)
  BY <1>3, <1>4 DEF MayPrecede, EndsPop
<1>6. PICK N : N \subseteq {a, b} /\ todo' \in Seq(Frames) /\ In(todo)' = N \union R /\ Ordered(todo)'
  <2>1. CASE c
    <3>1. todo' = <<a>> \o <<b>> \o S
      BY <1>1, <2>1 DEF Press, Goto
    <3>2. PICK v : v = <<b>> \o S
      OBVIOUS
    <3>3. v \in Seq(Frames) /\ In(v) = {b} \union In(S) /\ Ordered(v)
      BY <1>2, <1>4, <1>5, <3>2, StackPush
    <3>4. PICK w : w = <<a>> \o v
      OBVIOUS
    <3>5. w \in Seq(Frames) /\ In(w) = {a} \union In(v) /\ Ordered(w)
      <4>1. \A x \in In(v) : MayPrecede(a, x)
        BY <1>5, <3>3
      <4> QED
        BY <1>3, <3>3, <3>4, <4>1, StackPush
    <3>6. todo' = w
      BY <1>2, <1>3, <1>4, <3>1, <3>2, <3>4
    <3>7. {a, b} \subseteq {a, b} /\ In(todo)' = {a, b} \union R
      BY <1>1, <3>3, <3>5, <3>6
    <3> QED
      BY <3>5, <3>6, <3>7
  <2>2. CASE ~c
    <3>1. todo' = <<a>> \o <<>> \o S
      BY <1>1, <2>2 DEF Press, Goto
    <3>2. PICK w : w = <<a>> \o S
      OBVIOUS
    <3>3. w \in Seq(Frames) /\ In(w) = {a} \union In(S) /\ Ordered(w)
      BY <1>2, <1>3, <1>5, <3>2, StackPush
    <3>4. todo' = w
      BY <1>2, <1>3, <3>1, <3>2
    <3>5. {a} \subseteq {a, b} /\ In(todo)' = {a} \union R
      BY <1>1, <3>3, <3>4
    <3> QED
      BY <3>3, <3>4, <3>5
  <2> QED
    BY <2>1, <2>2
<1> QED
  BY <1>1, <1>3, <1>4, <1>6

LEMMA PressKeeps ==
  ASSUME IInv, NEW s \in Spells, NEW c \in BOOLEAN, Press(s, c)
  PROVE  IInv'
<1>1. PICK R : R = In(todo)
  OBVIOUS
<1>2. PICK a, b, N :
        /\ a \in Frames /\ b \in Frames
        /\ a.do = "Enter" /\ b.do = "NoQueueDone"
        /\ a.req.from = "press" /\ a.req.of = 0 /\ a.req.retries = 0
        /\ N \subseteq {a, b} /\ In(todo)' = N \union In(todo)
        /\ todo' \in Seq(Frames) /\ Ordered(todo)'
  BY PressPushed
<1>3. FrameOK(a) /\ FrameOK(b) /\ ~InScene(a) /\ ~InScene(b)
  BY <1>2 DEF FrameOK, InScene, Popped, CastFrames
<1>4. TypeOK'
  <2>1. presses' \in 0..MaxPresses
    BY BoundAssumption DEF Press, IInv, TypeOK
  <2>2. QueuesOK' /\ RecordOK'
    BY <2>1 DEF Press, QueuesOK, RecordOK, IInv, TypeOK, queues, timers, record
  <2>3. FlagsOK'
    <3>1. {nonGcdQueued, normalQueued, cooldownNonGcd, cooldownNormal, castEnd, delay, gcd,
           processed}' \subseteq BOOLEAN
      BY DEF Press, IInv, TypeOK, queues, timers
    <3>2. noQueueCast' \in BOOLEAN
      BY DEF Press
    <3>3. inLua' \in BOOLEAN
      BY DEF Press, Goto
    <3> QED
      BY <3>1, <3>2, <3>3 DEF FlagsOK
  <2> QED
    BY <1>2, <2>2, <2>3 DEF TypeOK, QueuesOK, FlagsOK, RecordOK
<1>5. SameQueue(R)
  BY <1>1 DEF Press, queues, SameQueue
<1>6. /\ usage' = usage /\ renewed' = renewed /\ processed' = processed
      /\ numRetries' = numRetries /\ nextId' = nextId
      /\ requestOf' = requestOf /\ retriesOf' = retriesOf
      /\ cooldownNonGcd' = cooldownNonGcd
      /\ cooldownNormal' = cooldownNormal
      /\ fate' = fate
  BY DEF Press, queues, record
<1>7. /\ \A x \in N : FrameOK(x)
      /\ \A x \in N : InScene(x) => processed
      /\ \A x \in N : x.do \notin {"PushCooldown", "KeepCooldown"}
  BY <1>2, <1>3
<1>8. R \subseteq In(todo) /\ In(todo)' = N \union R
  BY <1>1, <1>2
<1> QED
  BY <1>2, <1>4, <1>5, <1>6, <1>7, <1>8, MovesOn
------------------------------------------------------------------------------
(* processQueues runs on a stack r without pops.                             *)
Rest(r) ==
  /\ r \in Seq(Frames) /\ Ordered(r)
  /\ \A b \in In(todo) : b.do = "SetNonGcd" => b \in In(r)
  /\ \A b \in In(r) : /\ ~Popped(b) /\ FrameOK(b)
                      /\ b.do \in {"PushCooldown", "KeepCooldown"} => usage.queueOnCooldown

LEMMA QueuesProcessed ==
  ASSUME IInv, TypeOK', UNCHANGED <<usage, renewed, nextId, requestOf, retriesOf, fate>>,
  processed' = TRUE,
         cooldownNonGcd' => cooldownNonGcd, cooldownNormal' => cooldownNormal,
         NEW r, Rest(r), NEW N, In(todo)' = N \union In(r), Ordered(todo)',
         \A b \in N : FrameOK(b)', \A b \in N : b.do \notin {"PushCooldown", "KeepCooldown"},
         QueuedOK', queue' = queue \/ nonGcdQueued', nonGcdQueued => nonGcdQueued'
  PROVE  IInv'
<1>1. TypeOK /\ Flagged /\ Untried /\ RetriesInherited /\ NoCooldown
  BY DEF IInv
<1>2. In(r) \subseteq Frames
  BY DEF Rest, In
<1>3. nextId <= nextId' /\ \A a \in Attempts : a < nextId => requestOf'[a].spell = requestOf[a].spell
  BY <1>1 DEF TypeOK
<1>4. ASSUME NEW b \in In(r) PROVE FrameOK(b)'
  <2>1. b \in Frames /\ FrameOK(b) /\ (numRetries' = numRetries \/ ~Popped(b))
    BY <1>2 DEF Rest
  <2> QED
    BY <1>1, <1>3, <2>1, FrameKept
<1>5. PICK M, R : M = N \union In(r) /\ R = {}
  OBVIOUS
<1>6. /\ In(todo)' = M \union R /\ R \subseteq In(todo)
      /\ \A b \in M : FrameOK(b)'
      /\ \A b \in R : FrameOK(b)'
      /\ \A b \in M : b.do \in {"PushCooldown", "KeepCooldown"} => usage.queueOnCooldown
      /\ \A b \in M : InScene(b) => processed'
      /\ \A b \in R : InScene(b) => processed'
  BY <1>4, <1>5 DEF Rest
<1>7. ~usage.queueOnCooldown => ~cooldownNonGcd' /\ ~cooldownNormal'
  BY <1>1 DEF NoCooldown
<1>8. Flagged'
  <2>1. CASE nonGcdQueued'
    BY <2>1 DEF Flagged
  <2>2. CASE ~nonGcdQueued'
    BY <1>1, <2>2 DEF Flagged, Rest
  <2> QED
    BY <2>1, <2>2
<1>9. Untried' /\ RetriesInherited' /\ usage' = usage /\ renewed' = renewed
  BY <1>1 DEF Untried, RetriesInherited
<1> QED
  BY <1>6, <1>7, <1>8, <1>9, Kept

(* A request that was popped is cast on top of the stack.                    *)
LEMMA PopPushed ==
  ASSUME NEW r, Rest(r), NEW p \in Requests, p.from # "press", numRetries' = p.retries,
         NEW k \in {"NonGcdPopped", "NormalPopped"},
         todo' = <<Do("Enter", p, 0), Then(k)>> \o r
  PROVE  \E N : /\ todo' \in Seq(Frames) /\ In(todo)' = N \union In(r) /\ Ordered(todo)'
                /\ \A b \in N : FrameOK(b)'
                /\ \A b \in N : b.do \notin {"PushCooldown", "KeepCooldown"}
<1>1. PICK a, b, N : a = Do("Enter", p, 0) /\ b = Then(k) /\ N = {a, b}
  OBVIOUS
<1>2. a \in Frames /\ a.do = "Enter" /\ a.req = p
  <2>1. 0 \in 0..MaxAttempts
    BY BoundAssumption
  <2>2. Do("Enter", p, 0) \in Frames
    BY <2>1, RequestFrames
  <2> QED
    BY <1>1, <2>2 DEF Do
<1>3. b \in Frames /\ b.do = k /\ FrameOK(b)' /\ ~Popped(b)
  BY <1>1, ThenFrames
<1>4. FrameOK(a)'
  <2>1. p.retries \in Nat
    BY SizeAssumption DEF Requests
  <2> QED
    BY <1>2, <2>1 DEF FrameOK, Popped, CastFrames
<1>5. r \in Seq(Frames) /\ Ordered(r) /\ \A c \in In(r) : ~Popped(c)
  BY DEF Rest
<1>6. /\ \A c \in {b} \union In(r) : MayPrecede(a, c)
      /\ \A c \in In(r) : MayPrecede(b, c)
  BY <1>2, <1>3, <1>5 DEF MayPrecede, EndsPop
<1>7. /\ <<a, b>> \o r \in Seq(Frames) /\ In(<<a, b>> \o r) = {a, b} \union In(r)
      /\ Ordered(<<a, b>> \o r)
  BY <1>2, <1>3, <1>5, <1>6, StackPair
<1>8. todo' = <<a, b>> \o r
  BY <1>1
<1>9. /\ todo' \in Seq(Frames) /\ In(todo)' = N \union In(r) /\ Ordered(todo)'
      /\ \A c \in N : FrameOK(c)'
      /\ \A c \in N : c.do \notin {"PushCooldown", "KeepCooldown"}
  BY <1>1, <1>2, <1>3, <1>4, <1>7, <1>8
<1> QED
  BY <1>9

LEMMA NormalPopKeeps ==
  ASSUME IInv, NEW r, Rest(r), CastQueuedNormalSpell(r), processed' = TRUE,
         cooldownNormal' = FALSE \/ cooldownNormal' = cooldownNormal
  PROVE  IInv'
<1>1. PICK p : p = [normal EXCEPT !.from = "normal"]
  OBVIOUS
<1>2. p \in Requests /\ p.from # "press" /\ p.retries = normal.retries
      /\ p.retries \in 0..RetryLimit
  BY <1>1 DEF IInv, TypeOK, Requests
<1>3. numRetries' = p.retries /\ todo' = <<Do("Enter", p, 0), Then("NormalPopped")>> \o r
  BY <1>1, <1>2 DEF CastQueuedNormalSpell, Goto
<1>4. PICK N : /\ todo' \in Seq(Frames) /\ In(todo)' = N \union In(r) /\ Ordered(todo)'
               /\ \A b \in N : FrameOK(b)'
               /\ \A b \in N : b.do \notin {"PushCooldown", "KeepCooldown"}
  BY <1>2, <1>3, PopPushed
<1>5. UNCHANGED <<usage, renewed, nextId, requestOf, retriesOf, fate, queue, nonGcdQueued,
                  cooldownNonGcd>>
  BY DEF CastQueuedNormalSpell, record, asked
<1>6. TypeOK'
  <2>1. QueuesOK' /\ RecordOK'
    BY <1>2, <1>3 DEF CastQueuedNormalSpell, QueuesOK, RecordOK, IInv, TypeOK, timers, record, asked
  <2>2. FlagsOK'
    <3>1. {nonGcdQueued, normalQueued, cooldownNonGcd, cooldownNormal, castEnd, delay, gcd,
           processed, noQueueCast}' \subseteq BOOLEAN
      BY DEF CastQueuedNormalSpell, IInv, TypeOK, timers
    <3>2. inLua' \in BOOLEAN
      BY DEF CastQueuedNormalSpell, Goto
    <3> QED
      BY <3>1, <3>2 DEF FlagsOK
  <2> QED
    BY <1>4, <2>1, <2>2 DEF TypeOK, QueuesOK, FlagsOK, RecordOK
<1>7. (cooldownNonGcd' => cooldownNonGcd) /\ (cooldownNormal' => cooldownNormal)
  BY <1>5
<1>8. QueuedOK'
  BY <1>5 DEF IInv, QueuedOK
<1>9. (queue' = queue \/ nonGcdQueued') /\ (nonGcdQueued => nonGcdQueued')
  BY <1>5
<1> QED
  BY <1>4, <1>5, <1>6, <1>7, <1>8, <1>9, QueuesProcessed

LEMMA NonGcdPopKeeps ==
  ASSUME IInv, NEW r, Rest(r), CastQueuedNonGcdSpell(r), processed' = TRUE,
         nonGcdQueued' = TRUE, cooldownNonGcd' = FALSE \/ cooldownNonGcd' = cooldownNonGcd
  PROVE  IInv'
<1>1. UNCHANGED <<usage, renewed, nextId, requestOf, retriesOf, fate, normal, cooldownNormal>>
  BY DEF CastQueuedNonGcdSpell, record, asked
<1>2. (cooldownNonGcd' => cooldownNonGcd) /\ (cooldownNormal' => cooldownNormal)
  BY <1>1
<1>3. (queue' = queue \/ nonGcdQueued') /\ (nonGcdQueued => nonGcdQueued')
  OBVIOUS
<1>4. FlagsOK'
  BY DEF CastQueuedNonGcdSpell, FlagsOK, IInv, TypeOK, timers, Goto
<1>5. CASE queue # <<>>
  <2>1. PICK E, h, u, p : /\ E = Requests /\ h = Head(queue) /\ u = Tail(queue)
                          /\ p = [h EXCEPT !.from = "nonGcd"]
    OBVIOUS
  <2>2. queue \in Seq(E) /\ Len(queue) <= QueueSize
    BY <2>1 DEF IInv, TypeOK
  <2>3. u \in Seq(E) /\ Len(u) < Len(queue) /\ In(u) \subseteq In(queue) /\ h \in E
    BY <1>5, <2>1, <2>2, TailIn
  <2>4. p \in Requests /\ p.from # "press" /\ p.retries = h.retries /\ p.retries \in 0..RetryLimit
    BY <2>1, <2>3 DEF Requests
  <2>5. queue' = u /\ numRetries' = p.retries
        /\ todo' = <<Do("Enter", p, 0), Then("NonGcdPopped")>> \o r
    BY <1>5, <2>1, <2>4 DEF CastQueuedNonGcdSpell, Goto
  <2>6. PICK N : /\ todo' \in Seq(Frames) /\ In(todo)' = N \union In(r) /\ Ordered(todo)'
                 /\ \A b \in N : FrameOK(b)'
                 /\ \A b \in N : b.do \notin {"PushCooldown", "KeepCooldown"}
    BY <2>4, <2>5, PopPushed
  <2>7. QueuesOK' /\ RecordOK'
    <3>1. Len(u) <= QueueSize
      BY <2>2, <2>3, SizeAssumption
    <3> QED
      BY <2>1, <2>3, <2>4, <2>5, <3>1
         DEF CastQueuedNonGcdSpell, QueuesOK, RecordOK, IInv, TypeOK, timers, record, asked
  <2>8. TypeOK'
    BY <1>4, <2>6, <2>7 DEF TypeOK, QueuesOK, FlagsOK, RecordOK
  <2>9. QueuedOK'
    BY <2>3, <2>5 DEF IInv, QueuedOK
  <2> QED
    BY <1>1, <1>2, <1>3, <2>6, <2>8, <2>9, QueuesProcessed
<1>6. CASE queue = <<>>
  <2>1. PICK b, N : b = Then("NonGcdPopped") /\ N = {b}
    OBVIOUS
  <2>2. b \in Frames /\ b.do = "NonGcdPopped" /\ FrameOK(b)'
    BY <2>1, ThenFrames
  <2>3. todo' = <<b>> \o r /\ queue' = queue /\ numRetries' = numRetries
    BY <1>6, <2>1 DEF CastQueuedNonGcdSpell, Goto
  <2>4. \A c \in In(r) : MayPrecede(b, c)
    BY <2>2 DEF Rest, MayPrecede
  <2>5. PICK w : w = <<b>> \o r
    OBVIOUS
  <2>6. w \in Seq(Frames) /\ In(w) = {b} \union In(r) /\ Ordered(w)
    BY <2>2, <2>4, <2>5, StackPush DEF Rest
  <2>7. todo' \in Seq(Frames) /\ In(todo)' = N \union In(r) /\ Ordered(todo)'
    BY <2>1, <2>3, <2>5, <2>6
  <2>8. TypeOK'
    <3>1. QueuesOK' /\ RecordOK'
      BY <2>3 DEF CastQueuedNonGcdSpell, QueuesOK, RecordOK, IInv, TypeOK, timers, record, asked
    <3> QED
      BY <1>4, <2>7, <3>1 DEF TypeOK, QueuesOK, FlagsOK, RecordOK
  <2>9. /\ \A c \in N : FrameOK(c)'
        /\ \A c \in N : c.do \notin {"PushCooldown", "KeepCooldown"}
    BY <2>1, <2>2
  <2>10. QueuedOK'
    BY <2>3 DEF IInv, QueuedOK
  <2> QED
    BY <1>1, <1>2, <1>3, <2>7, <2>8, <2>9, <2>10, QueuesProcessed
<1> QED
  BY <1>5, <1>6

(* What is left on the stack goes on: nothing is popped.                     *)
LEMMA OnlyRest ==
  ASSUME IInv, NEW r, Rest(r), todo' = r, QueuesOK', RecordOK', FlagsOK', processed' = TRUE,
         UNCHANGED <<usage, renewed, nextId, requestOf, retriesOf, fate, queue, nonGcdQueued,
                     cooldownNonGcd>>,
         cooldownNormal' => cooldownNormal
  PROVE  IInv'
<1>1. PICK N : N = {}
  OBVIOUS
<1>2. todo' \in Seq(Frames) /\ In(todo)' = N \union In(r) /\ Ordered(todo)'
  BY <1>1 DEF Rest
<1>3. TypeOK'
  BY <1>2 DEF TypeOK, QueuesOK, FlagsOK, RecordOK
<1>4. (cooldownNonGcd' => cooldownNonGcd) /\ (cooldownNormal' => cooldownNormal)
  OBVIOUS
<1>5. (queue' = queue \/ nonGcdQueued') /\ (nonGcdQueued => nonGcdQueued')
  OBVIOUS
<1>6. QueuedOK'
  BY DEF IInv, QueuedOK
<1>7. /\ \A b \in N : FrameOK(b)'
      /\ \A b \in N : b.do \notin {"PushCooldown", "KeepCooldown"}
  BY <1>1
<1> QED
  BY <1>2, <1>3, <1>4, <1>5, <1>6, <1>7, QueuesProcessed

LEMMA CastCooldownNormalKeeps ==
  ASSUME IInv, NEW r, Rest(r), CastCooldownNormal(r), processed' = TRUE
  PROVE  IInv'
<1>1. CASE CooldownNormalReady
  <2>1. CastQueuedNormalSpell(r) /\ cooldownNormal' = FALSE
    BY <1>1 DEF CastCooldownNormal
  <2> QED
    BY <2>1, NormalPopKeeps
<1>2. CASE ~CooldownNormalReady
  <2>1. todo' = r /\ UNCHANGED <<usage, renewed, nextId, requestOf, retriesOf, fate, queue,
                                 nonGcdQueued,
                                 cooldownNonGcd, cooldownNormal>>
    BY <1>2 DEF CastCooldownNormal, Goto, queues, record, asked
  <2>2. QueuesOK' /\ RecordOK'
    BY <1>2 DEF CastCooldownNormal, QueuesOK, RecordOK, IInv, TypeOK, queues, timers, record, asked
  <2>3. FlagsOK'
    BY <1>2 DEF CastCooldownNormal, FlagsOK, IInv, TypeOK, queues, timers, Goto
  <2>4. cooldownNormal' => cooldownNormal
    BY <2>1
  <2> QED
    BY <2>1, <2>2, <2>3, <2>4, OnlyRest
<1> QED
  BY <1>1, <1>2

LEMMA ProcessQueuesKeeps ==
  ASSUME IInv, NEW r, Rest(r), ProcessQueues(r)
  PROVE  IInv'
<1>1. processed' = TRUE
  BY DEF ProcessQueues
<1>2. CASE nonGcdQueued /\ ~Casting
  <2>1. /\ CastQueuedNonGcdSpell(r)
        /\ nonGcdQueued' = nonGcdQueued /\ cooldownNonGcd' = cooldownNonGcd
    BY <1>2 DEF ProcessQueues
  <2>2. nonGcdQueued' = TRUE
    BY <1>2, <2>1 DEF IInv, TypeOK
  <2> QED
    BY <1>1, <2>1, <2>2, NonGcdPopKeeps
<1>3. CASE ~(nonGcdQueued /\ ~Casting) /\ cooldownNonGcd /\ "nonGcd" \notin waiting
  <2>1. CastQueuedNonGcdSpell(r) /\ nonGcdQueued' = TRUE /\ cooldownNonGcd' = FALSE
    BY <1>3 DEF ProcessQueues
  <2> QED
    BY <1>1, <2>1, NonGcdPopKeeps
<1>4. CASE /\ ~(nonGcdQueued /\ ~Casting) /\ ~(cooldownNonGcd /\ "nonGcd" \notin waiting)
           /\ normalQueued /\ ~Casting /\ ~gcd
  <2>1. CASE CastQueuedNormalSpell(r) /\ cooldownNormal' = cooldownNormal
    BY <1>1, <2>1, NormalPopKeeps
  <2>2. CASE /\ Signal(<<Then("DropStale")>> \o r)
             /\ UNCHANGED <<queues, timers, numRetries, record, noQueueCast, asked>>
    <3>1. PICK b, N, w : b = Then("DropStale") /\ N = {b} /\ w = <<b>> \o r
      OBVIOUS
    <3>2. b \in Frames /\ b.do = "DropStale" /\ FrameOK(b)'
      BY <3>1, ThenFrames
    <3>3. todo' = w /\ UNCHANGED <<usage, renewed, nextId, requestOf, retriesOf, fate, queue,
                                   nonGcdQueued,
                                   cooldownNonGcd, cooldownNormal>>
      BY <2>2, <3>1 DEF Signal, queues, record, asked
    <3>4. \A c \in In(r) : MayPrecede(b, c)
      BY <3>2 DEF Rest, MayPrecede
    <3>5. w \in Seq(Frames) /\ In(w) = {b} \union In(r) /\ Ordered(w)
      BY <3>1, <3>2, <3>4, StackPush DEF Rest
    <3>6. todo' \in Seq(Frames) /\ In(todo)' = N \union In(r) /\ Ordered(todo)'
      BY <3>1, <3>3, <3>5
    <3>7. TypeOK'
      <4>1. QueuesOK' /\ RecordOK'
        BY <2>2 DEF QueuesOK, RecordOK, IInv, TypeOK, queues, timers, record, asked
      <4>2. FlagsOK'
        BY <1>1, <2>2 DEF FlagsOK, IInv, TypeOK, queues, timers, Signal
      <4> QED
        BY <3>6, <4>1, <4>2 DEF TypeOK, QueuesOK, FlagsOK, RecordOK
    <3>8. /\ \A c \in N : FrameOK(c)'
          /\ \A c \in N : c.do \notin {"PushCooldown", "KeepCooldown"}
      BY <3>1, <3>2
    <3>9. (cooldownNonGcd' => cooldownNonGcd) /\ (cooldownNormal' => cooldownNormal)
      BY <3>3
    <3>10. (queue' = queue \/ nonGcdQueued') /\ (nonGcdQueued => nonGcdQueued')
      BY <3>3
    <3>11. QueuedOK'
      BY <3>3 DEF IInv, QueuedOK
    <3> QED
      BY <1>1, <3>3, <3>6, <3>7, <3>8, <3>9, <3>10, <3>11, QueuesProcessed
  <2> QED
    BY <1>4, <2>1, <2>2 DEF ProcessQueues
<1>5. CASE /\ ~(nonGcdQueued /\ ~Casting) /\ ~(cooldownNonGcd /\ "nonGcd" \notin waiting)
           /\ ~(normalQueued /\ ~Casting /\ ~gcd)
  <2>1. CastCooldownNormal(r)
    BY <1>5 DEF ProcessQueues
  <2> QED
    BY <1>1, <2>1, CastCooldownNormalKeeps
<1> QED
  BY <1>2, <1>3, <1>4, <1>5

(* Before processQueues ran, no frame of the scene is on the stack.          *)
LEMMA Unprocessed ==
  ASSUME IInv, ~processed, NEW b \in In(todo)
  PROVE  ~InScene(b) /\ ~Popped(b) /\ b.do # "SetNonGcd"
<1>1. ~InScene(b)
  BY DEF IInv, SceneProcessed
<1> QED
  BY <1>1 DEF InScene

(* The end of the scene: the stack is empty, and so it stays.                *)
LEMMA SceneEnds ==
  ASSUME IInv, QueuesOK', RecordOK', FlagsOK', todo' = <<>>,
         UNCHANGED <<usage, renewed, numRetries, nextId, requestOf, retriesOf, fate, queue,
                     nonGcdQueued,
                     cooldownNonGcd, cooldownNormal>>,
         \A b \in In(todo) : b.do # "SetNonGcd"
  PROVE  IInv'
<1>1. PICK N, R : N = {} /\ R = {}
  OBVIOUS
<1>2. In(todo)' = N \union R /\ R \subseteq In(todo) /\ Ordered(todo)'
  BY <1>1, InEmpty
<1>3. TypeOK'
  BY DEF TypeOK, QueuesOK, FlagsOK, RecordOK
<1>4. /\ \A b \in N : FrameOK(b)'
      /\ \A b \in R : FrameOK(b)'
      /\ \A b \in N : b.do \in {"PushCooldown", "KeepCooldown"} => usage.queueOnCooldown
      /\ \A b \in N : InScene(b) => processed'
      /\ \A b \in R : InScene(b) => processed'
  BY <1>1
<1>5. ~usage.queueOnCooldown => ~cooldownNonGcd' /\ ~cooldownNormal'
  BY DEF IInv, NoCooldown
<1>6. Flagged' /\ usage' = usage /\ renewed' = renewed
  BY DEF IInv, Flagged
<1>7. QueuedOK' /\ Untried' /\ RetriesInherited'
  BY DEF IInv, QueuedOK, Untried, RetriesInherited
<1> QED
  BY <1>2, <1>3, <1>4, <1>5, <1>6, <1>7, Kept

LEMMA EndFrameKeeps ==
  ASSUME IInv, EndFrame
  PROVE  IInv'
<1>1. PICK t, T : t = Top /\ T = Tail(todo)
  OBVIOUS
<1>2. todo # <<>> /\ t.do = "EndFrame" /\ todo' = T
  BY <1>1 DEF EndFrame, At, Top, Goto
<1>3. T \in Seq(Frames) /\ In(todo) = {t} \union In(T) /\ \A c \in In(T) : MayPrecede(t, c)
  BY <1>1, <1>2, Stack
<1>4. In(T) = {}
  BY <1>2, <1>3 DEF MayPrecede
<1>5. T = <<>>
  <2>1. Len(T) \in Nat /\ (T # <<>> => 1 \in 1..Len(T))
    BY <1>3
  <2>2. \A i \in 1..Len(T) : T[i] \in In(T)
    BY DEF In
  <2> QED
    BY <1>4, <2>1, <2>2
<1>6. UNCHANGED <<usage, renewed, numRetries, nextId, requestOf, retriesOf, fate, queue, nonGcdQueued,
                  cooldownNonGcd, cooldownNormal>>
  BY DEF EndFrame, queues, record, asked
<1>7. \A b \in In(todo) : b.do # "SetNonGcd"
  BY <1>2, <1>3, <1>4
<1>8. QueuesOK' /\ RecordOK'
  BY DEF EndFrame, QueuesOK, RecordOK, IInv, TypeOK, queues, timers, record, asked
<1>9. FlagsOK'
  <2>1. {nonGcdQueued, normalQueued, cooldownNonGcd, cooldownNormal, castEnd, delay, gcd,
         processed, noQueueCast}' \subseteq BOOLEAN
    BY DEF EndFrame, NextFrame, IInv, TypeOK, queues, timers
  <2>2. inLua' \in BOOLEAN
    BY DEF EndFrame, Goto
  <2> QED
    BY <2>1, <2>2 DEF FlagsOK
<1> QED
  BY <1>2, <1>5, <1>6, <1>7, <1>8, <1>9, SceneEnds

LEMMA FrameKeeps ==
  ASSUME IInv, Frame
  PROVE  IInv'
<1>1. todo = <<>> /\ In(todo) = {}
  BY InEmpty DEF Frame
<1>2. CASE processed
  <2>1. UNCHANGED <<usage, renewed, numRetries, nextId, requestOf, retriesOf, fate, queue, nonGcdQueued,
                    cooldownNonGcd, cooldownNormal>> /\ todo' = <<>>
    BY <1>1, <1>2 DEF Frame, queues, record, asked
  <2>2. \A b \in In(todo) : b.do # "SetNonGcd"
    BY <1>1
  <2>3. QueuesOK' /\ RecordOK'
    BY <1>2 DEF Frame, QueuesOK, RecordOK, IInv, TypeOK, queues, timers, record, asked
  <2>4. FlagsOK'
    BY <1>2 DEF Frame, NextFrame, FlagsOK, IInv, TypeOK, queues, timers
  <2> QED
    BY <2>1, <2>2, <2>3, <2>4, SceneEnds
<1>3. CASE ~processed
  <2>1. PICK b, r : b = Then("EndFrame") /\ r = <<b>>
    OBVIOUS
  <2>2. ProcessQueues(r)
    BY <1>3, <2>1 DEF Frame
  <2>3. b \in Frames /\ b.do = "EndFrame" /\ FrameOK(b) /\ ~Popped(b)
    BY <2>1, ThenFrames
  <2>4. Len(r) = 1 /\ r[1] = b /\ r \in Seq(Frames)
    BY <2>1, <2>3
  <2>5. In(r) = {b} /\ Ordered(r)
    BY <2>4 DEF In, Ordered
  <2>6. Rest(r)
    BY <1>1, <2>3, <2>4, <2>5 DEF Rest
  <2> QED
    BY <2>2, <2>6, ProcessQueuesKeeps
<1> QED
  BY <1>2, <1>3

LEMMA DropStaleKeeps ==
  ASSUME IInv, DropStale
  PROVE  IInv'
<1>1. PICK t, T : t = Top /\ T = Tail(todo)
  OBVIOUS
<1>2. todo # <<>> /\ t.do = "DropStale" /\ processed' = processed
  BY <1>1 DEF DropStale, At, Top
<1>3. /\ T \in Seq(Frames) /\ In(todo) = {t} \union In(T) /\ Ordered(T)
      /\ \A c \in In(T) : MayPrecede(t, c)
      /\ InScene(t) => processed
  BY <1>1, <1>2, Stack
<1>4. processed' = TRUE
  BY <1>2, <1>3 DEF InScene, IInv, TypeOK
<1>5. Rest(T)
  <2>1. \A c \in In(T) : ~Popped(c)
    BY <1>2, <1>3 DEF MayPrecede, EndsPop
  <2>2. \A c \in In(T) : FrameOK(c) /\ (c.do \in {"PushCooldown", "KeepCooldown"} => usage.queueOnCooldown)
    BY <1>3 DEF IInv, FramesOK, NoCooldown
  <2>3. \A b \in In(todo) : b.do = "SetNonGcd" => b \in In(T)
    BY <1>2, <1>3
  <2> QED
    BY <1>3, <2>1, <2>2, <2>3 DEF Rest
<1>6. CASE CooldownNormalReady
  <2>1. CastCooldownNormal(T)
    BY <1>1, <1>6 DEF DropStale
  <2> QED
    BY <1>4, <1>5, <2>1, CastCooldownNormalKeeps
<1>7. CASE ~CooldownNormalReady
  <2>1. todo' = T /\ UNCHANGED <<usage, renewed, nextId, requestOf, retriesOf, fate, queue,
                                 nonGcdQueued,
                                 cooldownNonGcd, cooldownNormal>>
    BY <1>1, <1>7 DEF DropStale, Goto, record, asked
  <2>2. QueuesOK' /\ RecordOK'
    BY <1>7 DEF DropStale, QueuesOK, RecordOK, IInv, TypeOK, timers, record, asked
  <2>3. FlagsOK'
    BY <1>7 DEF DropStale, FlagsOK, IInv, TypeOK, timers, Goto
  <2>4. cooldownNormal' => cooldownNormal
    BY <2>1
  <2> QED
    BY <1>4, <1>5, <2>1, <2>2, <2>3, <2>4, OnlyRest
<1> QED
  BY <1>6, <1>7

LEMMA EnterKeeps ==
  ASSUME IInv, Enter
  PROVE  IInv'
<1>1. PICK t, T, a, r : t = Top /\ T = Tail(todo) /\ a = [t EXCEPT !.do = "ClearCooldown"]
                        /\ r = <<a>> \o T
  OBVIOUS
<1>2. todo # <<>> /\ t.do = "Enter"
  BY <1>1 DEF Enter, At, Top
<1>3. t \in Frames /\ FrameOK(t)
  BY <1>1, <1>2, TopTyped
<1>4. a \in Frames /\ a.do = "ClearCooldown" /\ a.req = t.req /\ a.id = t.id
  BY <1>1, <1>3 DEF Frames
<1>5. FrameOK(a) /\ ~EndsPop(a) /\ (Popped(a) <=> Popped(t)) /\ a.do # "EndFrame"
  BY <1>2, <1>3, <1>4 DEF FrameOK, EndsPop, Popped, CastFrames
<1>6. /\ T \in Seq(Frames) /\ In(todo) = {t} \union In(T) /\ Ordered(T)
  BY <1>1, <1>2, Stack
<1>7. \A c \in In(T) : MayPrecede(a, c)
  BY <1>5 DEF MayPrecede
<1>8. r \in Seq(Frames) /\ In(r) = {a} \union In(T) /\ Ordered(r)
  BY <1>1, <1>4, <1>6, <1>7, StackPush
<1>9. CASE processed
  <2>1. todo' = r /\ UNCHANGED <<usage, renewed, processed, numRetries, nextId, requestOf,
                                 retriesOf, fate,
                                 queue, nonGcdQueued, cooldownNonGcd, cooldownNormal>>
    BY <1>1, <1>9 DEF Enter, Goto, queues, record, asked
  <2>2. QueuesOK' /\ RecordOK'
    BY <1>9 DEF Enter, QueuesOK, RecordOK, IInv, TypeOK, queues, timers, record, asked
  <2>3. FlagsOK'
    BY <1>9 DEF Enter, FlagsOK, IInv, TypeOK, queues, timers, Goto
  <2>4. PICK N : N = {a}
    OBVIOUS
  <2>5. /\ todo' \in Seq(Frames) /\ In(todo)' = N \union In(T) /\ In(T) \subseteq In(todo)
        /\ Ordered(todo)'
    BY <1>6, <1>8, <2>1, <2>4
  <2>6. TypeOK'
    BY <2>2, <2>3, <2>5 DEF TypeOK, QueuesOK, FlagsOK, RecordOK
  <2>7. SameQueue(In(T))
    BY <1>2, <1>6, <2>1 DEF SameQueue
  <2>8. /\ \A b \in N : FrameOK(b)
        /\ \A b \in N : InScene(b) => processed
        /\ \A b \in N : b.do \notin {"PushCooldown", "KeepCooldown"}
    BY <1>4, <1>5, <1>9, <2>4
  <2>9. /\ usage' = usage /\ renewed' = renewed /\ processed' = processed
        /\ numRetries' = numRetries /\ nextId' = nextId
        /\ requestOf' = requestOf /\ retriesOf' = retriesOf
        /\ cooldownNonGcd' = cooldownNonGcd
        /\ cooldownNormal' = cooldownNormal
        /\ fate' = fate
    BY <2>1
  <2> QED
    BY <2>5, <2>6, <2>7, <2>8, <2>9, MovesOn
<1>10. CASE ~processed
  <2>1. ProcessQueues(r)
    BY <1>1, <1>10 DEF Enter
  <2>2. \A b \in In(todo) : ~Popped(b) /\ b.do # "SetNonGcd"
    BY <1>10, Unprocessed
  <2>3. Rest(r)
    <3>1. \A b \in In(T) : FrameOK(b) /\ (b.do \in {"PushCooldown", "KeepCooldown"} => usage.queueOnCooldown)
      BY <1>6 DEF IInv, FramesOK, NoCooldown
    <3>2. \A b \in In(r) : ~Popped(b)
      BY <1>5, <1>6, <1>8, <2>2
    <3> QED
      BY <1>4, <1>5, <1>8, <2>2, <3>1, <3>2 DEF Rest
  <2> QED
    BY <2>1, <2>3, ProcessQueuesKeeps
<1> QED
  BY <1>9, <1>10
------------------------------------------------------------------------------
LEMMA InitInv ==
  ASSUME Init
  PROVE  IInv
<1>1. In(todo) = {} /\ Ordered(todo) /\ In(queue) = {}
  BY InEmpty DEF Init
<1>2. FlagsOK
  BY DEF Init, FlagsOK
<1>3. QueuesOK /\ todo \in Seq(Frames)
  BY RequestFrames, SizeAssumption DEF Init, QueuesOK
<1>4. RecordOK
  BY RequestFrames, SizeAssumption, BoundAssumption DEF Init, RecordOK
<1>5. TypeOK
  BY <1>2, <1>3, <1>4 DEF TypeOK, QueuesOK, FlagsOK, RecordOK
<1>6. NoCooldown /\ Flagged /\ SceneProcessed /\ FramesOK /\ QueuedOK
  BY <1>1 DEF Init, NoCooldown, Flagged, SceneProcessed, FramesOK, QueuedOK
<1>7. Untried /\ RetriesInherited
  BY DEF Init, Untried, RetriesInherited
<1> QED
  BY <1>1, <1>5, <1>6, <1>7 DEF IInv

LEMMA StutterInv ==
  ASSUME IInv, UNCHANGED vars
  PROVE  IInv'
<1>1. FlagsOK'
  BY DEF FlagsOK, IInv, TypeOK, vars, queues, timers
<1>2. QueuesOK' /\ RecordOK'
  BY DEF QueuesOK, RecordOK, IInv, TypeOK, vars, queues, timers, record, asked
<1>3. SameRecord /\ todo' = todo /\ queue' = queue /\ nonGcdQueued' = nonGcdQueued
  BY DEF SameRecord, vars, queues, record, asked
<1> QED
  BY <1>1, <1>2, <1>3, StayKeeps

LEMMA NextInv ==
  ASSUME IInv, Next
  PROVE  IInv'
<1>1. CASE \E s \in Spells, n \in BOOLEAN : (n => usage.noQueue) /\ Press(s, n)
  BY <1>1, PressKeeps
<1>2. CASE Step
  <2>1. CASE DropStale \/ EndFrame \/ NonGcdPopped \/ NonGcdDone \/ NormalPopped \/ NoQueueDone
    BY <2>1, DropStaleKeeps, EndFrameKeeps, NonGcdPoppedKeeps, NonGcdDoneKeeps, NormalPoppedKeeps,
       NoQueueDoneKeeps
  <2>2. CASE \/ Enter \/ ClearCooldown \/ QueueNormal \/ QueueNonGcd \/ Refuse \/ CastSpell
             \/ SetNormal \/ SetNonGcd
    BY <2>2, EnterKeeps, ClearCooldownKeeps, QueueNormalKeeps, QueueNonGcdKeeps, RefuseKeeps,
       CastSpellKeeps, SetNormalKeeps, SetNonGcdKeeps
  <2>3. CASE ClientSends \/ ClientRefuses \/ ClientReturns \/ SpellFailed \/ IgnoreFailure
    BY <2>3, ClientSendsKeeps, ClientRefusesKeeps, ClientReturnsKeeps, SpellFailedKeeps,
       IgnoreFailureKeeps
  <2>4. CASE \/ QueueForCooldown \/ PushCooldown \/ KeepCooldown \/ QueueForRetry \/ PushRetry
             \/ KeepRetry
    BY <2>4, QueueForCooldownKeeps, PushCooldownKeeps, KeepCooldownKeeps, QueueForRetryKeeps,
       PushRetryKeeps, KeepRetryKeeps
  <2> QED
    BY <1>2, <2>1, <2>2, <2>3, <2>4 DEF Step
<1>3. CASE Frame \/ Tick \/ ClearQueuedSpells
  BY <1>3, FrameKeeps, TickKeeps, ClearQueuedSpellsKeeps
<1>4. CASE \E a \in 0..MaxAttempts : SpellStart(a)
  BY <1>4, SpellStartKeeps
<1>5. CASE \E a \in Attempts, c \in BOOLEAN : ServerRejects(a, c)
  BY <1>5, ServerRejectsKeeps
<1> QED
  BY <1>1, <1>2, <1>3, <1>4, <1>5 DEF Next

(* The inductive invariant.                                                  *)
LEMMA QueueInv == Spec => []IInv
<1>1. IInv /\ [Next]_vars => IInv'
  BY NextInv, StutterInv
<1> QED
  BY <1>1, InitInv, PTL DEF Spec

(* The queues, flags, call stack and record of attempts keep their types, and *)
(* gNonGcdCastQueue its capacity: an attempt never counts, and no request    *)
(* ever carries, more than RetryLimit retries (spellevents.cpp:398).         *)
THEOREM TypeTheorem == Spec => []TypeOK
<1>1. IInv => TypeOK
  BY DEF IInv
<1> QED
  BY <1>1, QueueInv, PTL

(* spellcast.cpp:269-293: without cooldown queues and between two frames,    *)
(* what gNonGcdCastQueue holds is flagged for processQueues, whatever        *)
(* handlers queued, retried or cleared between the pop and the flag.         *)
THEOREM OrphanTheorem == Spec => []NothingOrphaned
<1>1. IInv => NothingOrphaned
  BY InEmpty DEF IInv, Flagged, NothingOrphaned
<1> QED
  BY <1>1, QueueInv, PTL
------------------------------------------------------------------------------
(* The bound on retries.  Counting the attempts before an attempt.           *)
Before(a) == IF requestOf[a].of < a THEN requestOf[a].of ELSE 0

LEMMA CountsShape ==
  ASSUME NEW f
  PROVE  Counts(f) <=> /\ f = [a \in 0..MaxAttempts |-> f[a]]
                       /\ \A a \in 0..MaxAttempts : f[a] = IF a < renewed THEN 0 ELSE 1 + f[Before(a)]
<1>1. ASSUME Counts(f)
      PROVE  /\ f = [a \in 0..MaxAttempts |-> f[a]]
             /\ \A a \in 0..MaxAttempts : f[a] = IF a < renewed THEN 0 ELSE 1 + f[Before(a)]
  BY <1>1 DEF Counts, Before
<1>2. ASSUME f = [a \in 0..MaxAttempts |-> f[a]],
             \A a \in 0..MaxAttempts : f[a] = IF a < renewed THEN 0 ELSE 1 + f[Before(a)]
      PROVE  Counts(f)
  BY <1>2 DEF Counts, Before
<1> QED
  BY <1>1, <1>2

LEMMA BeforeBelow ==
  ASSUME IInv, NEW a \in Attempts
  PROVE  Before(a) \in 0..MaxAttempts /\ Before(a) < a
<1>1. requestOf[a] \in Requests /\ a \in 1..MaxAttempts
  BY DEF IInv, TypeOK, Attempts
<1>2. PICK o : o = requestOf[a].of
  OBVIOUS
<1>3. o \in 0..MaxAttempts
  BY <1>1, <1>2 DEF Requests
<1> QED
  BY <1>1, <1>2, <1>3, BoundAssumption DEF Before

LEMMA OriginsBound ==
  ASSUME IInv, BoundInv
  PROVE  RetryBound
<1> SUFFICES ASSUME ~usage.queueOnCooldown, NEW a \in 1..(nextId - 1)
             PROVE  Origins[a] <= RetryLimit + 1
  BY DEF RetryBound
<1>1. PICK f : Counts(f)
  BY DEF BoundInv, Bound, SomeCount
<1>2. Counts(Origins)
  BY <1>1 DEF Counts, Origins
<1>3. Origins[a] \in Nat /\ Origins[a] <= requestOf[a].retries + 1
  <2>1. a \in 0..MaxAttempts
    BY BoundAssumption DEF IInv, TypeOK
  <2> QED
    BY <1>2, <2>1 DEF BoundInv, Bound, EveryCount
<1>4. requestOf[a].retries \in 0..RetryLimit
  <2>1. a \in Attempts
    BY BoundAssumption DEF IInv, TypeOK, Attempts
  <2> QED
    BY <2>1 DEF IInv, TypeOK, Requests
<1> QED
  BY <1>3, <1>4, SizeAssumption

(* An attempt is added to the record.                                        *)
LEMMA CountAdded ==
  ASSUME IInv, Unmade, NEW n \in Attempts, n = nextId, NEW q \in Requests, q.of < n,
         requestOf' = [requestOf EXCEPT ![n] = q], renewed' = renewed
  PROVE  /\ \A f : Counts(f)' =>
              \E g : /\ Counts(g) /\ \A a \in 0..MaxAttempts : a # n => f[a] = g[a]
                     /\ f[n] = 1 + g[q.of]
         /\ \A f : Counts(f) => \E g : Counts(g)'
<1>1. /\ n \in 1..MaxAttempts /\ q.of \in 0..MaxAttempts /\ requestOf \in [Attempts -> Requests]
      /\ renewed \in 1..n
  BY DEF Attempts, Requests, IInv, TypeOK
<1>2. /\ \A a \in Attempts : a # n => Before(a)' = Before(a)
      /\ Before(n)' = q.of
  BY <1>1 DEF Before
<1>3. \A a \in Attempts : n <= a => Before(a) = 0
  <2> SUFFICES ASSUME NEW a \in Attempts, n <= a PROVE Before(a) = 0
    OBVIOUS
  <2>1. requestOf[a].of = 0
    BY BoundAssumption DEF Unmade, Attempts
  <2> QED
    BY <2>1 DEF Before
<1>4. \A a \in Attempts : /\ Before(a) \in 0..MaxAttempts /\ Before(a) < a
                          /\ a # n => Before(a) # n
  <2> SUFFICES ASSUME NEW a \in Attempts
               PROVE  Before(a) \in 0..MaxAttempts /\ Before(a) < a /\ (a # n => Before(a) # n)
    OBVIOUS
  <2>1. Before(a) \in 0..MaxAttempts /\ Before(a) < a
    BY BeforeBelow
  <2>2. CASE a < n
    BY <2>1, <2>2, <1>1, BoundAssumption DEF Attempts
  <2>3. CASE n <= a
    BY <1>1, <1>3, <2>1, <2>3
  <2> QED
    BY <2>1, <2>2, <2>3, <1>1, BoundAssumption DEF Attempts
<1>5. ASSUME NEW f, Counts(f)'
      PROVE  \E g : /\ Counts(g) /\ \A a \in 0..MaxAttempts : a # n => f[a] = g[a]
                    /\ f[n] = 1 + g[q.of]
  <2>1. /\ f = [a \in 0..MaxAttempts |-> f[a]]
        /\ \A a \in 0..MaxAttempts : f[a] = IF a < renewed THEN 0 ELSE 1 + f[Before(a)']
    BY <1>5 DEF Counts, Before
  <2>2. PICK g : g = [a \in 0..MaxAttempts |-> IF a = n THEN 1 ELSE f[a]]
    OBVIOUS
  <2>3. \A a \in 0..MaxAttempts : g[a] = IF a = n THEN 1 ELSE f[a]
    BY <2>2
  <2>4. ASSUME NEW a \in 0..MaxAttempts PROVE g[a] = IF a < renewed THEN 0 ELSE 1 + g[Before(a)]
    <3>1. CASE a < renewed
      <4>1. a # n
        BY <1>1, <3>1
      <4>2. f[a] = 0
        BY <2>1, <3>1
      <4> QED
        BY <2>3, <3>1, <4>1, <4>2
    <3>2. CASE a = n
      <4>1. 0 \in 0..MaxAttempts /\ 0 # n /\ 0 < renewed
        BY <1>1, BoundAssumption
      <4>2. f[0] = 0 /\ g[0] = f[0]
        BY <2>1, <2>3, <4>1
      <4>3. Before(a) = 0
        BY <1>3, <3>2, <1>1
      <4>4. g[a] = 1 /\ ~(a < renewed)
        BY <2>3, <3>2, <1>1
      <4> QED
        BY <4>2, <4>3, <4>4
    <3>3. CASE ~(a < renewed) /\ a # n
      <4>1. a \in Attempts
        BY <1>1, <3>3, BoundAssumption DEF Attempts
      <4>2. f[a] = 1 + f[Before(a)]
        BY <1>2, <2>1, <3>3, <4>1
      <4> QED
        BY <1>4, <2>3, <3>3, <4>1, <4>2
    <3> QED
      BY <3>1, <3>2, <3>3
  <2>5. Counts(g)
    <3>1. g = [a \in 0..MaxAttempts |-> g[a]]
      BY <2>2
    <3> QED
      BY <2>4, <3>1, CountsShape
  <2>6. f[n] = 1 + g[q.of]
    <3>1. f[n] = 1 + f[q.of]
      <4>1. n \in 0..MaxAttempts /\ ~(n < renewed)
        BY <1>1
      <4>2. f[n] = 1 + f[Before(n)']
        BY <2>1, <4>1
      <4> QED
        BY <1>2, <4>2
    <3>2. g[q.of] = f[q.of]
      <4>1. q.of \in 0..MaxAttempts /\ q.of # n
        BY <1>1
      <4> QED
        BY <2>3, <4>1
    <3> QED
      BY <3>1, <3>2
  <2> QED
    BY <2>3, <2>5, <2>6
<1>6. ASSUME NEW f, Counts(f) PROVE \E g : Counts(g)'
  <2>1. /\ f = [a \in 0..MaxAttempts |-> f[a]]
        /\ \A a \in 0..MaxAttempts : f[a] = IF a < renewed THEN 0 ELSE 1 + f[Before(a)]
    BY <1>6, CountsShape
  <2>2. PICK g : g = [a \in 0..MaxAttempts |-> IF a = n THEN 1 + f[q.of] ELSE f[a]]
    OBVIOUS
  <2>3. \A a \in 0..MaxAttempts : g[a] = IF a = n THEN 1 + f[q.of] ELSE f[a]
    BY <2>2
  <2>4. ASSUME NEW a \in 0..MaxAttempts PROVE g[a] = IF a < renewed THEN 0 ELSE 1 + g[Before(a)']
    <3>1. CASE a < renewed
      <4>1. a # n
        BY <1>1, <3>1
      <4>2. f[a] = 0
        BY <2>1, <3>1
      <4> QED
        BY <2>3, <3>1, <4>1, <4>2
    <3>2. CASE a = n
      <4>1. q.of \in 0..MaxAttempts /\ q.of # n
        BY <1>1
      <4>2. g[q.of] = f[q.of]
        BY <2>3, <4>1
      <4> QED
        BY <1>1, <1>2, <2>3, <3>2, <4>2
    <3>3. CASE ~(a < renewed) /\ a # n
      <4>1. a \in Attempts
        BY <1>1, <3>3, BoundAssumption DEF Attempts
      <4>2. f[a] = 1 + f[Before(a)] /\ Before(a)' = Before(a)
        BY <1>2, <2>1, <3>3, <4>1
      <4> QED
        BY <1>4, <2>3, <3>3, <4>1, <4>2
    <3> QED
      BY <3>1, <3>2, <3>3
  <2>5. Counts(g)'
    <3>1. g = [a \in 0..MaxAttempts |-> g[a]]
      BY <2>2
    <3> QED
      BY <2>4, <3>1 DEF Counts, Before
  <2> QED
    BY <2>5
<1> QED
  BY <1>5, <1>6

LEMMA CountedSame ==
  ASSUME NEW r, NEW s, r.of = s.of, r.retries = s.retries, Counted(r)
  PROVE  Counted(s)
  BY DEF Counted

LEMMA FreshCounted ==
  ASSUME IInv, NEW r \in Requests, r.of = 0
  PROVE  Counted(r)
<1>1. r.retries \in Nat /\ 0 \in 0..MaxAttempts /\ 0 < nextId
  BY SizeAssumption, BoundAssumption DEF Requests, IInv, TypeOK
<1>2. ASSUME NEW f, Counts(f) PROVE f[0] <= r.retries
  <2>1. f[0] = 0
    BY <1>1, <1>2 DEF Counts, IInv, TypeOK
  <2> QED
    BY <1>1, <2>1
<1> QED
  BY <1>1, <1>2 DEF Counted

LEMMA CountsKept ==
  ASSUME nextId' = nextId, renewed' = renewed, requestOf' = requestOf
  PROVE  /\ SomeCount /\ EveryCount /\ Unmade => SomeCount' /\ EveryCount' /\ Unmade'
         /\ \A r : Counted(r) => Counted(r)'
<1>1. \A f : Counts(f)' <=> Counts(f)
  BY DEF Counts
<1>2. \A r : Counted(r) => Counted(r)'
  BY <1>1 DEF Counted
<1>3. SomeCount => SomeCount'
  BY <1>1 DEF SomeCount
<1>4. EveryCount => EveryCount'
  BY <1>1 DEF EveryCount
<1>5. Unmade => Unmade'
  BY DEF Unmade
<1> QED
  BY <1>2, <1>3, <1>4, <1>5

(* A step after which nothing that was popped is on the stack.               *)
LEMMA BoundCalm ==
  ASSUME Bound, nextId' = nextId, renewed' = renewed, requestOf' = requestOf,
         NEW S, In(todo)' = S, \A b \in S : ~Popped(b), \A b \in S : Asks(b) => Counted(b.req),
         NEW Q, In(queue)' = Q, \A q \in Q : Counted(q),
         NEW m, m = normal',
         normalQueued' \/ (\E b \in S : b.do = "SetNormal") => Counted(m)
  PROVE  Bound'
<1>1. SomeCount' /\ EveryCount' /\ Unmade' /\ \A r : Counted(r) => Counted(r)'
  BY CountsKept DEF Bound
<1>2. NothingPopped'
  BY DEF NothingPopped
<1>3. /\ \A q \in Q : Counted(q)'
      /\ \A b \in S : Asks(b) => Counted(b.req)'
      /\ normalQueued' \/ (\E b \in S : b.do = "SetNormal") => Counted(m)'
  BY <1>1
<1>4. AllCounted'
  <2>1. \A q \in In(queue)' : Counted(q)'
    BY <1>3
  <2>2. \A b \in In(todo)' : Asks(b) => Counted(b.req)'
    BY <1>3
  <2>3. normalQueued' \/ (\E b \in In(todo)' : b.do = "SetNormal") => Counted(normal)'
    <3> SUFFICES ASSUME normalQueued' \/ (\E b \in In(todo)' : b.do = "SetNormal")
                 PROVE  Counted(normal)'
      OBVIOUS
    <3>1. Counted(m)'
      BY <1>3
    <3> QED
      BY <3>1 DEF Counted
  <2> QED
    BY <2>1, <2>2, <2>3 DEF AllCounted
<1> QED
  BY <1>1, <1>2, <1>4 DEF Bound, CastAtOnce

(* One after which only the top frame was popped.                            *)
LEMMA BoundPopped ==
  ASSUME Bound, nextId' = nextId, renewed' = renewed, requestOf' = requestOf,
         NEW a, NEW r, todo' # <<>>, Head(todo)' = a, Tail(todo)' = r, In(todo)' = {a} \union In(r),
         a.do \in CastFrames, Counted(a.req), ~inLua', ~Casting',
         a.req.spell \in Normal => ~gcd' /\ ~normalQueued' /\ \A b \in In(r) : b.do # "SetNormal",
         \A b \in In(r) : ~Popped(b), \A b \in In(r) : Asks(b) => Counted(b.req),
         NEW Q, In(queue)' = Q, \A q \in Q : Counted(q),
         NEW m, m = normal',
         normalQueued' \/ (\E b \in In(r) : b.do = "SetNormal") => Counted(m)
  PROVE  Bound'
<1>1. SomeCount' /\ EveryCount' /\ Unmade' /\ \A s : Counted(s) => Counted(s)'
  BY CountsKept DEF Bound
<1>2. a.do # "SetNormal"
  BY DEF CastFrames
<1>3. PoppedOnTop'
  <2>1. Top' = a /\ (\A b \in In(Tail(todo))' : ~Popped(b))
    BY DEF Top
  <2>2. a.req.spell \in Normal => \A b \in In(todo)' : b.do # "SetNormal"
    BY <1>2
  <2> QED
    BY <2>1, <2>2 DEF PoppedOnTop
<1>4. /\ \A q \in Q : Counted(q)'
      /\ \A b \in {a} \union In(r) : Asks(b) => Counted(b.req)'
      /\ normalQueued' \/ (\E b \in In(r) : b.do = "SetNormal") => Counted(m)'
  BY <1>1
<1>5. AllCounted'
  <2>1. \A q \in In(queue)' : Counted(q)'
    BY <1>4
  <2>2. \A b \in In(todo)' : Asks(b) => Counted(b.req)'
    BY <1>4
  <2>3. normalQueued' \/ (\E b \in In(todo)' : b.do = "SetNormal") => Counted(normal)'
    <3> SUFFICES ASSUME normalQueued' \/ (\E b \in In(todo)' : b.do = "SetNormal")
                 PROVE  Counted(normal)'
      OBVIOUS
    <3>1. Counted(m)'
      BY <1>2, <1>4
    <3> QED
      BY <3>1 DEF Counted
  <2> QED
    BY <2>1, <2>2, <2>3 DEF AllCounted
<1> QED
  BY <1>1, <1>3, <1>5 DEF Bound, CastAtOnce

(* What is left when the top frame is done.                                  *)
LEMMA Beneath ==
  ASSUME IInv, Bound, todo # <<>>, NEW t, t = Top, NEW T, T = Tail(todo)
  PROVE  /\ T \in Seq(Frames) /\ In(todo) = {t} \union In(T) /\ t \in Frames /\ t.req \in Requests
         /\ \A b \in In(T) : ~Popped(b)
         /\ \A b \in In(T) : Asks(b) => Counted(b.req)
         /\ Asks(t) => Counted(t.req)
         /\ normalQueued \/ t.do = "SetNormal" \/ (\E b \in In(T) : b.do = "SetNormal") =>
              Counted(normal)
         /\ \A q \in In(queue) : Counted(q)
         /\ Popped(t) => /\ ~inLua /\ ~Casting
                         /\ t.req.spell \in Normal =>
                              ~gcd /\ ~normalQueued /\ \A b \in In(T) : b.do # "SetNormal"
<1>1. T \in Seq(Frames) /\ In(todo) = {t} \union In(T) /\ t \in Frames
  BY Stack
<1>2. t.req \in Requests
  BY <1>1 DEF Frames
<1>3. AllCounted /\ CastAtOnce
  BY DEF Bound
<1>4. \A b \in In(T) : ~Popped(b)
  BY <1>1, <1>3 DEF CastAtOnce, NothingPopped, PoppedOnTop
<1>5. Popped(t) => PoppedOnTop
  BY <1>1, <1>3 DEF CastAtOnce, NothingPopped
<1>6. Popped(t) => /\ ~inLua /\ ~Casting
                   /\ t.req.spell \in Normal =>
                        ~gcd /\ ~normalQueued /\ \A b \in In(T) : b.do # "SetNormal"
  BY <1>1, <1>5 DEF PoppedOnTop
<1>7. /\ \A b \in In(T) : Asks(b) => Counted(b.req)
      /\ Asks(t) => Counted(t.req)
      /\ \A q \in In(queue) : Counted(q)
  BY <1>1, <1>3 DEF AllCounted
<1>8. normalQueued \/ t.do = "SetNormal" \/ (\E b \in In(T) : b.do = "SetNormal") =>
        Counted(normal)
  BY <1>1, <1>3 DEF AllCounted
<1> QED
  BY <1>1, <1>2, <1>4, <1>6, <1>7, <1>8

(* The top frame is done ...                                                 *)
LEMMA BoundTail ==
  ASSUME IInv, Bound, todo # <<>>, nextId' = nextId, renewed' = renewed, requestOf' = requestOf,
         NEW T, T = Tail(todo), todo' = T,
         NEW Q, In(queue)' = Q, \A q \in Q : Counted(q),
         NEW m, m = normal',
         normalQueued' \/ (\E b \in In(T) : b.do = "SetNormal") => Counted(m)
  PROVE  Bound'
<1>1. PICK t : t = Top
  OBVIOUS
<1>2. (\A b \in In(T) : ~Popped(b)) /\ (\A b \in In(T) : Asks(b) => Counted(b.req))
  BY <1>1, Beneath
<1>3. PICK S : S = In(T)
  OBVIOUS
<1>4. /\ In(todo)' = S /\ (\A b \in S : ~Popped(b)) /\ (\A b \in S : Asks(b) => Counted(b.req))
      /\ normalQueued' \/ (\E b \in S : b.do = "SetNormal") => Counted(m)
  BY <1>2, <1>3 DEF In
<1> QED
  BY <1>4, BoundCalm

LEMMA BoundDone ==
  ASSUME IInv, Bound, todo # <<>>, todo' = Tail(todo),
         UNCHANGED <<nextId, renewed, requestOf, queue, normal>>,
         normalQueued' => normalQueued \/ Top.do = "SetNormal"
  PROVE  Bound'
<1>1. PICK t, T, Q, m : t = Top /\ T = Tail(todo) /\ Q = In(queue) /\ m = normal
  OBVIOUS
<1>2. /\ normalQueued \/ t.do = "SetNormal" \/ (\E b \in In(T) : b.do = "SetNormal") =>
           Counted(normal)
      /\ \A q \in In(queue) : Counted(q)
  BY <1>1, Beneath
<1>3. /\ In(queue)' = Q /\ (\A q \in Q : Counted(q)) /\ m = normal'
      /\ normalQueued' \/ (\E b \in In(T) : b.do = "SetNormal") => Counted(m)
  BY <1>1, <1>2 DEF In
<1>4. todo' = T /\ nextId' = nextId /\ renewed' = renewed /\ requestOf' = requestOf
  BY <1>1
<1> QED
  BY <1>1, <1>3, <1>4, BoundTail

(* ... or gives way to the next one.                                         *)
LEMMA BoundNext ==
  ASSUME IInv, Bound, todo # <<>>, nextId' = nextId, renewed' = renewed, requestOf' = requestOf,
         NEW T, T = Tail(todo), NEW a \in Frames, todo' = <<a>> \o T,
         ~Popped(a), Asks(a) => Counted(a.req),
         NEW Q, In(queue)' = Q, \A q \in Q : Counted(q),
         NEW m, m = normal',
         normalQueued' \/ a.do = "SetNormal" \/ (\E b \in In(T) : b.do = "SetNormal") => Counted(m)
  PROVE  Bound'
<1>1. PICK t : t = Top
  OBVIOUS
<1>2. /\ T \in Seq(Frames) /\ (\A b \in In(T) : ~Popped(b))
      /\ (\A b \in In(T) : Asks(b) => Counted(b.req))
  BY <1>1, Beneath
<1>3. PICK u : u = <<a>> \o T
  OBVIOUS
<1>4. In(u) = {a} \union In(T)
  BY <1>2, <1>3, OnTop
<1>5. PICK S : S = {a} \union In(T)
  OBVIOUS
<1>6. /\ In(todo)' = S /\ (\A b \in S : ~Popped(b)) /\ (\A b \in S : Asks(b) => Counted(b.req))
      /\ normalQueued' \/ (\E b \in S : b.do = "SetNormal") => Counted(m)
  BY <1>2, <1>3, <1>4, <1>5 DEF In
<1> QED
  BY <1>6, BoundCalm

LEMMA BoundGoesOn ==
  ASSUME IInv, Bound, todo # <<>>, NEW a \in Frames, todo' = <<a>> \o Tail(todo),
         ~Asks(a), a.do # "SetNormal",
         UNCHANGED <<nextId, renewed, requestOf, queue, normal, normalQueued>>
  PROVE  Bound'
<1>1. PICK t, T, Q, m : t = Top /\ T = Tail(todo) /\ Q = In(queue) /\ m = normal
  OBVIOUS
<1>2. /\ normalQueued \/ t.do = "SetNormal" \/ (\E b \in In(T) : b.do = "SetNormal") =>
           Counted(normal)
      /\ \A q \in In(queue) : Counted(q)
  BY <1>1, Beneath
<1>3. /\ In(queue)' = Q /\ (\A q \in Q : Counted(q)) /\ m = normal'
      /\ normalQueued' \/ a.do = "SetNormal" \/ (\E b \in In(T) : b.do = "SetNormal") => Counted(m)
  BY <1>1, <1>2 DEF In
<1>4. todo' = <<a>> \o T /\ nextId' = nextId /\ renewed' = renewed /\ requestOf' = requestOf
      /\ ~Popped(a)
  BY <1>1 DEF Asks, Popped, asked
<1> QED
  BY <1>1, <1>3, <1>4, BoundNext

LEMMA NoQueueDoneBound ==
  ASSUME IInv, Bound, NoQueueDone
  PROVE  Bound'
<1>1. todo # <<>> /\ todo' = Tail(todo)
  BY DEF NoQueueDone, At, Goto
<1>2. UNCHANGED <<nextId, renewed, requestOf, queue, normal, normalQueued>>
  BY DEF NoQueueDone, queues, record, asked
<1> QED
  BY <1>1, <1>2, BoundDone

LEMMA SetNormalBound ==
  ASSUME IInv, Bound, SetNormal
  PROVE  Bound'
<1>1. todo # <<>> /\ todo' = Tail(todo) /\ Top.do = "SetNormal"
  BY DEF SetNormal, At, Goto, Top
<1>2. UNCHANGED <<nextId, renewed, requestOf, queue, normal>>
  BY DEF SetNormal, record, asked
<1> QED
  BY <1>1, <1>2, BoundDone

LEMMA SetNonGcdBound ==
  ASSUME IInv, Bound, SetNonGcd
  PROVE  Bound'
<1>1. todo # <<>> /\ todo' = Tail(todo)
  BY DEF SetNonGcd, At, Goto
<1>2. UNCHANGED <<nextId, renewed, requestOf, queue, normal, normalQueued>>
  BY DEF SetNonGcd, record, asked
<1> QED
  BY <1>1, <1>2, BoundDone

LEMMA IgnoreFailureBound ==
  ASSUME IInv, Bound, IgnoreFailure
  PROVE  Bound'
<1>1. todo # <<>> /\ todo' = Tail(todo)
  BY DEF IgnoreFailure, At, Goto
<1>2. UNCHANGED <<nextId, renewed, requestOf, queue, normal, normalQueued>>
  BY DEF IgnoreFailure, queues, record, asked
<1> QED
  BY <1>1, <1>2, BoundDone

LEMMA ClientSendsBound ==
  ASSUME IInv, Bound, ClientSends
  PROVE  Bound'
<1>1. todo # <<>> /\ todo' = Tail(todo)
  BY DEF ClientSends, ClientCalled, At, Signal
<1>2. UNCHANGED <<nextId, renewed, requestOf, queue, normal, normalQueued>>
  BY DEF ClientSends, queues, asked
<1> QED
  BY <1>1, <1>2, BoundDone

LEMMA ClientReturnsBound ==
  ASSUME IInv, Bound, ClientReturns
  PROVE  Bound'
<1>1. todo # <<>> /\ todo' = Tail(todo)
  BY DEF ClientReturns, At, Signal
<1>2. UNCHANGED <<nextId, renewed, requestOf, queue, normal, normalQueued>>
  BY DEF ClientReturns, queues, asked
<1> QED
  BY <1>1, <1>2, BoundDone

LEMMA NonGcdDoneBound ==
  ASSUME IInv, Bound, NonGcdDone
  PROVE  Bound'
<1>1. todo # <<>> /\ todo' = Tail(todo)
  BY DEF NonGcdDone, DoneQueued, At, Goto
<1>2. UNCHANGED <<nextId, renewed, requestOf, queue, normal, normalQueued>>
  BY DEF NonGcdDone, DoneQueued, record, asked
<1> QED
  BY <1>1, <1>2, BoundDone

LEMMA NormalPoppedBound ==
  ASSUME IInv, Bound, NormalPopped
  PROVE  Bound'
<1>1. todo # <<>> /\ todo' = Tail(todo)
  BY DEF NormalPopped, At, Signal
<1>2. UNCHANGED <<nextId, renewed, requestOf, queue, normal, normalQueued>>
  BY DEF NormalPopped, queues, record, asked
<1> QED
  BY <1>1, <1>2, BoundDone

LEMMA EndFrameBound ==
  ASSUME IInv, Bound, EndFrame
  PROVE  Bound'
<1>1. todo # <<>> /\ todo' = Tail(todo)
  BY DEF EndFrame, At, Goto
<1>2. UNCHANGED <<nextId, renewed, requestOf, queue, normal, normalQueued>>
  BY DEF EndFrame, queues, record, asked
<1> QED
  BY <1>1, <1>2, BoundDone

LEMMA DropStaleBound ==
  ASSUME IInv, Bound, ~usage.queueOnCooldown, DropStale
  PROVE  Bound'
<1>1. ~CooldownNormalReady
  BY DEF IInv, NoCooldown, CooldownNormalReady
<1>2. todo # <<>> /\ todo' = Tail(todo) /\ normalQueued' = FALSE
  BY <1>1 DEF DropStale, At, Goto
<1>3. UNCHANGED <<nextId, renewed, requestOf, queue, normal>>
  BY <1>1 DEF DropStale, record, asked
<1> QED
  BY <1>2, <1>3, BoundDone

(* Nothing waits for a cooldown.                                             *)
LEMMA NoCooldownSteps ==
  ASSUME IInv, ~usage.queueOnCooldown
  PROVE  ~PushCooldown /\ ~KeepCooldown /\ ~QueueForCooldown
<1>1. ASSUME At("PushCooldown") \/ At("KeepCooldown") PROVE FALSE
  <2>1. PICK t : t = Top
    OBVIOUS
  <2>2. t \in In(todo) /\ t.do \in {"PushCooldown", "KeepCooldown"}
    BY <1>1, <2>1, Stack DEF At, Top
  <2> QED
    BY <2>2 DEF IInv, NoCooldown
<1>2. ~QueueForCooldown
  BY DEF QueueForCooldown
<1> QED
  BY <1>1, <1>2 DEF PushCooldown, KeepCooldown

LEMMA NonGcdPoppedBound ==
  ASSUME IInv, Bound, NonGcdPopped
  PROVE  Bound'
<1>1. PICK a : a = Then("NonGcdDone")
  OBVIOUS
<1>2. a \in Frames /\ ~Asks(a) /\ a.do # "SetNormal"
  BY <1>1, ThenFrames DEF Asks, CastFrames
<1>3. todo # <<>> /\ todo' = <<a>> \o Tail(todo)
  BY <1>1 DEF NonGcdPopped, At, Signal
<1>4. UNCHANGED <<nextId, renewed, requestOf, queue, normal, normalQueued>>
  BY DEF NonGcdPopped, queues, record, asked
<1> QED
  BY <1>2, <1>3, <1>4, BoundGoesOn

LEMMA SpellFailedBound ==
  ASSUME IInv, Bound, SpellFailed
  PROVE  Bound'
<1>1. PICK t, a : t = Top /\ a = [t EXCEPT !.do = "Failed"]
  OBVIOUS
<1>2. todo # <<>> /\ todo' = <<a>> \o Tail(todo)
  BY <1>1 DEF SpellFailed, At, Signal
<1>3. t \in Frames
  BY <1>1, <1>2, TopTyped
<1>4. a \in Frames /\ a.do = "Failed"
  BY <1>1, <1>3 DEF Frames
<1>5. ~Asks(a) /\ a.do # "SetNormal"
  BY <1>4 DEF Asks, CastFrames
<1>6. UNCHANGED <<nextId, renewed, requestOf, queue, normal, normalQueued>>
  BY DEF SpellFailed, queues, record, asked
<1> QED
  BY <1>2, <1>4, <1>5, <1>6, BoundGoesOn

LEMMA ClientRefusesBound ==
  ASSUME IInv, Bound, ClientRefuses
  PROVE  Bound'
<1>1. PICK t, T, i, a : t = Top /\ T = Tail(todo) /\ i = t.id /\ a = Do("SpellFailed", t.req, i)
  OBVIOUS
<1>2. /\ todo # <<>> /\ todo' = <<a, t>> \o T /\ t.do = "Client"
  BY <1>1 DEF ClientRefuses, ClientCalled, At, Top, Signal
<1>3. t \in Frames /\ t.req \in Requests /\ i \in 0..MaxAttempts
  BY <1>1, <1>2, TopTyped
<1>4. a \in Frames /\ a.do = "SpellFailed"
  BY <1>1, <1>3, RequestFrames DEF Do
<1>5. a.do # "EndFrame" /\ ~EndsPop(a) /\ t.do # "EndFrame" /\ ~EndsPop(t)
  BY <1>2, <1>4 DEF EndsPop
<1>6. In(todo)' = {a, t} \union In(T)
  BY <1>1, <1>2, <1>3, <1>4, <1>5, TopUnderTwo
<1>7. /\ \A b \in In(T) : ~Popped(b)
      /\ \A b \in In(T) : Asks(b) => Counted(b.req)
      /\ normalQueued \/ (\E b \in In(T) : b.do = "SetNormal") => Counted(normal)
      /\ \A q \in In(queue) : Counted(q)
  BY <1>1, <1>2, Beneath
<1>8. UNCHANGED <<nextId, renewed, requestOf, queue, normal, normalQueued>>
  BY DEF ClientRefuses, queues, asked
<1>9. PICK S, Q, m : S = {a, t} \union In(T) /\ Q = In(queue) /\ m = normal
  OBVIOUS
<1>10. /\ In(todo)' = S /\ (\A b \in S : ~Popped(b)) /\ (\A b \in S : Asks(b) => Counted(b.req))
       /\ \A b \in S : b.do = "SetNormal" => b \in In(T)
  BY <1>2, <1>4, <1>6, <1>7, <1>9 DEF Popped, Asks, CastFrames
<1>11. /\ In(queue)' = Q /\ (\A q \in Q : Counted(q)) /\ m = normal'
       /\ normalQueued' \/ (\E b \in S : b.do = "SetNormal") => Counted(m)
  BY <1>7, <1>8, <1>9, <1>10 DEF In
<1> QED
  BY <1>8, <1>10, <1>11, BoundCalm

(* A spell that is queued at once stands for no retry and no earlier attempt. *)
LEMMA PressCounted ==
  ASSUME IInv, At("Decide"), ~Popped(Top), NEW p, p = [Top.req EXCEPT !.retries = 0]
  PROVE  p \in Requests /\ Counted(p)
<1>1. PICK t : t = Top
  OBVIOUS
<1>2. todo # <<>> /\ t.do = "Decide" /\ t.do \in CastFrames
  BY <1>1 DEF At, Top, CastFrames
<1>3. FrameOK(t) /\ t.req \in Requests /\ p \in Requests
  BY <1>1, <1>2, TopTyped
<1>4. t.req.from = "press"
  BY <1>1, <1>2 DEF Popped
<1>5. p.of = 0
  BY <1>1, <1>2, <1>3, <1>4 DEF FrameOK, Requests
<1> QED
  BY <1>3, <1>5, FreshCounted

(* gLastNormalCastParams is overwritten before it is known whether the spell *)
(* is queued: never with less than what a queued spell stands for.           *)
LEMMA RememberCounted ==
  ASSUME IInv, Bound, At("Decide"), Remember, NEW T, T = Tail(todo), NEW m, m = normal'
  PROVE  /\ normalQueued \/ (\E b \in In(T) : b.do = "SetNormal") => Counted(m)
         /\ ~Popped(Top) /\ Top.req.spell \in Normal => Counted(m)
<1>1. PICK t : t = Top
  OBVIOUS
<1>2. todo # <<>>
  BY DEF At
<1>3. /\ normalQueued \/ (\E b \in In(T) : b.do = "SetNormal") => Counted(normal)
      /\ Popped(t) => (t.req.spell \in Normal =>
                         ~normalQueued /\ \A b \in In(T) : b.do # "SetNormal")
  BY <1>1, <1>2, Beneath
<1>4. CASE t.req.spell \notin Normal
  <2>1. m = normal
    BY <1>1, <1>4 DEF Remember
  <2> QED
    BY <1>1, <1>3, <1>4, <2>1
<1>5. CASE t.req.spell \in Normal /\ ~Popped(t)
  <2>1. m = [Top.req EXCEPT !.retries = 0]
    BY <1>1, <1>5 DEF Remember
  <2>2. Counted(m)
    BY <1>1, <1>5, <2>1, PressCounted
  <2> QED
    BY <2>2
<1>6. CASE t.req.spell \in Normal /\ Popped(t)
  BY <1>1, <1>3, <1>6
<1> QED
  BY <1>4, <1>5, <1>6

LEMMA KeepRetryBound ==
  ASSUME IInv, Bound, KeepRetry
  PROVE  Bound'
<1>1. PICK t, T, Q, m : t = Top /\ T = Tail(todo) /\ Q = In(queue) /\ m = t.req
  OBVIOUS
<1>2. todo # <<>> /\ todo' = T /\ t.do = "KeepRetry" /\ normal' = m
  BY <1>1 DEF KeepRetry, At, Goto, Top
<1>3. Counted(m) /\ \A q \in In(queue) : Counted(q)
  BY <1>1, <1>2, Beneath DEF Asks
<1>4. nextId' = nextId /\ renewed' = renewed /\ requestOf' = requestOf /\ queue' = queue
  BY DEF KeepRetry, record, asked
<1>5. In(queue)' = Q /\ \A q \in Q : Counted(q)
  BY <1>1, <1>3, <1>4 DEF In
<1> QED
  BY <1>1, <1>2, <1>3, <1>4, <1>5, BoundTail

LEMMA PushCounted ==
  ASSUME IInv, Bound, NEW p \in Requests, Counted(p), Push(p)
  PROVE  \A q \in In(queue)' : Counted(q)
<1>1. PICK E, u : E = Requests /\ u = Pushed(queue, p, QueueSize)
  OBVIOUS
<1>2. queue \in Seq(E) /\ Len(queue) <= QueueSize /\ p \in E /\ QueueSize \in Nat \ {0}
  BY <1>1, SizeAssumption DEF IInv, TypeOK
<1>3. In(u) \subseteq {p} \union In(queue)
  BY <1>1, <1>2, InPushed
<1>4. queue' = u
  BY <1>1 DEF Push
<1>5. In(queue)' = In(u)
  BY <1>4 DEF In
<1> QED
  BY <1>3, <1>5 DEF Bound, AllCounted

LEMMA PushRetryBound ==
  ASSUME IInv, Bound, PushRetry
  PROVE  Bound'
<1>1. PICK t, T, m, p : t = Top /\ T = Tail(todo) /\ m = normal /\ p = t.req
  OBVIOUS
<1>2. todo # <<>> /\ todo' = T /\ t.do = "PushRetry" /\ Push(p)
  BY <1>1 DEF PushRetry, At, Goto, Top
<1>3. /\ p \in Requests /\ Counted(p)
      /\ normalQueued \/ (\E b \in In(T) : b.do = "SetNormal") => Counted(normal)
  BY <1>1, <1>2, Beneath DEF Asks
<1>4. nextId' = nextId /\ renewed' = renewed /\ requestOf' = requestOf /\ normal' = normal
      /\ normalQueued' = normalQueued
  BY DEF PushRetry, record, asked
<1>5. PICK Q : Q = In(queue)'
  OBVIOUS
<1>6. \A q \in Q : Counted(q)
  BY <1>2, <1>3, <1>5, PushCounted
<1>7. m = normal' /\ (normalQueued' \/ (\E b \in In(T) : b.do = "SetNormal") => Counted(m))
  BY <1>1, <1>3, <1>4
<1> QED
  BY <1>1, <1>2, <1>4, <1>5, <1>6, <1>7, BoundTail

LEMMA RefuseBound ==
  ASSUME IInv, Bound, Refuse
  PROVE  Bound'
<1>1. PICK t, T, Q, m : t = Top /\ T = Tail(todo) /\ Q = In(queue) /\ m = normal'
  OBVIOUS
<1>2. At("Decide") /\ Remember /\ todo # <<>> /\ todo' = T
  BY <1>1 DEF Refuse, At, Goto
<1>3. normalQueued \/ (\E b \in In(T) : b.do = "SetNormal") => Counted(m)
  BY <1>1, <1>2, RememberCounted
<1>4. \A q \in In(queue) : Counted(q)
  BY DEF Bound, AllCounted
<1>5. nextId' = nextId /\ renewed' = renewed /\ requestOf' = requestOf /\ queue' = queue
      /\ normalQueued' = normalQueued
  BY DEF Refuse, record, asked
<1>6. In(queue)' = Q /\ \A q \in Q : Counted(q)
  BY <1>1, <1>4, <1>5 DEF In
<1>7. normalQueued' \/ (\E b \in In(T) : b.do = "SetNormal") => Counted(m)
  BY <1>3, <1>5
<1> QED
  BY <1>1, <1>2, <1>5, <1>6, <1>7, BoundTail

LEMMA QueueNormalBound ==
  ASSUME IInv, Bound, QueueNormal
  PROVE  Bound'
<1>1. PICK t, T, Q, m, a :
        t = Top /\ T = Tail(todo) /\ Q = In(queue) /\ m = normal' /\ a = Then("SetNormal")
  OBVIOUS
<1>2. /\ At("Decide") /\ Remember /\ todo # <<>> /\ todo' = <<a>> \o T
      /\ t.req.spell \in Normal /\ (Casting \/ gcd)
  BY <1>1 DEF QueueNormal, InWindow, At, Signal
<1>3. ~Popped(t)
  BY <1>1, <1>2, Beneath
<1>4. Counted(m)
  BY <1>1, <1>2, <1>3, RememberCounted
<1>5. \A q \in In(queue) : Counted(q)
  BY DEF Bound, AllCounted
<1>6. nextId' = nextId /\ renewed' = renewed /\ requestOf' = requestOf /\ queue' = queue
  BY DEF QueueNormal, record, asked
<1>7. In(queue)' = Q /\ \A q \in Q : Counted(q)
  BY <1>1, <1>5, <1>6 DEF In
<1>8. a \in Frames /\ ~Popped(a) /\ ~Asks(a)
  BY <1>1, ThenFrames DEF Asks, CastFrames
<1> QED
  BY <1>1, <1>2, <1>4, <1>6, <1>7, <1>8, BoundNext

LEMMA QueueNonGcdBound ==
  ASSUME IInv, Bound, QueueNonGcd
  PROVE  Bound'
<1>1. PICK t, T, p, a : /\ t = Top /\ T = Tail(todo) /\ p = [t.req EXCEPT !.retries = 0]
                        /\ a = Then("SetNonGcd")
  OBVIOUS
<1>2. /\ At("Decide") /\ todo # <<>> /\ Casting
      /\ (todo' = T /\ queue' = queue) \/ (todo' = <<a>> \o T /\ Push(p))
  BY <1>1 DEF QueueNonGcd, InWindow, At, Goto, Signal, Top
<1>3. /\ ~Popped(t)
      /\ normalQueued \/ (\E b \in In(T) : b.do = "SetNormal") => Counted(normal)
      /\ \A q \in In(queue) : Counted(q)
  BY <1>1, <1>2, Beneath
<1>4. nextId' = nextId /\ renewed' = renewed /\ requestOf' = requestOf /\ normal' = normal
      /\ normalQueued' = normalQueued
  BY DEF QueueNonGcd, record, asked
<1>5. CASE todo' = T /\ queue' = queue
  <2>1. UNCHANGED <<nextId, renewed, requestOf, queue, normal>> /\ normalQueued' = normalQueued
    BY <1>4, <1>5
  <2> QED
    BY <1>1, <1>2, <1>5, <2>1, BoundDone
<1>6. CASE todo' = <<a>> \o T /\ Push(p)
  <2>1. p \in Requests /\ Counted(p)
    BY <1>1, <1>2, <1>3, PressCounted
  <2>2. PICK Q, m : Q = In(queue)' /\ m = normal
    OBVIOUS
  <2>3. \A q \in Q : Counted(q)
    BY <1>6, <2>1, <2>2, PushCounted
  <2>4. a \in Frames /\ ~Popped(a) /\ ~Asks(a) /\ a.do # "SetNormal"
    BY <1>1, ThenFrames DEF Asks, CastFrames
  <2>5. /\ m = normal'
        /\ normalQueued' \/ a.do = "SetNormal" \/ (\E b \in In(T) : b.do = "SetNormal") => Counted(m)
    BY <1>3, <1>4, <2>2, <2>4
  <2> QED
    BY <1>1, <1>2, <1>4, <1>6, <2>2, <2>3, <2>4, <2>5, BoundNext
<1> QED
  BY <1>2, <1>5, <1>6

(* A retry counts one more than the attempt it is made for.                  *)
LEMMA AgainCounted ==
  ASSUME IInv, Bound, NEW i \in Attempts, i < nextId, NEW p, p.of = i,
         p.retries = retriesOf[i] + 1
  PROVE  Counted(p)
<1>1. i \in 1..(nextId - 1) /\ i \in 0..MaxAttempts
  BY BoundAssumption DEF Attempts, IInv, TypeOK
<1>2. retriesOf[i] \in Nat /\ requestOf[i].retries \in Nat /\ renewed \in Nat
  BY <1>1, SizeAssumption, BoundAssumption DEF IInv, TypeOK, Requests
<1>3. ASSUME NEW f, Counts(f) PROVE f[i] <= p.retries
  <2>1. f[i] \in Nat /\ f[i] <= requestOf[i].retries + 1
    BY <1>1, <1>3 DEF Bound, EveryCount
  <2>2. CASE i < renewed
    <3>1. f[i] = 0
      BY <1>1, <1>3, <2>2 DEF Counts
    <3> QED
      BY <1>2, <3>1
  <2>3. CASE ~(i < renewed)
    <3>1. i \in renewed..(nextId - 1)
      BY <1>1, <1>2, <2>3
    <3>2. retriesOf[i] >= requestOf[i].retries
      BY <3>1 DEF IInv, RetriesInherited
    <3> QED
      BY <1>2, <2>1, <3>2
  <2> QED
    BY <2>2, <2>3
<1> QED
  BY <1>3 DEF Counted

LEMMA QueueForRetryBound ==
  ASSUME IInv, Bound, QueueForRetry
  PROVE  Bound'
<1>1. PICK t, T, i, r, p, k, a :
        /\ t = Top /\ T = Tail(todo) /\ i = t.id /\ r = retriesOf[i] + 1
        /\ p = [Again(i) EXCEPT !.retries = r]
        /\ k = IF t.req.spell \in NonGcd THEN "PushRetry" ELSE "KeepRetry"
        /\ a = Do(k, p, 0)
  OBVIOUS
<1>2. todo # <<>> /\ t.do = "Failed" /\ i # 0 /\ retriesOf[i] < RetryLimit
  BY <1>1 DEF QueueForRetry, MayRetry, At, Top
<1>3. t \in Frames /\ FrameOK(t) /\ i \in 0..MaxAttempts
  BY <1>1, <1>2, TopTyped
<1>4. i \in Attempts /\ i < nextId
  BY <1>1, <1>2, <1>3, BoundAssumption DEF Attempts, FrameOK
<1>5. r \in 0..RetryLimit
  BY <1>1, <1>2, <1>4, SizeAssumption DEF IInv, TypeOK
<1>6. /\ p \in Requests /\ p.of = i /\ p.retries = r
      /\ [Again(i) EXCEPT !.retries = @ + 1] = p
  BY <1>1, <1>4, <1>5, AgainRequest
<1>7. Counted(p)
  BY <1>1, <1>4, <1>6, AgainCounted
<1>8. a \in Frames /\ a.do \in {"PushRetry", "KeepRetry"} /\ a.req = p
  <2>1. k \in {"PushRetry", "KeepRetry"}
    BY <1>1
  <2>2. 0 \in 0..MaxAttempts
    BY BoundAssumption
  <2>3. Do(k, p, 0) \in Frames
    BY <1>6, <2>1, <2>2, RequestFrames
  <2> QED
    BY <1>1, <2>1, <2>3 DEF Do
<1>9. ~Popped(a) /\ Counted(a.req) /\ a.do # "SetNormal"
  BY <1>7, <1>8 DEF Popped, CastFrames
<1>10. todo' = T \/ todo' = <<a>> \o T
  BY <1>1, <1>2, <1>6 DEF QueueForRetry, Goto, Signal, Top
<1>11. UNCHANGED <<nextId, renewed, requestOf, queue, normal, normalQueued>>
  BY DEF QueueForRetry, queues, asked
<1>12. CASE todo' = T
  BY <1>1, <1>2, <1>11, <1>12, BoundDone
<1>13. CASE todo' = <<a>> \o T
  <2>1. /\ normalQueued \/ (\E b \in In(T) : b.do = "SetNormal") => Counted(normal)
        /\ \A q \in In(queue) : Counted(q)
    BY <1>1, <1>2, Beneath
  <2>2. PICK Q, m : Q = In(queue) /\ m = normal
    OBVIOUS
  <2>3. In(queue)' = Q /\ (\A q \in Q : Counted(q)) /\ m = normal'
    BY <1>11, <2>1, <2>2 DEF In
  <2>4. normalQueued' \/ a.do = "SetNormal" \/ (\E b \in In(T) : b.do = "SetNormal") => Counted(m)
    BY <1>9, <1>11, <2>1, <2>2
  <2> QED
    BY <1>1, <1>2, <1>8, <1>9, <1>11, <1>13, <2>3, <2>4, BoundNext
<1> QED
  BY <1>10, <1>12, <1>13

(* An attempt is made, and what counted its retries still does.              *)
LEMMA AttemptCounted ==
  ASSUME IInv, Bound, NEW n \in Attempts, n = nextId, nextId' = n + 1, NEW q \in Requests,
         Counted(q), requestOf' = [requestOf EXCEPT ![n] = q], renewed' = renewed
  PROVE  /\ SomeCount' /\ EveryCount' /\ Unmade'
         /\ \A r \in Requests : Counted(r) => Counted(r)'
<1>1. q.of < n /\ q.of \in 0..MaxAttempts /\ n \in 1..MaxAttempts /\ q.retries \in Nat
  BY SizeAssumption DEF Counted, Requests, Attempts
<1>2. SomeCount /\ EveryCount /\ Unmade
  BY DEF Bound
<1>3. \A f : Counts(f)' =>
        \E g : /\ Counts(g) /\ \A a \in 0..MaxAttempts : a # n => f[a] = g[a]
               /\ f[n] = 1 + g[q.of]
  BY <1>1, <1>2, CountAdded
<1>4. \A f : Counts(f) => \E g : Counts(g)'
  BY <1>1, <1>2, CountAdded
<1>5. SomeCount'
  BY <1>2, <1>4 DEF SomeCount
<1>6. /\ requestOf'[n] = q
      /\ \A a \in Attempts : a # n => requestOf'[a] = requestOf[a]
  BY DEF IInv, TypeOK
<1>7. EveryCount'
  <2> SUFFICES ASSUME NEW f, Counts(f)'
               PROVE  /\ \A a \in 0..MaxAttempts : f[a] \in Nat
                      /\ \A a \in 1..n : f[a] <= requestOf'[a].retries + 1
    <3>1. nextId' - 1 = n
      BY <1>1
    <3> QED
      BY <3>1 DEF EveryCount
  <2>1. PICK g : /\ Counts(g) /\ \A a \in 0..MaxAttempts : a # n => f[a] = g[a]
                 /\ f[n] = 1 + g[q.of]
    BY <1>3
  <2>2. /\ \A a \in 0..MaxAttempts : g[a] \in Nat
        /\ \A a \in 1..(n - 1) : g[a] <= requestOf[a].retries + 1
    BY <1>2, <2>1 DEF EveryCount
  <2>3. g[q.of] <= q.retries /\ g[q.of] \in Nat
    BY <1>1, <2>1, <2>2 DEF Counted
  <2>4. ASSUME NEW a \in 0..MaxAttempts PROVE f[a] \in Nat
    <3>1. CASE a = n
      <4>1. f[n] \in Nat
        BY <2>1, <2>3
      <4> QED
        BY <3>1, <4>1
    <3>2. CASE a # n
      BY <2>1, <2>2, <3>2
    <3> QED
      BY <3>1, <3>2
  <2>5. ASSUME NEW a \in 1..n PROVE f[a] <= requestOf'[a].retries + 1
    <3>1. CASE a = n
      <4>1. f[n] <= q.retries + 1
        BY <1>1, <2>1, <2>3
      <4> QED
        BY <1>6, <3>1, <4>1
    <3>2. CASE a # n
      <4>1. a \in 1..(n - 1) /\ a \in Attempts /\ a \in 0..MaxAttempts
        BY <1>1, <3>2, BoundAssumption DEF Attempts
      <4>2. f[a] = g[a] /\ g[a] <= requestOf[a].retries + 1
        BY <2>1, <2>2, <3>2, <4>1
      <4> QED
        BY <1>6, <3>2, <4>1, <4>2
    <3> QED
      BY <3>1, <3>2
  <2> QED
    BY <2>4, <2>5
<1>8. Unmade'
  <2> SUFFICES ASSUME NEW a \in nextId'..MaxAttempts PROVE requestOf'[a].of = 0
    BY DEF Unmade
  <2>1. a \in nextId..MaxAttempts /\ a # n /\ a \in Attempts
    BY <1>1, BoundAssumption DEF Attempts
  <2> QED
    BY <1>2, <1>6, <2>1 DEF Unmade
<1>9. ASSUME NEW r \in Requests, Counted(r) PROVE Counted(r)'
  <2>1. r.of < n /\ r.of \in 0..MaxAttempts
    BY <1>9 DEF Counted, Requests
  <2>2. ASSUME NEW f, Counts(f)' PROVE f[r.of] <= r.retries
    <3>1. PICK g : Counts(g) /\ \A a \in 0..MaxAttempts : a # n => f[a] = g[a]
      BY <1>3, <2>2
    <3>2. f[r.of] = g[r.of]
      BY <1>1, <2>1, <3>1
    <3> QED
      BY <1>9, <3>1, <3>2 DEF Counted
  <2>3. r.of < nextId'
    BY <1>1, <2>1
  <2> QED
    BY <2>2, <2>3 DEF Counted
<1> QED
  BY <1>5, <1>7, <1>8, <1>9

LEMMA CastSpellBound ==
  ASSUME IInv, IInv', Bound, CastSpell
  PROVE  Bound'
<1>1. PICK t, T, n, q, a : /\ t = Top /\ T = Tail(todo) /\ n = nextId /\ q = t.req
                           /\ a = Do("Client", q, n)
  OBVIOUS
<1>2. /\ At("Decide") /\ Remember /\ todo # <<>> /\ todo' = <<a>> \o T /\ t.do = "Decide"
      /\ n <= MaxAttempts /\ nextId' = n + 1 /\ requestOf' = [requestOf EXCEPT ![n] = q]
      /\ queue' = queue /\ normalQueued' = normalQueued /\ renewed' = renewed
  <2>1. nextId <= MaxAttempts
    BY RoomLeft DEF CastSpell, Attempt
  <2> QED
    BY <1>1, <2>1 DEF CastSpell, Attempt, At, Top, Signal, asked
<1>3. n \in Attempts /\ n = nextId /\ n \in 0..MaxAttempts
  BY <1>1, <1>2, BoundAssumption DEF Attempts, IInv, TypeOK
<1>4. /\ T \in Seq(Frames) /\ q \in Requests /\ Counted(q)
      /\ In(T) \subseteq In(todo)
      /\ \A b \in In(T) : ~Popped(b)
      /\ \A b \in In(T) : Asks(b) => Counted(b.req)
      /\ \A r \in In(queue) : Counted(r)
  BY <1>1, <1>2, Beneath DEF Asks, CastFrames
<1>5. a \in Frames /\ a.do = "Client"
  BY <1>1, <1>3, <1>4, RequestFrames DEF Do
<1>6. ~Popped(a) /\ ~Asks(a) /\ a.do # "SetNormal"
  BY <1>5 DEF Popped, Asks, CastFrames
<1>7. /\ SomeCount' /\ EveryCount' /\ Unmade'
      /\ \A r \in Requests : Counted(r) => Counted(r)'
  BY <1>2, <1>3, <1>4, AttemptCounted
<1>8. In(todo)' = {a} \union In(T)
  <2>1. PICK u : u = <<a>> \o T
    OBVIOUS
  <2>2. In(u) = {a} \union In(T)
    BY <1>4, <1>5, <2>1, OnTop
  <2> QED
    BY <1>2, <2>1, <2>2 DEF In
<1>9. CastAtOnce'
  BY <1>4, <1>6, <1>8 DEF CastAtOnce, NothingPopped
<1>10. AllCounted'
  <2>1. In(queue) \subseteq Requests /\ In(T) \subseteq Frames
    BY <1>4 DEF In, IInv, TypeOK
  <2>2. In(queue)' = In(queue)
    BY <1>2 DEF In
  <2>3. \A r \in In(queue)' : Counted(r)'
    BY <1>4, <1>7, <2>1, <2>2
  <2>4. \A b \in In(todo)' : Asks(b) => Counted(b.req)'
    <3> SUFFICES ASSUME NEW b \in In(T), Asks(b) PROVE Counted(b.req)'
      BY <1>6, <1>8
    <3>1. b.req \in Requests /\ Counted(b.req)
      BY <1>4, <2>1 DEF Frames
    <3> QED
      BY <1>7, <3>1
  <2>5. normalQueued' \/ (\E b \in In(todo)' : b.do = "SetNormal") => Counted(normal)'
    <3> SUFFICES ASSUME normalQueued' \/ (\E b \in In(todo)' : b.do = "SetNormal")
                 PROVE  Counted(normal)'
      OBVIOUS
    <3>1. normalQueued \/ (\E b \in In(T) : b.do = "SetNormal")
      BY <1>2, <1>6, <1>8
    <3>2. PICK m : m = normal'
      OBVIOUS
    <3>3. Counted(m)
      BY <1>1, <1>2, <3>1, <3>2, RememberCounted
    <3>4. m \in Requests
      BY <3>2 DEF IInv, TypeOK
    <3>5. Counted(m)'
      BY <1>7, <3>3, <3>4
    <3> QED
      BY <3>2, <3>5 DEF Counted
  <2> QED
    BY <2>3, <2>4, <2>5 DEF AllCounted
<1> QED
  BY <1>7, <1>9, <1>10 DEF Bound

(* Between two frames, and while handlers run, nothing that was popped waits. *)
LEMMA Quiet ==
  ASSUME Bound, todo = <<>> \/ inLua
  PROVE  NothingPopped
<1>1. todo = <<>> => NothingPopped
  BY InEmpty DEF NothingPopped
<1> QED
  BY <1>1 DEF Bound, CastAtOnce, PoppedOnTop

LEMMA BoundStays ==
  ASSUME Bound, NothingPopped, todo' = todo, UNCHANGED <<nextId, renewed, requestOf, normal>>,
         In(queue)' \subseteq In(queue), normalQueued' => normalQueued
  PROVE  Bound'
<1>1. PICK S, Q, m : S = In(todo) /\ Q = In(queue)' /\ m = normal
  OBVIOUS
<1>2. /\ \A q \in In(queue) : Counted(q)
      /\ \A b \in In(todo) : Asks(b) => Counted(b.req)
      /\ normalQueued \/ (\E b \in In(todo) : b.do = "SetNormal") => Counted(normal)
  BY DEF Bound, AllCounted
<1>3. /\ In(todo)' = S /\ (\A b \in S : ~Popped(b)) /\ (\A b \in S : Asks(b) => Counted(b.req))
      /\ normalQueued' \/ (\E b \in S : b.do = "SetNormal") => Counted(m)
  BY <1>1, <1>2 DEF In, NothingPopped
<1>4. (\A q \in Q : Counted(q)) /\ m = normal'
  BY <1>1, <1>2
<1>5. nextId' = nextId /\ renewed' = renewed /\ requestOf' = requestOf
  OBVIOUS
<1> QED
  BY <1>1, <1>3, <1>4, <1>5, BoundCalm

LEMMA TickBound ==
  ASSUME Bound, Tick
  PROVE  Bound'
<1>1. todo = <<>> /\ todo' = todo
  BY DEF Tick
<1>2. UNCHANGED <<nextId, renewed, requestOf, normal, queue, normalQueued>>
  BY DEF Tick, queues, record, asked
<1>3. In(queue)' \subseteq In(queue)
  BY <1>2 DEF In
<1>4. NothingPopped
  BY <1>1, Quiet
<1> QED
  BY <1>1, <1>2, <1>3, <1>4, BoundStays

(* The server starts a spell: no attempt is counted any more.                *)
LEMMA SpellStartBound ==
  ASSUME IInv, Bound, NEW a \in 0..MaxAttempts, SpellStart(a)
  PROVE  Bound'
<1>1. /\ todo = <<>> /\ todo' = todo /\ queue' = queue /\ normalQueued' = normalQueued
      /\ nextId' = nextId /\ requestOf' = requestOf /\ renewed' = nextId
      /\ normal' = [normal EXCEPT !.retries = 0]
  BY DEF SpellStart
<1>2. /\ normal \in Requests /\ requestOf \in [Attempts -> Requests]
      /\ nextId \in 1..(MaxAttempts + 1)
  BY DEF IInv, TypeOK
<1>3. ASSUME NEW f, Counts(f)', NEW b \in 0..MaxAttempts, b < nextId PROVE f[b] = 0
  BY <1>1, <1>3 DEF Counts
<1>4. \A b \in Attempts : nextId <= b => Before(b) = 0
  BY <1>2, BoundAssumption DEF Bound, Unmade, Before, Attempts
<1>5. 0 \in 0..MaxAttempts /\ 0 < nextId
  BY <1>2, BoundAssumption
<1>6. SomeCount'
  <2>1. PICK f : f = [b \in 0..MaxAttempts |-> IF b < nextId THEN 0 ELSE 1]
    OBVIOUS
  <2>2. ASSUME NEW b \in 0..MaxAttempts PROVE f[b] = IF b < nextId THEN 0 ELSE 1 + f[Before(b)]
    <3>1. CASE b < nextId
      BY <2>1, <3>1
    <3>2. CASE ~(b < nextId)
      <4>1. b \in Attempts /\ nextId <= b
        BY <1>2, <3>2, BoundAssumption DEF Attempts
      <4>2. Before(b) = 0 /\ f[0] = 0 /\ f[b] = 1
        BY <1>4, <1>5, <2>1, <3>2, <4>1
      <4> QED
        BY <3>2, <4>2
    <3> QED
      BY <3>1, <3>2
  <2>3. f = [b \in 0..MaxAttempts |-> f[b]]
    BY <2>1
  <2>4. Counts(f)'
    BY <1>1, <2>2, <2>3 DEF Counts, Before
  <2> QED
    BY <2>4 DEF SomeCount
<1>7. EveryCount'
  <2> SUFFICES ASSUME NEW f, Counts(f)'
               PROVE  /\ \A b \in 0..MaxAttempts : f[b] \in Nat
                      /\ \A b \in 1..(nextId - 1) : f[b] <= requestOf[b].retries + 1
    BY <1>1 DEF EveryCount
  <2>1. \A b \in 0..MaxAttempts : f[b] = IF b < nextId THEN 0 ELSE 1 + f[Before(b)]
    BY <1>1 DEF Counts, Before
  <2>2. ASSUME NEW b \in 0..MaxAttempts PROVE f[b] \in Nat
    <3>1. CASE b < nextId
      BY <2>1, <3>1
    <3>2. CASE ~(b < nextId)
      <4>1. b \in Attempts /\ nextId <= b
        BY <1>2, <3>2, BoundAssumption DEF Attempts
      <4>2. f[b] = 1 + f[0] /\ f[0] = 0
        BY <1>4, <1>5, <2>1, <3>2, <4>1
      <4> QED
        BY <4>2
    <3> QED
      BY <3>1, <3>2
  <2>3. ASSUME NEW b \in 1..(nextId - 1) PROVE f[b] <= requestOf[b].retries + 1
    <3>1. b \in 0..MaxAttempts /\ b \in Attempts /\ b < nextId
      BY <1>2, BoundAssumption DEF Attempts
    <3>2. f[b] = 0 /\ requestOf[b].retries \in Nat
      BY <1>2, <1>3, <3>1, SizeAssumption DEF Requests
    <3> QED
      BY <3>2
  <2> QED
    BY <2>2, <2>3
<1>8. Unmade'
  BY <1>1 DEF Bound, Unmade
<1>9. ASSUME NEW r \in Requests, r.of < nextId PROVE Counted(r)'
  <2>1. r.of \in 0..MaxAttempts /\ r.retries \in Nat
    BY SizeAssumption DEF Requests
  <2>2. \A f : Counts(f)' => f[r.of] = 0
    BY <1>3, <1>9, <2>1
  <2> QED
    BY <1>1, <1>9, <2>1, <2>2 DEF Counted
<1>10. AllCounted'
  <2>1. In(todo)' = {} /\ In(todo) = {} /\ In(queue)' = In(queue)
    BY <1>1, InEmpty DEF In
  <2>2. ASSUME NEW q \in In(queue) PROVE Counted(q)'
    <3>1. q \in Requests /\ q.of < nextId
      BY DEF In, IInv, TypeOK, Bound, AllCounted, Counted
    <3> QED
      BY <1>9, <3>1
  <2>3. ASSUME normalQueued PROVE Counted(normal)'
    <3>1. PICK m, q : m = normal' /\ q = normal
      OBVIOUS
    <3>2. m = [q EXCEPT !.retries = 0] /\ q \in Requests /\ q.of < nextId
      BY <1>1, <1>2, <2>3, <3>1 DEF Bound, AllCounted, Counted
    <3>3. m \in Requests /\ m.of < nextId
      BY <3>2, SizeAssumption DEF Requests
    <3>4. Counted(m)'
      BY <1>9, <3>3
    <3> QED
      BY <3>1, <3>4 DEF Counted
  <2> QED
    BY <1>1, <2>1, <2>2, <2>3 DEF AllCounted
<1>11. CastAtOnce'
  BY <1>1, InEmpty DEF CastAtOnce, NothingPopped
<1> QED
  BY <1>6, <1>7, <1>8, <1>10, <1>11 DEF Bound

LEMMA ClearQueuedSpellsBound ==
  ASSUME Bound, ClearQueuedSpells
  PROVE  Bound'
<1>1. inLua /\ todo' = todo /\ queue' = <<>> /\ normalQueued' = FALSE
  BY DEF ClearQueuedSpells, Signal
<1>2. UNCHANGED <<nextId, renewed, requestOf, normal>>
  BY DEF ClearQueuedSpells, record, asked
<1>3. In(queue)' \subseteq In(queue)
  BY <1>1, InEmpty DEF In
<1>4. NothingPopped
  BY <1>1, Quiet
<1> QED
  BY <1>1, <1>2, <1>3, <1>4, BoundStays

LEMMA ServerRejectsBound ==
  ASSUME Bound, NEW a \in Attempts, NEW c \in BOOLEAN, ServerRejects(a, c)
  PROVE  Bound'
<1>1. PICK i, b, s, S, Q, m : /\ i = IF c THEN a ELSE 0
                              /\ b = Do("SpellFailed", requestOf[a], i)
                              /\ s = <<b>> /\ S = {b} /\ Q = In(queue) /\ m = normal
  OBVIOUS
<1>2. todo' = s
  BY <1>1 DEF ServerRejects, Signal
<1>3. UNCHANGED <<nextId, renewed, requestOf, queue, normal, normalQueued>>
  BY DEF ServerRejects, queues, asked
<1>4. In(s) = S
  <2>1. Len(s) = 1 /\ s[1] = b
    BY <1>1
  <2> QED
    BY <1>1, <2>1 DEF In
<1>5. b.do = "SpellFailed"
  BY <1>1 DEF Do
<1>6. /\ In(todo)' = S /\ (\A x \in S : ~Popped(x)) /\ (\A x \in S : Asks(x) => Counted(x.req))
      /\ \A x \in S : x.do # "SetNormal"
  BY <1>1, <1>2, <1>4, <1>5 DEF In, Popped, Asks, CastFrames
<1>7. (\A q \in In(queue) : Counted(q)) /\ (normalQueued => Counted(normal))
  BY DEF Bound, AllCounted
<1>8. /\ In(queue)' = Q /\ (\A q \in Q : Counted(q)) /\ m = normal'
      /\ normalQueued' \/ (\E x \in S : x.do = "SetNormal") => Counted(m)
  BY <1>1, <1>3, <1>6, <1>7 DEF In
<1>9. nextId' = nextId /\ renewed' = renewed /\ requestOf' = requestOf
  BY <1>3
<1> QED
  BY <1>6, <1>8, <1>9, BoundCalm

LEMMA PressBound ==
  ASSUME IInv, Bound, NEW s \in Spells, NEW c \in BOOLEAN, Press(s, c)
  PROVE  Bound'
<1>1. PICK a, b, N :
        /\ a \in Frames /\ b \in Frames
        /\ a.do = "Enter" /\ b.do = "NoQueueDone"
        /\ a.req.from = "press" /\ a.req.of = 0 /\ a.req.retries = 0
        /\ N \subseteq {a, b} /\ In(todo)' = N \union In(todo)
        /\ todo' \in Seq(Frames) /\ Ordered(todo)'
  BY PressPushed
<1>2. PICK S, Q, m : S = N \union In(todo) /\ Q = In(queue) /\ m = normal
  OBVIOUS
<1>3. UNCHANGED <<nextId, renewed, requestOf, queue, normal, normalQueued>>
  BY DEF Press, queues, record, asked
<1>4. NothingPopped
  BY Quiet DEF Press
<1>5. Counted(a.req)
  <2>1. a.req \in Requests
    BY <1>1 DEF Frames
  <2> QED
    BY <1>1, <2>1, FreshCounted
<1>6. /\ \A q \in In(queue) : Counted(q)
      /\ \A x \in In(todo) : Asks(x) => Counted(x.req)
      /\ normalQueued \/ (\E x \in In(todo) : x.do = "SetNormal") => Counted(normal)
  BY DEF Bound, AllCounted
<1>7. /\ In(todo)' = S /\ (\A x \in S : ~Popped(x)) /\ (\A x \in S : Asks(x) => Counted(x.req))
      /\ \A x \in S : x.do = "SetNormal" => x \in In(todo)
  <2>1. \A x \in N : ~Popped(x) /\ (Asks(x) => Counted(x.req)) /\ x.do # "SetNormal"
    BY <1>1, <1>5 DEF Popped, Asks, CastFrames
  <2> QED
    BY <1>1, <1>2, <1>4, <1>6, <2>1 DEF NothingPopped
<1>8. /\ In(queue)' = Q /\ (\A q \in Q : Counted(q)) /\ m = normal'
      /\ normalQueued' \/ (\E x \in S : x.do = "SetNormal") => Counted(m)
  BY <1>2, <1>3, <1>6, <1>7 DEF In
<1>9. nextId' = nextId /\ renewed' = renewed /\ requestOf' = requestOf
  BY <1>3
<1> QED
  BY <1>7, <1>8, <1>9, BoundCalm

LEMMA StutterBound ==
  ASSUME Bound, UNCHANGED vars
  PROVE  Bound'
<1>1. UNCHANGED <<nextId, renewed, requestOf, todo, queue, normal, normalQueued, inLua, castEnd,
                  delay, gcd>>
  BY DEF vars, queues, timers, record, asked
<1>2. SomeCount' /\ EveryCount' /\ Unmade' /\ \A r : Counted(r) => Counted(r)'
  BY <1>1, CountsKept DEF Bound
<1>3. CastAtOnce'
  BY <1>1 DEF Bound, CastAtOnce, NothingPopped, PoppedOnTop, Casting, Top, In
<1>4. In(todo)' = In(todo) /\ In(queue)' = In(queue)
  BY <1>1 DEF In
<1>5. /\ \A q \in In(queue) : Counted(q)'
      /\ \A b \in In(todo) : Asks(b) => Counted(b.req)'
      /\ normalQueued \/ (\E b \in In(todo) : b.do = "SetNormal") => Counted(normal)
  BY <1>2 DEF Bound, AllCounted
<1>6. Counted(normal) => Counted(normal)'
  <2>1. PICK m : m = normal
    OBVIOUS
  <2>2. Counted(m) => Counted(m)'
    BY <1>2
  <2> QED
    BY <1>1, <2>1, <2>2 DEF Counted
<1>7. AllCounted'
  BY <1>1, <1>4, <1>5, <1>6 DEF AllCounted
<1> QED
  BY <1>2, <1>3, <1>7 DEF Bound
------------------------------------------------------------------------------
(* A cast goes on: still what was popped is on top of the stack.             *)
LEMMA BoundGoesOnCasting ==
  ASSUME IInv, Bound, todo # <<>>, Top.do \in CastFrames,
         NEW a \in Frames, a.do \in CastFrames, a.req = Top.req,
         NEW w, w = <<a>> \o Tail(todo), Goto(w),
         UNCHANGED <<nextId, renewed, requestOf, queue, normal, normalQueued, castEnd, delay, gcd>>
  PROVE  Bound'
<1>1. PICK t, T, Q, m : t = Top /\ T = Tail(todo) /\ Q = In(queue) /\ m = normal
  OBVIOUS
<1>2. /\ T \in Seq(Frames)
      /\ \A b \in In(T) : ~Popped(b)
      /\ \A b \in In(T) : Asks(b) => Counted(b.req)
      /\ Counted(t.req)
      /\ normalQueued \/ (\E b \in In(T) : b.do = "SetNormal") => Counted(normal)
      /\ \A q \in In(queue) : Counted(q)
      /\ Popped(t) => /\ ~Casting
                      /\ t.req.spell \in Normal =>
                           ~gcd /\ ~normalQueued /\ \A b \in In(T) : b.do # "SetNormal"
  BY <1>1, Beneath DEF Asks
<1>3. /\ In(queue)' = Q /\ (\A q \in Q : Counted(q)) /\ m = normal'
      /\ normalQueued' \/ (\E b \in In(T) : b.do = "SetNormal") => Counted(m)
  BY <1>1, <1>2 DEF In
<1>4. todo' = w /\ w = <<a>> \o T /\ Asks(a) /\ Counted(a.req) /\ a.do # "SetNormal"
  BY <1>1, <1>2 DEF Goto, Asks, CastFrames
<1>5. CASE Popped(t)
  <2>1. w # <<>> /\ Head(w) = a /\ Tail(w) = T /\ In(w) = {a} \union In(T)
    BY <1>2, <1>4, OnTop
  <2>2. todo' # <<>> /\ Head(todo)' = a /\ Tail(todo)' = T /\ In(todo)' = {a} \union In(T)
    <3>1. todo' = w
      BY <1>4
    <3>2. In(todo)' = In(w)
      BY <3>1 DEF In
    <3> QED
      BY <2>1, <3>1, <3>2
  <2>3. ~inLua'
    BY <2>1 DEF Goto, CastFrames
  <2>4. ~Casting' /\ (a.req.spell \in Normal =>
                        ~gcd' /\ ~normalQueued' /\ \A b \in In(T) : b.do # "SetNormal")
    BY <1>1, <1>2, <1>5 DEF Casting
  <2> QED
    BY <1>2, <1>3, <1>4, <2>2, <2>3, <2>4, BoundPopped
<1>6. CASE ~Popped(t)
  <2>1. ~Popped(a)
    BY <1>1, <1>6 DEF Popped
  <2>2. normalQueued' \/ a.do = "SetNormal" \/ (\E b \in In(T) : b.do = "SetNormal") => Counted(m)
    BY <1>3, <1>4
  <2> QED
    BY <1>1, <1>3, <1>4, <2>1, <2>2, BoundNext
<1> QED
  BY <1>5, <1>6

LEMMA ClearCooldownBound ==
  ASSUME IInv, Bound, ~usage.queueOnCooldown, ClearCooldown
  PROVE  Bound'
<1>1. PICK t, a, w : t = Top /\ a = [t EXCEPT !.do = "Decide"] /\ w = <<a>> \o Tail(todo)
  OBVIOUS
<1>2. todo # <<>> /\ t.do = "ClearCooldown"
  BY <1>1 DEF ClearCooldown, At, Top
<1>3. a \in Frames /\ a.do = "Decide" /\ a.req = t.req
  <2>1. t \in Frames
    BY <1>1, <1>2, TopTyped
  <2> QED
    BY <1>1, <2>1 DEF Frames
<1>4. ~cooldownNonGcd /\ ~cooldownNormal
  BY DEF IInv, NoCooldown
<1>5. Goto(w) /\ queue' = queue
  BY <1>1, <1>4 DEF ClearCooldown
<1>6. UNCHANGED <<nextId, renewed, requestOf, queue, normal, normalQueued, castEnd, delay, gcd>>
  BY <1>5 DEF ClearCooldown, record, timers, asked
<1>7. Top.do \in CastFrames /\ a.do \in CastFrames /\ a.req = Top.req
  BY <1>1, <1>2, <1>3 DEF CastFrames
<1> QED
  BY <1>1, <1>2, <1>3, <1>5, <1>6, <1>7, BoundGoesOnCasting

(* processQueues runs on a stack of counted requests.                        *)
RestCounted(r) ==
  Rest(r) /\ \A b \in In(r) : b.do # "SetNormal" /\ (Asks(b) => Counted(b.req))

LEMMA BoundRest ==
  ASSUME Bound, NEW r, RestCounted(r),
         todo' = r \/ \E k \in {"NonGcdPopped", "DropStale"} : todo' = <<Then(k)>> \o r,
         UNCHANGED <<nextId, renewed, requestOf, queue, normal, normalQueued>>
  PROVE  Bound'
<1>1. PICK N : /\ In(todo)' = N \union In(r)
               /\ \A b \in N : ~Popped(b) /\ ~Asks(b) /\ b.do # "SetNormal"
  <2>1. CASE todo' = r
    <3>1. PICK N : N = {}
      OBVIOUS
    <3>2. In(todo)' = N \union In(r)
      BY <2>1, <3>1 DEF In
    <3>3. \A b \in N : ~Popped(b) /\ ~Asks(b) /\ b.do # "SetNormal"
      BY <3>1
    <3> QED
      BY <3>2, <3>3
  <2>2. CASE \E k \in {"NonGcdPopped", "DropStale"} : todo' = <<Then(k)>> \o r
    <3>1. PICK k \in {"NonGcdPopped", "DropStale"} : todo' = <<Then(k)>> \o r
      BY <2>2
    <3>2. PICK b, w : b = Then(k) /\ w = <<b>> \o r
      OBVIOUS
    <3>3. b \in Frames /\ b.do = k
      BY <3>2, ThenFrames
    <3>4. r \in Seq(Frames)
      BY DEF RestCounted, Rest
    <3>5. In(w) = {b} \union In(r)
      BY <3>2, <3>3, <3>4, OnTop
    <3>6. In(todo)' = {b} \union In(r)
      BY <3>1, <3>2, <3>5 DEF In
    <3>7. ~Popped(b) /\ ~Asks(b) /\ b.do # "SetNormal"
      BY <3>3 DEF Popped, Asks, CastFrames
    <3>8. PICK N : N = {b}
      OBVIOUS
    <3>9. In(todo)' = N \union In(r)
      BY <3>6, <3>8
    <3>10. \A c \in N : ~Popped(c) /\ ~Asks(c) /\ c.do # "SetNormal"
      BY <3>7, <3>8
    <3> QED
      BY <3>9, <3>10
  <2> QED
    BY <2>1, <2>2
<1>2. PICK S, Q, m : S = N \union In(r) /\ Q = In(queue) /\ m = normal
  OBVIOUS
<1>3. (\A q \in In(queue) : Counted(q)) /\ (normalQueued => Counted(normal))
  BY DEF Bound, AllCounted
<1>4. /\ In(todo)' = S /\ (\A b \in S : ~Popped(b)) /\ (\A b \in S : Asks(b) => Counted(b.req))
      /\ \A b \in S : b.do # "SetNormal"
  BY <1>1, <1>2 DEF RestCounted, Rest
<1>5. /\ In(queue)' = Q /\ (\A q \in Q : Counted(q)) /\ m = normal'
      /\ normalQueued' \/ (\E b \in S : b.do = "SetNormal") => Counted(m)
  BY <1>2, <1>3, <1>4 DEF In
<1>6. nextId' = nextId /\ renewed' = renewed /\ requestOf' = requestOf
  OBVIOUS
<1> QED
  BY <1>4, <1>5, <1>6, BoundCalm

LEMMA BoundPop ==
  ASSUME Bound, NEW r, RestCounted(r), NEW p \in Requests, Counted(p),
         NEW k \in {"NonGcdPopped", "NormalPopped"},
         Goto(<<Do("Enter", p, 0), Then(k)>> \o r),
         nextId' = nextId, renewed' = renewed, requestOf' = requestOf, ~Casting',
         p.spell \in Normal => ~gcd' /\ ~normalQueued',
         NEW Q, In(queue)' = Q, \A q \in Q : Counted(q),
         NEW m, m = normal', normalQueued' => Counted(m)
  PROVE  Bound'
<1>1. PICK a, b, v, w, E :
        /\ a = Do("Enter", p, 0) /\ b = Then(k) /\ v = <<b>> \o r /\ w = <<a>> \o v /\ E = Frames
  OBVIOUS
<1>2. a \in Frames /\ a.do = "Enter" /\ a.req = p
  <2>1. 0 \in 0..MaxAttempts
    BY BoundAssumption
  <2>2. Do("Enter", p, 0) \in Frames
    BY <2>1, RequestFrames
  <2> QED
    BY <1>1, <2>2 DEF Do
<1>3. b \in Frames /\ b.do = k
  BY <1>1, ThenFrames
<1>4. r \in Seq(Frames) /\ a \in E /\ b \in E /\ r \in Seq(E)
  BY <1>1, <1>2, <1>3 DEF RestCounted, Rest
<1>5. v \in Seq(Frames) /\ In(v) = {b} \union In(r)
  BY <1>1, <1>3, <1>4, OnTop
<1>6. w # <<>> /\ Head(w) = a /\ Tail(w) = v /\ In(w) = {a} \union In(v)
  BY <1>1, <1>2, <1>5, OnTop
<1>7. Goto(w)
  <2>1. <<a, b>> \o r = <<a>> \o (<<b>> \o r)
    BY <1>4, PairSplit
  <2>2. <<Do("Enter", p, 0), Then(k)>> \o r = w
    BY <1>1, <2>1
  <2> QED
    BY <2>2
<1>8. todo' # <<>> /\ Head(todo)' = a /\ Tail(todo)' = v /\ In(todo)' = {a} \union In(v)
  BY <1>6, <1>7 DEF Goto, In
<1>9. ~inLua' /\ a.do \in CastFrames
  BY <1>2, <1>6, <1>7 DEF Goto, CastFrames
<1>10. ~Popped(b) /\ ~Asks(b) /\ b.do # "SetNormal"
  BY <1>3 DEF Popped, Asks, CastFrames
<1>11. /\ \A c \in In(v) : ~Popped(c)
       /\ \A c \in In(v) : Asks(c) => Counted(c.req)
       /\ \A c \in In(v) : c.do # "SetNormal"
  BY <1>5, <1>10 DEF RestCounted, Rest
<1>12. /\ a.req.spell \in Normal => ~gcd' /\ ~normalQueued' /\ \A c \in In(v) : c.do # "SetNormal"
       /\ normalQueued' \/ (\E c \in In(v) : c.do = "SetNormal") => Counted(m)
       /\ Counted(a.req)
  BY <1>2, <1>11
<1> QED
  BY <1>8, <1>9, <1>11, <1>12, BoundPopped

LEMMA ProcessQueuesBound ==
  ASSUME IInv, Bound, ~usage.queueOnCooldown, NEW r, RestCounted(r), ProcessQueues(r)
  PROVE  Bound'
<1>1. ~cooldownNonGcd /\ ~CooldownNormalReady
  BY DEF IInv, NoCooldown, CooldownNormalReady
<1>2. (\A q \in In(queue) : Counted(q)) /\ (normalQueued => Counted(normal))
  BY DEF Bound, AllCounted
<1>3. CASE nonGcdQueued /\ ~Casting
  <2>1. CastQueuedNonGcdSpell(r)
    BY <1>3 DEF ProcessQueues
  <2>2. UNCHANGED <<nextId, renewed, requestOf, normal, normalQueued, castEnd, delay>>
    BY <2>1 DEF CastQueuedNonGcdSpell, record, timers, asked
  <2>3. CASE queue = <<>>
    <3>1. todo' = <<Then("NonGcdPopped")>> \o r /\ queue' = queue
      BY <2>1, <2>3 DEF CastQueuedNonGcdSpell, Goto
    <3>2. \E k \in {"NonGcdPopped", "DropStale"} : todo' = <<Then(k)>> \o r
      BY <3>1
    <3>3. UNCHANGED <<nextId, renewed, requestOf, queue, normal, normalQueued>>
      BY <2>2, <3>1
    <3> QED
      BY <3>2, <3>3, BoundRest
  <2>4. CASE queue # <<>>
    <3>1. PICK h, p, E, Q, m : /\ h = Head(queue) /\ p = [h EXCEPT !.from = "nonGcd"]
                               /\ E = Requests /\ Q = In(Tail(queue)) /\ m = normal
      OBVIOUS
    <3>2. queue \in Seq(E)
      BY <3>1 DEF IInv, TypeOK
    <3>3. h \in In(queue) /\ h \in E /\ Q \subseteq In(queue)
      BY <2>4, <3>1, <3>2, TailIn
    <3>4. h \in Requests /\ h.spell \in NonGcd /\ Counted(h)
      BY <1>2, <3>1, <3>3 DEF IInv, QueuedOK
    <3>5. p \in Requests /\ p.spell = h.spell /\ h.of = p.of /\ h.retries = p.retries
      BY <3>1, <3>4 DEF Requests
    <3>6. Counted(p) /\ p.spell \notin Normal
      BY <3>4, <3>5, CountedSame, SpellAssumption
    <3>7. Goto(<<Do("Enter", p, 0), Then("NonGcdPopped")>> \o r) /\ queue' = Tail(queue)
      BY <2>1, <2>4, <3>1 DEF CastQueuedNonGcdSpell
    <3>8. In(queue)' = Q /\ \A q \in Q : Counted(q)
      BY <1>2, <3>1, <3>3, <3>7 DEF In
    <3>9. ~Casting' /\ nextId' = nextId /\ renewed' = renewed /\ requestOf' = requestOf
      BY <1>3, <2>2 DEF Casting, asked
    <3>10. m = normal' /\ (normalQueued' => Counted(m))
      BY <1>2, <2>2, <3>1
    <3>11. p.spell \in Normal => ~gcd' /\ ~normalQueued'
      BY <3>6
    <3> QED
      BY <3>5, <3>6, <3>7, <3>8, <3>9, <3>10, <3>11, BoundPop
  <2> QED
    BY <2>3, <2>4
<1>4. CASE ~(nonGcdQueued /\ ~Casting) /\ normalQueued /\ ~Casting /\ ~gcd
  <2>1. CASE CastQueuedNormalSpell(r)
    <3>1. PICK p, Q, m : /\ p = [normal EXCEPT !.from = "normal"] /\ Q = In(queue) /\ m = normal
      OBVIOUS
    <3>2. p \in Requests /\ p.of = normal.of /\ p.retries = normal.retries
      BY <3>1 DEF IInv, TypeOK, Requests
    <3>3. Counted(p)
      BY <1>2, <1>4, <3>2, CountedSame
    <3>4. Goto(<<Do("Enter", p, 0), Then("NormalPopped")>> \o r) /\ normalQueued' = FALSE
      BY <2>1, <3>1 DEF CastQueuedNormalSpell
    <3>5. UNCHANGED <<nextId, renewed, requestOf, queue, normal, castEnd, delay, gcd>>
      BY <2>1 DEF CastQueuedNormalSpell, record, timers, asked
    <3>6. In(queue)' = Q /\ \A q \in Q : Counted(q)
      BY <1>2, <3>1, <3>5 DEF In
    <3>7. ~Casting' /\ nextId' = nextId /\ renewed' = renewed /\ requestOf' = requestOf
      BY <1>4, <3>5 DEF Casting, asked
    <3>8. m = normal' /\ (normalQueued' => Counted(m))
      BY <3>1, <3>4, <3>5
    <3>9. p.spell \in Normal => ~gcd' /\ ~normalQueued'
      BY <1>4, <3>4, <3>5
    <3> QED
      BY <3>2, <3>3, <3>4, <3>6, <3>7, <3>8, <3>9, BoundPop
  <2>2. CASE /\ Signal(<<Then("DropStale")>> \o r)
             /\ UNCHANGED <<queues, timers, numRetries, record, noQueueCast, asked>>
    <3>1. todo' = <<Then("DropStale")>> \o r
      BY <2>2 DEF Signal
    <3>2. \E k \in {"NonGcdPopped", "DropStale"} : todo' = <<Then(k)>> \o r
      BY <3>1
    <3>3. UNCHANGED <<nextId, renewed, requestOf, queue, normal, normalQueued>>
      BY <2>2 DEF queues, record, asked
    <3> QED
      BY <3>2, <3>3, BoundRest
  <2> QED
    BY <1>1, <1>4, <2>1, <2>2 DEF ProcessQueues
<1>5. CASE ~(nonGcdQueued /\ ~Casting) /\ ~(normalQueued /\ ~Casting /\ ~gcd)
  <2>1. CastCooldownNormal(r)
    BY <1>1, <1>5 DEF ProcessQueues
  <2>2. todo' = r /\ UNCHANGED <<nextId, renewed, requestOf, queue, normal, normalQueued>>
    BY <1>1, <2>1 DEF CastCooldownNormal, Goto, queues, record, asked
  <2> QED
    BY <2>2, BoundRest
<1> QED
  BY <1>3, <1>4, <1>5

LEMMA EnterBound ==
  ASSUME IInv, Bound, ~usage.queueOnCooldown, Enter
  PROVE  Bound'
<1>1. PICK t, T, a, w : /\ t = Top /\ T = Tail(todo) /\ a = [t EXCEPT !.do = "ClearCooldown"]
                        /\ w = <<a>> \o T
  OBVIOUS
<1>2. todo # <<>> /\ t.do = "Enter"
  BY <1>1 DEF Enter, At, Top
<1>3. t \in Frames /\ FrameOK(t) /\ a \in Frames /\ a.do = "ClearCooldown" /\ a.req = t.req
      /\ a.id = t.id
  <2>1. t \in Frames /\ FrameOK(t)
    BY <1>1, <1>2, TopTyped
  <2> QED
    BY <1>1, <2>1 DEF Frames
<1>4. CASE processed
  <2>1. Goto(w) /\ UNCHANGED <<nextId, renewed, requestOf, queue, normal, normalQueued, castEnd,
                               delay, gcd>>
    BY <1>1, <1>4 DEF Enter, queues, timers, record, asked
  <2>2. Top.do \in CastFrames /\ a.do \in CastFrames /\ a.req = Top.req
    BY <1>1, <1>2, <1>3 DEF CastFrames
  <2> QED
    BY <1>1, <1>2, <1>3, <2>1, <2>2, BoundGoesOnCasting
<1>5. CASE ~processed
  <2>1. ProcessQueues(w)
    BY <1>1, <1>5 DEF Enter
  <2>2. /\ T \in Seq(Frames) /\ In(todo) = {t} \union In(T) /\ Ordered(T)
    BY <1>1, <1>2, Stack
  <2>3. \A b \in In(todo) : ~Popped(b) /\ b.do # "SetNonGcd" /\ b.do # "SetNormal"
    BY <1>5, Unprocessed DEF InScene
  <2>4. a.do \in CastFrames /\ ~Popped(a) /\ FrameOK(a)
    BY <1>2, <1>3, <2>2, <2>3 DEF Popped, CastFrames, FrameOK
  <2>5. \A c \in In(T) : MayPrecede(a, c)
    BY <1>3 DEF MayPrecede, EndsPop
  <2>6. w \in Seq(Frames) /\ In(w) = {a} \union In(T) /\ Ordered(w)
    BY <1>1, <1>3, <2>2, <2>5, StackPush
  <2>7. \A b \in In(T) : FrameOK(b) /\ (b.do \in {"PushCooldown", "KeepCooldown"} => usage.queueOnCooldown)
    BY <2>2 DEF IInv, FramesOK, NoCooldown
  <2>8. Rest(w)
    BY <1>3, <2>2, <2>3, <2>4, <2>6, <2>7 DEF Rest
  <2>9. Counted(t.req) /\ \A b \in In(T) : Asks(b) => Counted(b.req)
    BY <1>1, <1>2, Beneath DEF Asks, CastFrames
  <2>10. RestCounted(w)
    BY <1>3, <2>2, <2>3, <2>6, <2>8, <2>9 DEF RestCounted
  <2> QED
    BY <2>1, <2>10, ProcessQueuesBound
<1> QED
  BY <1>4, <1>5

LEMMA FrameBound ==
  ASSUME IInv, Bound, ~usage.queueOnCooldown, Frame
  PROVE  Bound'
<1>1. todo = <<>> /\ In(todo) = {}
  BY InEmpty DEF Frame
<1>2. CASE processed
  <2>1. UNCHANGED <<nextId, renewed, requestOf, normal, queue, normalQueued, todo>>
    BY <1>2 DEF Frame, queues, record, asked
  <2>2. In(queue)' \subseteq In(queue)
    BY <2>1 DEF In
  <2>3. NothingPopped
    BY <1>1, Quiet
  <2> QED
    BY <2>1, <2>2, <2>3, BoundStays
<1>3. CASE ~processed
  <2>1. PICK b, r : b = Then("EndFrame") /\ r = <<b>>
    OBVIOUS
  <2>2. ProcessQueues(r)
    BY <1>3, <2>1 DEF Frame
  <2>3. b \in Frames /\ b.do = "EndFrame" /\ FrameOK(b) /\ ~Popped(b)
    BY <2>1, ThenFrames
  <2>4. Len(r) = 1 /\ r[1] = b /\ r \in Seq(Frames)
    BY <2>1, <2>3
  <2>5. In(r) = {b} /\ Ordered(r)
    BY <2>4 DEF In, Ordered
  <2>6. Rest(r)
    BY <1>1, <2>3, <2>4, <2>5 DEF Rest
  <2>7. RestCounted(r)
    BY <2>3, <2>5, <2>6 DEF RestCounted, Asks, CastFrames
  <2> QED
    BY <2>2, <2>7, ProcessQueuesBound
<1> QED
  BY <1>2, <1>3

LEMMA InitBound ==
  ASSUME Init
  PROVE  Bound
<1>1. In(todo) = {} /\ In(queue) = {} /\ ~normalQueued /\ renewed = 1
  BY InEmpty DEF Init
<1>2. \A a \in Attempts : requestOf[a].of = 0
  BY DEF Init, NoRequest, Request
<1>3. \A a \in Attempts : Before(a) = 0
  BY <1>2 DEF Before
<1>4. SomeCount
  <2>1. PICK f : f = [a \in 0..MaxAttempts |-> IF a < renewed THEN 0 ELSE 1]
    OBVIOUS
  <2>2. \A a \in 0..MaxAttempts : f[a] = IF a < renewed THEN 0 ELSE 1 + f[Before(a)]
    <3> SUFFICES ASSUME NEW a \in 0..MaxAttempts, ~(a < renewed) PROVE f[a] = 1 + f[Before(a)]
      BY <2>1
    <3>1. a \in Attempts /\ 0 \in 0..MaxAttempts
      BY <1>1, BoundAssumption DEF Attempts
    <3>2. f[a] = 1 /\ f[0] = 0
      BY <1>1, <2>1, <3>1
    <3> QED
      BY <1>3, <3>1, <3>2
  <2>3. f = [a \in 0..MaxAttempts |-> f[a]]
    BY <2>1
  <2> QED
    BY <2>2, <2>3, CountsShape DEF SomeCount
<1>5. EveryCount
  <2> SUFFICES ASSUME NEW f, Counts(f)
               PROVE  /\ \A a \in 0..MaxAttempts : f[a] \in Nat
                      /\ \A a \in 1..(nextId - 1) : f[a] <= requestOf[a].retries + 1
    BY DEF EveryCount
  <2>1. \A a \in 0..MaxAttempts : f[a] = IF a < renewed THEN 0 ELSE 1 + f[Before(a)]
    BY CountsShape
  <2>2. f[0] = 0
    <3>1. 0 \in 0..MaxAttempts
      BY BoundAssumption
    <3> QED
      BY <1>1, <2>1, <3>1
  <2>3. ASSUME NEW a \in 0..MaxAttempts PROVE f[a] \in Nat
    <3>1. CASE a = 0
      BY <2>2, <3>1
    <3>2. CASE a # 0
      <4>1. a \in Attempts /\ ~(a < renewed)
        BY <1>1, <3>2, BoundAssumption DEF Attempts
      <4>2. f[a] = 1 + f[0]
        BY <1>3, <2>1, <4>1
      <4> QED
        BY <2>2, <4>2
    <3> QED
      BY <3>1, <3>2
  <2>4. \A a \in 1..(nextId - 1) : f[a] <= requestOf[a].retries + 1
    BY DEF Init
  <2> QED
    BY <2>3, <2>4
<1>6. Unmade
  <2> SUFFICES ASSUME NEW a \in nextId..MaxAttempts PROVE requestOf[a].of = 0
    BY DEF Unmade
  <2>1. a \in Attempts
    BY BoundAssumption DEF Attempts, Init
  <2> QED
    BY <1>2, <2>1
<1>7. AllCounted /\ CastAtOnce
  BY <1>1 DEF AllCounted, CastAtOnce, NothingPopped
<1> QED
  BY <1>4, <1>5, <1>6, <1>7 DEF Bound

(* The player does not change the way of playing.                            *)
LEMMA UsageKept ==
  ASSUME Next
  PROVE  usage' = usage
<1>1. CASE \E s \in Spells, n \in BOOLEAN : (n => usage.noQueue) /\ Press(s, n)
  BY <1>1 DEF Press
<1>2. ASSUME NEW r, ProcessQueues(r) PROVE usage' = usage
  BY <1>2 DEF ProcessQueues, CastQueuedNonGcdSpell, CastQueuedNormalSpell, CastCooldownNormal, asked
<1>3. CASE DropStale
  BY <1>3 DEF DropStale, CastCooldownNormal, CastQueuedNormalSpell, asked
<1>4. CASE Enter
  <2>1. PICK r : r = <<[Top EXCEPT !.do = "ClearCooldown"]>> \o Tail(todo)
    OBVIOUS
  <2>2. usage' = usage \/ ProcessQueues(r)
    BY <1>4, <2>1 DEF Enter, asked
  <2> QED
    BY <1>2, <2>2
<1>5. CASE Frame
  <2>1. PICK r : r = <<Then("EndFrame")>>
    OBVIOUS
  <2>2. usage' = usage \/ ProcessQueues(r)
    BY <1>5, <2>1 DEF Frame, asked
  <2> QED
    BY <1>2, <2>2
<1>6. CASE EndFrame \/ NonGcdPopped \/ NonGcdDone \/ NormalPopped \/ NoQueueDone \/ ClearCooldown
  BY <1>6 DEF EndFrame, NonGcdPopped, NonGcdDone, DoneQueued, NormalPopped, NoQueueDone,
     ClearCooldown, asked
<1>7. CASE QueueNormal \/ QueueNonGcd \/ Refuse \/ CastSpell \/ SetNormal \/ SetNonGcd
  BY <1>7 DEF QueueNormal, QueueNonGcd, Refuse, CastSpell, Attempt, SetNormal, SetNonGcd, asked
<1>8. CASE ClientSends \/ ClientRefuses \/ ClientReturns \/ SpellFailed \/ IgnoreFailure
  BY <1>8 DEF ClientSends, ClientRefuses, ClientReturns, SpellFailed, IgnoreFailure, asked
<1>9. CASE \/ QueueForCooldown \/ PushCooldown \/ KeepCooldown \/ QueueForRetry \/ PushRetry
           \/ KeepRetry
  BY <1>9 DEF QueueForCooldown, PushCooldown, KeepCooldown, QueueForRetry, PushRetry, KeepRetry, asked
<1>10. CASE Tick \/ ClearQueuedSpells
  BY <1>10 DEF Tick, ClearQueuedSpells, asked
<1>11. CASE \/ \E a \in 0..MaxAttempts : SpellStart(a)
            \/ \E a \in Attempts, c \in BOOLEAN : ServerRejects(a, c)
  BY <1>11 DEF SpellStart, ServerRejects, asked
<1> QED
  BY <1>1, <1>3, <1>4, <1>5, <1>6, <1>7, <1>8, <1>9, <1>10, <1>11 DEF Next, Step

LEMMA NextBound ==
  ASSUME IInv, IInv', Bound, ~usage.queueOnCooldown, Next
  PROVE  Bound'
<1>1. CASE \E s \in Spells, n \in BOOLEAN : (n => usage.noQueue) /\ Press(s, n)
  BY <1>1, PressBound
<1>2. CASE Step
  <2>1. CASE DropStale \/ EndFrame \/ NonGcdPopped \/ NonGcdDone \/ NormalPopped \/ NoQueueDone
    BY <2>1, DropStaleBound, EndFrameBound, NonGcdPoppedBound, NonGcdDoneBound, NormalPoppedBound,
       NoQueueDoneBound
  <2>2. CASE \/ Enter \/ ClearCooldown \/ QueueNormal \/ QueueNonGcd \/ Refuse \/ CastSpell
             \/ SetNormal \/ SetNonGcd
    BY <2>2, EnterBound, ClearCooldownBound, QueueNormalBound, QueueNonGcdBound, RefuseBound,
       CastSpellBound, SetNormalBound, SetNonGcdBound
  <2>3. CASE ClientSends \/ ClientRefuses \/ ClientReturns \/ SpellFailed \/ IgnoreFailure
    BY <2>3, ClientSendsBound, ClientRefusesBound, ClientReturnsBound, SpellFailedBound,
       IgnoreFailureBound
  <2>4. CASE \/ QueueForCooldown \/ PushCooldown \/ KeepCooldown \/ QueueForRetry \/ PushRetry
             \/ KeepRetry
    BY <2>4, NoCooldownSteps, QueueForRetryBound, PushRetryBound, KeepRetryBound
  <2> QED
    BY <1>2, <2>1, <2>2, <2>3, <2>4 DEF Step
<1>3. CASE Frame \/ Tick \/ ClearQueuedSpells
  BY <1>3, FrameBound, TickBound, ClearQueuedSpellsBound
<1>4. CASE \E a \in 0..MaxAttempts : SpellStart(a)
  BY <1>4, SpellStartBound
<1>5. CASE \E a \in Attempts, c \in BOOLEAN : ServerRejects(a, c)
  BY <1>5, ServerRejectsBound
<1> QED
  BY <1>1, <1>2, <1>3, <1>4, <1>5 DEF Next

LEMMA BoundKept ==
  ASSUME IInv, IInv', BoundInv, [Next]_vars
  PROVE  BoundInv'
<1>1. usage' = usage
  BY UsageKept DEF vars, asked
<1> SUFFICES ASSUME ~usage.queueOnCooldown PROVE Bound'
  BY <1>1 DEF BoundInv
<1>2. Bound
  BY DEF BoundInv
<1> QED
  BY <1>2, NextBound, StutterBound

(* spellevents.cpp:398-440, 1234-1239: an attempt counts every retry its     *)
(* request stands for unless a spell of the player started since, whatever   *)
(* casts nest in casts; and without cooldown queues no press is cast again   *)
(* automatically more than RetryLimit times from one start to the next.      *)
THEOREM RetryTheorem == Spec => []RetriesCounted
<1>1. Init => BoundInv
  BY InitBound DEF BoundInv
<1>2. IInv /\ IInv' /\ BoundInv /\ [Next]_vars => BoundInv'
  BY BoundKept
<1>3. IInv /\ BoundInv => RetriesCounted
  BY OriginsBound DEF RetriesCounted, IInv
<1> QED
  BY <1>1, <1>2, <1>3, QueueInv, PTL DEF Spec
==============================================================================

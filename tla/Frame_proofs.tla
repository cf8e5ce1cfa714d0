----------------------------- MODULE Frame_proofs -----------------------------
(***************************************************************************)
(* The script queue and the disenchant loop for any number of scripts, calls *)
(* and casts and any nesting of callbacks: no script runs twice, and what is *)
(* disenchanted by quality is what the call in force allows.                 *)
(***************************************************************************)
EXTENDS Frame, TLAPS

(* A frame that carries an item carries one its order allows.                *)
GoodFrames ==
  {f \in Frames : f.do \in {"CastItem", "Disenchant"} /\ f.order.quality => Allowed(f.order, f.item)}

(* The steps between which gQueuesProcessed keeps processQueues from running *)
(* a script: there is one of them at most, and the end of the scene, which   *)
(* resets the flag, comes last.                                              *)
Marks == {"ScriptDone", "DropStale"}
Unmarked(t) == \A i \in 1..Len(t) : t[i].do \notin Marks
NoScript(t) == \A i \in 1..Len(t) : t[i].do # "ScriptDone"
MarksOK(t, p) ==
  /\ \A i \in 1..Len(t) : t[i].do \in Marks => p
  /\ \A i, j \in 1..Len(t) : t[i].do \in Marks /\ t[j].do \in Marks => i = j
  /\ \A i \in 1..Len(t) : t[i].do = "EndFrame" => i = Len(t)

(* A queued script has not run, except while it runs.                        *)
NotRun ==
  /\ script \in 0..scripts /\ (scriptQueued => script # 0)
  /\ \A k \in Scripts : k > scripts => ran[k] = 0
  /\ scriptQueued /\ NoScript(todo) => ran[script] = 0

Data ==
  /\ casting \in BOOLEAN /\ gcd \in BOOLEAN /\ normalQueued \in BOOLEAN /\ processed \in BOOLEAN
  /\ scriptQueued \in BOOLEAN /\ resting \in BOOLEAN /\ inLua \in BOOLEAN
  /\ nonGcd \in Nat
  /\ script \in 0..MaxScripts /\ priority \in Priorities
  /\ held \subseteq Items /\ sent \subseteq held
  /\ ran \in [Scripts -> {0, 1}]
  /\ scripts \in 0..MaxScripts /\ orders \in 0..MaxOrders /\ presses \in 0..MaxPresses

Wanted == order \in Orders \union {Nothing} /\ wanted \in {Nothing, order}

Stack == todo \in Seq(GoodFrames) /\ MarksOK(todo, processed)

Inv == Data /\ Wanted /\ Stack /\ NotRun
------------------------------------------------------------------------------
LEMMA PlainFrames ==
  /\ \A k \in {"Queues", "DropStale", "ScriptDone", "EndFrame", "Try", "StopLoop", "CastFailed", "SpellFailed"} :
       Do(k) \in GoodFrames /\ Do(k).do = k
  /\ \A s \in {"normal", "nonGcd"} : /\ Cast(s) \in GoodFrames /\ Cast(s).do = "Cast"
                                     /\ Sends(s) \in GoodFrames /\ Sends(s).do = "Sends"
  BY DEF GoodFrames, Frames, Do, Cast, Sends

LEMMA NoSteps ==
  ASSUME NEW t \in Seq(GoodFrames), Len(t) = 0
  PROVE  t = <<>>
  OBVIOUS

(* What is left below the frame on top.                                      *)
LEMMA BelowTop ==
  ASSUME NEW p \in BOOLEAN, NEW t \in Seq(GoodFrames), t # <<>>, MarksOK(t, p)
  PROVE  /\ Head(t) \in GoodFrames /\ Tail(t) \in Seq(GoodFrames)
         /\ MarksOK(Tail(t), p)
         /\ Head(t).do \in Marks => p /\ Unmarked(Tail(t))
         /\ Head(t).do = "EndFrame" => Tail(t) = <<>>
         /\ Head(t).do # "ScriptDone" => (NoScript(Tail(t)) => NoScript(t))
<1> DEFINE u == Tail(t)
           m == Len(u)
           n == Len(t)
<1>1. Head(t) \in GoodFrames /\ u \in Seq(GoodFrames) /\ Head(t) = t[1] /\ n \in Nat /\ n # 0
  OBVIOUS
<1>2. m = n - 1 /\ m \in Nat /\ 1 \in 1..n
  BY <1>1
<1>3. \A i \in 1..m : u[i] = t[i + 1]
  BY <1>1
<1>4. m = 0 => u = <<>>
  BY <1>1, NoSteps
<1> HIDE DEF u, m, n
<1>5. \A i \in 1..m : i \in Nat /\ i + 1 \in 1..n /\ i + 1 # 1 /\ u[i] = t[i + 1]
  BY <1>1, <1>2, <1>3
<1>6. /\ \A i \in 1..n : t[i].do \in Marks => p
      /\ \A i, j \in 1..n : t[i].do \in Marks /\ t[j].do \in Marks => i = j
      /\ \A i \in 1..n : t[i].do = "EndFrame" => i = n
  BY DEF MarksOK, n
<1>7. \A i \in 1..m : u[i].do \in Marks => p
  BY <1>5, <1>6
<1>8. \A i, j \in 1..m : u[i].do \in Marks /\ u[j].do \in Marks => i = j
  <2>1. TAKE i, j \in 1..m
  <2>2. HAVE u[i].do \in Marks /\ u[j].do \in Marks
  <2>3. i + 1 = j + 1
    BY <1>5, <1>6, <2>2
  <2> QED
    BY <1>5, <2>3
<1>9. \A i \in 1..m : u[i].do = "EndFrame" => i = m
  <2>1. TAKE i \in 1..m
  <2>2. HAVE u[i].do = "EndFrame"
  <2>3. i + 1 = n
    BY <1>5, <1>6, <2>2
  <2> QED
    BY <1>1, <1>2, <1>5, <2>3
<1>10. MarksOK(u, p)
  BY <1>7, <1>8, <1>9 DEF MarksOK, m
<1>11. ASSUME Head(t).do \in Marks PROVE p /\ Unmarked(u)
  BY <1>1, <1>2, <1>5, <1>6, <1>11 DEF Unmarked, m
<1>12. ASSUME Head(t).do = "EndFrame" PROVE u = <<>>
  <2>1. n = 1
    BY <1>1, <1>2, <1>6, <1>12
  <2> QED
    BY <1>2, <1>4, <2>1
<1>13. ASSUME Head(t).do # "ScriptDone", NoScript(u), NEW i \in 1..n
       PROVE  t[i].do # "ScriptDone"
  <2>1. CASE i = 1
    BY <1>1, <1>13, <2>1
  <2>2. CASE i # 1
    <3>1. i - 1 \in 1..m /\ (i - 1) + 1 = i
      BY <1>1, <1>2, <2>2
    <3>2. u[i - 1] = t[i]
      BY <1>5, <3>1
    <3> QED
      BY <1>13, <3>1, <3>2 DEF NoScript, m
  <2> QED
    BY <2>1, <2>2
<1>14. Head(t).do # "ScriptDone" => (NoScript(u) => NoScript(t))
  BY <1>13 DEF NoScript, n
<1> QED
  BY <1>1, <1>10, <1>11, <1>12, <1>14 DEF u

(* A frame put on top.                                                       *)
LEMMA OnTop ==
  ASSUME NEW p \in BOOLEAN, NEW q \in BOOLEAN, NEW t \in Seq(GoodFrames), MarksOK(t, p), NEW f \in GoodFrames,
         p => q, f.do # "EndFrame" \/ t = <<>>, f.do \in Marks => q /\ Unmarked(t)
  PROVE  /\ <<f>> \o t \in Seq(GoodFrames) /\ MarksOK(<<f>> \o t, q)
         /\ NoScript(<<f>> \o t) <=> (f.do # "ScriptDone" /\ NoScript(t))
         /\ f.do \notin Marks /\ Unmarked(t) => Unmarked(<<f>> \o t)
<1> DEFINE u == <<f>> \o t
           m == Len(u)
           n == Len(t)
<1>1. u \in Seq(GoodFrames) /\ m = n + 1 /\ n \in Nat /\ u[1] = f
  OBVIOUS
<1>2. \A i \in 1..n : u[i + 1] = t[i]
  BY <1>1
<1>3. t = <<>> => n = 0
  OBVIOUS
<1> HIDE DEF u, m, n
<1>4. 1 \in 1..m /\ \A i \in 1..n : i + 1 \in 1..m
  BY <1>1
<1>5. \A i \in 1..m : i = 1 \/ (i \in Nat /\ i - 1 \in 1..n /\ u[i] = t[i - 1])
  <2>1. TAKE i \in 1..m
  <2>2. CASE i # 1
    <3>1. i - 1 \in 1..n /\ (i - 1) + 1 = i
      BY <1>1, <2>2
    <3>2. u[(i - 1) + 1] = t[i - 1]
      BY <1>2, <3>1
    <3> QED
      BY <3>1, <3>2
  <2> QED
    BY <2>2
<1>6. /\ \A i \in 1..n : t[i].do \in Marks => p
      /\ \A i, j \in 1..n : t[i].do \in Marks /\ t[j].do \in Marks => i = j
      /\ \A i \in 1..n : t[i].do = "EndFrame" => i = n
  BY DEF MarksOK, n
<1>7. f.do \in Marks => \A i \in 1..n : t[i].do \notin Marks
  BY DEF Unmarked, n
<1>8. \A i \in 1..m : u[i].do \in Marks => q
  BY <1>1, <1>5, <1>6
<1>9. \A i, j \in 1..m : u[i].do \in Marks /\ u[j].do \in Marks => i = j
  <2>1. TAKE i, j \in 1..m
  <2>2. HAVE u[i].do \in Marks /\ u[j].do \in Marks
  <2>3. CASE i = 1 /\ j # 1
    BY <1>1, <1>5, <1>7, <2>2, <2>3
  <2>4. CASE i # 1 /\ j = 1
    BY <1>1, <1>5, <1>7, <2>2, <2>4
  <2>5. CASE i # 1 /\ j # 1
    <3>1. i - 1 = j - 1
      BY <1>5, <1>6, <2>2, <2>5
    <3> QED
      BY <1>5, <2>5, <3>1
  <2> QED
    BY <2>3, <2>4, <2>5
<1>10. \A i \in 1..m : u[i].do = "EndFrame" => i = m
  <2>1. TAKE i \in 1..m
  <2>2. HAVE u[i].do = "EndFrame"
  <2>3. CASE i = 1
    BY <1>1, <1>3, <2>2, <2>3
  <2>4. CASE i # 1
    <3>1. i - 1 = n
      BY <1>5, <1>6, <2>2, <2>4
    <3> QED
      BY <1>1, <1>5, <2>4, <3>1
  <2> QED
    BY <2>3, <2>4
<1>11. MarksOK(u, q)
  BY <1>8, <1>9, <1>10 DEF MarksOK, m
<1>12. NoScript(u) <=> (f.do # "ScriptDone" /\ NoScript(t))
  <2>1. ASSUME NoScript(u)
        PROVE  f.do # "ScriptDone" /\ NoScript(t)
    BY <1>1, <1>2, <1>4, <2>1 DEF NoScript, m, n
  <2>2. ASSUME f.do # "ScriptDone", NoScript(t)
        PROVE  NoScript(u)
    BY <1>1, <1>5, <2>2 DEF NoScript, m, n
  <2> QED
    BY <2>1, <2>2
<1>13. f.do \notin Marks /\ Unmarked(t) => Unmarked(u)
  BY <1>1, <1>5 DEF Unmarked, m, n
<1> QED
  BY <1>1, <1>11, <1>12, <1>13 DEF u

Plain(f) == f.do \notin Marks /\ f.do # "EndFrame"

LEMMA OnePlain ==
  ASSUME NEW p \in BOOLEAN, NEW t \in Seq(GoodFrames), MarksOK(t, p), NEW f \in GoodFrames, Plain(f)
  PROVE  /\ <<f>> \o t \in Seq(GoodFrames) /\ MarksOK(<<f>> \o t, p)
         /\ NoScript(<<f>> \o t) <=> NoScript(t)
  BY OnTop DEF Plain, Marks

LEMMA TwoPlain ==
  ASSUME NEW p \in BOOLEAN, NEW t \in Seq(GoodFrames), MarksOK(t, p),
         NEW f \in GoodFrames, Plain(f), NEW g \in GoodFrames, Plain(g)
  PROVE  /\ <<f, g>> \o t \in Seq(GoodFrames) /\ MarksOK(<<f, g>> \o t, p)
         /\ NoScript(<<f, g>> \o t) <=> NoScript(t)
<1>1. <<f, g>> \o t = <<f>> \o (<<g>> \o t)
  OBVIOUS
<1>2. <<g>> \o t \in Seq(GoodFrames) /\ MarksOK(<<g>> \o t, p) /\ (NoScript(<<g>> \o t) <=> NoScript(t))
  BY OnePlain
<1>3. /\ <<f>> \o (<<g>> \o t) \in Seq(GoodFrames) /\ MarksOK(<<f>> \o (<<g>> \o t), p)
      /\ NoScript(<<f>> \o (<<g>> \o t)) <=> NoScript(<<g>> \o t)
  BY <1>2, OnePlain
<1> QED
  BY <1>1, <1>2, <1>3

(* The stack after its top frame was taken.                                  *)
LEMMA Popped ==
  ASSUME Inv, todo # <<>>
  PROVE  /\ Top \in GoodFrames /\ Tail(todo) \in Seq(GoodFrames)
         /\ MarksOK(Tail(todo), processed) /\ MarksOK(Tail(todo), TRUE)
         /\ Top.do \in Marks => processed /\ Unmarked(Tail(todo))
         /\ Top.do = "EndFrame" => Tail(todo) = <<>>
         /\ ~processed => Unmarked(Tail(todo))
         /\ Top.do # "ScriptDone" => (NoScript(Tail(todo)) => NoScript(todo))
<1>1. todo \in Seq(GoodFrames) /\ MarksOK(todo, processed) /\ processed \in BOOLEAN
  BY DEF Inv, Stack, Data
<1>2. /\ Top \in GoodFrames /\ Tail(todo) \in Seq(GoodFrames)
      /\ MarksOK(Tail(todo), processed)
      /\ Top.do \in Marks => processed /\ Unmarked(Tail(todo))
      /\ Top.do = "EndFrame" => Tail(todo) = <<>>
      /\ Top.do # "ScriptDone" => (NoScript(Tail(todo)) => NoScript(todo))
  BY <1>1, BelowTop DEF Top
<1>3. MarksOK(Tail(todo), TRUE) /\ (~processed => Unmarked(Tail(todo)))
  BY <1>2 DEF MarksOK, Unmarked
<1> QED
  BY <1>2, <1>3

LEMMA EmptyStack == /\ <<>> \in Seq(GoodFrames) /\ \A p : MarksOK(<<>>, p)
                    /\ NoScript(<<>>) /\ Unmarked(<<>>)
  BY DEF MarksOK, NoScript, Unmarked

LEMMA UnmarkedIsScriptless == \A t : Unmarked(t) => NoScript(t)
  BY DEF Unmarked, NoScript, Marks

LEMMA OrderFields ==
  /\ Nothing.itemId = 0 /\ Nothing.quality = FALSE /\ Nothing.soulbound = FALSE
  /\ \A o \in Orders : /\ o = [itemId |-> o.itemId, quality |-> o.quality, soulbound |-> o.soulbound]
                       /\ o.itemId \in Nat /\ o.quality \in BOOLEAN /\ o.soulbound \in BOOLEAN
                       /\ o.itemId # 0 => ~o.quality
<1>1. Nothing.itemId = 0 /\ Nothing.quality = FALSE /\ Nothing.soulbound = FALSE
  BY DEF Nothing
<1>2. ASSUME NEW o \in Orders
      PROVE  /\ o = [itemId |-> o.itemId, quality |-> o.quality, soulbound |-> o.soulbound]
             /\ o.itemId \in Nat /\ o.quality \in BOOLEAN /\ o.soulbound \in BOOLEAN
             /\ o.itemId # 0 => ~o.quality
  <2>1. CASE \E i \in Items, b \in BOOLEAN : o = [itemId |-> ItemId[i], quality |-> FALSE, soulbound |-> b]
    <3>1. PICK i \in Items, b \in BOOLEAN : o = [itemId |-> ItemId[i], quality |-> FALSE, soulbound |-> b]
      BY <2>1
    <3>2. ItemId[i] \in Nat
      BY ItemAssumption
    <3> QED
      BY <3>1, <3>2
  <2>2. CASE \E b \in BOOLEAN : o = [itemId |-> 0, quality |-> TRUE, soulbound |-> b]
    BY <2>2
  <2> QED
    BY <1>2, <2>1, <2>2 DEF Orders
<1> QED
  BY <1>1, <1>2

LEMMA InitInv == Init => Inv
<1> SUFFICES ASSUME Init PROVE Inv
  OBVIOUS
<1>1. Data
  <2>1. MaxScripts \in Nat /\ MaxOrders \in Nat /\ MaxPresses \in Nat
    BY BoundAssumption
  <2>2. ran \in [Scripts -> {0, 1}]
    BY DEF Init
  <2>3. held \subseteq Items /\ sent \subseteq held /\ nonGcd \in Nat /\ script \in 0..MaxScripts /\ priority \in Priorities
    BY <2>1 DEF Init, Priorities
  <2>4. scripts \in 0..MaxScripts /\ orders \in 0..MaxOrders /\ presses \in 0..MaxPresses
    BY <2>1 DEF Init
  <2> QED
    BY <2>2, <2>3, <2>4 DEF Init, Data
<1>2. Wanted /\ Stack
  BY EmptyStack DEF Init, Wanted, Stack
<1>3. NotRun
  BY DEF Init, NotRun, Scripts
<1> QED
  BY <1>1, <1>2, <1>3 DEF Inv
------------------------------------------------------------------------------
LEMMA NotRunKept ==
  ASSUME Inv, UNCHANGED <<queued, ran, scripts>>, NoScript(todo') => NoScript(todo)
  PROVE  NotRun'
  BY DEF Inv, NotRun, queued

LEMMA WantedKept ==
  ASSUME Inv, UNCHANGED <<wanted, order>>
  PROVE  Wanted'
  BY DEF Inv, Wanted

(* A step that only replaces the top frame by plain ones, or drops it.       *)
Replaced ==
  \/ todo' = Tail(todo)
  \/ \E f \in GoodFrames : Plain(f) /\ todo' = <<f>> \o Tail(todo)
  \/ \E f, g \in GoodFrames : Plain(f) /\ Plain(g) /\ todo' = <<f, g>> \o Tail(todo)

LEMMA ReplacedStack ==
  ASSUME Inv, todo # <<>>, Replaced, processed' \in {processed, TRUE}
  PROVE  /\ Stack'
         /\ Top.do # "ScriptDone" => (NoScript(todo') => NoScript(todo))
<1> DEFINE t == Tail(todo)
<1>1. /\ t \in Seq(GoodFrames) /\ MarksOK(t, processed') /\ processed' \in BOOLEAN
      /\ Top.do # "ScriptDone" => (NoScript(t) => NoScript(todo))
  BY Popped DEF Inv, Data
<1> HIDE DEF t
<1>2. CASE todo' = t
  BY <1>1, <1>2 DEF Stack
<1>3. CASE \E f \in GoodFrames : Plain(f) /\ todo' = <<f>> \o t
  BY <1>1, <1>3, OnePlain DEF Stack
<1>4. CASE \E f, g \in GoodFrames : Plain(f) /\ Plain(g) /\ todo' = <<f, g>> \o t
  BY <1>1, <1>4, TwoPlain DEF Stack
<1> QED
  BY <1>2, <1>3, <1>4 DEF Replaced, t

LEMMA PressInv ==
  ASSUME Inv, NEW s \in {"normal", "nonGcd"}, Press(s)
  PROVE  Inv'
<1>1. todo' = <<Do("Queues"), Cast(s)>> \o todo /\ processed' = processed
  BY DEF Press, Goto
<1>2. Do("Queues") \in GoodFrames /\ Plain(Do("Queues")) /\ Cast(s) \in GoodFrames /\ Plain(Cast(s))
  BY PlainFrames DEF Plain, Marks
<1>3. Stack' /\ (NoScript(todo') => NoScript(todo))
  BY <1>1, <1>2, TwoPlain DEF Inv, Stack, Data
<1>4. Data'
  <2>1. inLua' \in BOOLEAN /\ MaxPresses \in Nat
    BY BoundAssumption DEF Press, Goto
  <2> QED
    BY <2>1 DEF Inv, Data, Press, spells, queued, loop
<1>5. Wanted' /\ NotRun'
  BY <1>3, WantedKept, NotRunKept DEF Press, queued, loop
<1> QED
  BY <1>3, <1>4, <1>5 DEF Inv

LEMMA QueueScriptInv ==
  ASSUME Inv, NEW p \in {0} \union Priorities, QueueScript(p)
  PROVE  Inv'
<1>1. /\ scripts \in Nat /\ scripts' = scripts + 1 /\ scripts' \in Scripts /\ scripts' \in 0..MaxScripts
      /\ script \in 0..scripts /\ ran[scripts'] = 0
  BY BoundAssumption DEF Inv, Data, NotRun, QueueScript, Scripts
<1>2. UNCHANGED <<todo, processed, wanted, order>>
  BY DEF QueueScript, loop
<1>3. Wanted' /\ Stack'
  BY <1>2, WantedKept DEF Inv, Stack
<1>4. CASE scriptQueued' = TRUE /\ script' = scripts' /\ priority' = (IF p = 0 THEN priority ELSE p) /\ ran' = ran
  <2>1. Data'
    BY <1>1, <1>4 DEF Inv, Data, QueueScript, spells, loop, Scripts
  <2>2. NotRun'
    BY <1>1, <1>4 DEF Inv, Data, NotRun, Scripts
  <2> QED
    BY <1>3, <2>1, <2>2 DEF Inv
<1>5. CASE ran' = [ran EXCEPT ![scripts'] = @ + 1] /\ UNCHANGED queued
  <2>1. ran' \in [Scripts -> {0, 1}]
    BY <1>1, <1>5 DEF Inv, Data
  <2>2. Data'
    BY <1>1, <1>5, <2>1 DEF Inv, Data, QueueScript, spells, loop, queued
  <2>3. script \in Scripts \/ script = 0
    BY DEF Inv, Data, Scripts
  <2>4. \A k \in Scripts : k # scripts' => ran'[k] = ran[k]
    BY <1>1, <1>5 DEF Inv, Data
  <2>5. NotRun'
    BY <1>1, <1>2, <1>5, <2>3, <2>4 DEF Inv, NotRun, Scripts, queued
  <2> QED
    BY <1>3, <2>2, <2>5 DEF Inv
<1> QED
  BY <1>4, <1>5 DEF QueueScript

LEMMA DisenchantAllInv ==
  ASSUME Inv, NEW o \in Orders, DisenchantAll(o)
  PROVE  Inv'
<1>1. wanted' \in {o, Nothing} /\ order' = o
  BY OrderFields DEF DisenchantAll, Cleared
<1>2. Wanted'
  BY <1>1 DEF Wanted
<1>3. UNCHANGED <<processed, queued, ran, scripts>>
  BY DEF DisenchantAll
<1>4. Stack' /\ (NoScript(todo') => NoScript(todo))
  <2>1. CASE todo' = todo
    BY <1>3, <2>1 DEF Inv, Stack
  <2>2. CASE todo' = <<Do("Try")>> \o todo
    <3>1. Do("Try") \in GoodFrames /\ Plain(Do("Try"))
      BY PlainFrames DEF Plain, Marks
    <3> QED
      BY <1>3, <2>2, <3>1, OnePlain DEF Inv, Stack, Data
  <2> QED
    BY <2>1, <2>2 DEF DisenchantAll, Goto
<1>5. Data'
  <2>1. inLua' \in BOOLEAN /\ MaxOrders \in Nat
    BY BoundAssumption DEF Inv, Data, DisenchantAll, Goto
  <2>2. /\ orders < MaxOrders /\ orders' = orders + 1 /\ resting' \in BOOLEAN
        /\ UNCHANGED <<casting, gcd, nonGcd, normalQueued, processed, scriptQueued, script, priority>>
        /\ UNCHANGED <<held, sent, ran, scripts, presses>>
    BY DEF DisenchantAll, spells, queued
  <2> QED
    BY <2>1, <2>2 DEF Inv, Data
<1> QED
  BY <1>2, <1>3, <1>4, <1>5, NotRunKept DEF Inv

------------------------------------------------------------------------------
(* processQueues and what follows it.                                        *)
LEMMA QueuedScriptInv ==
  ASSUME Inv, todo # <<>>, Top.do \in {"Queues", "DropStale"}, scriptQueued, RunQueuedScript(Tail(todo)),
         Top.do = "DropStale" \/ ~processed,
         processed' = TRUE, UNCHANGED <<casting, gcd, nonGcd, queued, loop, held, sent, asked>>,
         normalQueued' \in BOOLEAN
  PROVE  Inv'
<1> DEFINE t == Tail(todo)
<1>1. /\ t \in Seq(GoodFrames) /\ MarksOK(t, TRUE) /\ Unmarked(t)
      /\ NoScript(t) => NoScript(todo)
  BY Popped DEF Marks
<1>2. todo' = <<Do("ScriptDone")>> \o t /\ inLua' = TRUE /\ ran' = [ran EXCEPT ![script] = @ + 1]
  BY DEF RunQueuedScript, Callback
<1> HIDE DEF t
<1>3. /\ script \in Scripts /\ script \in 1..scripts /\ ran[script] = 0
  BY <1>1, UnmarkedIsScriptless, BoundAssumption DEF Inv, NotRun, Data, Scripts
<1>4. Stack' /\ ~NoScript(todo')
  <2>1. Do("ScriptDone") \in GoodFrames /\ Do("ScriptDone").do = "ScriptDone"
    BY PlainFrames
  <2> QED
    BY <1>1, <1>2, <2>1, OnTop DEF Stack, Marks
<1>5. ran' \in [Scripts -> {0, 1}]
  BY <1>2, <1>3 DEF Inv, Data
<1>6. Data'
  BY <1>2, <1>5 DEF Inv, Data, queued, loop, asked
<1>7. Wanted'
  BY WantedKept DEF loop, asked
<1>8. NotRun'
  <2>1. \A k \in Scripts : k > scripts => ran'[k] = ran[k]
    BY <1>2, <1>3, BoundAssumption DEF Inv, Data, Scripts
  <2> QED
    BY <1>3, <1>4, <2>1 DEF Inv, NotRun, queued, asked
<1> QED
  BY <1>4, <1>6, <1>7, <1>8 DEF Inv

LEMMA PlainStepInv ==
  ASSUME Inv, todo # <<>>, Top.do # "ScriptDone", Replaced, processed' \in {processed, TRUE}, Data',
         UNCHANGED <<queued, wanted, ran, order, scripts>>
  PROVE  Inv'
<1>1. Stack' /\ (NoScript(todo') => NoScript(todo))
  BY ReplacedStack
<1> QED
  BY <1>1, WantedKept, NotRunKept DEF Inv

LEMMA LastInv ==
  ASSUME Inv, todo # <<>>, Top.do \in {"Queues", "DropStale"}, Last(Tail(todo)),
         Top.do = "DropStale" \/ ~processed,
         processed' = TRUE, UNCHANGED <<casting, gcd, nonGcd, queued, loop, held, sent, asked>>,
         normalQueued' \in BOOLEAN
  PROVE  Inv'
<1>1. CASE Runs(3)
  BY <1>1, QueuedScriptInv DEF Last, Runs
<1>2. CASE ~Runs(3)
  <2>1. ran' = ran /\ inLua' \in BOOLEAN /\ (todo' = <<Do("Try")>> \o Tail(todo) \/ todo' = Tail(todo))
    BY <1>2 DEF Last, Goto
  <2>2. Replaced
    BY <2>1, PlainFrames DEF Replaced, Plain, Marks
  <2>3. Data'
    BY <2>1 DEF Inv, Data, queued, loop, asked
  <2> QED
    BY <2>1, <2>2, <2>3, PlainStepInv DEF queued, loop, asked
<1> QED
  BY <1>1, <1>2

LEMMA QueuesInv ==
  ASSUME Inv, Queues
  PROVE  Inv'
<1>1. /\ todo # <<>> /\ Top.do = "Queues" /\ processed' = TRUE
      /\ UNCHANGED <<queued, loop, held, sent, asked>>
  BY DEF Queues, At, Top
<1>2. CASE processed
  <2>1. todo' = Tail(todo) /\ inLua' \in BOOLEAN /\ UNCHANGED <<spells, ran>>
    BY <1>2 DEF Queues, Goto
  <2>2. Data'
    BY <1>1, <2>1 DEF Inv, Data, spells, queued, loop, asked
  <2> QED
    BY <1>1, <2>1, <2>2, PlainStepInv DEF Replaced, queued, loop, asked
<1>3. CASE ~processed
  <2>1. FirstOfQueues(Tail(todo))
    BY <1>3 DEF Queues
  <2>2. CASE \E p \in 1..2 : Runs(p) /\ RunQueuedScript(Tail(todo)) /\ UNCHANGED spells
    BY <1>1, <1>3, <2>2, QueuedScriptInv DEF Runs, spells, Inv, Data
  <2>3. CASE nonGcd > 0 /\ CastQueuedNonGcdSpell(Tail(todo))
    <3>1. /\ todo' = <<Cast("nonGcd")>> \o Tail(todo) /\ inLua' \in BOOLEAN /\ nonGcd' = nonGcd - 1
          /\ UNCHANGED <<casting, gcd, normalQueued, ran>>
      BY <2>3 DEF CastQueuedNonGcdSpell, Goto
    <3>2. Replaced
      BY <3>1, PlainFrames DEF Replaced, Plain, Marks
    <3>3. Data'
      BY <1>1, <2>3, <3>1 DEF Inv, Data, queued, loop, asked
    <3> QED
      BY <1>1, <3>1, <3>2, <3>3, PlainStepInv DEF queued, loop, asked
  <2>4. CASE CastQueuedNormalSpell(Tail(todo))
    <3>1. /\ todo' = <<Cast("normal")>> \o Tail(todo) /\ inLua' \in BOOLEAN /\ normalQueued' = FALSE
          /\ UNCHANGED <<casting, gcd, nonGcd, ran>>
      BY <2>4 DEF CastQueuedNormalSpell, Goto
    <3>2. Replaced
      BY <3>1, PlainFrames DEF Replaced, Plain, Marks
    <3>3. Data'
      BY <1>1, <3>1 DEF Inv, Data, queued, loop, asked
    <3> QED
      BY <1>1, <3>1, <3>2, <3>3, PlainStepInv DEF queued, loop, asked
  <2>5. CASE Callback(<<Do("DropStale")>> \o Tail(todo)) /\ UNCHANGED <<spells, ran>>
    <3>1. todo' = <<Do("DropStale")>> \o Tail(todo) /\ inLua' = TRUE
      BY <2>5 DEF Callback
    <3>2. /\ Tail(todo) \in Seq(GoodFrames) /\ MarksOK(Tail(todo), TRUE) /\ Unmarked(Tail(todo))
          /\ NoScript(Tail(todo)) => NoScript(todo)
      BY <1>1, <1>3, Popped
    <3>3. Do("DropStale") \in GoodFrames /\ Do("DropStale").do = "DropStale"
      BY PlainFrames
    <3>4. Stack' /\ (NoScript(todo') => NoScript(todo))
      BY <1>1, <3>1, <3>2, <3>3, OnTop DEF Stack, Marks
    <3>5. Data'
      BY <1>1, <2>5, <3>1 DEF Inv, Data, spells, queued, loop, asked
    <3> QED
      BY <1>1, <2>5, <3>4, <3>5, WantedKept, NotRunKept DEF Inv, loop, asked
  <2>6. CASE Last(Tail(todo)) /\ UNCHANGED spells
    BY <1>1, <1>3, <2>6, LastInv DEF spells, Inv, Data
  <2> QED
    BY <2>1, <2>2, <2>3, <2>4, <2>5, <2>6 DEF FirstOfQueues
<1> QED
  BY <1>2, <1>3

LEMMA DropStaleInv ==
  ASSUME Inv, DropStale
  PROVE  Inv'
<1>1. /\ todo # <<>> /\ Top.do = "DropStale" /\ Last(Tail(todo)) /\ normalQueued' = FALSE
      /\ processed' = processed
      /\ UNCHANGED <<casting, gcd, nonGcd, queued, loop, held, sent, asked>>
  BY DEF DropStale, At, Top
<1>2. processed = TRUE
  BY <1>1, Popped DEF Marks, Inv, Data
<1> QED
  BY <1>1, <1>2, LastInv

LEMMA ScriptDoneInv ==
  ASSUME Inv, ScriptDone
  PROVE  Inv'
<1>1. /\ todo # <<>> /\ scriptQueued' = FALSE /\ priority' = 1 /\ todo' = Tail(todo) /\ inLua' \in BOOLEAN
      /\ UNCHANGED <<spells, processed, script, loop, held, sent, ran, asked>>
  BY DEF ScriptDone, At, Goto
<1>2. Stack'
  BY <1>1, Popped DEF Stack
<1>3. Data'
  <2>1. scriptQueued' \in BOOLEAN
    BY <1>1
  <2> QED
    BY <1>1, <2>1 DEF Inv, Data, spells, loop, asked, Priorities
<1>4. NotRun'
  BY <1>1 DEF Inv, NotRun, asked
<1> QED
  BY <1>1, <1>2, <1>3, <1>4, WantedKept DEF Inv, loop, asked

LEMMA EndFrameInv ==
  ASSUME Inv, EndFrame
  PROVE  Inv'
<1>1. /\ todo # <<>> /\ Top.do = "EndFrame" /\ processed' = FALSE /\ todo' = Tail(todo) /\ inLua' \in BOOLEAN
      /\ UNCHANGED <<spells, queued, loop, held, sent, ran, asked>>
  BY DEF EndFrame, At, Top, Goto
<1>2. todo' = <<>> /\ (NoScript(todo') => NoScript(todo))
  BY <1>1, Popped
<1>3. Stack'
  BY <1>2, EmptyStack DEF Stack
<1>4. Data'
  BY <1>1 DEF Inv, Data, spells, queued, loop, asked
<1> QED
  BY <1>1, <1>2, <1>3, <1>4, WantedKept, NotRunKept DEF Inv, loop, asked

------------------------------------------------------------------------------
(* The steps that replace the frame on top and leave the queued script alone. *)
LEMMA StepData ==
  ASSUME Inv, {casting', gcd', resting', normalQueued', inLua'} \subseteq BOOLEAN, nonGcd' \in Nat,
         sent' \subseteq held, UNCHANGED <<processed, queued, held, ran, asked>>
  PROVE  Data'
  BY DEF Inv, Data, queued, asked

LEMMA CastSpellInv ==
  ASSUME Inv, CastSpell
  PROVE  Inv'
<1>1. /\ todo # <<>> /\ Top.do = "Cast"
      /\ UNCHANGED <<casting, gcd, processed, queued, loop, held, sent, ran, asked>>
  BY DEF CastSpell, At, Top
<1>2. /\ inLua' \in BOOLEAN /\ normalQueued' \in BOOLEAN /\ nonGcd' \in Nat
      /\ todo' = Tail(todo) \/ todo' = <<Sends(Top.spell)>> \o Tail(todo)
  <2>1. CASE Goto(Tail(todo)) /\ UNCHANGED <<nonGcd, normalQueued>>
    BY <2>1 DEF Goto, Inv, Data
  <2>2. CASE Goto(Tail(todo)) /\ normalQueued' = TRUE /\ UNCHANGED nonGcd
    BY <2>2 DEF Goto, Inv, Data
  <2>3. CASE Goto(Tail(todo)) /\ nonGcd' = nonGcd + 1 /\ UNCHANGED normalQueued
    BY <2>3 DEF Goto, Inv, Data
  <2>4. CASE Callback(<<Sends(Top.spell)>> \o Tail(todo)) /\ UNCHANGED <<nonGcd, normalQueued>>
    BY <2>4 DEF Callback, Inv, Data
  <2> QED
    BY <2>1, <2>2, <2>3, <2>4 DEF CastSpell
<1>3. Top.spell \in {"normal", "nonGcd"}
  BY <1>1, Popped DEF GoodFrames, Frames
<1>4. Replaced
  BY <1>2, <1>3, PlainFrames DEF Replaced, Plain, Marks
<1>5. Data'
  BY <1>1, <1>2, StepData DEF Inv, Data, loop
<1> QED
  BY <1>1, <1>4, <1>5, PlainStepInv DEF loop, asked

LEMMA ClientSendsInv ==
  ASSUME Inv, ClientSends
  PROVE  Inv'
<1>1. /\ todo # <<>> /\ Top.do = "Sends" /\ todo' = Tail(todo) /\ inLua' = TRUE
      /\ UNCHANGED <<nonGcd, normalQueued, processed, queued, loop, held, sent, ran, asked>>
  BY DEF ClientSends, At, Top, Callback
<1>2. casting' \in BOOLEAN /\ gcd' \in BOOLEAN
  BY DEF ClientSends, Inv, Data
<1>3. Data'
  BY <1>1, <1>2, StepData DEF Inv, Data, loop
<1> QED
  BY <1>1, <1>3, PlainStepInv DEF Replaced, loop, asked

(* What TryDisenchant finds by quality is what the call in force allows:     *)
(* the settings are that call's, or none.                                    *)
LEMMA FoundIsAllowed ==
  ASSUME Inv, order.quality, NEW i \in Items,
         wanted.itemId = 0, i \in FindPlayerDisenchantItem(wanted.soulbound)
  PROVE  Allowed(order, i)
  BY OrderFields DEF Inv, Wanted, FindPlayerDisenchantItem, Allowed

LEMMA TryDisenchantInv ==
  ASSUME Inv, TryDisenchant
  PROVE  Inv'
<1>1. /\ todo # <<>> /\ Top.do = "Try" /\ inLua' = TRUE
      /\ UNCHANGED <<spells, processed, queued, loop, held, sent, ran, asked>>
  BY DEF TryDisenchant, At, Top, Callback
<1>2. Data'
  BY <1>1, StepData DEF Inv, Data, spells, loop
<1>3. CASE todo' = <<Do("StopLoop")>> \o Tail(todo)
  BY <1>1, <1>2, <1>3, PlainFrames, PlainStepInv DEF Replaced, Plain, Marks, loop, asked
<1>4. ASSUME NEW bankOpen \in BOOLEAN,
             NEW i \in IF wanted.itemId # 0 THEN FindPlayerItem(wanted.itemId, bankOpen)
                       ELSE FindPlayerDisenchantItem(wanted.soulbound),
             todo' = <<CastItem(i, order)>> \o Tail(todo)
      PROVE  Inv'
  <2>1. i \in Items
    BY <1>4 DEF FindPlayerItem, FindPlayerDisenchantItem, Inv, Data
  <2>2. order.quality => Allowed(order, i)
    <3>1. CASE wanted.itemId # 0
      BY <3>1, OrderFields DEF Inv, Wanted
    <3>2. CASE wanted.itemId = 0
      BY <1>4, <2>1, <3>2, FoundIsAllowed
    <3> QED
      BY <3>1, <3>2
  <2>3. CastItem(i, order) \in GoodFrames /\ CastItem(i, order).do = "CastItem"
    BY <2>1, <2>2 DEF CastItem, GoodFrames, Frames, Inv, Wanted
  <2> QED
    BY <1>1, <1>2, <1>4, <2>3, PlainStepInv DEF Replaced, Plain, Marks, loop, asked
<1> QED
  BY <1>3, <1>4 DEF TryDisenchant, Callback

(* A reset: the settings are none.                                           *)
LEMMA ResetStepInv ==
  ASSUME Inv, todo # <<>>, Top.do # "ScriptDone", Replaced, processed' = processed, Data',
         wanted' = Cleared, UNCHANGED <<queued, ran, asked>>
  PROVE  Inv'
<1>1. Stack' /\ (NoScript(todo') => NoScript(todo))
  BY ReplacedStack
<1>2. Wanted'
  BY DEF Inv, Wanted, Cleared, asked
<1> QED
  BY <1>1, <1>2, NotRunKept DEF Inv, asked

LEMMA StopLoopInv ==
  ASSUME Inv, StopLoop
  PROVE  Inv'
<1>1. /\ todo # <<>> /\ Top.do = "StopLoop" /\ todo' = Tail(todo) /\ inLua' \in BOOLEAN
      /\ wanted' = Cleared /\ resting' \in BOOLEAN
      /\ UNCHANGED <<spells, processed, queued, held, sent, ran, asked>>
  BY DEF StopLoop, At, Top, Goto
<1>2. Data'
  BY <1>1, StepData DEF Inv, Data, spells
<1> QED
  BY <1>1, <1>2, ResetStepInv DEF Replaced

LEMMA CastDisenchantInv ==
  ASSUME Inv, CastDisenchant
  PROVE  Inv'
<1> DEFINE g == [Top EXCEPT !.do = "Disenchant"]
<1>1. /\ todo # <<>> /\ Top.do = "CastItem" /\ todo' = <<Do("Queues"), g>> \o Tail(todo)
      /\ inLua' \in BOOLEAN /\ resting' \in BOOLEAN
      /\ UNCHANGED <<spells, processed, queued, wanted, held, sent, ran, asked>>
  BY DEF CastDisenchant, At, Top, Goto
<1>2. g \in GoodFrames /\ g.do = "Disenchant"
  <2>1. Top \in GoodFrames
    BY <1>1, Popped
  <2>2. PICK i \in Items, o \in Orders \union {Nothing} : Top = [do |-> "CastItem", item |-> i, order |-> o]
    BY <1>1, <2>1 DEF GoodFrames, Frames
  <2>3. g = [do |-> "Disenchant", item |-> i, order |-> o]
    BY <2>2
  <2>4. o.quality => Allowed(o, i)
    BY <2>1, <2>2 DEF GoodFrames
  <2> QED
    BY <2>3, <2>4 DEF GoodFrames, Frames
<1> HIDE DEF g
<1>3. Replaced
  BY <1>1, <1>2, PlainFrames DEF Replaced, Plain, Marks
<1>4. Data'
  BY <1>1, StepData DEF Inv, Data, spells
<1> QED
  BY <1>1, <1>3, <1>4, PlainStepInv DEF asked

LEMMA ClientDisenchantsInv ==
  ASSUME Inv, ClientDisenchants
  PROVE  Inv'
<1>1. /\ todo # <<>> /\ Top.do = "Disenchant" /\ inLua' = TRUE
      /\ todo' = Tail(todo) \/ todo' = <<Do("SpellFailed"), Do("CastFailed")>> \o Tail(todo)
      /\ UNCHANGED <<gcd, nonGcd, normalQueued, processed, queued, loop, held, ran, asked>>
  BY DEF ClientDisenchants, At, Top, Callback
<1>2. Replaced
  BY <1>1, PlainFrames DEF Replaced, Plain, Marks
<1>3. casting' \in BOOLEAN /\ sent' \subseteq held
  BY DEF ClientDisenchants, Inv, Data
<1>4. Data'
  BY <1>1, <1>3, StepData DEF Inv, Data, loop
<1> QED
  BY <1>1, <1>2, <1>4, PlainStepInv DEF loop, asked

LEMMA CastFailedInv ==
  ASSUME Inv, CastFailed
  PROVE  Inv'
<1>1. /\ todo # <<>> /\ Top.do = "CastFailed" /\ inLua' = TRUE /\ todo' = <<Do("StopLoop")>> \o Tail(todo)
      /\ UNCHANGED <<spells, processed, queued, loop, held, sent, ran, asked>>
  BY DEF CastFailed, At, Top, Callback
<1>2. Replaced
  BY <1>1, PlainFrames DEF Replaced, Plain, Marks
<1>3. Data'
  BY <1>1, StepData DEF Inv, Data, spells, loop
<1> QED
  BY <1>1, <1>2, <1>3, PlainStepInv DEF loop, asked

LEMMA SpellFailedInv ==
  ASSUME Inv, SpellFailed
  PROVE  Inv'
<1>1. /\ todo # <<>> /\ Top.do = "SpellFailed" /\ todo' = Tail(todo) /\ inLua' = TRUE
      /\ wanted' = Cleared /\ {resting', casting', gcd'} \subseteq BOOLEAN
      /\ UNCHANGED <<nonGcd, normalQueued, processed, queued, held, sent, ran, asked>>
  BY DEF SpellFailed, At, Top, Callback
<1>2. Data'
  BY <1>1, StepData DEF Inv, Data
<1> QED
  BY <1>1, <1>2, ResetStepInv DEF Replaced

------------------------------------------------------------------------------
(* What happens between scenes.                                              *)
LEMMA SceneEndInv ==
  ASSUME Inv, SceneEnd
  PROVE  Inv'
<1>1. /\ todo = <<>> /\ todo' = <<Do("Queues"), Do("EndFrame")>> /\ inLua' \in BOOLEAN
      /\ UNCHANGED <<spells, processed, queued, loop, held, sent, ran, asked>>
  BY DEF SceneEnd, Goto
<1>2. Do("Queues") \in GoodFrames /\ Do("Queues").do = "Queues" /\ Do("EndFrame") \in GoodFrames /\ Do("EndFrame").do = "EndFrame"
  BY PlainFrames
<1>3. todo' = <<Do("Queues")>> \o (<<Do("EndFrame")>> \o <<>>)
  BY <1>1
<1>4. <<Do("EndFrame")>> \o <<>> \in Seq(GoodFrames) /\ MarksOK(<<Do("EndFrame")>> \o <<>>, processed)
  BY <1>2, EmptyStack, OnTop DEF Marks, Inv, Data
<1>5. Stack'
  BY <1>1, <1>2, <1>3, <1>4, OnePlain DEF Stack, Plain, Marks, Inv, Data
<1>6. Data'
  BY <1>1, StepData DEF Inv, Data, spells, loop
<1> QED
  BY <1>1, <1>5, <1>6, EmptyStack, WantedKept, NotRunKept DEF Inv, loop, asked

LEMMA AnswerInv ==
  ASSUME Inv, NEW i \in Items, Disenchanted(i) \/ DisenchantFails(i)
  PROVE  Inv'
<1>1. CASE Disenchanted(i)
  <2>1. /\ UNCHANGED <<spells, processed, queued, loop, todo, inLua, ran, asked>>
        /\ held' \subseteq Items /\ sent' \subseteq held'
    BY <1>1 DEF Disenchanted, Inv, Data
  <2>2. Data'
    BY <2>1 DEF Inv, Data, spells, queued, loop, asked
  <2> QED
    BY <2>1, <2>2, WantedKept, NotRunKept DEF Inv, Stack, loop, asked
<1>2. CASE DisenchantFails(i)
  <2>1. /\ todo = <<>> /\ todo' = <<Do("SpellFailed")>> /\ inLua' = TRUE
        /\ UNCHANGED <<spells, processed, queued, loop, held, ran, asked>>
        /\ sent' \subseteq held
    BY <1>2 DEF DisenchantFails, Callback, Inv, Data
  <2>2. todo' = <<Do("SpellFailed")>> \o <<>>
    BY <2>1
  <2>3. Stack'
    BY <2>1, <2>2, PlainFrames, EmptyStack, OnePlain DEF Stack, Plain, Marks, Inv, Data
  <2>4. Data'
    BY <2>1, StepData DEF Inv, Data, spells, loop
  <2> QED
    BY <2>1, <2>3, <2>4, EmptyStack, WantedKept, NotRunKept DEF Inv, loop, asked
<1> QED
  BY <1>1, <1>2

LEMMA TickInv ==
  ASSUME Inv, Tick
  PROVE  Inv'
<1>1. /\ UNCHANGED <<nonGcd, normalQueued, processed, queued, wanted, held, sent, todo, inLua, ran, asked>>
      /\ {casting', gcd', resting'} \subseteq BOOLEAN
  BY DEF Tick, Inv, Data
<1>2. Data'
  BY <1>1, StepData DEF Inv, Data
<1> QED
  BY <1>1, <1>2, WantedKept, NotRunKept DEF Inv, Stack, asked

LEMMA ResetInv ==
  ASSUME Inv, ResetPlayerContextState
  PROVE  Inv'
<1>1. /\ todo = <<>> /\ nonGcd' = 0 /\ script' = 0 /\ priority' = 1 /\ scriptQueued' = FALSE /\ wanted' = Cleared
      /\ {casting', gcd', normalQueued', processed', scriptQueued', resting'} \subseteq BOOLEAN
      /\ UNCHANGED <<held, sent, todo, inLua, ran, asked>>
  BY DEF ResetPlayerContextState
<1>2. MaxScripts \in Nat
  BY BoundAssumption
<1>3. Data'
  BY <1>1, <1>2 DEF Inv, Data, asked, Priorities
<1>4. Wanted' /\ Stack'
  BY <1>1, EmptyStack DEF Inv, Wanted, Cleared, Stack, asked
<1>5. NotRun'
  BY <1>1 DEF Inv, Data, NotRun, asked
<1> QED
  BY <1>3, <1>4, <1>5 DEF Inv

LEMMA StepInv ==
  ASSUME Inv, [Next]_vars
  PROVE  Inv'
<1>1. CASE \E s \in {"normal", "nonGcd"} : Press(s)
  BY <1>1, PressInv
<1>2. CASE \E p \in {0} \union Priorities : QueueScript(p)
  BY <1>2, QueueScriptInv
<1>3. CASE \E o \in Orders : DisenchantAll(o)
  BY <1>3, DisenchantAllInv
<1>4. CASE Step
  BY <1>4, QueuesInv, DropStaleInv, ScriptDoneInv, EndFrameInv, CastSpellInv, ClientSendsInv,
     TryDisenchantInv, StopLoopInv, CastDisenchantInv, ClientDisenchantsInv, CastFailedInv, SpellFailedInv
  DEF Step
<1>5. CASE SceneEnd
  BY <1>5, SceneEndInv
<1>6. CASE Answer
  BY <1>6, AnswerInv DEF Answer
<1>7. CASE Tick
  BY <1>7, TickInv
<1>8. CASE ResetPlayerContextState
  BY <1>8, ResetInv
<1>9. CASE UNCHANGED vars
  BY <1>9 DEF vars, spells, queued, loop, asked, Inv, Data, Wanted, Stack, NotRun
<1> QED
  BY <1>1, <1>2, <1>3, <1>4, <1>5, <1>6, <1>7, <1>8, <1>9 DEF Next
------------------------------------------------------------------------------
(* misc_scripts.cpp:33-93: the variables keep their types, and no script     *)
(* runs twice, however scripts, handlers and casts nest.                     *)
THEOREM ScriptsOnceTheorem == Spec => []ScriptInv
<1>1. Inv => ScriptInv
  <2> SUFFICES ASSUME Inv PROVE ScriptInv
    OBVIOUS
  <2>1. GoodFrames \subseteq Frames
    BY DEF GoodFrames
  <2>2. todo \in Seq(Frames)
    BY <2>1 DEF Inv, Stack
  <2>3. wanted \in Orders \union {Nothing} /\ order \in Orders \union {Nothing}
    BY DEF Inv, Wanted
  <2>4. ran \in [Scripts -> Nat] /\ RunsOnce
    BY DEF Inv, Data, RunsOnce
  <2>5. {casting, gcd, normalQueued, processed, scriptQueued, resting, inLua} \subseteq BOOLEAN
    BY DEF Inv, Data
  <2> QED
    BY <2>2, <2>3, <2>4, <2>5 DEF Inv, Data, TypeOK, ScriptInv
<1> QED
  BY <1>1, InitInv, StepInv, PTL DEF Spec

(* player_scripts.cpp:206-341, SCRIPTS.md:1687 and 1709: Disenchant is cast  *)
(* by quality only on what the call in force allows, however resets, failures *)
(* and further calls come between the choice of the item and the cast.       *)
THEOREM QualityTheorem == Spec => []QualityHonoured
<1>1. Inv => QualityHonoured
  <2> SUFFICES ASSUME Inv, At("Disenchant"), Top.order.quality PROVE Allowed(Top.order, Top.item)
    BY DEF QualityHonoured
  <2>1. Top \in GoodFrames /\ Top.do = "Disenchant"
    BY Popped DEF At, Top
  <2> QED
    BY <2>1 DEF GoodFrames
<1> QED
  BY <1>1, InitInv, StepInv, PTL DEF Spec
==============================================================================

-------------------------------- MODULE Frame --------------------------------
(***************************************************************************)
(* What a frame does besides spells: the queued script of misc_scripts.cpp  *)
(* and the disenchant loop of player_scripts.cpp, which processQueues runs  *)
(* between the spell queues, from the end of a scene and from every cast.   *)
(*                                                                         *)
(* `todo` is the flattened C++ call stack and inLua says that Lua has the   *)
(* thread, as in OnSwing.  A script, a chat message and an event may all    *)
(* call back.  The spell queues are reduced to their flags and the clock to *)
(* end times that are still to come; nothing is channelled.  Disenchant is  *)
(* a trade skill to the cast hook (SPELL_ATTR_TRADESPELL in the client's    *)
(* data): it is not queued and not refused for a running cast.              *)
(***************************************************************************)
EXTENDS Naturals, Sequences, FiniteSets

CONSTANTS
  Items,          (* what the player owns *)
  ItemId,         (* [Items -> Nat \ {0}] *)
  Place,          (* [Items -> 1..4]: worn, in a bag, in the bank, on the keyring *)
  Gear,           (* weapons and armour of a quality that can be asked for, no quest items *)
  Soulbound,      (* the soulbound ones *)
  MaxScripts,     (* bound: scripts queued *)
  MaxOrders,      (* bound: calls of DisenchantAll *)
  MaxPresses      (* bound: other casts *)

Worn == 1
Bag == 2
Bank == 3
Keyring == 4
Scripts == 1..MaxScripts
NeverRun == 4   (* stands for every priority but 1 to 3: processQueues looks for no other *)
Priorities == 1..3 \union {NeverRun}
Nothing == [itemId |-> 0, quality |-> FALSE, soulbound |-> FALSE]
Orders ==
  {[itemId |-> ItemId[i], quality |-> FALSE, soulbound |-> b] : i \in Items, b \in BOOLEAN}
    \union {[itemId |-> 0, quality |-> TRUE, soulbound |-> b] : b \in BOOLEAN}

ASSUME ItemAssumption ==
  /\ IsFiniteSet(Items) /\ Gear \union Soulbound \subseteq Items
  /\ ItemId \in [Items -> Nat \ {0}] /\ Place \in [Items -> {Worn, Bag, Bank, Keyring}]
ASSUME BoundAssumption == {MaxScripts, MaxOrders, MaxPresses} \subseteq Nat

VARIABLES
  casting, gcd,        (* EffectiveCastEndMs, gcdEndMs are still to come *)
  nonGcd,              (* how many spells gNonGcdCastQueue holds *)
  normalQueued,
  processed,           (* gQueuesProcessed *)
  scriptQueued, script, priority,  (* gScriptQueued, queuedScript, gScriptPriority *)
  wanted,              (* gDisenchantItemId, Quality, IncludeSoulbound *)
  resting,             (* gNextDisenchantTimeMs is still to come *)
  held,                (* the items the player still has *)
  sent,                (* items a Disenchant is on its way for *)
  todo, inLua,
  ran,                 (* how often each script was run *)
  order,               (* what the player last asked DisenchantAll for *)
  scripts, orders, presses  (* how many so far *)

spells  == <<casting, gcd, nonGcd, normalQueued>>
queued  == <<scriptQueued, script, priority>>
loop    == <<wanted, resting>>
asked   == <<order, scripts, orders, presses>>
vars == <<spells, processed, queued, loop, held, sent, todo, inLua, ran, asked>>

Do(kind) == [do |-> kind]
Cast(s)  == [do |-> "Cast", spell |-> s]
Sends(s) == [do |-> "Sends", spell |-> s]
CastItem(i, o) == [do |-> "CastItem", item |-> i, order |-> o]

Init ==
  /\ casting = FALSE /\ gcd = FALSE /\ nonGcd = 0 /\ normalQueued = FALSE
  /\ processed = FALSE
  /\ scriptQueued = FALSE /\ script = 0 /\ priority = 1
  /\ wanted = Nothing /\ resting = FALSE
  /\ held = Items /\ sent = {}
  /\ todo = <<>> /\ inLua = TRUE
  /\ ran = [k \in Scripts |-> 0]
  /\ order = Nothing /\ scripts = 0 /\ orders = 0 /\ presses = 0

At(kind) == todo # <<>> /\ Head(todo).do = kind
Top      == Head(todo)
Goto(steps)   == todo' = steps /\ inLua' = (steps = <<>>)
Callback(steps) == todo' = steps /\ inLua' = TRUE
------------------------------------------------------------------------------
(* Lua: a key press, a script, a handler.                                    *)

(* Any other spell; processQueues comes first in the hook.                   *)
Press(s) ==
  /\ inLua /\ presses < MaxPresses
  /\ presses' = presses + 1
  /\ Goto(<<Do("Queues"), Cast(s)>> \o todo)
  /\ UNCHANGED <<spells, processed, queued, loop, held, sent, ran, order, scripts, orders>>

(* Script_QueueScript, for any number p, or 0 when none is given: then the    *)
(* priority of the last script stays.  The window is a choice; without one   *)
(* the script runs at once.                                                  *)
QueueScript(p) ==
  /\ inLua /\ scripts < MaxScripts
  /\ scripts' = scripts + 1
  /\ \/ /\ casting \/ gcd
        /\ scriptQueued' = TRUE /\ script' = scripts'
        /\ priority' = IF p = 0 THEN priority ELSE p
        /\ UNCHANGED ran
     \/ /\ ran' = [ran EXCEPT ![scripts'] = @ + 1]
        /\ UNCHANGED queued
  /\ UNCHANGED <<spells, processed, loop, held, sent, todo, inLua, order, orders, presses>>

KeepsSoulbound == [Nothing EXCEPT !.soulbound = wanted.soulbound]   (* mutant *)

(* ResetDisenchantState; the timer is reset with it.                         *)
Cleared == Nothing

(* Script_DisenchantAll, with the spell known, for o.  It resets, sets what  *)
(* is given and tries at once; a name nothing is found for only resets.      *)
DisenchantAll(o) ==
  /\ inLua /\ orders < MaxOrders
  /\ orders' = orders + 1
  /\ order' = o
  /\ resting' = FALSE
  /\ \/ /\ wanted' = [itemId |-> o.itemId, quality |-> o.quality,
                      soulbound |-> o.soulbound \/ Cleared.soulbound]
        /\ Goto(<<Do("Try")>> \o todo)
     \/ /\ o.itemId \in Nat \ ({0} \union {ItemId[i] : i \in held})
        /\ wanted' = Cleared
        /\ UNCHANGED <<todo, inLua>>
  /\ UNCHANGED <<spells, processed, queued, held, sent, ran, scripts, presses>>
------------------------------------------------------------------------------
(* processQueues, up to its first callback.                                  *)
Ready   == ~casting /\ ~gcd
Runs(p) == scriptQueued /\ priority = p /\ Ready

RunQueuedScript(rest) ==
  /\ ran' = [ran EXCEPT ![script] = @ + 1]
  /\ Callback(<<Do("ScriptDone")>> \o rest)

CastQueuedNonGcdSpell(rest) ==
  /\ nonGcd' = nonGcd - 1
  /\ Goto(<<Cast("nonGcd")>> \o rest)
  /\ UNCHANGED <<casting, gcd, normalQueued, ran>>

CastQueuedNormalSpell(rest) ==
  /\ normalQueued' = FALSE
  /\ Goto(<<Cast("normal")>> \o rest)
  /\ UNCHANGED <<casting, gcd, nonGcd, ran>>

SkipsScript(rest) ==         (* mutant: priority 3 is not looked at *)
  /\ IF (wanted.itemId # 0 \/ wanted.quality) /\ ~resting
     THEN Goto(<<Do("Try")>> \o rest) ELSE Goto(rest)
  /\ UNCHANGED ran

Last(rest) ==                (* the last script and the disenchant loop *)
  IF Runs(3) THEN RunQueuedScript(rest)
  ELSE /\ IF (wanted.itemId # 0 \/ wanted.quality) /\ ~resting
          THEN Goto(<<Do("Try")>> \o rest) ELSE Goto(rest)
       /\ UNCHANGED ran

FirstOfQueues(rest) ==
  IF Runs(1) THEN RunQueuedScript(rest) /\ UNCHANGED spells
  ELSE IF nonGcd > 0 /\ ~casting THEN CastQueuedNonGcdSpell(rest)
  ELSE IF Runs(2) THEN RunQueuedScript(rest) /\ UNCHANGED spells
  ELSE IF normalQueued /\ Ready
  THEN \/ CastQueuedNormalSpell(rest)
       \/ Callback(<<Do("DropStale")>> \o rest) /\ UNCHANGED <<spells, ran>>
  ELSE Last(rest) /\ UNCHANGED spells

NotMarked ==                 (* mutant: gQueuesProcessed is not set *)
  /\ At("Queues")
  /\ IF processed THEN Goto(Tail(todo)) /\ UNCHANGED <<spells, ran>>
     ELSE FirstOfQueues(Tail(todo))
  /\ UNCHANGED <<processed, queued, loop, held, sent, asked>>

Queues ==
  /\ At("Queues")
  /\ processed' = TRUE
  /\ IF processed THEN Goto(Tail(todo)) /\ UNCHANGED <<spells, ran>>
     ELSE FirstOfQueues(Tail(todo))
  /\ UNCHANGED <<queued, loop, held, sent, asked>>

DropStale ==
  /\ At("DropStale")
  /\ normalQueued' = FALSE
  /\ Last(Tail(todo))
  /\ UNCHANGED <<casting, gcd, nonGcd, processed, queued, loop, held, sent, asked>>

ScriptDone ==
  /\ At("ScriptDone")
  /\ scriptQueued' = FALSE /\ priority' = 1
  /\ Goto(Tail(todo))
  /\ UNCHANGED <<spells, processed, script, loop, held, sent, ran, asked>>

EndFrame ==
  /\ At("EndFrame")
  /\ processed' = FALSE
  /\ Goto(Tail(todo))
  /\ UNCHANGED <<spells, queued, loop, held, sent, ran, asked>>
------------------------------------------------------------------------------
(* The rest of the cast hook for another spell: it is queued, refused or     *)
(* handed to the client, whose handlers run before and after it is sent.     *)
CastSpell ==
  /\ At("Cast")
  /\ LET busy == casting \/ (Top.spell = "normal" /\ gcd) IN
     \/ busy /\ Goto(Tail(todo)) /\ UNCHANGED <<nonGcd, normalQueued>>
     \/ /\ busy
        /\ IF Top.spell = "normal" THEN normalQueued' = TRUE /\ UNCHANGED nonGcd
           ELSE nonGcd' = nonGcd + 1 /\ UNCHANGED normalQueued
        /\ Goto(Tail(todo))
     \/ ~busy /\ Callback(<<Sends(Top.spell)>> \o Tail(todo))
        /\ UNCHANGED <<nonGcd, normalQueued>>
  /\ UNCHANGED <<casting, gcd, processed, queued, loop, held, sent, ran, asked>>

ClientSends ==
  /\ At("Sends")
  /\ \/ UNCHANGED <<casting, gcd>>               (* the client refuses *)
     \/ casting' \in {casting, TRUE} /\ gcd' = (gcd \/ Top.spell = "normal")
  /\ Callback(Tail(todo))
  /\ UNCHANGED <<nonGcd, normalQueued, processed, queued, loop, held, sent, ran, asked>>
------------------------------------------------------------------------------
(* FindPlayerItem: the first place that holds an item of that id; the bank   *)
(* only while it is open.                                                    *)
FindPlayerItem(id, bankOpen) ==
  LET found == {i \in held : ItemId[i] = id /\ (Place[i] = Bank => bankOpen)}
  IN {i \in found : \A j \in found : Place[i] <= Place[j]}

IgnoresSoulbound(soulbound) ==   (* mutant: soulbound items are not skipped *)
  {i \in held \intersect Gear : Place[i] = Bag}

FindPlayerDisenchantItem(soulbound) ==
  {i \in held \intersect Gear : Place[i] = Bag /\ (i \in Soulbound => soulbound)}

(* TryDisenchant up to the chat message that says what is disenchanted, or   *)
(* that nothing is left.                                                     *)
TryDisenchant ==
  /\ At("Try")
  /\ \E bankOpen \in BOOLEAN :
       LET found == IF wanted.itemId # 0 THEN FindPlayerItem(wanted.itemId, bankOpen)
                    ELSE FindPlayerDisenchantItem(wanted.soulbound)
       IN \/ /\ found = {}
             /\ Callback(<<Do("StopLoop")>> \o Tail(todo))
          \/ \E i \in found : Callback(<<CastItem(i, order)>> \o Tail(todo))
  /\ UNCHANGED <<spells, processed, queued, loop, held, sent, ran, asked>>

StopLoop ==
  /\ At("StopLoop")
  /\ wanted' = Cleared /\ resting' = FALSE
  /\ Goto(Tail(todo))
  /\ UNCHANGED <<spells, processed, queued, held, sent, ran, asked>>

(* The timer is set, and the cast hook begins with processQueues.            *)
CastDisenchant ==
  /\ At("CastItem")
  /\ resting' = TRUE
  /\ Goto(<<Do("Queues"), [Top EXCEPT !.do = "Disenchant"]>> \o Tail(todo))
  /\ UNCHANGED <<spells, processed, queued, wanted, held, sent, ran, asked>>

(* The client sends it, or refuses it and reports a failure.                 *)
ClientDisenchants ==
  /\ At("Disenchant")
  /\ \/ /\ ~casting /\ Top.item \in held
        /\ sent' = sent \union {Top.item}
        /\ casting' = TRUE
        /\ Callback(Tail(todo))
     \/ /\ Callback(<<Do("SpellFailed"), Do("CastFailed")>> \o Tail(todo))
        /\ UNCHANGED <<sent, casting>>
  /\ UNCHANGED <<gcd, nonGcd, normalQueued, processed, queued, loop, held, ran, asked>>

(* The message that the cast failed, before the reset.                       *)
CastFailed ==
  /\ At("CastFailed")
  /\ Callback(<<Do("StopLoop")>> \o Tail(todo))
  /\ UNCHANGED <<spells, processed, queued, loop, held, sent, ran, asked>>

GoesOn ==                    (* mutant: a failed Disenchant does not end the loop *)
  /\ At("SpellFailed")
  /\ casting' = FALSE /\ gcd' = FALSE
  /\ Callback(Tail(todo))
  /\ UNCHANGED <<nonGcd, normalQueued, processed, queued, loop, held, sent, ran, asked>>

(* Spell_C_SpellFailedHook of a Disenchant, after the client's own function  *)
(* and its handlers.                                                         *)
SpellFailed ==
  /\ At("SpellFailed")
  /\ wanted' = Cleared /\ resting' = FALSE
  /\ casting' = FALSE /\ gcd' = FALSE
  /\ Callback(Tail(todo))
  /\ UNCHANGED <<nonGcd, normalQueued, processed, queued, held, sent, ran, asked>>
------------------------------------------------------------------------------
(* ISceneEndHook.                                                            *)
SceneEnd ==
  /\ todo = <<>>
  /\ Goto(<<Do("Queues"), Do("EndFrame")>>)
  /\ UNCHANGED <<spells, processed, queued, loop, held, sent, ran, asked>>

(* The server disenchants the item, or the cast fails: the player moves.     *)
Disenchanted(i) ==
  /\ todo = <<>> /\ i \in sent
  /\ sent' = sent \ {i} /\ held' = held \ {i}
  /\ UNCHANGED <<spells, processed, queued, loop, todo, inLua, ran, asked>>

DisenchantFails(i) ==
  /\ todo = <<>> /\ i \in sent
  /\ sent' = sent \ {i}
  /\ Callback(<<Do("SpellFailed")>>)
  /\ UNCHANGED <<spells, processed, queued, loop, held, ran, asked>>

Tick ==
  /\ todo = <<>>
  /\ casting' \in {casting, FALSE} /\ gcd' \in {gcd, FALSE} /\ resting' \in {resting, FALSE}
  /\ <<casting, gcd, resting>>' # <<casting, gcd, resting>>
  /\ UNCHANGED <<nonGcd, normalQueued, processed, queued, wanted, held, sent, todo, inLua,
                 ran, asked>>

(* ResetPlayerContextState: a UI load.                                       *)
ResetPlayerContextState ==
  /\ todo = <<>>
  /\ casting' = FALSE /\ gcd' = FALSE /\ nonGcd' = 0 /\ normalQueued' = FALSE
  /\ processed' = FALSE
  /\ scriptQueued' = FALSE /\ script' = 0 /\ priority' = 1
  /\ wanted' = Cleared /\ resting' = FALSE
  /\ UNCHANGED <<held, sent, todo, inLua, ran, asked>>

Step ==
  \/ Queues \/ DropStale \/ ScriptDone \/ EndFrame \/ CastSpell \/ ClientSends
  \/ TryDisenchant \/ StopLoop \/ CastDisenchant \/ ClientDisenchants \/ CastFailed
  \/ SpellFailed

Answer == \E i \in Items : Disenchanted(i) \/ DisenchantFails(i)

Next ==
  \/ \E s \in {"normal", "nonGcd"} : Press(s)
  \/ \E p \in {0} \union Priorities : QueueScript(p)
  \/ \E o \in Orders : DisenchantAll(o)
  \/ Step \/ SceneEnd \/ Answer \/ Tick \/ ResetPlayerContextState

Spec == Init /\ [][Next]_vars

(* Native code and handlers return, scenes are rendered, time passes, and a  *)
(* cast that was sent is answered.                                           *)
LiveSpec == Spec /\ WF_vars(Step) /\ WF_vars(SceneEnd) /\ SF_vars(Tick) /\ SF_vars(Answer)
------------------------------------------------------------------------------
(* The variables have their types.                                           *)
Frames ==
  [do : {"Queues", "DropStale", "ScriptDone", "EndFrame", "Try", "StopLoop", "CastFailed",
         "SpellFailed"}]
    \union [do : {"Cast", "Sends"}, spell : {"normal", "nonGcd"}]
    \union [do : {"CastItem", "Disenchant"}, item : Items, order : Orders \union {Nothing}]
TypeOK ==
  /\ {casting, gcd, normalQueued, processed, scriptQueued, resting, inLua} \subseteq BOOLEAN
  /\ nonGcd \in Nat
  /\ script \in 0..MaxScripts /\ priority \in Priorities
  /\ wanted \in Orders \union {Nothing} /\ order \in Orders \union {Nothing}
  /\ held \subseteq Items /\ sent \subseteq held
  /\ todo \in Seq(Frames)
  /\ ran \in [Scripts -> Nat]
  /\ scripts \in 0..MaxScripts /\ orders \in 0..MaxOrders /\ presses \in 0..MaxPresses

(* misc_scripts.cpp:88 runs the script before it clears gScriptQueued, and   *)
(* the script may cast, which enters processQueues again: still no script is *)
(* run twice, because of gQueuesProcessed.                                   *)
RunsOnce == \A k \in Scripts : ran[k] <= 1

(* misc_scripts.cpp:33-93: the script queue keeps its types, and no script   *)
(* runs twice.                                                               *)
ScriptInv == TypeOK /\ RunsOnce

(* A script queued at priority 1, 2 or 3 is run, replaced or dropped in the  *)
(* end, whatever else is queued.  At another priority, which misc_scripts.cpp*)
(* :58 takes as it is and the next script without one inherits, it stays.    *)
ScriptsRun == <>[](scriptQueued => priority = NeverRun)

(* SCRIPTS.md:1687 and 1709, for qualities: what Disenchant is cast on lies  *)
(* in a bag, and is soulbound only if the call that is carried out said so,  *)
(* although the settings are globals that resets, failures, UI loads and     *)
(* further calls from handlers write while the loop waits.                   *)
Allowed(o, i) == i \in Gear /\ Place[i] = Bag /\ (i \in Soulbound => o.soulbound)
QualityHonoured ==
  At("Disenchant") /\ Top.order.quality => Allowed(Top.order, Top.item)

(* The loop ends: every item is gone, or something failed.                   *)
LoopEnds == <>[](wanted = Nothing)

(* SCRIPTS.md:1682-1686: equipped, bank and keyring items "will not be       *)
(* touched", and soulbound items "are protected by default".                 *)
Protected ==
  At("Disenchant") =>
    Place[Top.item] = Bag /\ (Top.item \in Soulbound => Top.order.soulbound)
==============================================================================

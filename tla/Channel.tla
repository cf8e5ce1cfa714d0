-------------------------------- MODULE Channel --------------------------------
(***************************************************************************)
(* Channelled spells: the channel fields of gCastData, the server handlers   *)
(* of spellchannel.cpp, checkForStopChanneling, and what the cast hook and   *)
(* the queues make of a channel.  `data` is that part of gCastData; a hook   *)
(* that casts maps it to the set of its outcomes, because one call of it may *)
(* cast a queued spell before its own.                                       *)
(*                                                                         *)
(* Times are relative: channelEndMs and gcdEndMs count down, channelStartMs  *)
(* is an age.  A spell in Channels is on the GCD, the others are not; no     *)
(* spell has a cast time, and NP_NonGcdBufferTimeMs is 0.  Handlers of       *)
(* events are the subject of SpellQueue and are left out.  The server is     *)
(* external: it runs a channel at a time, and packets keep their order.      *)
(***************************************************************************)
EXTENDS Integers, Sequences, FiniteSetsExt

CONSTANTS
  Channels, Instants, OnHit,  (* spells *)
  FarSight,            (* the channels of mind control and the like *)
  NoSpell,             (* spell id 0 *)
  Duration,            (* of every channel *)
  Amplitudes,          (* scaled EffectAmplitude of a channel *)
  Gcd,                 (* the global cooldown *)
  QueueWindow,         (* NP_ChannelQueueWindowMs *)
  Reduction,           (* the latency times NP_ChannelLatencyReductionPercentage *)
  Buffer,              (* gBufferTimeMs *)
  DoubleAfter,         (* 500 in Spell_C_CastSpellHook *)
  AgeLimit,            (* 60000 in checkForStopChanneling *)
  QueueChanneling,     (* NP_QueueChannelingSpells *)
  InterruptOutside,    (* NP_InterruptChannelsOutsideQueueWindow *)
  DoubleCast,          (* NP_DoubleCastToEndChannelEarly *)
  MaxPresses,          (* bound: casts the player asks for *)
  MaxPushbacks         (* bound: times the server shortens a channel *)

Spells == Channels \union Instants \union OnHit
NoAge  == -1                     (* channelStartMs = 0 *)

ASSUME SpellAssumption ==
  /\ Channels \intersect Instants = {} /\ OnHit \intersect (Channels \union Instants) = {}
  /\ NoSpell \notin Spells /\ FarSight \subseteq Channels
ASSUME TimeAssumption ==
  /\ {Duration, AgeLimit} \subseteq Nat \ {0} /\ Amplitudes \subseteq Nat
  /\ {Gcd, QueueWindow, Reduction, Buffer, DoubleAfter} \subseteq Nat
ASSUME SettingAssumption == {QueueChanneling, InterruptOutside, DoubleCast} \subseteq BOOLEAN
ASSUME BoundAssumption == {MaxPresses, MaxPushbacks} \subseteq Nat

VARIABLES
  data,      (* gCastData: channeling, cancelChannelNextTick, channelEndMs (left),
                channelStartMs (age), channelTickTimeMs, gcdEndMs, the queues, and
                gQueuesProcessed *)
  sent,      (* casts on their way to the server *)
  packets,   (* packets on their way to the client *)
  server,    (* the channel the server runs, and for how long *)
  casts,     (* how many casts were sent *)
  known,     (* the channel of the last SMSG_CHANNEL_START, 0 once it was ended *)
  begun,     (* the last channel sent *)
  stopFor,   (* the channel the player last wanted to stop *)
  lost,      (* a failure or an on-hit spell since the known channel began *)
  presses, pushbacks

ghosts == <<known, begun, stopFor, lost>>
vars == <<data, sent, packets, server, casts, ghosts, presses, pushbacks>>

Cast(c, s)    == [cast |-> c, spell |-> s]
Idle          == [cast |-> 0, left |-> 0]
Start(c, s)   == [kind |-> "start", cast |-> c, spell |-> s, left |-> Duration]
Update(c, d)  == [kind |-> "update", cast |-> c, spell |-> NoSpell, left |-> d]
Failure(c)    == [kind |-> "failure", cast |-> c, spell |-> NoSpell, left |-> 0]

Minus(a, b) == IF a > b THEN a - b ELSE 0

Init ==
  /\ data = [channeling |-> FALSE, cancel |-> FALSE, left |-> 0, age |-> NoAge, tick |-> 0,
             gcd |-> 0, normal |-> NoSpell, nonGcd |-> <<>>, processed |-> FALSE]
  /\ sent = <<>> /\ packets = <<>> /\ server = Idle
  /\ casts = 0 /\ known = 0 /\ begun = 0 /\ stopFor = 0 /\ lost = FALSE
  /\ presses = 0 /\ pushbacks = 0

KeepsCancel(g) ==          (* mutant: cancelChannelNextTick survives the reset *)
  [g EXCEPT !.channeling = FALSE, !.left = 0, !.age = NoAge, !.tick = 0]

ResetChannelingFlags(g) ==
  [g EXCEPT !.channeling = FALSE, !.cancel = FALSE, !.left = 0, !.age = NoAge, !.tick = 0]

ResetCastFlags(g) == [ResetChannelingFlags(g) EXCEPT !.gcd = 0]

IgnoresChannels(g) == FALSE      (* mutant: a channel is not a cast *)

(* EffectiveCastEndMs is still to come.                                      *)
Casting(g) ==
  /\ g.channeling /\ QueueChanneling
  /\ InterruptOutside => g.left < QueueWindow
  /\ g.left > 0

InSpellQueueWindow(g) ==
  IF g.channeling THEN QueueChanneling /\ (g.cancel \/ g.left < QueueWindow)
  ELSE g.gcd > 0

(* BeginCast for a spell that is sent: a channel counts as begun before the  *)
(* server says so, and the other fields of an earlier one are kept.          *)
BeginCast(g, s) ==
  IF s \in Channels
  THEN [g EXCEPT !.channeling = TRUE, !.left = Duration, !.gcd = Gcd]
  ELSE [g EXCEPT !.channeling = FALSE]
------------------------------------------------------------------------------
(* The outcomes of Spell_C_CastSpellHook.                                    *)
Outcome(g, out) == [data |-> g, out |-> out]

(* A double cast of the spell asks for the end of the channel.  *)
DoublePress(g, double) ==
  IF double /\ DoubleCast /\ g.channeling /\ g.age > DoubleAfter
  THEN [g EXCEPT !.cancel = TRUE] ELSE g

Queued(g, s) ==
  IF s \in Channels THEN [g EXCEPT !.normal = s]
  ELSE IF \E i \in 1..Len(g.nonGcd) : g.nonGcd[i] = s THEN g
  ELSE [g EXCEPT !.nonGcd = Append(@, s)]

(* The client sends the spell, or refuses it: a failure resets every flag.   *)
Attempted(g, s) ==
  LET ready == IF s \in OnHit THEN g ELSE [g EXCEPT !.gcd = 0]
  IN {Outcome(BeginCast(ready, s), <<s>>), Outcome(ready, <<>>),
      Outcome(ResetCastFlags(ready), <<>>)}

(* noQueue: a NoQueue call, or a setting that keeps the spell unqueued.      *)
CastSpell(g, s, noQueue) ==
  IF s \in OnHit THEN Attempted(g, s)
  ELSE IF ~noQueue /\ InSpellQueueWindow(g) /\ (s \in Channels => QueueChanneling)
     /\ (s \in Instants => Casting(g))
  THEN {Outcome(Queued(g, s), <<>>)}
  ELSE IF Casting(g) \/ (s \in Channels /\ g.gcd > 0)
  THEN {Outcome(g, <<>>)}
  ELSE Attempted(g, s)

(* processQueues, for the two queues; a stale normal spell may be dropped.   *)
ProcessQueues(g) ==
  LET p == [g EXCEPT !.processed = TRUE]
  IN IF g.channeling \/ g.processed THEN {Outcome(p, <<>>)}
     ELSE IF g.nonGcd # <<>>
     THEN CastSpell([p EXCEPT !.nonGcd = Tail(@)], Head(g.nonGcd), FALSE)
     ELSE IF g.normal # NoSpell /\ g.gcd = 0
     THEN {Outcome([p EXCEPT !.normal = NoSpell], <<>>)}
            \union CastSpell([p EXCEPT !.normal = NoSpell], g.normal, FALSE)
     ELSE {Outcome(p, <<>>)}

(* checkForStopChanneling: the channel is over, or close enough to a tick.   *)
RemainingTick(g) ==
  LET passed == {k \in 0..AgeLimit : k * g.tick >= g.age - Buffer}
      next   == g.tick * (CHOOSE k \in passed : \A l \in passed : k <= l)
      remaining == Minus(next, g.age)
  IN IF Reduction > 0 THEN Minus(remaining, Reduction) ELSE Minus(remaining, Buffer)

OnlyNormal(g) == g.normal # NoSpell     (* mutant: a non-GCD spell does not count *)
IsNonSwingSpellQueued(g) == g.nonGcd # <<>> \/ g.normal # NoSpell

CheckForStopChanneling(g) ==
  IF /\ g.channeling /\ QueueChanneling /\ IsNonSwingSpellQueued(g)
     /\ \/ Minus(g.left, Reduction) = 0
        \/ g.cancel /\ g.age # NoAge /\ g.age < AgeLimit /\ RemainingTick(g) = 0
  THEN ResetChannelingFlags(g) ELSE g
------------------------------------------------------------------------------
(* What the hook of a press or the end of a scene sends.                     *)
Emit(g, out) ==
  /\ data' = g
  /\ begun' = Max({begun} \union {casts + i : i \in {j \in 1..Len(out) : out[j] \in Channels}})
  /\ sent' = sent \o [i \in 1..Len(out) |-> Cast(casts + i, out[i])]
  /\ casts' = casts + Len(out)

Press(s, noQueue, double) ==
  /\ presses < MaxPresses /\ presses' = presses + 1
  /\ \E first \in ProcessQueues(data) :
       LET g == DoublePress(first.data, double)
       IN /\ \E then \in CastSpell(g, s, noQueue) : Emit(then.data, first.out \o then.out)
          /\ lost' = (lost \/ s \in OnHit)
          /\ stopFor' = IF g.cancel /\ ~first.data.cancel THEN begun' ELSE stopFor
  /\ UNCHANGED <<packets, server, known, pushbacks>>

(* Script_ChannelStopCastingNextTick.                                        *)
ChannelStopCastingNextTick ==
  /\ data.channeling /\ ~data.cancel
  /\ data' = [data EXCEPT !.cancel = TRUE]
  /\ stopFor' = begun
  /\ UNCHANGED <<sent, packets, server, casts, known, begun, lost, presses, pushbacks>>

(* ISceneEndHook.                                                            *)
Frame ==
  /\ \E r \in ProcessQueues(CheckForStopChanneling(data)) :
       Emit([r.data EXCEPT !.processed = FALSE], r.out)
  /\ UNCHANGED <<packets, server, known, stopFor, lost, presses, pushbacks>>

(* Time passes, for the server as well.                                      *)
Tick ==
  /\ data.left > 0 \/ data.gcd > 0 \/ server.left > 0
  /\ data' = [data EXCEPT !.left = Minus(@, 1), !.gcd = Minus(@, 1),
                          !.age = IF @ \in {NoAge, AgeLimit} THEN @ ELSE @ + 1]
  /\ server' = IF server.left > 1 THEN [server EXCEPT !.left = @ - 1] ELSE Idle
  /\ packets' = IF server.left = 1 THEN Append(packets, Update(server.cast, 0)) ELSE packets
  /\ UNCHANGED <<sent, casts, ghosts, presses, pushbacks>>
------------------------------------------------------------------------------
(* The server answers a cast; unless it is an on-hit spell, it ends the  *)
(* channel that runs.                                                        *)
Ended == IF server.cast = 0 THEN <<>> ELSE <<Update(server.cast, 0)>>

ServerAccepts ==
  /\ sent # <<>>
  /\ LET c == Head(sent) IN
       IF c.spell \in Channels
       THEN /\ server' = [cast |-> c.cast, left |-> Duration]
            /\ packets' = packets \o Ended \o <<Start(c.cast, c.spell)>>
       ELSE IF c.spell \in OnHit THEN UNCHANGED <<server, packets>>
       ELSE server' = Idle /\ packets' = packets \o Ended
  /\ sent' = Tail(sent)
  /\ UNCHANGED <<data, casts, ghosts, presses, pushbacks>>

ServerRejects ==
  /\ sent # <<>>
  /\ packets' = Append(packets, Failure(Head(sent).cast))
  /\ sent' = Tail(sent)
  /\ UNCHANGED <<data, server, casts, ghosts, presses, pushbacks>>

(* Damage shortens a channel, and control effects end it.                    *)
Pushback(d) ==
  /\ server.left > d /\ pushbacks < MaxPushbacks
  /\ pushbacks' = pushbacks + 1
  /\ server' = IF d = 0 THEN Idle ELSE [server EXCEPT !.left = d]
  /\ packets' = Append(packets, Update(server.cast, d))
  /\ UNCHANGED <<data, sent, casts, ghosts, presses>>

Receives(kind) ==
  packets # <<>> /\ Head(packets).kind = kind /\ packets' = Tail(packets)

(* SpellChannelStartHandlerHook.                                             *)
TickIsAmplitude(amplitude, d) == amplitude     (* mutant: no fallback to the duration *)
TickTime(amplitude, d) == IF amplitude <= 0 \/ amplitude > d THEN d ELSE amplitude

ChannelStart(amplitude) ==
  /\ Receives("start")
  /\ LET p == Head(packets) IN
     IF p.left > 0 /\ p.spell \notin FarSight
     THEN /\ data' = [data EXCEPT !.channeling = TRUE, !.age = 0, !.left = p.left,
                                  !.tick = TickTime(amplitude, p.left)]
          /\ known' = p.cast
     ELSE data' = ResetChannelingFlags(data) /\ known' = 0
  /\ lost' = FALSE
  /\ UNCHANGED <<sent, server, casts, begun, stopFor, presses, pushbacks>>

(* SpellChannelUpdateHandlerHook.                                            *)
ChannelUpdate ==
  /\ Receives("update")
  /\ IF Head(packets).left <= 0
     THEN data' = ResetChannelingFlags(data) /\ known' = 0
     ELSE data' = [data EXCEPT !.left = Head(packets).left] /\ UNCHANGED known
  /\ UNCHANGED <<sent, server, casts, begun, stopFor, lost, presses, pushbacks>>

(* Spell_C_SpellFailedHook, retries off: whatever spell failed.            *)
SpellFailed ==
  /\ Receives("failure")
  /\ data' = ResetCastFlags(data)
  /\ lost' = TRUE
  /\ UNCHANGED <<sent, server, casts, known, begun, stopFor, presses, pushbacks>>

Next ==
  \/ \E s \in Spells, n, d \in BOOLEAN : Press(s, n, d)
  \/ ChannelStopCastingNextTick \/ Frame \/ Tick
  \/ ServerAccepts \/ ServerRejects \/ \E d \in 0..Duration : Pushback(d)
  \/ \E a \in Amplitudes : ChannelStart(a)
  \/ ChannelUpdate \/ SpellFailed

Spec == Init /\ [][Next]_vars

(* Scenes are rendered and time passes: frames may come between any two      *)
(* ticks.  Nothing is assumed of the server.                                 *)
LiveSpec == Spec /\ WF_vars(Frame) /\ WF_vars(Tick)
------------------------------------------------------------------------------
(* The variables have their types.                                           *)
Packets == [kind : {"start", "update", "failure"}, cast : Nat,
            spell : Spells \union {NoSpell}, left : 0..Duration]
TypeOK ==
  /\ data \in [channeling : BOOLEAN, cancel : BOOLEAN, left : 0..Duration,
              age : 0..AgeLimit \union {NoAge}, tick : 0..Duration, gcd : 0..Gcd,
              normal : Channels \union {NoSpell}, nonGcd : Seq(Instants),
              processed : BOOLEAN]
  /\ casts \in Nat
  /\ sent \in Seq([cast : 1..casts, spell : Spells])
  /\ packets \in Seq(Packets)
  /\ server \in [cast : 0..casts, left : 0..Duration]
  /\ {known, begun, stopFor} \subseteq 0..casts /\ lost \in BOOLEAN
  /\ presses \in 0..MaxPresses /\ pushbacks \in 0..MaxPushbacks

(* main.cpp:507: the loop that looks for the next tick adds channelTickTimeMs *)
(* to channelStartMs; whichever of BeginCast, the server's packets and the   *)
(* resets wrote the two fields, it must advance, or the scene never ends.    *)
LoopEnds == data.age # NoAge => data.tick > 0

(* main.cpp:501-533, spellchannel.cpp:77-138: the fields of a channel keep   *)
(* their ranges, and the loop ends.                                          *)
ChannelInv == TypeOK /\ LoopEnds

(* A request to stop at the next tick does not outlive the channel it was    *)
(* made in, although BeginCast and SMSG_CHANNEL_START leave                  *)
(* cancelChannelNextTick as it is (spellcast.cpp:176, spellchannel.cpp:77).  *)
StopIsForThisChannel == data.cancel => stopFor >= known

(* README.md:337-338, with queueing on and no interruption outside the       *)
(* window: a channel the client knows to run is not cut short by more than   *)
(* the latency reduction by a cast, unless the player asked for it or a cast *)
(* already under way ends it.                                                *)
CutsShort ==
  /\ casts' # casts /\ sent = <<>>
  /\ \E i \in 1..Len(sent') : sent'[i].spell \notin OnHit
  /\ known # 0 /\ server.cast = known /\ server.left > Reduction
  /\ stopFor < known
NeverCutShort == [][~CutsShort]_vars

(* The same as long as no failure, of any spell, was reported meanwhile and  *)
(* no on-hit spell was sent.                                                 *)
NotCutShort == [][CutsShort => lost]_vars

(* A spell queued in a channel is cast or dropped in the end, even if the    *)
(* server falls silent.                                                      *)
Released == <>[](data.normal = NoSpell /\ data.nonGcd = <<>>)
==============================================================================

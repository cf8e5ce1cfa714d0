------------------------------ MODULE CastTimes ------------------------------
(* The end of the running cast as the client keeps it (gCastData.castEndMs) *)
(* and as the server does.  BeginCast computes it from the client's cast    *)
(* time; SPELL_START tells the server's cast time and SPELL_DELAYED every   *)
(* push-back (spellevents.cpp).  A cast takes Latency to reach the server   *)
(* and so does a packet on its way back.                                    *)
EXTENDS Integers, Sequences

CONSTANTS
  CastSpells, \* spell |-> [cast, gcd, aimed, autoRepeat]: the client's times
  Takes,      \* spell |-> the cast times the server may use
  Pushbacks,  \* the delays of SPELL_DELAYED
  Rounding,   \* the 5 ms of a rounding error
  GcdCap,     \* 1500
  NearGcd,    \* 50: a cast this much shorter than the GCD still has a buffer
  BufferMs,   \* gBufferTimeMs
  Latency,
  Capacity,   \* of gCastHistory
  MaxAttempts, LastMoment

ASSUME CastConstants ==
  /\ \A spell \in DOMAIN CastSpells :
       CastSpells[spell] \in [cast : Nat, gcd : Nat, aimed : BOOLEAN, autoRepeat : BOOLEAN]
  /\ DOMAIN Takes = DOMAIN CastSpells /\ \A spell \in DOMAIN Takes : Takes[spell] \subseteq Nat
  /\ Pushbacks \subseteq Nat /\ Capacity \in Nat \ {0}
  /\ \A n \in {Rounding, GcdCap, NearGcd, BufferMs, Latency, MaxAttempts, LastMoment} : n \in Nat
  /\ LastMoment > 0

VARIABLES
  castNow,
  castEndMs, gcdEndMs,
  castHistory, \* gCastHistory, newest first: [id, spell, castTimeMs, castStartTimeMs]
  attempts,   \* gNextCastId
  aiming,     \* external: the aimed attempt whose target the player still chooses; 0: none
  toServer,   \* external: the casts on their way, [id, spell, due]
  serverCast, \* external: what the server casts, [id, spell, ends]
  toClient,   \* external: the packets on their way, [kind, id, spell, time, due], and as a
              \* history when the server's cast then ends
  overdue     \* a push-back of the server's cast came after its end had passed in the client

castTimeVars == <<castNow, castEndMs, gcdEndMs, castHistory, attempts, aiming, toServer, serverCast, toClient, overdue>>
castClientVars == <<castEndMs, gcdEndMs, castHistory, attempts, aiming>>
network == <<toServer, serverCast, toClient>>

Idle == [id |-> 0, spell |-> "none", ends |-> 0]
Least(a, b) == IF a < b THEN a ELSE b
Positive(n) == IF n > 0 THEN n ELSE 0

TimesInit ==
  /\ castNow = 1 /\ castEndMs = 0 /\ gcdEndMs = 0
  /\ castHistory = <<>> /\ attempts = 0 /\ aiming = 0
  /\ toServer = <<>> /\ serverCast = Idle /\ toClient = <<>> /\ overdue = FALSE
------------------------------------------------------------------------------
(* GetGcdOrCooldownForSpell and its cap.                                    *)
GcdTime(spell) == Least(CastSpells[spell].gcd, GcdCap)

(* A cast shorter than the GCD takes from the buffer what the GCD leaves.   *)
BufferFor(spell) ==
  LET difference == GcdTime(spell) - CastSpells[spell].cast IN
  IF difference > NearGcd THEN 0 ELSE Positive(BufferMs - Positive(difference))

(* BeginCast.                                                               *)
SendCast(id, spell, runningGcd) ==
  /\ castEndMs' = IF CastSpells[spell].cast = 0 THEN 0 ELSE castNow + CastSpells[spell].cast + BufferFor(spell)
  /\ gcdEndMs' = IF CastSpells[spell].gcd = 0 THEN runningGcd ELSE castNow + GcdTime(spell) + BufferFor(spell)
  /\ toServer' = Append(toServer, [id |-> id, spell |-> spell, due |-> castNow + Latency])

(* Spell_C_CastSpellHook: refused while the client casts or on the GCD; the *)
(* ends that are past, and a GCD the spell is not on, are forgotten.        *)
MayAttempt(spell) ==
  /\ attempts < MaxAttempts
  /\ castEndMs <= castNow
  /\ CastSpells[spell].gcd > 0 => gcdEndMs <= castNow

HistoryWith(spell) ==
  LET entry == [id |-> attempts + 1, spell |-> spell, castTimeMs |-> CastSpells[spell].cast, castStartTimeMs |-> castNow]
  IN  SubSeq(<<entry>> \o castHistory, 1, Least(Len(castHistory) + 1, Capacity))

(* The client sends the cast at once; of an aimed spell it asks the target. *)
Sent(spell) ==
  /\ MayAttempt(spell) /\ ~CastSpells[spell].aimed
  /\ attempts' = attempts + 1 /\ castHistory' = HistoryWith(spell) /\ aiming' = 0
  /\ SendCast(attempts + 1, spell, 0)
  /\ UNCHANGED <<castNow, serverCast, toClient, overdue>>

NotSent(spell) ==
  /\ MayAttempt(spell)
  /\ attempts' = attempts + 1 /\ castHistory' = HistoryWith(spell)
  /\ aiming' = IF CastSpells[spell].aimed THEN attempts + 1 ELSE 0
  /\ castEndMs' = 0 /\ gcdEndMs' = 0
  /\ UNCHANGED <<castNow, network, overdue>>

(* Spell_C_HandleTerrainClickHook: the entry keeps the time of the press.   *)
Click(spell) ==
  /\ aiming # 0 /\ CastSpells[spell].aimed
  /\ \E i \in DOMAIN castHistory : castHistory[i].id = aiming /\ castHistory[i].spell = spell
  /\ aiming' = 0
  /\ SendCast(aiming, spell, gcdEndMs)
  /\ UNCHANGED <<castNow, castHistory, attempts, serverCast, toClient, overdue>>
------------------------------------------------------------------------------
ServerPacket(kind, cast, time, ends) ==
  [kind |-> kind, id |-> cast.id, spell |-> cast.spell, time |-> time, due |-> castNow + Latency, ends |-> ends]
ServerCasting == serverCast # Idle /\ castNow < serverCast.ends

(* The server: a cast while another one runs is refused.                    *)
ServerReceives(time) ==
  /\ toServer # <<>> /\ Head(toServer).due = castNow
  /\ time \in Takes[Head(toServer).spell]
  /\ toServer' = Tail(toServer)
  /\ LET cast == Head(toServer) IN
     IF ServerCasting THEN UNCHANGED <<serverCast, toClient, overdue>>
     ELSE /\ serverCast' = IF CastSpells[cast.spell].autoRepeat THEN Idle
                           ELSE [id |-> cast.id, spell |-> cast.spell, ends |-> castNow + time]
          /\ toClient' = Append(toClient, ServerPacket("start", cast, time, castNow + time))
          /\ overdue' = FALSE
  /\ UNCHANGED <<castNow, castClientVars>>

ServerDelays(time) ==
  /\ ServerCasting
  /\ serverCast.ends + time <= LastMoment
  /\ serverCast' = [serverCast EXCEPT !.ends = @ + time]
  /\ toClient' = Append(toClient, ServerPacket("delayed", serverCast, time, serverCast.ends + time))
  /\ UNCHANGED <<castNow, castClientVars, toServer, overdue>>
------------------------------------------------------------------------------
(* findSpellId: the newest entry of the spell; 0: there is none.            *)
Newest(spell) ==
  LET entries == {i \in DOMAIN castHistory : castHistory[i].spell = spell} IN
  IF entries = {} THEN 0 ELSE CHOOSE i \in entries : \A j \in entries : i <= j

(* What SPELL_START makes of that entry: its cast time, and the cast's end. *)
Corrected(entry, time) ==
  LET gcd     == GcdTime(entry.spell)
      longer  == time - entry.castTimeMs > Rounding
      shorter == entry.castTimeMs - time > Rounding
  IN  IF CastSpells[entry.spell].autoRepeat \/ ~(longer \/ shorter)
      THEN [castTimeMs |-> entry.castTimeMs, end |-> castEndMs]
      ELSE IF shorter /\ gcd > time
      THEN [castTimeMs |-> gcd, end |-> entry.castStartTimeMs + gcd]
      ELSE [castTimeMs |-> time, end |-> entry.castStartTimeMs + time + BufferMs]

StartDecreasesOnly(packet) ==               \* mutant: a longer cast time is not taken over
  LET n == Newest(packet.spell) IN
  IF n = 0 \/ packet.time > castHistory[n].castTimeMs THEN UNCHANGED <<castHistory, castEndMs>>
  ELSE /\ castEndMs' = Corrected(castHistory[n], packet.time).end
       /\ castHistory' = [castHistory EXCEPT ![n].castTimeMs = Corrected(castHistory[n], packet.time).castTimeMs]

(* SpellStartHandlerHook, of the active player.  That it sets the retries   *)
(* of the attempt to zero, and hides the visual spell from the client's     *)
(* handler while that runs, does not bear on the times.                     *)
SpellStartHandler(packet) ==
  LET n == Newest(packet.spell) IN
  IF n = 0 THEN UNCHANGED <<castHistory, castEndMs>>
  ELSE /\ castEndMs' = Corrected(castHistory[n], packet.time).end
       /\ castHistory' = [castHistory EXCEPT ![n].castTimeMs = Corrected(castHistory[n], packet.time).castTimeMs]

(* SpellDelayedHook: only a cast that still runs is put off.                *)
SpellDelayed(packet) ==
  /\ castEndMs' = IF castNow < castEndMs THEN castEndMs + packet.time ELSE castEndMs
  /\ UNCHANGED castHistory

Receives ==
  /\ toClient # <<>> /\ Head(toClient).due = castNow
  /\ toClient' = Tail(toClient)
  /\ LET packet == Head(toClient) IN
     IF packet.kind = "start" THEN SpellStartHandler(packet) /\ UNCHANGED overdue
     ELSE /\ SpellDelayed(packet)
          /\ overdue' = (overdue \/ (castNow >= castEndMs /\ packet.id = serverCast.id))
  /\ UNCHANGED <<castNow, gcdEndMs, attempts, aiming, toServer, serverCast>>

CastTick ==
  /\ castNow < LastMoment
  /\ \A i \in DOMAIN toServer : toServer[i].due > castNow
  /\ \A i \in DOMAIN toClient : toClient[i].due > castNow
  /\ castNow' = castNow + 1
  /\ serverCast' = IF castNow + 1 < serverCast.ends THEN serverCast ELSE Idle
  /\ UNCHANGED <<castClientVars, toServer, toClient, overdue>>

TimesNext ==
  \/ \E spell \in DOMAIN CastSpells : Sent(spell) \/ NotSent(spell) \/ Click(spell)
  \/ \E spell \in DOMAIN Takes : \E time \in Takes[spell] : ServerReceives(time)
  \/ \E time \in Pushbacks : ServerDelays(time)
  \/ Receives
  \/ CastTick

TimesSpec == TimesInit /\ [][TimesNext]_castTimeVars
------------------------------------------------------------------------------
CastTimeTypeOK ==
  /\ castNow \in 1..LastMoment /\ castEndMs \in Nat /\ gcdEndMs \in Nat
  /\ Len(castHistory) <= Capacity /\ attempts \in 0..MaxAttempts /\ aiming \in 0..attempts
  /\ serverCast.id \in 0..attempts /\ overdue \in BOOLEAN

(* The client cannot know of the end of the server's cast: a packet about   *)
(* it is on its way or came too late.                                       *)
Unheard == overdue \/ \E i \in DOMAIN toClient : toClient[i].id = serverCast.id

(* A cast the client lets through reaches the server after the running one  *)
(* has ended there, however much longer or shorter the server made that one *)
(* and however often it was pushed back, as soon as the client has heard of *)
(* it in time (spellevents.cpp:1190-1226, 552-554).  It does not hold of an *)
(* aimed spell: its cast is dated from the press and not from the click, so *)
(* that a corrected end is too early.                                       *)
SendsWhenFree ==
  \A spell \in DOMAIN CastSpells : (Sent(spell) /\ serverCast # Idle) =>
    \/ serverCast.ends <= castNow + Latency
    \/ Unheard \/ CastSpells[serverCast.spell].aimed
NotTooSoon == [][SendsWhenFree]_castTimeVars
==============================================================================

----------------------------- MODULE BufferTime -----------------------------
(* The delay added to a cast so that the server, whose clock ticks every    *)
(* 50 ms, does not reject the next one: the default buffer that adapts to   *)
(* rejections, and the measured server delay that may replace it            *)
(* (main.cpp GetServerDelayMs, spellcast.cpp BeginCast, spellevents.cpp     *)
(* CastResultHandlerHook and Spell_C_SpellFailedHook).                      *)
EXTENDS Integers

CONSTANTS
  Increment,            \* DYNAMIC_BUFFER_INCREMENT
  IncreaseFrequency, DecreaseFrequency,  \* least time between two adjustments
  Minimums, Increases,  \* values of NP_MinBufferTimeMs and NP_MaxBufferIncreaseMs
  Gcd, ServerTick,      \* the global cooldown, and the 50 ms of the code
  CastTimes,            \* cast times of the spells
  Delays,               \* measured server delays
  Reasonable,           \* the 200 ms above which a measured delay is not used
  Width                 \* 2^32 of the code

(* Times are in whole milliseconds and far below the width.                 *)
ASSUME BufferConstants ==
  /\ Increment \in Nat \ {0} /\ Gcd \in Nat /\ ServerTick \in Nat /\ Width \in Nat
  /\ Minimums \subseteq Nat /\ Increases \subseteq Nat
  /\ CastTimes \subseteq Nat /\ Delays \subseteq Nat \ {0}
  /\ \E most \in Increases :
       /\ \A m \in Increases : m <= most
       /\ \A m \in Minimums : m + most + Increment <= Width

VARIABLES
  minBuffer, maxIncrease,  \* gUserSettings.minBufferTimeMs, .maxBufferIncreaseMs
  optimize,                \* .optimizeBufferUsingPacketTimings
  bufferTime,              \* gBufferTimeMs
  sinceIncrease, sinceDecrease,  \* time since gLastBufferIncreaseTimeMs, ..DecreaseTimeMs
  serverDelay,             \* gLastServerSpellDelayMs, 0 when there is none
  usedDelay,               \* lastCastUsedServerDelay
  lastCast,                \* the last cast's length, buffer and ends, from its start
  measuredAgo,             \* history: casts begun since serverDelay was measured
  inARow                   \* history: casts in a row that used a measured delay

bufferVars == <<minBuffer, maxIncrease, optimize, bufferTime, sinceIncrease, sinceDecrease,
          serverDelay, usedDelay, lastCast, measuredAgo, inARow>>

Larger(a, b) == IF a > b THEN a ELSE b
Smaller(a, b) == IF a < b THEN a ELSE b
Minus(a, b) == (a - b) % Width

BufferInit ==
  /\ minBuffer \in Minimums /\ maxIncrease \in Increases
  /\ optimize = FALSE
  /\ bufferTime = minBuffer
  /\ sinceIncrease = IncreaseFrequency + 1 /\ sinceDecrease = DecreaseFrequency + 1
  /\ serverDelay = 0 /\ usedDelay = FALSE
  /\ lastCast = [length |-> 0, buffer |-> 0, castEnd |-> 0, gcdEnd |-> 0, ago |-> 0]
  /\ measuredAgo = 0 /\ inARow = 0

----------------------------------------------------------------------------
(* GetServerDelayMs: a measured delay is used if it is reasonable and the   *)
(* cast before did not use one.                                             *)
UsesDelay == optimize /\ ~usedDelay /\ serverDelay \in 1..(Reasonable - 1)
Buffer == IF UsesDelay THEN serverDelay ELSE bufferTime

AppliedAfterGcd(length, buffer) ==   (* mutant: no buffer at all within the cooldown *)
  IF length < Gcd THEN 0 ELSE buffer

(* BeginCast takes off the buffer what a cast shorter than the global       *)
(* cooldown already waits.                                                  *)
Applied(length, buffer) ==
  CASE length < Gcd - ServerTick -> 0
    [] length \in (Gcd - ServerTick)..(Gcd - 1) -> Larger(buffer - (Gcd - length), 0)
    [] OTHER -> buffer

(* One decrease every DecreaseFrequency, and never below the minimum; the   *)
(* period starts again even when there is nothing to take off.              *)
DecreaseBuffer ==
  IF sinceDecrease > DecreaseFrequency
  THEN /\ bufferTime' = IF bufferTime > minBuffer THEN Minus(bufferTime, Increment) ELSE bufferTime
       /\ sinceDecrease' = 0
  ELSE UNCHANGED <<bufferTime, sinceDecrease>>

(* A cast on or off the global cooldown; off it the buffer is not reduced.  *)
BeginCast(length, onGcd) ==
  /\ usedDelay' = UsesDelay
  /\ serverDelay' = 0
  /\ LET applied == IF onGcd THEN Applied(length, Buffer) ELSE Buffer IN
     lastCast' = [length  |-> length,
                  buffer  |-> Buffer,
                  castEnd |-> IF length = 0 THEN 0 ELSE length + applied,
                  gcdEnd  |-> IF onGcd THEN Gcd + applied ELSE 0,
                  ago     |-> IF UsesDelay THEN measuredAgo ELSE 0]
  /\ DecreaseBuffer
  /\ measuredAgo' = Smaller(measuredAgo + 1, 2)
  /\ inARow' = IF UsesDelay THEN Smaller(inARow + 1, 2) ELSE 0
  /\ UNCHANGED <<minBuffer, maxIncrease, optimize, sinceIncrease>>

(* CastResultHandlerHook measures the server's delay from a success it can  *)
(* attribute; any other result forgets the last measurement.                *)
CastResult(measured) ==
  /\ serverDelay' = measured
  /\ measuredAgo' = IF measured > 0 THEN 0 ELSE measuredAgo
  /\ UNCHANGED <<minBuffer, maxIncrease, optimize, bufferTime, sinceIncrease, sinceDecrease,
                 usedDelay, lastCast, inARow>>

(* The end of Spell_C_SpellFailedHook's retry branch: a rejection raises    *)
(* the buffer, once every IncreaseFrequency, up to the limit.               *)
Rejected ==
  /\ IF sinceIncrease > IncreaseFrequency /\ Minus(bufferTime, minBuffer) < maxIncrease
     THEN bufferTime' = bufferTime + Increment /\ sinceIncrease' = 0
     ELSE UNCHANGED <<bufferTime, sinceIncrease>>
  /\ UNCHANGED <<minBuffer, maxIncrease, optimize, sinceDecrease, serverDelay, usedDelay, lastCast,
                 measuredAgo, inARow>>

SetMinimumOnly(m) ==          (* mutant: the current buffer is kept *)
  /\ minBuffer' = m
  /\ UNCHANGED <<maxIncrease, optimize, bufferTime, sinceIncrease, sinceDecrease, serverDelay, usedDelay,
                 lastCast, measuredAgo, inARow>>

(* updateFromCvar: a new minimum is also the new buffer.                    *)
SetMinimum(m) ==
  /\ minBuffer' = m /\ bufferTime' = m
  /\ UNCHANGED <<maxIncrease, optimize, sinceIncrease, sinceDecrease, serverDelay, usedDelay, lastCast,
                 measuredAgo, inARow>>

SetIncrease(m) ==
  /\ maxIncrease' = m
  /\ UNCHANGED <<minBuffer, optimize, bufferTime, sinceIncrease, sinceDecrease, serverDelay, usedDelay,
                 lastCast, measuredAgo, inARow>>

SetOptimize ==
  /\ optimize' = ~optimize
  /\ UNCHANGED <<minBuffer, maxIncrease, bufferTime, sinceIncrease, sinceDecrease, serverDelay, usedDelay,
                 lastCast, measuredAgo, inARow>>

(* Time passes; the ages saturate just above their thresholds.              *)
Tick ==
  /\ sinceIncrease <= IncreaseFrequency \/ sinceDecrease <= DecreaseFrequency
  /\ sinceIncrease' = Smaller(sinceIncrease + 1, IncreaseFrequency + 1)
  /\ sinceDecrease' = Smaller(sinceDecrease + 1, DecreaseFrequency + 1)
  /\ UNCHANGED <<minBuffer, maxIncrease, optimize, bufferTime, serverDelay, usedDelay, lastCast,
                 measuredAgo, inARow>>

BufferNext ==
  \/ \E c \in CastTimes, onGcd \in BOOLEAN : BeginCast(c, onGcd)
  \/ \E d \in {0} \cup Delays : CastResult(d)
  \/ Rejected \/ Tick \/ SetOptimize
  \/ \E m \in Minimums : SetMinimum(m)
  \/ \E m \in Increases : SetIncrease(m)

BufferSpec == BufferInit /\ [][BufferNext]_bufferVars
----------------------------------------------------------------------------
MaxOf(S) == CHOOSE x \in S : \A y \in S : y <= x

BufferTypeOK ==
  /\ bufferTime \in Nat
  /\ serverDelay \in {0} \cup Delays /\ usedDelay \in BOOLEAN

(* The default buffer is the minimum and some whole increments, less than   *)
(* one more than the largest increase allowed, through every order of       *)
(* rejections, quiet periods and changes of the settings                    *)
(* (src/README.md:79-81).  Were it not a whole number of increments, a      *)
(* decrease would pass the minimum, the unsigned difference would wrap and  *)
(* no rejection would raise the buffer again (spellevents.cpp:456).         *)
BufferInRange ==
  /\ bufferTime \in minBuffer..(minBuffer + MaxOf(Increases) + Increment - 1)
  /\ (bufferTime - minBuffer) % Increment = 0

(* A measured server delay serves one cast only, the first one begun after  *)
(* the measurement, and the cast that follows uses the default buffer       *)
(* (src/README.md:358-359, main.cpp:305-318): a delay measured for an       *)
(* earlier cast is never used.                                              *)
DelayUsedOnce == inARow <= 1 /\ lastCast.ago = 0

(* The later of the end of a cast on the global cooldown and the end of its *)
(* cooldown lets the next cast start.  It leaves the server the whole       *)
(* buffer after a cast that fills the cooldown but for a server tick, and   *)
(* is never before the cooldown's end (spellcast.cpp:206-253,               *)
(* src/README.md:310).                                                      *)
NextNotTooSoon ==
  lastCast.gcdEnd > 0 =>
    LET next == Larger(lastCast.castEnd, lastCast.gcdEnd) IN
    /\ next >= Gcd
    /\ lastCast.length >= Gcd - ServerTick => next >= lastCast.length + lastCast.buffer

(* main.cpp:305-318, spellcast.cpp:206-253: what is added to a cast is long  *)
(* enough, and not a delay that was measured for another.                   *)
NextCastTimed == DelayUsedOnce /\ NextNotTooSoon
=============================================================================

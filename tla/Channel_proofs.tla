---------------------------- MODULE Channel_proofs ----------------------------
(***************************************************************************)
(* The fields of a channel and the request to stop it, for every set of      *)
(* spells, every duration and any number of casts and packets on their way.  *)
(***************************************************************************)
EXTENDS Channel, SequenceTheorems, TLAPS

(* A packet that ends the channel in the client, whatever it was sent for.   *)
Resets(p) == p.kind = "failure" \/ (p.kind = "update" /\ p.left <= 0)
ResetIn(ps) == \E j \in 1..Len(ps) : Resets(ps[j])

(* A start on its way is followed by the end of its channel, or runs on.     *)
Followed(ps, runs) ==
  \A i \in 1..Len(ps) :
    ps[i].kind = "start" => runs # 0 \/ \E j \in (i + 1)..Len(ps) : Resets(ps[j])

(* The client hears the end of one channel before it hears of a later one.   *)
Preceded(ps, n) ==
  \A i \in 1..Len(ps) :
    ps[i].kind = "start" /\ ps[i].cast > n => \E j \in 1..(i - 1) : Resets(ps[j])

ChannelIn(q)  == \E i \in 1..Len(q) : q[i].spell \in Channels
OlderIn(q, n) == \E i \in 1..Len(q) : q[i].spell \in Channels /\ q[i].cast <= n

StartsUpTo(ps, n) ==
  \A i \in 1..Len(ps) : ps[i].kind = "start" => ps[i].cast <= n

ServerRuns == server.cast # 0 => server.left > 0
Numbered   == \A i \in 1..Len(sent) : sent[i].cast = casts - Len(sent) + i
Known ==
  /\ known <= begun
  /\ \A i \in 1..Len(sent) : sent[i].spell \in Channels => sent[i].cast <= begun
  /\ StartsUpTo(packets, begun)

(* A channel the client believes in is still to be ended, or answered.       *)
WillEnd  == data.channeling => ResetIn(packets) \/ server.cast # 0 \/ ChannelIn(sent)
(* So is a request to stop, by the channel it was made in at the latest.     *)
StopEnds == data.cancel =>
  /\ ResetIn(packets) \/ server.cast # 0 \/ OlderIn(sent, stopFor)
  /\ Preceded(packets, stopFor)

IInv ==
  /\ ChannelInv /\ ServerRuns /\ Numbered /\ Known
  /\ Followed(packets, server.cast) /\ WillEnd /\ StopEnds /\ StopIsForThisChannel

(* What was answered is older than what is on its way.                       *)
StartsBy(ps, n) == \A i \in 1..Len(ps) :
  ps[i].kind = "start" => ps[i].cast <= n /\ ps[i].left = Duration
Answered ==
  /\ known <= casts - Len(sent) /\ server.cast <= casts - Len(sent)
  /\ StartsBy(packets, casts - Len(sent))

(* No update the client has yet to hear of the channel that runs gives it    *)
(* less than the server still does.                                          *)
NotLess(ps, n) == \A j \in 1..Len(ps) : ps[j].kind = "update" => ps[j].left >= n
ThenNotLess(ps, c, n) == \A i \in 1..Len(ps) :
  ps[i].kind = "start" /\ ps[i].cast = c =>
    \A j \in (i + 1)..Len(ps) : ps[j].kind = "update" => ps[j].left >= n
Shortened == server.cast # 0 =>
  /\ known = server.cast => NotLess(packets, server.left)
  /\ ThenNotLess(packets, server.cast, server.left)

(* The client knows of the channel it should not cut short.                  *)
Sync ==
  ~lost /\ known # 0 /\ server.cast = known /\ stopFor < known /\ server.left > Reduction
    => data.channeling /\ data.left >= server.left
CutInv == IInv /\ Answered /\ Shortened /\ Sync
------------------------------------------------------------------------------
(* What happens to the packets on their way: one more at the end, ...        *)
LEMMA AddReset ==
  ASSUME NEW ps \in Seq(Packets), NEW p \in Packets, Resets(p), NEW qs, qs = Append(ps, p)
  PROVE  /\ qs \in Seq(Packets) /\ ResetIn(qs)
         /\ \A m, r : Followed(ps, m) => Followed(qs, r)
         /\ \A n \in Nat : Preceded(ps, n) => Preceded(qs, n)
         /\ \A n \in Nat : StartsUpTo(ps, n) => StartsUpTo(qs, n)
<1>1. /\ qs \in Seq(Packets) /\ Len(qs) = Len(ps) + 1 /\ Len(ps) \in Nat
      /\ qs[Len(ps) + 1] = p /\ \A i \in 1..Len(ps) : qs[i] = ps[i]
  OBVIOUS
<1>2. p.kind # "start"
  BY DEF Resets
<1>3. Len(ps) + 1 \in 1..Len(qs) /\ ResetIn(qs)
  BY <1>1 DEF ResetIn
<1>4. ASSUME NEW i \in 1..Len(qs), qs[i].kind = "start"
      PROVE  i \in 1..Len(ps) /\ qs[i] = ps[i]
  BY <1>1, <1>2, <1>4
<1>5. ASSUME NEW r PROVE Followed(qs, r)
  <2> SUFFICES ASSUME NEW i \in 1..Len(qs), qs[i].kind = "start"
               PROVE  \E j \in (i + 1)..Len(qs) : Resets(qs[j])
    BY DEF Followed
  <2>1. i \in 1..Len(ps)
    BY <1>4
  <2>2. Len(ps) + 1 \in (i + 1)..Len(qs) /\ Resets(qs[Len(ps) + 1])
    BY <1>1, <2>1
  <2> QED
    BY <2>2
<1>6. ASSUME NEW n \in Nat, Preceded(ps, n) PROVE Preceded(qs, n)
  <2> SUFFICES ASSUME NEW i \in 1..Len(qs), qs[i].kind = "start", qs[i].cast > n
               PROVE  \E j \in 1..(i - 1) : Resets(qs[j])
    BY DEF Preceded
  <2>1. i \in 1..Len(ps) /\ qs[i] = ps[i]
    BY <1>4
  <2>2. PICK j \in 1..(i - 1) : Resets(ps[j])
    BY <1>6, <2>1 DEF Preceded
  <2>3. j \in 1..Len(ps) /\ qs[j] = ps[j]
    BY <1>1, <2>1
  <2> QED
    BY <2>2, <2>3
<1>7. ASSUME NEW n \in Nat, StartsUpTo(ps, n)
      PROVE  StartsUpTo(qs, n)
  BY <1>4, <1>7 DEF StartsUpTo
<1> QED
  BY <1>1, <1>3, <1>5, <1>6, <1>7

LEMMA AddShorter ==
  ASSUME NEW ps \in Seq(Packets), NEW p \in Packets, p.kind = "update",
         NEW qs, qs = Append(ps, p)
  PROVE  /\ qs \in Seq(Packets)
         /\ ResetIn(ps) => ResetIn(qs)
         /\ \A r : Followed(ps, r) => Followed(qs, r)
         /\ \A n \in Nat : Preceded(ps, n) => Preceded(qs, n)
         /\ \A n \in Nat : StartsUpTo(ps, n) => StartsUpTo(qs, n)
<1>1. /\ qs \in Seq(Packets) /\ Len(qs) = Len(ps) + 1 /\ Len(ps) \in Nat
      /\ qs[Len(ps) + 1] = p /\ \A i \in 1..Len(ps) : qs[i] = ps[i]
  OBVIOUS
<1>3. ASSUME NEW j \in 1..Len(ps), Resets(ps[j]) PROVE j \in 1..Len(qs) /\ Resets(qs[j])
  BY <1>1, <1>3
<1>4. ASSUME NEW i \in 1..Len(qs), qs[i].kind = "start"
      PROVE  i \in 1..Len(ps) /\ qs[i] = ps[i]
  BY <1>1, <1>4
<1>5. ASSUME NEW r, Followed(ps, r) PROVE Followed(qs, r)
  <2> SUFFICES ASSUME NEW i \in 1..Len(qs), qs[i].kind = "start", r = 0
               PROVE  \E j \in (i + 1)..Len(qs) : Resets(qs[j])
    BY DEF Followed
  <2>1. i \in 1..Len(ps) /\ qs[i] = ps[i]
    BY <1>4
  <2>2. PICK j \in (i + 1)..Len(ps) : Resets(ps[j])
    BY <1>5, <2>1 DEF Followed
  <2>3. j \in (i + 1)..Len(qs) /\ qs[j] = ps[j]
    BY <1>1, <2>1
  <2> QED
    BY <2>2, <2>3
<1>6. ASSUME NEW n \in Nat, Preceded(ps, n) PROVE Preceded(qs, n)
  <2> SUFFICES ASSUME NEW i \in 1..Len(qs), qs[i].kind = "start", qs[i].cast > n
               PROVE  \E j \in 1..(i - 1) : Resets(qs[j])
    BY DEF Preceded
  <2>1. i \in 1..Len(ps) /\ qs[i] = ps[i]
    BY <1>4
  <2>2. PICK j \in 1..(i - 1) : Resets(ps[j])
    BY <1>6, <2>1 DEF Preceded
  <2>3. j \in 1..Len(ps) /\ qs[j] = ps[j]
    BY <1>1, <2>1
  <2> QED
    BY <2>2, <2>3
<1>7. ASSUME NEW n \in Nat, StartsUpTo(ps, n)
      PROVE  StartsUpTo(qs, n)
  BY <1>4, <1>7 DEF StartsUpTo
<1>8. ResetIn(ps) => ResetIn(qs)
  BY <1>3 DEF ResetIn
<1> QED
  BY <1>1, <1>5, <1>6, <1>7, <1>8

LEMMA AddStart ==
  ASSUME NEW ps \in Seq(Packets), NEW p \in Packets, p.kind = "start",
         NEW qs, qs = Append(ps, p)
  PROVE  /\ qs \in Seq(Packets)
         /\ ResetIn(ps) => ResetIn(qs)
         /\ \A r : r # 0 => Followed(qs, r)
         /\ \A n \in Nat : Preceded(ps, n) /\ (ResetIn(ps) \/ p.cast <= n) => Preceded(qs, n)
         /\ \A n \in Nat : p.cast <= n /\ StartsUpTo(ps, n) => StartsUpTo(qs, n)
<1>1. /\ qs \in Seq(Packets) /\ Len(qs) = Len(ps) + 1 /\ Len(ps) \in Nat
      /\ qs[Len(ps) + 1] = p /\ \A i \in 1..Len(ps) : qs[i] = ps[i]
  OBVIOUS
<1>3. ASSUME NEW j \in 1..Len(ps), Resets(ps[j]) PROVE j \in 1..Len(qs) /\ Resets(qs[j])
  BY <1>1, <1>3
<1>4. ASSUME NEW i \in 1..Len(qs), i # Len(ps) + 1
      PROVE  i \in 1..Len(ps) /\ qs[i] = ps[i]
  BY <1>1, <1>4
<1>5. \A r : r # 0 => Followed(qs, r)
  BY DEF Followed
<1>6. ASSUME NEW n \in Nat, Preceded(ps, n), ResetIn(ps) \/ p.cast <= n PROVE Preceded(qs, n)
  <2> SUFFICES ASSUME NEW i \in 1..Len(qs), qs[i].kind = "start", qs[i].cast > n,
                      ~(p.cast <= n) => ResetIn(ps)
               PROVE  \E j \in 1..(i - 1) : Resets(qs[j])
    BY <1>6 DEF Preceded
  <2>1. CASE i = Len(ps) + 1 /\ ResetIn(ps)
    <3>1. PICK j \in 1..Len(ps) : Resets(ps[j])
      BY <2>1 DEF ResetIn
    <3>2. j \in 1..(i - 1) /\ Resets(qs[j])
      BY <1>1, <2>1, <3>1
    <3> QED
      BY <3>2
  <2>2. CASE i = Len(ps) + 1 /\ p.cast <= n
    <3>1. qs[i] = p /\ p.cast \in Nat
      BY <1>1, <2>2 DEF Packets
    <3> QED
      BY <2>2, <3>1
  <2>3. CASE i # Len(ps) + 1
    <3>1. i \in 1..Len(ps) /\ qs[i] = ps[i]
      BY <1>4, <2>3
    <3>2. PICK j \in 1..(i - 1) : Resets(ps[j])
      BY <1>6, <3>1 DEF Preceded
    <3>3. j \in 1..Len(ps) /\ qs[j] = ps[j]
      BY <1>1, <3>1
    <3> QED
      BY <3>2, <3>3
  <2> QED
    BY <1>6, <2>1, <2>2, <2>3
<1>7. ASSUME NEW n \in Nat, p.cast <= n,
             StartsUpTo(ps, n)
      PROVE  StartsUpTo(qs, n)
  BY <1>1, <1>4, <1>7 DEF StartsUpTo
<1>8. ResetIn(ps) => ResetIn(qs)
  BY <1>3 DEF ResetIn
<1> QED
  BY <1>1, <1>5, <1>6, <1>7, <1>8

(* ... and the first one taken off.                                          *)
LEMMA DropFirst ==
  ASSUME NEW ps \in Seq(Packets), ps # <<>>, NEW qs, qs = Tail(ps), NEW p, p = Head(ps)
  PROVE  /\ qs \in Seq(Packets) /\ p \in Packets
         /\ ~Resets(p) /\ ResetIn(ps) => ResetIn(qs)
         /\ \A r : Followed(ps, r) => Followed(qs, r)
         /\ \A r : p.kind = "start" /\ Followed(ps, r) => r # 0 \/ ResetIn(qs)
         /\ \A n \in Nat : p.kind = "start" /\ Preceded(ps, n) => p.cast <= n
         /\ \A n \in Nat : ~Resets(p) /\ Preceded(ps, n) => Preceded(qs, n)
         /\ \A n \in Nat : StartsUpTo(ps, n)
              => /\ StartsUpTo(qs, n)
                 /\ p.kind = "start" => p.cast <= n
<1>1. /\ qs \in Seq(Packets) /\ Len(qs) = Len(ps) - 1 /\ Len(qs) \in Nat /\ 1 \in 1..Len(ps)
      /\ p = ps[1] /\ p \in Packets /\ \A i \in 1..Len(qs) : qs[i] = ps[i + 1]
  OBVIOUS
<1>2. ASSUME NEW j \in 2..Len(ps) PROVE j - 1 \in 1..Len(qs) /\ qs[j - 1] = ps[j]
  <2>1. j - 1 \in 1..Len(qs) /\ (j - 1) + 1 = j
    BY <1>1
  <2> QED
    BY <1>1, <2>1
<1>3. ASSUME NEW i \in 1..Len(qs) PROVE i + 1 \in 1..Len(ps) /\ qs[i] = ps[i + 1]
  BY <1>1
<1>4. ASSUME ~Resets(p), ResetIn(ps) PROVE ResetIn(qs)
  <2>1. PICK j \in 1..Len(ps) : Resets(ps[j])
    BY <1>4 DEF ResetIn
  <2>2. j \in 2..Len(ps)
    BY <1>1, <1>4, <2>1
  <2> QED
    BY <1>2, <2>1, <2>2 DEF ResetIn
<1>5. ASSUME NEW r, Followed(ps, r) PROVE Followed(qs, r)
  <2> SUFFICES ASSUME NEW i \in 1..Len(qs), qs[i].kind = "start", r = 0
               PROVE  \E j \in (i + 1)..Len(qs) : Resets(qs[j])
    BY DEF Followed
  <2>1. PICK j \in ((i + 1) + 1)..Len(ps) : Resets(ps[j])
    BY <1>3, <1>5 DEF Followed
  <2>2. j \in 2..Len(ps) /\ j - 1 \in (i + 1)..Len(qs)
    BY <1>1
  <2> QED
    BY <1>2, <2>1, <2>2
<1>6. ASSUME NEW r, p.kind = "start", Followed(ps, r), r = 0 PROVE ResetIn(qs)
  <2>1. PICK j \in (1 + 1)..Len(ps) : Resets(ps[j])
    BY <1>1, <1>6 DEF Followed
  <2>2. j \in 2..Len(ps)
    OBVIOUS
  <2> QED
    BY <1>2, <2>1, <2>2 DEF ResetIn
<1>7. ASSUME NEW n \in Nat, p.kind = "start", Preceded(ps, n) PROVE p.cast <= n
  <2> SUFFICES ASSUME p.cast > n PROVE FALSE
    BY <1>1 DEF Packets
  <2>1. \E j \in 1..(1 - 1) : Resets(ps[j])
    BY <1>1, <1>7 DEF Preceded
  <2> QED
    BY <2>1
<1>8. ASSUME NEW n \in Nat, ~Resets(p), Preceded(ps, n) PROVE Preceded(qs, n)
  <2> SUFFICES ASSUME NEW i \in 1..Len(qs), qs[i].kind = "start", qs[i].cast > n
               PROVE  \E j \in 1..(i - 1) : Resets(qs[j])
    BY DEF Preceded
  <2>1. PICK j \in 1..((i + 1) - 1) : Resets(ps[j])
    BY <1>3, <1>8 DEF Preceded
  <2>2. j \in 2..Len(ps) /\ j - 1 \in 1..(i - 1)
    BY <1>1, <1>8, <2>1
  <2> QED
    BY <1>2, <2>1, <2>2
<1>9. ASSUME NEW n \in Nat, StartsUpTo(ps, n)
      PROVE  /\ StartsUpTo(qs, n)
             /\ p.kind = "start" => p.cast <= n
  BY <1>1, <1>3, <1>9 DEF StartsUpTo
<1> QED
  BY <1>1, <1>4, <1>5, <1>6, <1>7, <1>8, <1>9

(* The casts on their way: some more, ...                                    *)
Sends == [cast : 1..casts, spell : Spells]

LEMMA Sending ==
  ASSUME NEW E, NEW q \in Seq(E), NEW u \in Seq(E), NEW all, all = q \o u
  PROVE  /\ all \in Seq(E) /\ Len(all) = Len(q) + Len(u) /\ Len(q) \in Nat /\ Len(u) \in Nat
         /\ \A i \in 1..Len(q) : i \in 1..Len(all) /\ all[i] = q[i]
         /\ \A i \in 1..Len(u) : Len(q) + i \in 1..Len(all) /\ all[Len(q) + i] = u[i]
         /\ \A i \in 1..Len(all) : i > Len(q) => i - Len(q) \in 1..Len(u) /\ all[i] = u[i - Len(q)]
<1>1. /\ all \in Seq(E) /\ Len(all) = Len(q) + Len(u)
      /\ \A i \in 1..(Len(q) + Len(u)) : all[i] = IF i <= Len(q) THEN q[i] ELSE u[i - Len(q)]
  BY ConcatProperties
<1>2. Len(q) \in Nat /\ Len(u) \in Nat
  OBVIOUS
<1>3. ASSUME NEW i \in 1..Len(q) PROVE i \in 1..Len(all) /\ all[i] = q[i]
  BY <1>1, <1>2
<1>4. ASSUME NEW i \in 1..Len(u)
      PROVE  Len(q) + i \in 1..Len(all) /\ all[Len(q) + i] = u[i]
  <2>1. Len(q) + i \in 1..(Len(q) + Len(u)) /\ ~(Len(q) + i <= Len(q))
        /\ (Len(q) + i) - Len(q) = i
    BY <1>2
  <2> QED
    BY <1>1, <2>1
<1>5. ASSUME NEW i \in 1..Len(all), i > Len(q)
      PROVE  i - Len(q) \in 1..Len(u) /\ all[i] = u[i - Len(q)]
  BY <1>1, <1>2, <1>5
<1> QED
  BY <1>1, <1>2, <1>3, <1>4, <1>5

LEMMA StillIn ==
  ASSUME NEW q, NEW all, Len(q) \in Nat,
         \A i \in 1..Len(q) : i \in 1..Len(all) /\ all[i] = q[i]
  PROVE  /\ ChannelIn(q) => ChannelIn(all)
         /\ \A n : OlderIn(q, n) => OlderIn(all, n)
  BY DEF ChannelIn, OlderIn
------------------------------------------------------------------------------
(* What a hook that casts leaves behind: fields of their types, at most one  *)
(* cast, no new request to stop, and a channel only if there was one or one  *)
(* was sent.                                                                 *)
Data == [channeling : BOOLEAN, cancel : BOOLEAN, left : 0..Duration,
         age : 0..AgeLimit \union {NoAge}, tick : 0..Duration, gcd : 0..Gcd,
         normal : Channels \union {NoSpell}, nonGcd : Seq(Instants),
         processed : BOOLEAN]
Loops(d) == d.age # NoAge => d.tick > 0

NoNews(g, d) ==
  /\ d \in Data
  /\ d.cancel => g.cancel
  /\ d.channeling => g.channeling
  /\ Loops(g) => Loops(d)

Kept(g, o) ==
  /\ o.data \in Data
  /\ o.out = <<>> \/ \E s \in Spells : o.out = <<s>>
  /\ o.data.cancel => g.cancel
  /\ o.data.channeling => g.channeling \/ \E s \in Channels : o.out = <<s>>
  /\ Loops(g) => Loops(o.data)

LEMMA Times ==
  /\ Duration \in Nat /\ Duration > 0 /\ AgeLimit \in Nat /\ AgeLimit > 0
  /\ Gcd \in Nat /\ Buffer \in Nat
  /\ 0 \in 0..Duration /\ Duration \in 0..Duration /\ 0 \in 0..Gcd /\ Gcd \in 0..Gcd
  /\ 0 \in 0..AgeLimit
<1>1. {Duration, AgeLimit} \subseteq Nat \ {0} /\ {Gcd, Buffer} \subseteq Nat
  BY TimeAssumption
<1>2. Duration \in Nat \ {0} /\ AgeLimit \in Nat \ {0} /\ Gcd \in Nat /\ Buffer \in Nat
  BY <1>1
<1> QED
  BY <1>2

LEMMA ResetFlags ==
  ASSUME NEW g \in Data
  PROVE  /\ ResetChannelingFlags(g) \in Data /\ ResetChannelingFlags(g).cancel = FALSE
         /\ ResetChannelingFlags(g).channeling = FALSE /\ Loops(ResetChannelingFlags(g))
         /\ ResetCastFlags(g) \in Data /\ ResetCastFlags(g).cancel = FALSE
         /\ ResetCastFlags(g).channeling = FALSE /\ Loops(ResetCastFlags(g))
<1>1. ResetChannelingFlags(g) \in Data /\ ResetChannelingFlags(g).cancel = FALSE
      /\ ResetChannelingFlags(g).channeling = FALSE /\ ResetChannelingFlags(g).age = NoAge
  BY Times DEF Data, ResetChannelingFlags
<1>2. ResetCastFlags(g) \in Data /\ ResetCastFlags(g).cancel = FALSE
      /\ ResetCastFlags(g).channeling = FALSE /\ ResetCastFlags(g).age = NoAge
  BY <1>1, Times DEF Data, ResetCastFlags
<1> QED
  BY <1>1, <1>2 DEF Loops

LEMMA ResetNews ==
  ASSUME NEW g \in Data
  PROVE  NoNews(g, ResetChannelingFlags(g)) /\ NoNews(g, ResetCastFlags(g))
  BY ResetFlags DEF NoNews

LEMMA StopCheckNews ==
  ASSUME NEW g \in Data
  PROVE  NoNews(g, CheckForStopChanneling(g))
<1>1. CheckForStopChanneling(g) = g \/ CheckForStopChanneling(g) = ResetChannelingFlags(g)
  BY DEF CheckForStopChanneling
<1>2. NoNews(g, g)
  BY DEF NoNews
<1> QED
  BY <1>1, <1>2, ResetNews

LEMMA AttemptedKept ==
  ASSUME NEW g \in Data, NEW s \in Spells, NEW o \in Attempted(g, s)
  PROVE  Kept(g, o)
<1> DEFINE ready == IF s \in OnHit THEN g ELSE [g EXCEPT !.gcd = 0]
<1>1. ready \in Data /\ ready.cancel = g.cancel /\ ready.channeling = g.channeling
      /\ ready.age = g.age /\ ready.tick = g.tick
  BY Times DEF Data
<1>2. o \in {Outcome(BeginCast(ready, s), <<s>>), Outcome(ready, <<>>),
             Outcome(ResetCastFlags(ready), <<>>)}
  BY DEF Attempted
<1> HIDE DEF ready
<1>3. CASE o = Outcome(BeginCast(ready, s), <<s>>)
  <2>1. o.data = BeginCast(ready, s) /\ o.out = <<s>>
    BY <1>3 DEF Outcome
  <2>2. CASE s \in Channels
    <3>1. o.data = [ready EXCEPT !.channeling = TRUE, !.left = Duration, !.gcd = Gcd]
      BY <2>1, <2>2 DEF BeginCast
    <3>2. o.data \in Data /\ o.data.cancel = ready.cancel
          /\ o.data.age = ready.age /\ o.data.tick = ready.tick
      BY <1>1, <3>1, Times DEF Data
    <3> QED
      BY <1>1, <2>1, <2>2, <3>2 DEF Kept, Loops
  <2>3. CASE s \notin Channels
    <3>1. o.data = [ready EXCEPT !.channeling = FALSE]
      BY <2>1, <2>3 DEF BeginCast
    <3>2. o.data \in Data /\ o.data.cancel = ready.cancel /\ o.data.channeling = FALSE
          /\ o.data.age = ready.age /\ o.data.tick = ready.tick
      BY <1>1, <3>1 DEF Data
    <3> QED
      BY <1>1, <2>1, <3>2 DEF Kept, Loops
  <2> QED
    BY <2>2, <2>3
<1>4. CASE o = Outcome(ready, <<>>)
  <2>1. o.data = ready /\ o.out = <<>>
    BY <1>4 DEF Outcome
  <2> QED
    BY <1>1, <2>1 DEF Kept, Loops
<1>5. CASE o = Outcome(ResetCastFlags(ready), <<>>)
  <2>1. o.data = ResetCastFlags(ready) /\ o.out = <<>>
    BY <1>5 DEF Outcome
  <2>2. NoNews(ready, o.data)
    BY <1>1, <2>1, ResetNews
  <2> QED
    BY <1>1, <2>1, <2>2 DEF Kept, NoNews, Loops
<1> QED
  BY <1>2, <1>3, <1>4, <1>5

LEMMA CastSpellKept ==
  ASSUME NEW g \in Data, NEW s \in Spells, NEW n, NEW o \in CastSpell(g, s, n)
  PROVE  Kept(g, o)
<1>1. \/ o \in Attempted(g, s)
      \/ o = Outcome(g, <<>>)
      \/ s \notin OnHit /\ o = Outcome(Queued(g, s), <<>>)
  BY DEF CastSpell
<1>2. CASE o = Outcome(g, <<>>)
  BY <1>2 DEF Outcome, Kept
<1>3. CASE s \notin OnHit /\ o = Outcome(Queued(g, s), <<>>)
  <2>1. o.data = Queued(g, s) /\ o.out = <<>>
    BY <1>3 DEF Outcome
  <2>2. s \in Channels \union Instants
    BY <1>3 DEF Spells
  <2>4. CASE s \in Channels
    <3>1. Queued(g, s) = [g EXCEPT !.normal = s]
      BY <2>4 DEF Queued
    <3>2. o.data \in Data /\ o.data.cancel = g.cancel /\ o.data.channeling = g.channeling
          /\ o.data.age = g.age /\ o.data.tick = g.tick
      BY <2>1, <2>4, <3>1 DEF Data
    <3> QED
      BY <2>1, <3>2 DEF Kept, Loops
  <2>5. CASE s \notin Channels
    <3>1. s \in Instants /\ Queued(g, s) \in {g, [g EXCEPT !.nonGcd = Append(@, s)]}
      BY <2>2, <2>5 DEF Queued
    <3>2. o.data \in Data /\ o.data.cancel = g.cancel /\ o.data.channeling = g.channeling
          /\ o.data.age = g.age /\ o.data.tick = g.tick
      BY <2>1, <3>1 DEF Data
    <3> QED
      BY <2>1, <3>2 DEF Kept, Loops
  <2> QED
    BY <2>4, <2>5
<1> QED
  BY <1>1, <1>2, <1>3, AttemptedKept

LEMMA ProcessQueuesKept ==
  ASSUME NEW g \in Data, NEW o \in ProcessQueues(g)
  PROVE  Kept(g, o)
<1> DEFINE p == [g EXCEPT !.processed = TRUE]
           like(d) == /\ d \in Data /\ d.cancel = g.cancel /\ d.channeling = g.channeling
                      /\ d.age = g.age /\ d.tick = g.tick
<1>1. like(p) /\ p.nonGcd = g.nonGcd
  BY DEF Data
<1>2. ASSUME NEW d, like(d), NEW x, Kept(d, x) PROVE Kept(g, x)
  BY <1>2 DEF Kept, Loops
<1>3. ASSUME NEW d, like(d) PROVE Kept(g, Outcome(d, <<>>))
  <2>1. Kept(d, Outcome(d, <<>>))
    BY <1>3 DEF Kept, Outcome
  <2> QED
    BY <1>2, <1>3, <2>1
<1>4. CASE o = Outcome(p, <<>>)
  BY <1>1, <1>3, <1>4
<1>5. CASE g.nonGcd # <<>> /\ o \in CastSpell([p EXCEPT !.nonGcd = Tail(@)], Head(g.nonGcd), FALSE)
  <2>1. g.nonGcd \in Seq(Instants)
    BY DEF Data
  <2>2. PICK u : u = g.nonGcd
    OBVIOUS
  <2>3. Tail(u) \in Seq(Instants) /\ Head(u) \in Instants
    BY <1>5, <2>1, <2>2
  <2>4. PICK t, s : t = Tail(u) /\ s = Head(u)
    OBVIOUS
  <2>5. [p EXCEPT !.nonGcd = Tail(@)] = [p EXCEPT !.nonGcd = t]
    BY <1>1, <2>2, <2>4 DEF Data
  <2>6. like([p EXCEPT !.nonGcd = t])
    BY <1>1, <2>3, <2>4 DEF Data
  <2>7. PICK d : d = [p EXCEPT !.nonGcd = t]
    OBVIOUS
  <2>8. s \in Spells /\ d \in Data /\ o \in CastSpell(d, s, FALSE)
    BY <1>5, <2>2, <2>3, <2>4, <2>5, <2>6, <2>7 DEF Spells
  <2> HIDE DEF p
  <2>9. Kept(d, o)
    BY <2>8, CastSpellKept
  <2> QED
    BY <1>2, <2>6, <2>7, <2>9
<1>6. CASE g.normal # NoSpell /\ o \in {Outcome([p EXCEPT !.normal = NoSpell], <<>>)}
                 \union CastSpell([p EXCEPT !.normal = NoSpell], g.normal, FALSE)
  <2>1. PICK d : d = [p EXCEPT !.normal = NoSpell]
    OBVIOUS
  <2>2. like(d)
    BY <1>1, <2>1 DEF Data
  <2>3. g.normal \in Spells
    BY <1>6 DEF Data, Spells
  <2>4. o = Outcome(d, <<>>) \/ o \in CastSpell(d, g.normal, FALSE)
    BY <1>6, <2>1
  <2>5. CASE o = Outcome(d, <<>>)
    BY <1>3, <2>2, <2>5
  <2>6. CASE o \in CastSpell(d, g.normal, FALSE)
    <3>1. Kept(d, o)
      BY <2>2, <2>3, <2>6, CastSpellKept
    <3> QED
      BY <1>2, <2>2, <3>1
  <2> QED
    BY <2>4, <2>5, <2>6
<1> QED
  BY <1>4, <1>5, <1>6 DEF ProcessQueues

LEMMA DoublePressKept ==
  ASSUME NEW g \in Data, NEW d
  PROVE  /\ DoublePress(g, d) \in Data /\ DoublePress(g, d).channeling = g.channeling
         /\ DoublePress(g, d).cancel => g.cancel \/ g.channeling
         /\ Loops(g) => Loops(DoublePress(g, d))
<1>1. CASE DoublePress(g, d) = g
  BY <1>1
<1>2. CASE DoublePress(g, d) = [g EXCEPT !.cancel = TRUE] /\ g.channeling
  <2>1. [g EXCEPT !.cancel = TRUE] \in Data
    BY DEF Data
  <2>2. [g EXCEPT !.cancel = TRUE].channeling = g.channeling
        /\ [g EXCEPT !.cancel = TRUE].age = g.age /\ [g EXCEPT !.cancel = TRUE].tick = g.tick
    BY DEF Data
  <2> QED
    BY <1>2, <2>1, <2>2 DEF Loops
<1> QED
  BY <1>1, <1>2 DEF DoublePress
------------------------------------------------------------------------------
LEMMA MaxOf ==
  ASSUME NEW c \in Nat, NEW b \in 0..c, NEW T \in SUBSET {c + 1, c + 2}
  PROVE  /\ Max({b} \union T) \in {b} \union T
         /\ \A y \in {b} \union T : Max({b} \union T) >= y
<1> DEFINE U == {b} \union T
<1>1. \E x \in U : \A y \in U : x >= y
  <2>1. CASE c + 2 \in T
    BY <2>1
  <2>2. CASE c + 2 \notin T /\ c + 1 \in T
    BY <2>2
  <2>3. CASE T = {}
    BY <2>3
  <2> QED
    BY <2>1, <2>2, <2>3
<1>2. Max(U) = CHOOSE x \in U : \A y \in U : x >= y
  BY DEF Max
<1> HIDE DEF U
<1>3. Max(U) \in U /\ \A y \in U : Max(U) >= y
  BY <1>1, <1>2
<1> QED
  BY <1>3 DEF U

LEMMA Typed ==
  ASSUME TypeOK
  PROVE  /\ data \in Data /\ casts \in Nat
         /\ known \in 0..casts /\ begun \in 0..casts /\ stopFor \in 0..casts
         /\ known \in Nat /\ begun \in Nat /\ stopFor \in Nat
<1>1. data \in Data /\ casts \in Nat /\ {known, begun, stopFor} \subseteq 0..casts
  BY DEF TypeOK, Data
<1>2. known \in 0..casts /\ begun \in 0..casts /\ stopFor \in 0..casts
  BY <1>1
<1> QED
  BY <1>1, <1>2

LEMMA SeqOfMore ==
  ASSUME NEW S, NEW T, S \subseteq T, NEW q \in Seq(S)
  PROVE  q \in Seq(T)
  OBVIOUS

LEMMA ElementOf ==
  ASSUME NEW S, NEW q \in Seq(S)
  PROVE  Len(q) \in Nat /\ \A i \in 1..Len(q) : q[i] \in S
  OBVIOUS

LEMMA Emitted ==
  ASSUME TypeOK, Numbered, Known, NEW g, NEW out \in Seq(Spells), Len(out) \in 0..2, Emit(g, out)
  PROVE  /\ casts' \in Nat /\ casts <= casts' /\ sent' \in Seq([cast : 1..casts', spell : Spells])
         /\ Numbered' /\ begun' \in 0..casts' /\ begun <= begun'
         /\ \A i \in 1..Len(sent') : sent'[i].spell \in Channels => sent'[i].cast <= begun'
         /\ ChannelIn(sent) => ChannelIn(sent')
         /\ \A n : OlderIn(sent, n) => OlderIn(sent', n)
         /\ (\E i \in 1..Len(out) : out[i] \in Channels) => ChannelIn(sent')
         /\ casts' - Len(sent') = casts - Len(sent)
<1> DEFINE more == [i \in 1..Len(out) |-> Cast(casts + i, out[i])]
           new  == {casts + i : i \in {j \in 1..Len(out) : out[j] \in Channels}}
<1>1. /\ casts \in Nat /\ begun \in 0..casts /\ Len(out) \in 0..2
      /\ sent \in Seq([cast : 1..casts, spell : Spells])
      /\ \A i \in 1..Len(out) : out[i] \in Spells
  <2>1. sent \in Seq([cast : 1..casts, spell : Spells])
    BY DEF TypeOK
  <2>2. Len(out) \in Nat /\ \A i \in 1..Len(out) : out[i] \in Spells
    BY ElementOf
  <2>3. Len(out) \in 0..2
    OBVIOUS
  <2>4. casts \in Nat /\ begun \in 0..casts
    BY Typed
  <2> QED
    BY <2>1, <2>2, <2>3, <2>4
<1>0. PICK m : m = Len(out) /\ m \in 0..2
  BY <1>1
<1>2. casts' = casts + m /\ casts' = casts + Len(out) /\ sent' = sent \o more /\ begun' = Max({begun} \union new)
  BY <1>0 DEF Emit
<1>3. casts' \in Nat /\ casts <= casts' /\ casts' <= casts + 2
  <2>1. casts \in Nat /\ m \in 0..2 /\ casts' = casts + m
    BY <1>0, <1>1, <1>2
  <2> QED
    BY <2>1
<1>4. new \in SUBSET {casts + 1, casts + 2} /\ new \in SUBSET (1..casts')
  <2>1. \A i \in 1..m : casts + i \in {casts + 1, casts + 2} /\ casts + i \in 1..casts'
    <3>1. casts \in Nat /\ m \in 0..2 /\ casts' = casts + m
      BY <1>0, <1>1, <1>2
    <3> QED
      BY <3>1
  <2>2. new = {casts + i : i \in {j \in 1..m : out[j] \in Channels}}
    BY <1>0
  <2> QED
    BY <2>1, <2>2
<1>5. begun' \in {begun} \union new /\ \A y \in {begun} \union new : begun' >= y
  <2>1. PICK T : T = new
    OBVIOUS
  <2>2. T \in SUBSET {casts + 1, casts + 2}
    BY <1>4, <2>1
  <2> HIDE DEF new
  <2>3. /\ Max({begun} \union T) \in {begun} \union T
        /\ \A y \in {begun} \union T : Max({begun} \union T) >= y
    BY <1>1, <2>2, MaxOf
  <2> QED
    BY <1>2, <2>1, <2>3
<1>6. begun' \in 0..casts' /\ begun <= begun'
  <2>1. begun' = begun \/ begun' \in 1..casts'
    BY <1>4, <1>5
  <2>2. begun' >= begun
    BY <1>5
  <2> QED
    BY <1>1, <1>3, <2>1, <2>2
<1>7. \A i \in 1..Len(out) : casts + i \in 1..casts' /\ (out[i] \in Channels => casts + i <= begun')
  <2>1. \A i \in 1..m : casts + i \in 1..casts'
    <3>1. casts \in Nat /\ m \in 0..2 /\ casts' = casts + m
      BY <1>0, <1>1, <1>2
    <3> QED
      BY <3>1
  <2>2. \A i \in 1..m : out[i] \in Channels => casts + i \in new
    BY <1>0
  <2>3. \A y \in new : begun' >= y
    BY <1>5
  <2>4. ASSUME NEW i \in 1..m, out[i] \in Channels PROVE casts + i <= begun'
    <3> HIDE DEF new
    <3>1. PICK x, b : x = casts + i /\ b = begun'
      OBVIOUS
    <3>2. x \in Nat
      BY <2>1, <3>1
    <3>3. x \in new
      BY <2>2, <2>4, <3>1
    <3>4. b >= x /\ b \in Nat
      BY <1>3, <1>6, <2>3, <3>1, <3>3
    <3> QED
      BY <3>1, <3>2, <3>4
  <2> QED
    BY <1>0, <2>1, <2>4
<1> HIDE DEF new
<1>8. PICK c, E : c = casts' /\ E = [cast : 1..c, spell : Spells]
  OBVIOUS
<1>9. c \in Nat /\ casts <= c
  BY <1>3, <1>8
<1>10. sent \in Seq(E)
  <2>1. [cast : 1..casts, spell : Spells] \subseteq E
    BY <1>1, <1>8, <1>9
  <2> QED
    BY <1>1, <2>1, SeqOfMore
<1>11. more \in Seq(E) /\ Len(more) = Len(out)
       /\ \A i \in 1..Len(out) : more[i].cast = casts + i /\ more[i].spell = out[i]
  <2>1. \A i \in 1..Len(out) : Cast(casts + i, out[i]) \in E
    BY <1>1, <1>7, <1>8 DEF Cast
  <2>2. PICK n : n = Len(out)
    OBVIOUS
  <2>3. n \in Nat /\ more \in [1..n -> E]
    BY <1>1, <2>1, <2>2
  <2>4. more \in Seq(E) /\ Len(more) = n
    BY <2>3
  <2> QED
    BY <2>2, <2>4 DEF Cast
<1> HIDE DEF more
<1>12. PICK q, all : q = sent /\ all = sent'
  OBVIOUS
<1>13. /\ all \in Seq(E) /\ Len(all) = Len(q) + Len(more) /\ Len(q) \in Nat /\ Len(more) \in Nat
       /\ \A i \in 1..Len(q) : i \in 1..Len(all) /\ all[i] = q[i]
       /\ \A i \in 1..Len(more) : Len(q) + i \in 1..Len(all) /\ all[Len(q) + i] = more[i]
       /\ \A i \in 1..Len(all) : i > Len(q) => i - Len(q) \in 1..Len(more) /\ all[i] = more[i - Len(q)]
  <2>1. q \in Seq(E) /\ more \in Seq(E) /\ all = q \o more
    BY <1>2, <1>10, <1>11, <1>12
  <2> QED
    BY <2>1, Sending
<1>14. (ChannelIn(q) => ChannelIn(all)) /\ \A n : OlderIn(q, n) => OlderIn(all, n)
  BY <1>13, StillIn
<1>15. (\E i \in 1..Len(out) : out[i] \in Channels) => ChannelIn(all)
  <2> SUFFICES ASSUME NEW i \in 1..Len(out), out[i] \in Channels PROVE ChannelIn(all)
    OBVIOUS
  <2>1. Len(q) + i \in 1..Len(all) /\ all[Len(q) + i] = more[i]
    BY <1>11, <1>13
  <2> QED
    BY <1>11, <2>1 DEF ChannelIn
<1>16. ASSUME NEW i \in 1..Len(all) PROVE all[i].cast = c - Len(all) + i
  <2>1. CASE i > Len(q)
    <3>1. i - Len(q) \in 1..Len(out) /\ all[i].cast = casts + (i - Len(q))
      BY <1>11, <1>13, <2>1
    <3> QED
      BY <1>1, <1>2, <1>8, <1>11, <1>13, <3>1
  <2>2. CASE ~(i > Len(q))
    <3>1. i \in 1..Len(q) /\ all[i] = q[i]
      BY <1>13, <2>2
    <3>2. q[i].cast = casts - Len(q) + i
      BY <1>12, <3>1 DEF Numbered
    <3> QED
      BY <1>1, <1>2, <1>8, <1>11, <1>13, <3>1, <3>2
  <2> QED
    BY <2>1, <2>2
<1>17. ASSUME NEW i \in 1..Len(all), all[i].spell \in Channels PROVE all[i].cast <= begun'
  <2>1. CASE i > Len(q)
    <3>1. i - Len(q) \in 1..Len(out) /\ all[i].cast = casts + (i - Len(q))
          /\ all[i].spell = out[i - Len(q)]
      BY <1>11, <1>13, <2>1
    <3> QED
      BY <1>7, <1>17, <3>1
  <2>2. CASE ~(i > Len(q))
    <3>1. i \in 1..Len(q) /\ all[i] = q[i]
      BY <1>13, <2>2
    <3>2. q[i].cast <= begun /\ q[i].cast \in Nat
      <4>1. q[i] \in [cast : 1..casts, spell : Spells]
        BY <1>1, <1>12, <3>1, ElementOf
      <4>2. q[i].cast \in Nat
        BY <1>1, <4>1
      <4> QED
        BY <1>12, <1>17, <3>1, <4>2 DEF Known
    <3> QED
      BY <1>1, <1>6, <1>3, <3>1, <3>2
  <2> QED
    BY <2>1, <2>2
<1>19. casts' - Len(sent') = casts - Len(sent)
  <2>1. Len(sent') = Len(sent) + m /\ Len(sent) \in Nat
    BY <1>0, <1>11, <1>12, <1>13
  <2> QED
    BY <1>0, <1>1, <1>2, <2>1
<1>18. sent' \in Seq([cast : 1..casts', spell : Spells])
  BY <1>8, <1>12, <1>13
<1> QED
  BY <1>3, <1>6, <1>8, <1>12, <1>14, <1>15, <1>16, <1>17, <1>18, <1>19 DEF Numbered

(* Every step of the client that may cast: what the invariant needs of it.   *)
LEMMA CastsInv ==
  ASSUME IInv, NEW g \in Data, Loops(g), NEW out \in Seq(Spells), Len(out) \in 0..2, Emit(g, out),
         UNCHANGED <<packets, server, known, pushbacks>>, lost' \in BOOLEAN,
         presses' \in 0..MaxPresses, stopFor' \in {stopFor, begun'},
         g.channeling => data.channeling \/ \E i \in 1..Len(out) : out[i] \in Channels,
         g.cancel => \/ data.cancel /\ stopFor' = stopFor
                     \/ /\ stopFor' = begun'
                        /\ data.channeling \/ \E i \in 1..Len(out) : out[i] \in Channels
  PROVE  IInv'
<1>1. /\ TypeOK /\ Numbered /\ Known /\ WillEnd /\ StopEnds /\ StopIsForThisChannel
      /\ ServerRuns /\ Followed(packets, server.cast)
  BY DEF IInv, ChannelInv
<1>2. data \in Data /\ casts \in Nat /\ known \in 0..casts /\ begun \in 0..casts
      /\ stopFor \in 0..casts /\ known \in Nat /\ begun \in Nat /\ stopFor \in Nat
  BY <1>1, Typed
<1>3. /\ casts' \in Nat /\ casts <= casts' /\ sent' \in Seq([cast : 1..casts', spell : Spells])
      /\ Numbered' /\ begun' \in 0..casts' /\ begun <= begun'
      /\ \A i \in 1..Len(sent') : sent'[i].spell \in Channels => sent'[i].cast <= begun'
      /\ ChannelIn(sent) => ChannelIn(sent')
      /\ \A n : OlderIn(sent, n) => OlderIn(sent', n)
      /\ (\E i \in 1..Len(out) : out[i] \in Channels) => ChannelIn(sent')
  BY <1>1, Emitted
<1>4. data' = g /\ packets' = packets /\ server' = server /\ known' = known
      /\ pushbacks' = pushbacks
  BY DEF Emit
<1>5. stopFor' \in Nat /\ stopFor' \in 0..casts' /\ known' \in 0..casts'
  BY <1>2, <1>3, <1>4
<1>6. TypeOK'
  <2>1. server' \in [cast : 0..casts', left : 0..Duration]
    BY <1>1, <1>2, <1>3, <1>4 DEF TypeOK
  <2>2. data' \in [channeling : BOOLEAN, cancel : BOOLEAN, left : 0..Duration,
              age : 0..AgeLimit \union {NoAge}, tick : 0..Duration, gcd : 0..Gcd,
              normal : Channels \union {NoSpell}, nonGcd : Seq(Instants),
              processed : BOOLEAN]
    BY <1>4 DEF Data
  <2>3. {known', begun', stopFor'} \subseteq 0..casts'
    BY <1>3, <1>5
  <2>4. packets' \in Seq(Packets) /\ pushbacks' \in 0..MaxPushbacks
    BY <1>1, <1>4 DEF TypeOK
  <2> QED
    BY <1>3, <2>1, <2>2, <2>3, <2>4 DEF TypeOK, Packets
<1>7. packets \in Seq(Packets) /\ \A i \in 1..Len(packets) :
        /\ packets[i].cast \in Nat
        /\ packets[i].kind = "start" => packets[i].cast <= begun'
  <2>1. packets \in Seq(Packets)
    BY <1>1 DEF TypeOK
  <2>2. \A i \in 1..Len(packets) : packets[i] \in Packets
    BY <2>1, ElementOf
  <2>3. \A i \in 1..Len(packets) : packets[i].cast \in Nat
    BY <2>2 DEF Packets
  <2>4. StartsUpTo(packets, begun)
    BY <1>1 DEF Known
  <2> QED
    BY <1>2, <1>3, <2>1, <2>3, <2>4 DEF StartsUpTo
<1>8. known <= begun'
  BY <1>1, <1>2, <1>3 DEF Known
<1>9. Known'
  <2>1. StartsUpTo(packets, begun')
    BY <1>7 DEF StartsUpTo
  <2> QED
    BY <1>3, <1>4, <1>8, <2>1 DEF Known
<1>10. WillEnd'
  BY <1>1, <1>3, <1>4 DEF WillEnd
<1>11. ASSUME g.cancel
       PROVE  /\ ResetIn(packets) \/ server.cast # 0 \/ OlderIn(sent', stopFor')
              /\ Preceded(packets, stopFor') /\ stopFor' >= known
  <2>1. CASE data.cancel /\ stopFor' = stopFor
    BY <1>1, <1>3, <2>1 DEF StopEnds, StopIsForThisChannel
  <2>2. CASE stopFor' = begun'
             /\ (data.channeling \/ \E i \in 1..Len(out) : out[i] \in Channels)
    <3>1. ResetIn(packets) \/ server.cast # 0 \/ ChannelIn(sent')
      BY <1>1, <1>3, <2>2 DEF WillEnd
    <3>2. ChannelIn(sent') => OlderIn(sent', stopFor')
      BY <1>3, <2>2 DEF ChannelIn, OlderIn
    <3>3. Preceded(packets, stopFor')
      BY <1>5, <1>7, <2>2 DEF Preceded
    <3> QED
      BY <1>2, <1>5, <1>8, <2>2, <3>1, <3>2, <3>3
  <2> QED
    BY <1>11, <2>1, <2>2
<1>12. StopEnds' /\ StopIsForThisChannel'
  BY <1>4, <1>11 DEF StopEnds, StopIsForThisChannel
<1>13. LoopEnds'
  BY <1>4 DEF LoopEnds, Loops
<1>14. ServerRuns' /\ Followed(packets', server'.cast)
  BY <1>1, <1>4 DEF ServerRuns
<1> QED
  BY <1>3, <1>6, <1>9, <1>10, <1>12, <1>13, <1>14 DEF IInv, ChannelInv

LEMMA OneOrNone ==
  ASSUME NEW o, o = <<>> \/ \E s \in Spells : o = <<s>>
  PROVE  o \in Seq(Spells) /\ Len(o) \in 0..1
<1>1. CASE o = <<>>
  <2>1. o \in Seq(Spells) /\ Len(o) = 0
    BY <1>1
  <2> QED
    BY <2>1
<1>2. ASSUME NEW s \in Spells, o = <<s>> PROVE o \in Seq(Spells) /\ Len(o) \in 0..1
  <2>1. o \in Seq(Spells) /\ Len(o) = 1
    BY <1>2
  <2> QED
    BY <2>1
<1> QED
  BY <1>1, <1>2

LEMMA PressInv ==
  ASSUME IInv, NEW s \in Spells, NEW n \in BOOLEAN, NEW d \in BOOLEAN, Press(s, n, d)
  PROVE  IInv'
<1>1. data \in Data /\ Loops(data)
  BY Typed DEF IInv, ChannelInv, LoopEnds, Loops
<1>2. PICK first \in ProcessQueues(data) :
        /\ \E then \in CastSpell(DoublePress(first.data, d), s, n) :
              Emit(then.data, first.out \o then.out)
        /\ stopFor' = IF DoublePress(first.data, d).cancel /\ ~first.data.cancel
                      THEN begun' ELSE stopFor
  BY DEF Press
<1>3. PICK g : g = DoublePress(first.data, d)
  OBVIOUS
<1>4. PICK then \in CastSpell(g, s, n) : Emit(then.data, first.out \o then.out)
  BY <1>2, <1>3
<1>5. Kept(data, first)
  BY <1>1, ProcessQueuesKept
<1>6. g \in Data /\ g.channeling = first.data.channeling
      /\ (g.cancel => first.data.cancel \/ first.data.channeling)
      /\ (Loops(first.data) => Loops(g))
  BY <1>3, <1>5, DoublePressKept DEF Kept
<1>7. Kept(g, then)
  BY <1>6, CastSpellKept
<1>8. PICK out : out = first.out \o then.out
  OBVIOUS
<1>9. /\ out \in Seq(Spells) /\ Len(out) \in 0..2
      /\ (\E c \in Channels : first.out = <<c>>) => \E i \in 1..Len(out) : out[i] \in Channels
      /\ (\E c \in Channels : then.out = <<c>>) => \E i \in 1..Len(out) : out[i] \in Channels
  <2>1. first.out \in Seq(Spells) /\ then.out \in Seq(Spells)
        /\ Len(first.out) \in 0..1 /\ Len(then.out) \in 0..1
    BY <1>5, <1>7, OneOrNone DEF Kept
  <2>2. PICK a, b : a = first.out /\ b = then.out
    OBVIOUS
  <2>3. a \in Seq(Spells) /\ b \in Seq(Spells) /\ out = a \o b
    BY <1>8, <2>1, <2>2
  <2>4. /\ out \in Seq(Spells) /\ Len(out) = Len(a) + Len(b)
        /\ \A i \in 1..Len(a) : i \in 1..Len(out) /\ out[i] = a[i]
        /\ \A i \in 1..Len(b) : Len(a) + i \in 1..Len(out) /\ out[Len(a) + i] = b[i]
    BY <2>3, Sending
  <2>5. \A c : (a = <<c>> => 1 \in 1..Len(a) /\ a[1] = c)
               /\ (b = <<c>> => 1 \in 1..Len(b) /\ b[1] = c)
    OBVIOUS
  <2>6. Len(out) \in 0..2
    <3>1. PICK l, m : l = Len(a) /\ m = Len(b)
      OBVIOUS
    <3>2. l \in 0..1 /\ m \in 0..1 /\ Len(out) = l + m
      BY <2>1, <2>2, <2>4, <3>1
    <3>3. l + m \in 0..2
      BY <3>2
    <3> QED
      BY <3>2, <3>3
  <2>7. ASSUME NEW c \in Channels, a = <<c>> PROVE \E i \in 1..Len(out) : out[i] \in Channels
    BY <2>4, <2>5, <2>7
  <2>8. ASSUME NEW c \in Channels, b = <<c>> PROVE \E i \in 1..Len(out) : out[i] \in Channels
    BY <2>4, <2>5, <2>8
  <2> QED
    BY <2>2, <2>4, <2>6, <2>7, <2>8
<1>10. PICK e : e = then.data
  OBVIOUS
<1>11. e \in Data /\ Loops(e) /\ Emit(e, out)
  BY <1>1, <1>4, <1>5, <1>6, <1>7, <1>8, <1>10 DEF Kept
<1>12. e.channeling => data.channeling \/ \E i \in 1..Len(out) : out[i] \in Channels
  BY <1>5, <1>6, <1>7, <1>9, <1>10 DEF Kept
<1>13. e.cancel => g.cancel
  BY <1>7, <1>10 DEF Kept
<1>14. first.data.channeling => data.channeling \/ \E i \in 1..Len(out) : out[i] \in Channels
  BY <1>5, <1>9 DEF Kept
<1>15. stopFor' = IF g.cancel /\ ~first.data.cancel THEN begun' ELSE stopFor
  BY <1>2, <1>3
<1>16. first.data.cancel => data.cancel
  BY <1>5 DEF Kept
<1>17. e.cancel => \/ data.cancel /\ stopFor' = stopFor
                   \/ /\ stopFor' = begun'
                      /\ data.channeling \/ \E i \in 1..Len(out) : out[i] \in Channels
  BY <1>6, <1>13, <1>14, <1>15, <1>16
<1>18. /\ UNCHANGED <<packets, server, known, pushbacks>> /\ presses < MaxPresses
       /\ presses' = presses + 1 /\ lost' = (lost \/ s \in OnHit)
  BY DEF Press
<1>19. lost' \in BOOLEAN
  BY <1>18
<1>20. presses' \in 0..MaxPresses
  <2>1. presses \in 0..MaxPresses /\ MaxPresses \in Nat
    BY BoundAssumption DEF IInv, ChannelInv, TypeOK
  <2> QED
    BY <1>18, <2>1
<1> QED
  BY <1>9, <1>11, <1>12, <1>15, <1>17, <1>18, <1>19, <1>20, CastsInv

LEMMA FrameInv ==
  ASSUME IInv, Frame
  PROVE  IInv'
<1>1. data \in Data /\ Loops(data)
  BY Typed DEF IInv, ChannelInv, LoopEnds, Loops
<1>2. PICK c : c = CheckForStopChanneling(data)
  OBVIOUS
<1>3. NoNews(data, c)
  BY <1>1, <1>2, StopCheckNews
<1>4. PICK r \in ProcessQueues(c) : Emit([r.data EXCEPT !.processed = FALSE], r.out)
  BY <1>2 DEF Frame
<1>5. Kept(c, r)
  BY <1>3, ProcessQueuesKept DEF NoNews
<1>6. PICK e, out : e = [r.data EXCEPT !.processed = FALSE] /\ out = r.out
  OBVIOUS
<1>7. e \in Data /\ e.cancel = r.data.cancel /\ e.channeling = r.data.channeling
      /\ e.age = r.data.age /\ e.tick = r.data.tick
  BY <1>5, <1>6 DEF Kept, Data
<1>8. Loops(e)
  BY <1>1, <1>3, <1>5, <1>7 DEF Kept, NoNews, Loops
<1>9. out \in Seq(Spells) /\ Len(out) \in 0..2
      /\ ((\E s \in Channels : out = <<s>>) => \E i \in 1..Len(out) : out[i] \in Channels)
  <2>1. out \in Seq(Spells) /\ Len(out) \in 0..1
    BY <1>5, <1>6, OneOrNone DEF Kept
  <2>2. ASSUME NEW s \in Channels, out = <<s>> PROVE \E i \in 1..Len(out) : out[i] \in Channels
    <3>1. 1 \in 1..Len(out) /\ out[1] \in Channels
      BY <2>2
    <3> QED
      BY <3>1
  <2> QED
    BY <2>1, <2>2
<1>10. e.channeling => data.channeling \/ \E i \in 1..Len(out) : out[i] \in Channels
  BY <1>3, <1>5, <1>6, <1>7, <1>9 DEF Kept, NoNews
<1>11. e.cancel => data.cancel
  BY <1>3, <1>5, <1>7 DEF Kept, NoNews
<1>12. /\ UNCHANGED <<packets, server, known, pushbacks>> /\ stopFor' = stopFor
       /\ lost' = lost /\ presses' = presses
  BY DEF Frame
<1>13. lost' \in BOOLEAN /\ presses' \in 0..MaxPresses
  BY <1>12 DEF IInv, ChannelInv, TypeOK
<1>14. Emit(e, out)
  BY <1>4, <1>6
<1> QED
  BY <1>7, <1>8, <1>9, <1>10, <1>11, <1>12, <1>13, <1>14, CastsInv
------------------------------------------------------------------------------
LEMMA Parts ==
  ASSUME IInv
  PROVE  /\ TypeOK /\ LoopEnds /\ Numbered /\ Known /\ WillEnd /\ StopEnds
         /\ StopIsForThisChannel /\ ServerRuns /\ Followed(packets, server.cast)
         /\ data \in Data /\ casts \in Nat /\ known \in 0..casts /\ begun \in 0..casts
         /\ stopFor \in 0..casts /\ known \in Nat /\ begun \in Nat /\ stopFor \in Nat
         /\ sent \in Seq([cast : 1..casts, spell : Spells]) /\ packets \in Seq(Packets)
         /\ server \in [cast : 0..casts, left : 0..Duration] /\ lost \in BOOLEAN
         /\ presses \in 0..MaxPresses /\ pushbacks \in 0..MaxPushbacks
<1>1. TypeOK /\ LoopEnds /\ Numbered /\ Known /\ WillEnd /\ StopEnds
      /\ StopIsForThisChannel /\ ServerRuns /\ Followed(packets, server.cast)
  BY DEF IInv, ChannelInv
<1>2. /\ sent \in Seq([cast : 1..casts, spell : Spells]) /\ packets \in Seq(Packets)
      /\ server \in [cast : 0..casts, left : 0..Duration] /\ lost \in BOOLEAN
      /\ presses \in 0..MaxPresses /\ pushbacks \in 0..MaxPushbacks
  BY <1>1 DEF TypeOK
<1> QED
  BY <1>1, <1>2, Typed

LEMMA TypedNext ==
  ASSUME data' \in Data, casts' \in Nat, known' \in 0..casts', begun' \in 0..casts',
         stopFor' \in 0..casts', sent' \in Seq([cast : 1..casts', spell : Spells]),
         packets' \in Seq(Packets), server' \in [cast : 0..casts', left : 0..Duration],
         lost' \in BOOLEAN, presses' \in 0..MaxPresses, pushbacks' \in 0..MaxPushbacks
  PROVE  TypeOK'
<1>1. {known', begun', stopFor'} \subseteq 0..casts'
  OBVIOUS
<1> QED
  BY <1>1 DEF TypeOK, Data, Packets

LEMMA StopInv ==
  ASSUME IInv, ChannelStopCastingNextTick
  PROVE  IInv'
<1>1. /\ data.channeling /\ data' = [data EXCEPT !.cancel = TRUE] /\ stopFor' = begun
      /\ UNCHANGED <<sent, packets, server, casts, known, begun, lost, presses, pushbacks>>
  BY DEF ChannelStopCastingNextTick
<1>2. data' \in Data /\ data'.channeling = data.channeling /\ data'.age = data.age
      /\ data'.tick = data.tick
  BY <1>1, Parts DEF Data
<1>3. TypeOK'
  BY <1>1, <1>2, Parts, TypedNext
<1>4. LoopEnds' /\ Numbered' /\ Known' /\ WillEnd' /\ ServerRuns'
      /\ Followed(packets', server'.cast)
  BY <1>1, <1>2, Parts DEF LoopEnds, Numbered, Known, WillEnd, ServerRuns
<1>5. ResetIn(packets) \/ server.cast # 0 \/ OlderIn(sent, begun)
  <2>1. ChannelIn(sent) => OlderIn(sent, begun)
    BY Parts DEF Known, ChannelIn, OlderIn
  <2> QED
    BY <1>1, <2>1, Parts DEF WillEnd
<1>6. Preceded(packets, begun)
  <2>1. \A i \in 1..Len(packets) : packets[i].cast \in Nat
    <3>1. \A i \in 1..Len(packets) : packets[i] \in Packets
      BY Parts, ElementOf
    <3> QED
      BY <3>1 DEF Packets
  <2>2. StartsUpTo(packets, begun)
    BY Parts DEF Known
  <2> QED
    BY <2>1, <2>2, Parts DEF Preceded, StartsUpTo
<1>7. StopEnds'
  BY <1>1, <1>5, <1>6 DEF StopEnds
<1>8. StopIsForThisChannel'
  BY <1>1, Parts DEF StopIsForThisChannel, Known
<1> QED
  BY <1>3, <1>4, <1>7, <1>8 DEF IInv, ChannelInv

(* Steps of the server and of time: the client's fields but clocks, and the  *)
(* casts not taken, are as they were.                                        *)
LEMMA ServerInv ==
  ASSUME IInv, data' \in Data, data'.channeling = data.channeling, data'.cancel = data.cancel,
         data'.age # NoAge <=> data.age # NoAge, data'.tick = data.tick,
         UNCHANGED <<casts, ghosts, presses>>, pushbacks' \in 0..MaxPushbacks,
         sent' \in Seq([cast : 1..casts, spell : Spells]), Numbered',
         \A i \in 1..Len(sent') : sent'[i].spell \in Channels => sent'[i].cast <= begun,
         packets' \in Seq(Packets), server' \in [cast : 0..casts, left : 0..Duration],
         ServerRuns', Followed(packets', server'.cast),
         StartsUpTo(packets', begun),
         ResetIn(packets) \/ server.cast # 0 \/ ChannelIn(sent)
           => ResetIn(packets') \/ server'.cast # 0 \/ ChannelIn(sent'),
         ResetIn(packets) \/ server.cast # 0 \/ OlderIn(sent, stopFor)
           => ResetIn(packets') \/ server'.cast # 0 \/ OlderIn(sent', stopFor),
         /\ Preceded(packets, stopFor)
         /\ ResetIn(packets) \/ server.cast # 0 \/ OlderIn(sent, stopFor)
         => Preceded(packets', stopFor)
  PROVE  IInv'
<1>1. casts' = casts /\ known' = known /\ begun' = begun /\ stopFor' = stopFor
      /\ lost' = lost /\ presses' = presses
  BY DEF ghosts
<1>2. TypeOK'
  <2>1. casts' \in Nat /\ known' \in 0..casts' /\ begun' \in 0..casts' /\ stopFor' \in 0..casts'
        /\ lost' \in BOOLEAN /\ presses' \in 0..MaxPresses
    BY <1>1, Parts
  <2>2. sent' \in Seq([cast : 1..casts', spell : Spells])
        /\ server' \in [cast : 0..casts', left : 0..Duration]
    BY <1>1
  <2> QED
    BY <2>1, <2>2, TypedNext
<1>3. LoopEnds' /\ Known' /\ StopIsForThisChannel'
  BY <1>1, Parts DEF LoopEnds, Known, StopIsForThisChannel
<1>4. WillEnd'
  BY Parts DEF WillEnd
<1>5. StopEnds'
  BY <1>1, Parts DEF StopEnds
<1> QED
  BY <1>2, <1>3, <1>4, <1>5 DEF IInv, ChannelInv

LEMMA MinusFits ==
  ASSUME NEW m \in Nat, NEW x \in 0..m
  PROVE  Minus(x, 1) \in 0..m
  BY DEF Minus

LEMMA TickInv ==
  ASSUME IInv, Tick
  PROVE  IInv'
<1>1. /\ data' = [data EXCEPT !.left = Minus(@, 1), !.gcd = Minus(@, 1),
                          !.age = IF @ \in {NoAge, AgeLimit} THEN @ ELSE @ + 1]
      /\ server' = IF server.left > 1 THEN [server EXCEPT !.left = @ - 1] ELSE Idle
      /\ packets' = IF server.left = 1 THEN Append(packets, Update(server.cast, 0)) ELSE packets
      /\ UNCHANGED <<sent, casts, ghosts, presses, pushbacks>>
  BY DEF Tick
<1>2. /\ data' \in Data /\ data'.channeling = data.channeling /\ data'.cancel = data.cancel
      /\ data'.age # NoAge <=> data.age # NoAge
      /\ data'.tick = data.tick
  <2>1. PICK left, gcd, age : /\ left = Minus(data.left, 1) /\ gcd = Minus(data.gcd, 1)
                              /\ age = IF data.age \in {NoAge, AgeLimit} THEN data.age
                                       ELSE data.age + 1
    OBVIOUS
  <2>2. left \in 0..Duration /\ gcd \in 0..Gcd
    BY <2>1, Parts, Times, MinusFits DEF Data
  <2>3. age \in 0..AgeLimit \union {NoAge} /\ (age # NoAge <=> data.age # NoAge)
    <3>1. data.age \in 0..AgeLimit \union {NoAge} /\ AgeLimit \in Nat
      BY Parts, Times DEF Data
    <3>2. CASE data.age \in {NoAge, AgeLimit}
      BY <2>1, <3>1, <3>2
    <3>3. CASE data.age \notin {NoAge, AgeLimit}
      <4>1. age = data.age + 1 /\ data.age \in 0..(AgeLimit - 1)
        BY <2>1, <3>1, <3>3
      <4> QED
        BY <3>1, <3>3, <4>1 DEF NoAge
    <3> QED
      BY <3>2, <3>3
  <2>4. data' = [data EXCEPT !.left = left, !.gcd = gcd, !.age = age]
    BY <1>1, <2>1, Parts DEF Data
  <2> QED
    BY <2>2, <2>3, <2>4, Parts DEF Data
<1>3. casts' = casts /\ sent' = sent /\ pushbacks' = pushbacks
  BY <1>1
<1>4. Numbered' /\ sent' \in Seq([cast : 1..casts, spell : Spells])
      /\ pushbacks' \in 0..MaxPushbacks
      /\ \A i \in 1..Len(sent') : sent'[i].spell \in Channels => sent'[i].cast <= begun
  BY <1>3, Parts DEF Numbered, Known
<1>5. UNCHANGED <<casts, ghosts, presses>>
  BY <1>1
<1>6. StartsUpTo(packets, begun)
  BY Parts DEF Known
<1>7. CASE server.left > 1
  <2>1. server' = [server EXCEPT !.left = @ - 1] /\ packets' = packets
    <3>1. server.left # 1
      BY <1>7, Parts
    <3> QED
      BY <1>1, <1>7, <3>1
  <2>2. server'.cast = server.cast /\ server'.left > 0
        /\ server' \in [cast : 0..casts, left : 0..Duration]
    <3>1. PICK l : l = server.left - 1
      OBVIOUS
    <3>2. l \in 0..Duration /\ l > 0
      <4>1. server.left \in 0..Duration
        BY Parts
      <4> QED
        BY <1>7, <3>1, <4>1, Times
    <3>3. server' = [server EXCEPT !.left = l]
      BY <2>1, <3>1
    <3> QED
      BY <3>2, <3>3, Parts
  <2> QED
    BY <1>2, <1>3, <1>4, <1>5, <1>6, <2>1, <2>2, Parts, ServerInv DEF ServerRuns
<1>8. CASE server.left = 1
  <2>1. server' = Idle /\ packets' = Append(packets, Update(server.cast, 0))
    BY <1>1, <1>8
  <2>2. server'.cast = 0 /\ server' \in [cast : 0..casts, left : 0..Duration]
    BY <2>1, Times, Parts DEF Idle
  <2>3. PICK p : p = Update(server.cast, 0)
    OBVIOUS
  <2>4. p \in Packets /\ Resets(p) /\ packets' = Append(packets, p)
    BY <2>1, <2>3, Times, Parts DEF Update, Packets, Resets
  <2>5. /\ packets' \in Seq(Packets) /\ ResetIn(packets')
        /\ \A m, r : Followed(packets, m) => Followed(packets', r)
        /\ \A n \in Nat : Preceded(packets, n) => Preceded(packets', n)
        /\ \A n \in Nat : StartsUpTo(packets, n) => StartsUpTo(packets', n)
    BY <2>4, Parts, AddReset
  <2> QED
    BY <1>2, <1>3, <1>4, <1>5, <1>6, <2>2, <2>5, Parts, ServerInv DEF ServerRuns
<1>9. CASE ~(server.left > 1) /\ server.left # 1
  <2>1. server' = Idle /\ packets' = packets
    BY <1>1, <1>9
  <2>2. server'.cast = 0 /\ server' \in [cast : 0..casts, left : 0..Duration]
    BY <2>1, Times, Parts DEF Idle
  <2>3. server.cast = 0
    BY <1>9, Parts DEF ServerRuns
  <2> QED
    BY <1>2, <1>3, <1>4, <1>5, <1>6, <2>1, <2>2, <2>3, Parts, ServerInv DEF ServerRuns
<1> QED
  BY <1>7, <1>8, <1>9

LEMMA Taken ==
  ASSUME NEW E, NEW q \in Seq(E), q # <<>>
  PROVE  /\ Tail(q) \in Seq(E) /\ Head(q) \in E /\ Head(q) = q[1] /\ 1 \in 1..Len(q)
         /\ Len(q) \in Nat /\ Len(Tail(q)) = Len(q) - 1
         /\ \A i \in 1..Len(Tail(q)) : i + 1 \in 1..Len(q) /\ Tail(q)[i] = q[i + 1]
  OBVIOUS

(* The first cast on its way is the oldest.                                  *)
LEMMA SentTaken ==
  ASSUME IInv, sent # <<>>, NEW u, u = Tail(sent), NEW c, c = Head(sent)
  PROVE  /\ u \in Seq([cast : 1..casts, spell : Spells])
         /\ c \in [cast : 1..casts, spell : Spells]
         /\ c.spell \in Channels => c.cast <= begun
         /\ \A i \in 1..Len(u) : u[i].cast = casts - Len(u) + i
         /\ \A i \in 1..Len(u) : u[i].spell \in Channels => u[i].cast <= begun
         /\ ChannelIn(sent) => c.spell \in Channels \/ ChannelIn(u)
         /\ OlderIn(sent, stopFor)
              => (c.spell \in Channels /\ c.cast <= stopFor) \/ OlderIn(u, stopFor)
         /\ OlderIn(sent, stopFor) => c.cast <= stopFor
<1>1. PICK q, E : q = sent /\ E = [cast : 1..casts, spell : Spells]
  OBVIOUS
<1>2. q \in Seq(E) /\ q # <<>> /\ u = Tail(q)
  BY <1>1, Parts
<1>3. /\ u \in Seq(E) /\ c \in E /\ c = q[1] /\ 1 \in 1..Len(q) /\ Len(q) \in Nat
      /\ Len(u) = Len(q) - 1 /\ \A i \in 1..Len(u) : i + 1 \in 1..Len(q) /\ u[i] = q[i + 1]
  <2>1. c = Head(q)
    BY <1>1
  <2>2. /\ Tail(q) \in Seq(E) /\ Head(q) \in E /\ Head(q) = q[1] /\ 1 \in 1..Len(q)
        /\ Len(q) \in Nat /\ Len(Tail(q)) = Len(q) - 1
        /\ \A i \in 1..Len(Tail(q)) : i + 1 \in 1..Len(q) /\ Tail(q)[i] = q[i + 1]
    BY <1>2, Taken
  <2> QED
    BY <1>2, <2>1, <2>2
<1>4. \A i \in 1..Len(q) : q[i].cast = casts - Len(q) + i
  BY <1>1, Parts DEF Numbered
<1>5. \A i \in 1..Len(q) : q[i].spell \in Channels => q[i].cast <= begun
  BY <1>1, Parts DEF Known
<1>6. casts \in Nat /\ stopFor \in Nat /\ Len(u) \in Nat
  BY <1>3, Parts
<1>7. ASSUME NEW i \in 1..Len(u) PROVE u[i].cast = casts - Len(u) + i
  <2>1. u[i].cast = casts - Len(q) + (i + 1)
    BY <1>3, <1>4
  <2> QED
    BY <1>3, <1>6, <2>1
<1>8. \A i \in 1..Len(u) : u[i].spell \in Channels => u[i].cast <= begun
  BY <1>3, <1>5
<1>9. ASSUME NEW i \in 1..Len(q), i # 1 PROVE i - 1 \in 1..Len(u) /\ u[i - 1] = q[i]
  <2>1. i - 1 \in 1..Len(u) /\ (i - 1) + 1 = i
    BY <1>3, <1>9
  <2> QED
    BY <1>3, <2>1
<1>10. ChannelIn(q) => c.spell \in Channels \/ ChannelIn(u)
  <2> SUFFICES ASSUME NEW i \in 1..Len(q), q[i].spell \in Channels, i # 1
               PROVE  ChannelIn(u)
    BY <1>3 DEF ChannelIn
  <2> QED
    BY <1>9 DEF ChannelIn
<1>11. OlderIn(q, stopFor)
         => (c.spell \in Channels /\ c.cast <= stopFor) \/ OlderIn(u, stopFor)
  <2> SUFFICES ASSUME NEW i \in 1..Len(q), q[i].spell \in Channels, q[i].cast <= stopFor, i # 1
               PROVE  OlderIn(u, stopFor)
    BY <1>3 DEF OlderIn
  <2> QED
    BY <1>9 DEF OlderIn
<1>12. OlderIn(q, stopFor) => c.cast <= stopFor
  <2> SUFFICES ASSUME NEW i \in 1..Len(q), q[i].cast <= stopFor PROVE c.cast <= stopFor
    BY DEF OlderIn
  <2>1. q[i].cast = casts - Len(q) + i /\ c.cast = casts - Len(q) + 1
    BY <1>3, <1>4
  <2> QED
    BY <1>3, <1>6, <2>1
<1>13. c.spell \in Channels => c.cast <= begun
  BY <1>3, <1>5
<1> QED
  BY <1>1, <1>3, <1>7, <1>8, <1>10, <1>11, <1>12, <1>13

(* Appending one or two packets, as the handlers of the server do.           *)
LEMMA EndedAppended ==
  ASSUME NEW ps \in Seq(Packets), NEW a \in Packets, NEW b \in Packets
  PROVE  /\ ps \o <<>> = ps /\ ps \o <<a>> = Append(ps, a)
         /\ (ps \o <<>>) \o <<b>> = Append(ps, b)
         /\ (ps \o <<a>>) \o <<b>> = Append(Append(ps, a), b)
  OBVIOUS

(* The server ends the channel it runs, if it runs one.                      *)
LEMMA EndsRunning ==
  ASSUME IInv, NEW ps, ps = packets \o Ended
  PROVE  /\ ps \in Seq(Packets)
         /\ ResetIn(packets) \/ server.cast # 0 => ResetIn(ps)
         /\ (ps = packets /\ server.cast = 0) \/ \A r : Followed(ps, r)
         /\ \A r : Followed(packets, 0) => Followed(ps, r)
         /\ Preceded(packets, stopFor) => Preceded(ps, stopFor)
         /\ StartsUpTo(ps, begun)
<1>1. StartsUpTo(packets, begun)
  BY Parts DEF Known
<1>2. PICK p : p = Update(server.cast, 0)
  OBVIOUS
<1>3. p \in Packets /\ Resets(p)
  BY <1>2, Times, Parts DEF Update, Packets, Resets
<1>4. CASE server.cast = 0
  <2>1. ps = packets
    BY <1>4, <1>3, Parts, EndedAppended DEF Ended
  <2>2. \A r : Followed(packets, 0) => Followed(packets, r)
    BY DEF Followed
  <2> QED
    BY <1>1, <1>4, <2>1, <2>2, Parts
<1>5. CASE server.cast # 0
  <2>1. ps = Append(packets, p)
    BY <1>2, <1>3, <1>5, Parts, EndedAppended DEF Ended
  <2>2. /\ ps \in Seq(Packets) /\ ResetIn(ps)
        /\ \A m, r : Followed(packets, m) => Followed(ps, r)
        /\ \A n \in Nat : Preceded(packets, n) => Preceded(ps, n)
        /\ \A n \in Nat : StartsUpTo(packets, n) => StartsUpTo(ps, n)
    BY <1>3, <2>1, Parts, AddReset
  <2>3. \A r : Followed(ps, r)
    BY <2>2, Parts
  <2>4. StartsUpTo(ps, begun)
    BY <1>1, <2>2, Parts
  <2> QED
    BY <2>2, <2>3, <2>4, Parts
<1> QED
  BY <1>4, <1>5

LEMMA AcceptsInv ==
  ASSUME IInv, ServerAccepts
  PROVE  IInv'
<1> DEFINE c == Head(sent)
           u == Tail(sent)
<1>1. /\ sent # <<>> /\ sent' = u
      /\ IF c.spell \in Channels
         THEN /\ server' = [cast |-> c.cast, left |-> Duration]
              /\ packets' = (packets \o Ended) \o <<Start(c.cast, c.spell)>>
         ELSE IF c.spell \in OnHit THEN UNCHANGED <<server, packets>>
         ELSE server' = Idle /\ packets' = packets \o Ended
      /\ UNCHANGED <<data, casts, ghosts, presses, pushbacks>>
  BY DEF ServerAccepts
<1>2. /\ u \in Seq([cast : 1..casts, spell : Spells])
      /\ c \in [cast : 1..casts, spell : Spells]
      /\ c.spell \in Channels => c.cast <= begun
      /\ \A i \in 1..Len(u) : u[i].cast = casts - Len(u) + i
      /\ \A i \in 1..Len(u) : u[i].spell \in Channels => u[i].cast <= begun
      /\ ChannelIn(sent) => c.spell \in Channels \/ ChannelIn(u)
      /\ OlderIn(sent, stopFor)
           => (c.spell \in Channels /\ c.cast <= stopFor) \/ OlderIn(u, stopFor)
      /\ OlderIn(sent, stopFor) => c.cast <= stopFor
  BY <1>1, SentTaken
<1> HIDE DEF c, u
<1>3. data' = data /\ casts' = casts /\ pushbacks' = pushbacks
      /\ UNCHANGED <<casts, ghosts, presses>>
  BY <1>1
<1>4. /\ data' \in Data /\ pushbacks' \in 0..MaxPushbacks /\ Numbered'
      /\ sent' \in Seq([cast : 1..casts, spell : Spells])
      /\ \A i \in 1..Len(sent') : sent'[i].spell \in Channels => sent'[i].cast <= begun
      /\ data'.channeling = data.channeling /\ data'.cancel = data.cancel
      /\ data'.age # NoAge <=> data.age # NoAge
      /\ data'.tick = data.tick
  BY <1>1, <1>2, <1>3, Parts DEF Numbered
<1>5. PICK ps : ps = packets \o Ended
  OBVIOUS
<1>6. /\ ps \in Seq(Packets)
      /\ ResetIn(packets) \/ server.cast # 0 => ResetIn(ps)
      /\ (ps = packets /\ server.cast = 0) \/ \A r : Followed(ps, r)
      /\ \A r : Followed(packets, 0) => Followed(ps, r)
      /\ Preceded(packets, stopFor) => Preceded(ps, stopFor)
      /\ StartsUpTo(ps, begun)
  BY <1>5, EndsRunning
<1>7. CASE c.spell \in Channels
  <2>1. PICK p : p = Start(c.cast, c.spell)
    OBVIOUS
  <2>2. p \in Packets /\ p.kind = "start" /\ p.cast = c.cast /\ packets' = Append(ps, p)
    <3>1. p \in Packets /\ p.kind = "start" /\ p.cast = c.cast
      <4>1. c.cast \in Nat /\ c.spell \in Spells
        BY <1>2, Parts
      <4> QED
        BY <2>1, <4>1, Times DEF Start, Packets
    <3>2. packets' = ps \o <<p>>
      BY <1>1, <1>5, <1>7, <2>1
    <3> QED
      BY <1>6, <3>1, <3>2, EndedAppended
  <2>3. /\ packets' \in Seq(Packets)
        /\ ResetIn(ps) => ResetIn(packets')
        /\ \A r : r # 0 => Followed(packets', r)
        /\ \A n \in Nat : Preceded(ps, n) /\ (ResetIn(ps) \/ p.cast <= n) => Preceded(packets', n)
        /\ \A n \in Nat : p.cast <= n /\ StartsUpTo(ps, n) => StartsUpTo(packets', n)
    BY <1>6, <2>2, AddStart
  <2>4. server' = [cast |-> c.cast, left |-> Duration]
    BY <1>1, <1>7
  <2>5. server' \in [cast : 0..casts, left : 0..Duration] /\ server'.cast # 0 /\ ServerRuns'
    <3>1. c.cast \in 0..casts /\ c.cast # 0
      BY <1>2, Parts
    <3> QED
      BY <2>4, <3>1, Times DEF ServerRuns
  <2>6. Followed(packets', server'.cast)
    BY <2>3, <2>5
  <2>7. StartsUpTo(packets', begun)
    <3>1. p.cast <= begun
      BY <1>2, <1>7, <2>2
    <3> QED
      BY <1>6, <2>3, <3>1, Parts
  <2>8. ASSUME Preceded(packets, stopFor),
               ResetIn(packets) \/ server.cast # 0 \/ OlderIn(sent, stopFor)
        PROVE  Preceded(packets', stopFor)
    <3>1. ResetIn(ps) \/ p.cast <= stopFor
      BY <1>2, <1>6, <2>2, <2>8
    <3> QED
      BY <1>6, <2>3, <2>8, <3>1, Parts
  <2>9. /\ (ResetIn(packets) \/ server.cast # 0 \/ ChannelIn(sent)
              => ResetIn(packets') \/ server'.cast # 0 \/ ChannelIn(sent'))
         /\ (ResetIn(packets) \/ server.cast # 0 \/ OlderIn(sent, stopFor)
              => ResetIn(packets') \/ server'.cast # 0 \/ OlderIn(sent', stopFor))
    BY <2>5
  <2>10. packets' \in Seq(Packets)
    BY <2>3
  <2>11. server' \in [cast : 0..casts, left : 0..Duration] /\ ServerRuns'
    BY <2>5
  <2>12. /\ Preceded(packets, stopFor)
         /\ ResetIn(packets) \/ server.cast # 0 \/ OlderIn(sent, stopFor)
         => Preceded(packets', stopFor)
    BY <2>8
  <2> QED
    BY <1>3, <1>4, <2>6, <2>7, <2>9, <2>10, <2>11, <2>12, ServerInv
<1>8. CASE c.spell \notin Channels /\ c.spell \in OnHit
  <2>1. server' = server /\ packets' = packets
    BY <1>1, <1>8
  <2>2. server' \in [cast : 0..casts, left : 0..Duration] /\ ServerRuns'
        /\ packets' \in Seq(Packets) /\ Followed(packets', server'.cast)
        /\ StartsUpTo(packets', begun)
    BY <2>1, Parts DEF ServerRuns, Known
  <2>3. (ChannelIn(sent) => ChannelIn(sent'))
        /\ (OlderIn(sent, stopFor) => OlderIn(sent', stopFor))
    BY <1>1, <1>2, <1>8
  <2> QED
    BY <1>3, <1>4, <2>1, <2>2, <2>3, ServerInv
<1>9. CASE c.spell \notin Channels /\ c.spell \notin OnHit
  <2>1. server' = Idle /\ packets' = ps
    BY <1>1, <1>5, <1>9
  <2>2. server' \in [cast : 0..casts, left : 0..Duration] /\ server'.cast = 0 /\ ServerRuns'
    BY <2>1, Times, Parts DEF Idle, ServerRuns
  <2>3. Followed(packets', server'.cast)
    <3>1. CASE ps = packets /\ server.cast = 0
      BY <2>1, <2>2, <3>1, Parts
    <3>2. CASE \A r : Followed(ps, r)
      BY <2>1, <3>2
    <3> QED
      BY <1>6, <3>1, <3>2
  <2>4. (ChannelIn(sent) => ChannelIn(sent'))
        /\ (OlderIn(sent, stopFor) => OlderIn(sent', stopFor))
    BY <1>1, <1>2, <1>9
  <2>5. packets' \in Seq(Packets)
        /\ StartsUpTo(packets', begun)
    BY <1>6, <2>1
  <2> QED
    BY <1>3, <1>4, <1>6, <2>1, <2>2, <2>3, <2>4, <2>5, ServerInv
<1> QED
  BY <1>7, <1>8, <1>9

LEMMA RejectsInv ==
  ASSUME IInv, ServerRejects
  PROVE  IInv'
<1> DEFINE c == Head(sent)
           u == Tail(sent)
<1>1. /\ sent # <<>> /\ sent' = u /\ packets' = Append(packets, Failure(c.cast))
      /\ data' = data /\ server' = server /\ casts' = casts /\ pushbacks' = pushbacks
      /\ UNCHANGED <<casts, ghosts, presses>>
  BY DEF ServerRejects
<1>2. /\ u \in Seq([cast : 1..casts, spell : Spells])
      /\ c \in [cast : 1..casts, spell : Spells]
      /\ \A i \in 1..Len(u) : u[i].cast = casts - Len(u) + i
      /\ \A i \in 1..Len(u) : u[i].spell \in Channels => u[i].cast <= begun
  BY <1>1, SentTaken
<1> HIDE DEF c, u
<1>3. /\ data' \in Data /\ pushbacks' \in 0..MaxPushbacks /\ Numbered'
      /\ sent' \in Seq([cast : 1..casts, spell : Spells])
      /\ \A i \in 1..Len(sent') : sent'[i].spell \in Channels => sent'[i].cast <= begun
      /\ data'.channeling = data.channeling /\ data'.cancel = data.cancel
      /\ data'.age # NoAge <=> data.age # NoAge
      /\ data'.tick = data.tick
  BY <1>1, <1>2, Parts DEF Numbered
<1>4. PICK p : p = Failure(c.cast)
  OBVIOUS
<1>5. p \in Packets /\ Resets(p) /\ packets' = Append(packets, p)
  <2>1. c.cast \in Nat
    BY <1>2, Parts
  <2> QED
    BY <1>1, <1>4, <2>1, Times DEF Failure, Packets, Resets
<1>6. /\ packets' \in Seq(Packets) /\ ResetIn(packets')
      /\ \A m, r : Followed(packets, m) => Followed(packets', r)
      /\ \A n \in Nat : Preceded(packets, n) => Preceded(packets', n)
      /\ \A n \in Nat : StartsUpTo(packets, n) => StartsUpTo(packets', n)
  BY <1>5, Parts, AddReset
<1>7. StartsUpTo(packets, begun)
  BY Parts DEF Known
<1>8. server' \in [cast : 0..casts, left : 0..Duration] /\ ServerRuns'
  BY <1>1, Parts DEF ServerRuns
<1> QED
  BY <1>1, <1>3, <1>6, <1>7, <1>8, Parts, ServerInv

LEMMA PushbackInv ==
  ASSUME IInv, NEW d \in 0..Duration, Pushback(d)
  PROVE  IInv'
<1>1. /\ server.left > d /\ pushbacks < MaxPushbacks /\ pushbacks' = pushbacks + 1
      /\ server' = IF d = 0 THEN Idle ELSE [server EXCEPT !.left = d]
      /\ packets' = Append(packets, Update(server.cast, d))
      /\ data' = data /\ sent' = sent /\ casts' = casts
      /\ UNCHANGED <<casts, ghosts, presses>>
  BY DEF Pushback
<1>2. pushbacks' \in 0..MaxPushbacks
  <2>1. pushbacks \in 0..MaxPushbacks /\ MaxPushbacks \in Nat
    BY Parts, BoundAssumption
  <2> QED
    BY <1>1, <2>1
<1>3. /\ data' \in Data /\ Numbered'
      /\ sent' \in Seq([cast : 1..casts, spell : Spells])
      /\ \A i \in 1..Len(sent') : sent'[i].spell \in Channels => sent'[i].cast <= begun
      /\ data'.channeling = data.channeling /\ data'.cancel = data.cancel
      /\ data'.age # NoAge <=> data.age # NoAge
      /\ data'.tick = data.tick
  BY <1>1, Parts DEF Numbered, Known
<1>4. PICK p : p = Update(server.cast, d)
  OBVIOUS
<1>5. p \in Packets /\ p.kind = "update" /\ p.left = d /\ packets' = Append(packets, p)
  BY <1>1, <1>4, Parts DEF Update, Packets
<1>6. StartsUpTo(packets, begun)
  BY Parts DEF Known
<1>7. CASE d = 0
  <2>1. Resets(p) /\ server' = Idle
    BY <1>1, <1>5, <1>7 DEF Resets
  <2>2. /\ packets' \in Seq(Packets) /\ ResetIn(packets')
        /\ \A m, r : Followed(packets, m) => Followed(packets', r)
        /\ \A n \in Nat : Preceded(packets, n) => Preceded(packets', n)
        /\ \A n \in Nat : StartsUpTo(packets, n) => StartsUpTo(packets', n)
    BY <1>5, <2>1, Parts, AddReset
  <2>3. server' \in [cast : 0..casts, left : 0..Duration] /\ ServerRuns'
    BY <2>1, Times, Parts DEF Idle, ServerRuns
  <2> QED
    BY <1>1, <1>2, <1>3, <1>6, <2>2, <2>3, Parts, ServerInv
<1>8. CASE d # 0
  <2>1. server' = [server EXCEPT !.left = d]
    BY <1>1, <1>8
  <2>2. server' \in [cast : 0..casts, left : 0..Duration] /\ server'.cast = server.cast
        /\ server'.left = d
    BY <2>1, Parts
  <2>4. ServerRuns'
    <3>1. d > 0
      BY <1>8, Times
    <3> QED
      BY <2>2, <3>1 DEF ServerRuns
  <2>3. /\ packets' \in Seq(Packets)
        /\ ResetIn(packets) => ResetIn(packets')
        /\ \A r : Followed(packets, r) => Followed(packets', r)
        /\ \A n \in Nat : Preceded(packets, n) => Preceded(packets', n)
        /\ \A n \in Nat : StartsUpTo(packets, n) => StartsUpTo(packets', n)
    BY <1>5, Parts, AddShorter
  <2>5. /\ (ResetIn(packets) \/ server.cast # 0 \/ ChannelIn(sent)
              => ResetIn(packets') \/ server'.cast # 0 \/ ChannelIn(sent'))
         /\ (ResetIn(packets) \/ server.cast # 0 \/ OlderIn(sent, stopFor)
              => ResetIn(packets') \/ server'.cast # 0 \/ OlderIn(sent', stopFor))
    BY <1>1, <2>2, <2>3
  <2>6. /\ packets' \in Seq(Packets) /\ Followed(packets', server'.cast)
        /\ Preceded(packets, stopFor) => Preceded(packets', stopFor)
        /\ StartsUpTo(packets', begun)
    BY <1>6, <2>2, <2>3, Parts
  <2> QED
    BY <1>1, <1>2, <1>3, <2>2, <2>4, <2>5, <2>6, ServerInv
<1> QED
  BY <1>7, <1>8
------------------------------------------------------------------------------
(* The handlers of the client: a packet is taken off, and either it ends the *)
(* channel and the request, or both are as they were.                        *)
LEMMA ReceiveInv ==
  ASSUME IInv, packets # <<>>, packets' = Tail(packets), data' \in Data, Loops(data'),
         UNCHANGED <<sent, server, casts, begun, stopFor, presses, pushbacks>>,
         lost' \in BOOLEAN,
         \/ known' = 0 \/ known' = known
         \/ known' = Head(packets).cast /\ Head(packets).kind = "start",
         \/ data'.channeling = FALSE /\ data'.cancel = FALSE
         \/ /\ ~Resets(Head(packets))
            /\ data'.cancel = data.cancel
            /\ \/ data'.channeling = data.channeling
               \/ Head(packets).kind = "start"
  PROVE  IInv'
<1>1. PICK p, qs : p = Head(packets) /\ qs = Tail(packets)
  OBVIOUS
<1>2. /\ qs \in Seq(Packets) /\ p \in Packets
      /\ ~Resets(p) /\ ResetIn(packets) => ResetIn(qs)
      /\ \A r : Followed(packets, r) => Followed(qs, r)
      /\ \A r : p.kind = "start" /\ Followed(packets, r) => r # 0 \/ ResetIn(qs)
      /\ \A n \in Nat : p.kind = "start" /\ Preceded(packets, n) => p.cast <= n
      /\ \A n \in Nat : ~Resets(p) /\ Preceded(packets, n) => Preceded(qs, n)
      /\ \A n \in Nat : StartsUpTo(packets, n)
           => /\ StartsUpTo(qs, n)
              /\ p.kind = "start" => p.cast <= n
  BY <1>1, Parts, DropFirst
<1>3. packets' = qs /\ sent' = sent /\ server' = server /\ casts' = casts /\ begun' = begun
      /\ stopFor' = stopFor /\ presses' = presses /\ pushbacks' = pushbacks
  BY <1>1
<1>4. /\ StartsUpTo(qs, begun)
      /\ p.kind = "start" => p.cast <= begun
  <2>1. StartsUpTo(packets, begun)
    BY Parts DEF Known
  <2> QED
    BY <1>2, <2>1, Parts
<1>5. known' \in 0..casts' /\ known' <= begun /\ known' \in Nat
      /\ (known' = 0 \/ known' = known \/ (known' = p.cast /\ p.kind = "start"))
  <2>1. p.cast \in Nat
    BY <1>2 DEF Packets
  <2>2. known <= begun
    BY Parts DEF Known
  <2>3. known' = 0 \/ known' = known \/ (known' = p.cast /\ p.kind = "start")
    BY <1>1
  <2> QED
    BY <1>3, <1>4, <2>1, <2>2, <2>3, Parts
<1>6. TypeOK'
  <2>1. begun' \in 0..casts' /\ stopFor' \in 0..casts' /\ casts' \in Nat
        /\ sent' \in Seq([cast : 1..casts', spell : Spells])
        /\ server' \in [cast : 0..casts', left : 0..Duration]
        /\ presses' \in 0..MaxPresses /\ pushbacks' \in 0..MaxPushbacks
        /\ packets' \in Seq(Packets)
    BY <1>2, <1>3, Parts
  <2> QED
    BY <1>5, <2>1, TypedNext
<1>7. LoopEnds' /\ Numbered' /\ ServerRuns' /\ Followed(packets', server'.cast)
  BY <1>2, <1>3, Parts DEF LoopEnds, Loops, Numbered, ServerRuns
<1>8. Known'
  BY <1>3, <1>4, <1>5, Parts DEF Known
<1>9. WillEnd' /\ StopEnds' /\ StopIsForThisChannel'
  <2>1. CASE data'.channeling = FALSE /\ data'.cancel = FALSE
    BY <2>1 DEF WillEnd, StopEnds, StopIsForThisChannel
  <2>2. CASE /\ ~Resets(p) /\ data'.cancel = data.cancel
             /\ data'.channeling = data.channeling \/ p.kind = "start"
    <3>1. ResetIn(packets) => ResetIn(qs)
      BY <1>2, <2>2
    <3>2. p.kind = "start" => server.cast # 0 \/ ResetIn(qs)
      BY <1>2, Parts
    <3>3. WillEnd'
      BY <1>3, <2>2, <3>1, <3>2, Parts DEF WillEnd
    <3>4. ASSUME data.cancel
          PROVE  /\ ResetIn(qs) \/ server.cast # 0 \/ OlderIn(sent, stopFor)
                 /\ Preceded(qs, stopFor) /\ stopFor >= known'
      <4>1. /\ ResetIn(packets) \/ server.cast # 0 \/ OlderIn(sent, stopFor)
            /\ Preceded(packets, stopFor) /\ stopFor >= known
        BY <3>4, Parts DEF StopEnds, StopIsForThisChannel
      <4>2. Preceded(qs, stopFor) /\ (p.kind = "start" => p.cast <= stopFor)
        BY <1>2, <2>2, <4>1, Parts
      <4>3. stopFor >= known'
        BY <1>5, <4>1, <4>2, Parts
      <4> QED
        BY <3>1, <4>1, <4>2, <4>3
    <3>5. StopEnds' /\ StopIsForThisChannel'
      BY <1>3, <2>2, <3>4 DEF StopEnds, StopIsForThisChannel
    <3> QED
      BY <3>3, <3>5
  <2> QED
    BY <1>1, <2>1, <2>2
<1> QED
  BY <1>6, <1>7, <1>8, <1>9 DEF IInv, ChannelInv

LEMMA StartInv ==
  ASSUME IInv, NEW a \in Amplitudes, ChannelStart(a)
  PROVE  IInv'
<1> DEFINE p == Head(packets)
<1>1. /\ packets # <<>> /\ p.kind = "start" /\ packets' = Tail(packets)
      /\ IF p.left > 0 /\ p.spell \notin FarSight
         THEN /\ data' = [data EXCEPT !.channeling = TRUE, !.age = 0, !.left = p.left,
                                      !.tick = TickTime(a, p.left)]
              /\ known' = p.cast
         ELSE data' = ResetChannelingFlags(data) /\ known' = 0
      /\ lost' = FALSE
      /\ UNCHANGED <<sent, server, casts, begun, stopFor, presses, pushbacks>>
  BY DEF ChannelStart, Receives
<1>2. p \in Packets
  BY <1>1, Parts, DropFirst
<1> HIDE DEF p
<1>3. CASE p.left > 0 /\ p.spell \notin FarSight
  <2>1. data' = [data EXCEPT !.channeling = TRUE, !.age = 0, !.left = p.left,
                             !.tick = TickTime(a, p.left)] /\ known' = p.cast
    BY <1>1, <1>3
  <2>2. p.left \in 0..Duration /\ a \in Nat
    BY <1>2, TimeAssumption DEF Packets
  <2>3. PICK l, t : l = p.left /\ t = TickTime(a, p.left)
    OBVIOUS
  <2>4. l \in 0..Duration /\ t \in 0..Duration /\ t > 0
    BY <1>3, <2>2, <2>3, Times DEF TickTime
  <2>5. data' = [data EXCEPT !.channeling = TRUE, !.age = 0, !.left = l, !.tick = t]
    BY <2>1, <2>3
  <2>6. data' \in Data /\ Loops(data') /\ data'.cancel = data.cancel
    BY <2>4, <2>5, Parts, Times DEF Data, Loops
  <2>7. ~Resets(p)
    BY <1>1 DEF Resets
  <2> QED
    BY <1>1, <2>1, <2>6, <2>7, ReceiveInv DEF p
<1>4. CASE ~(p.left > 0 /\ p.spell \notin FarSight)
  <2>1. data' = ResetChannelingFlags(data) /\ known' = 0
    BY <1>1, <1>4
  <2>2. data' \in Data /\ Loops(data') /\ data'.cancel = FALSE /\ data'.channeling = FALSE
    BY <2>1, Parts, ResetFlags
  <2> QED
    BY <1>1, <2>1, <2>2, ReceiveInv
<1> QED
  BY <1>3, <1>4

LEMMA UpdateInv ==
  ASSUME IInv, ChannelUpdate
  PROVE  IInv'
<1> DEFINE p == Head(packets)
<1>1. /\ packets # <<>> /\ p.kind = "update" /\ packets' = Tail(packets)
      /\ IF p.left <= 0 THEN data' = ResetChannelingFlags(data) /\ known' = 0
         ELSE data' = [data EXCEPT !.left = p.left] /\ UNCHANGED known
      /\ UNCHANGED <<sent, server, casts, begun, stopFor, lost, presses, pushbacks>>
  BY DEF ChannelUpdate, Receives
<1>2. p \in Packets
  BY <1>1, Parts, DropFirst
<1>3. lost' \in BOOLEAN
  BY <1>1, Parts
<1> HIDE DEF p
<1>4. CASE p.left <= 0
  <2>1. data' = ResetChannelingFlags(data) /\ known' = 0
    BY <1>1, <1>4
  <2>2. data' \in Data /\ Loops(data') /\ data'.cancel = FALSE /\ data'.channeling = FALSE
    BY <2>1, Parts, ResetFlags
  <2> QED
    BY <1>1, <1>3, <2>1, <2>2, ReceiveInv
<1>5. CASE ~(p.left <= 0)
  <2>1. data' = [data EXCEPT !.left = p.left] /\ known' = known
    BY <1>1, <1>5
  <2>2. PICK l : l = p.left
    OBVIOUS
  <2>3. l \in 0..Duration
    BY <1>2, <2>2 DEF Packets
  <2>4. data' \in Data /\ data'.cancel = data.cancel /\ data'.channeling = data.channeling
        /\ data'.age = data.age /\ data'.tick = data.tick
    BY <2>1, <2>2, <2>3, Parts DEF Data
  <2>5. Loops(data') /\ ~Resets(p)
    BY <1>1, <1>5, <2>4, Parts DEF Loops, LoopEnds, Resets
  <2> QED
    BY <1>1, <1>3, <2>1, <2>4, <2>5, ReceiveInv DEF p
<1> QED
  BY <1>4, <1>5

LEMMA FailedInv ==
  ASSUME IInv, SpellFailed
  PROVE  IInv'
<1>1. /\ packets # <<>> /\ packets' = Tail(packets) /\ Head(packets).kind = "failure"
      /\ data' = ResetCastFlags(data) /\ lost' = TRUE
      /\ UNCHANGED <<sent, server, casts, known, begun, stopFor, presses, pushbacks>>
  BY DEF SpellFailed, Receives
<1>2. data' \in Data /\ Loops(data') /\ data'.cancel = FALSE /\ data'.channeling = FALSE
  BY <1>1, Parts, ResetFlags
<1> QED
  BY <1>1, <1>2, ReceiveInv
------------------------------------------------------------------------------
LEMMA InitInv == Init => IInv
<1> SUFFICES ASSUME Init PROVE IInv
  OBVIOUS
<1>1. /\ data = [channeling |-> FALSE, cancel |-> FALSE, left |-> 0, age |-> NoAge, tick |-> 0,
                 gcd |-> 0, normal |-> NoSpell, nonGcd |-> <<>>, processed |-> FALSE]
      /\ sent = <<>> /\ packets = <<>> /\ server = Idle
      /\ casts = 0 /\ known = 0 /\ begun = 0 /\ stopFor = 0 /\ lost = FALSE
      /\ presses = 0 /\ pushbacks = 0
  BY DEF Init
<1>2. TypeOK
  <2>1. <<>> \in Seq(Instants)
    OBVIOUS
  <2>2. data \in [channeling : BOOLEAN, cancel : BOOLEAN, left : 0..Duration,
              age : 0..AgeLimit \union {NoAge}, tick : 0..Duration, gcd : 0..Gcd,
              normal : Channels \union {NoSpell}, nonGcd : Seq(Instants),
              processed : BOOLEAN]
    BY <1>1, <2>1, Times
  <2>3. sent \in Seq([cast : 1..casts, spell : Spells]) /\ packets \in Seq(Packets)
    BY <1>1
  <2>4. server \in [cast : 0..casts, left : 0..Duration]
    BY <1>1, Times DEF Idle
  <2>5. MaxPresses \in Nat /\ MaxPushbacks \in Nat
    BY BoundAssumption
  <2>6. casts \in Nat /\ {known, begun, stopFor} \subseteq 0..casts
    BY <1>1
  <2>7. presses \in 0..MaxPresses /\ pushbacks \in 0..MaxPushbacks
    BY <1>1, <2>5
  <2>8. lost \in BOOLEAN
    BY <1>1
  <2> QED
    BY <2>2, <2>3, <2>4, <2>6, <2>7, <2>8 DEF TypeOK
<1>3. LoopEnds /\ ServerRuns /\ WillEnd /\ StopEnds /\ StopIsForThisChannel
  BY <1>1 DEF LoopEnds, ServerRuns, WillEnd, StopEnds, StopIsForThisChannel, Idle
<1>4. Numbered /\ Known /\ Followed(packets, server.cast)
  <2>1. 1..Len(sent) = {} /\ 1..Len(packets) = {}
    BY <1>1
  <2> QED
    BY <1>1, <2>1 DEF Numbered, Known, Followed, StartsUpTo
<1> QED
  BY <1>2, <1>3, <1>4 DEF IInv, ChannelInv

LEMMA NextInv == IInv /\ [Next]_vars => IInv'
<1> SUFFICES ASSUME IInv, [Next]_vars PROVE IInv'
  OBVIOUS
<1>1. ASSUME NEW s \in Spells, NEW n \in BOOLEAN, NEW d \in BOOLEAN, Press(s, n, d) PROVE IInv'
  BY <1>1, PressInv
<1>2. CASE ChannelStopCastingNextTick
  BY <1>2, StopInv
<1>3. CASE Frame
  BY <1>3, FrameInv
<1>4. CASE Tick
  BY <1>4, TickInv
<1>5. CASE ServerAccepts
  BY <1>5, AcceptsInv
<1>6. CASE ServerRejects
  BY <1>6, RejectsInv
<1>7. ASSUME NEW d \in 0..Duration, Pushback(d) PROVE IInv'
  BY <1>7, PushbackInv
<1>8. ASSUME NEW a \in Amplitudes, ChannelStart(a) PROVE IInv'
  BY <1>8, StartInv
<1>9. CASE ChannelUpdate
  BY <1>9, UpdateInv
<1>10. CASE SpellFailed
  BY <1>10, FailedInv
<1>11. CASE UNCHANGED vars
  BY <1>11 DEF IInv, ChannelInv, TypeOK, LoopEnds, Numbered, Known, WillEnd, StopEnds,
               StopIsForThisChannel, ServerRuns, vars, ghosts
<1> QED
  BY <1>1, <1>2, <1>3, <1>4, <1>5, <1>6, <1>7, <1>8, <1>9, <1>10, <1>11 DEF Next

(* spellchannel.cpp:77-138, main.cpp:501-533: whatever is cast, answered,    *)
(* refused or pushed back, the fields of a channel keep their ranges, and    *)
(* the loop that looks for the next tick has something to add.               *)
THEOREM ChannelTheorem == Spec => []ChannelInv
<1>1. IInv => ChannelInv
  BY DEF IInv
<1> QED
  BY <1>1, InitInv, NextInv, PTL DEF Spec

(* spellcast.cpp:176, spellchannel.cpp:77: a request to stop at the next     *)
(* tick never reaches a channel that began after it was made, for the client *)
(* hears the end of the old channel before the start of the next.            *)
THEOREM StopTheorem == Spec => []StopIsForThisChannel
<1>1. IInv => StopIsForThisChannel
  BY DEF IInv
<1> QED
  BY <1>1, InitInv, NextInv, PTL DEF Spec
------------------------------------------------------------------------------
(* A channel that runs, that nobody asked to stop and that no failure or     *)
(* on-hit spell has hidden from the client.                                  *)
Running ==
  ~lost /\ known # 0 /\ server.cast = known /\ stopFor < known /\ server.left > Reduction

LEMMA RunningKnown ==
  ASSUME CutInv, Running, QueueChanneling, ~InterruptOutside
  PROVE  /\ data \in Data /\ data.channeling /\ ~data.cancel /\ data.left > Reduction
         /\ Reduction \in Nat
<1>1. Reduction \in Nat
  BY TimeAssumption
<1>2. IInv /\ data.channeling /\ data.left >= server.left
  BY DEF CutInv, Sync, Running
<1>3. data \in Data /\ server.left \in Nat /\ known \in Nat /\ stopFor \in Nat
  BY <1>2, Parts, Times
<1>4. data.left \in Nat /\ data.left > Reduction
  BY <1>1, <1>2, <1>3, Times DEF Data, Running
<1>5. ~data.cancel
  BY <1>2, <1>3, Parts DEF StopIsForThisChannel, Running
<1> QED
  BY <1>1, <1>2, <1>3, <1>4, <1>5

LEMMA ChannelingWaits ==
  ASSUME NEW g \in Data, g.channeling, NEW o \in ProcessQueues(g)
  PROVE  o.data = [g EXCEPT !.processed = TRUE] /\ o.out = <<>>
  BY DEF ProcessQueues, Outcome

LEMMA QueuedOrNone ==
  ASSUME QueueChanneling, ~InterruptOutside, NEW g \in Data, g.channeling, g.left > 0,
         NEW s \in Spells, s \notin OnHit, NEW n, NEW o \in CastSpell(g, s, n)
  PROVE  o.out = <<>> /\ o.data.channeling /\ o.data.left = g.left
<1>1. Casting(g)
  BY DEF Casting
<1>2. o = Outcome(Queued(g, s), <<>>) \/ o = Outcome(g, <<>>)
  BY <1>1 DEF CastSpell
<1>3. CASE o = Outcome(g, <<>>)
  BY <1>3 DEF Outcome
<1>4. CASE o = Outcome(Queued(g, s), <<>>)
  <2>1. o.data = Queued(g, s) /\ o.out = <<>>
    BY <1>4 DEF Outcome
  <2>2. Queued(g, s) \in {g, [g EXCEPT !.normal = s], [g EXCEPT !.nonGcd = Append(@, s)]}
    BY DEF Queued
  <2>3. Queued(g, s).channeling = g.channeling /\ Queued(g, s).left = g.left
    BY <2>2 DEF Data
  <2> QED
    BY <2>1, <2>3
<1> QED
  BY <1>2, <1>3, <1>4

LEMMA EmitNone ==
  ASSUME TypeOK, NEW g, NEW out, out = <<>>, Emit(g, out)
  PROVE  casts' = casts
<1>1. casts' = casts + Len(out) /\ Len(out) = 0 /\ casts \in Nat
  BY DEF Emit, TypeOK
<1> QED
  BY <1>1

LEMMA EmitOne ==
  ASSUME NEW g, NEW s, NEW out, out = <<>> \/ out = <<s>>, Emit(g, out), sent = <<>>
  PROVE  \A i \in 1..Len(sent') : sent'[i].spell = s
<1> DEFINE more == [i \in 1..Len(out) |-> Cast(casts + i, out[i])]
<1>1. sent' = sent \o more
  BY DEF Emit
<1>2. Len(out) \in Nat /\ \A i \in 1..Len(out) : out[i] = s
  OBVIOUS
<1>3. \A i \in 1..Len(out) : more[i].spell = s
  BY <1>2 DEF Cast
<1>4. PICK n, E : n = Len(out) /\ E = {more[i] : i \in 1..Len(out)}
  OBVIOUS
<1>5. more \in [1..n -> E] /\ n \in Nat
  BY <1>2, <1>4
<1> HIDE DEF more
<1>6. more \in Seq(E) /\ Len(more) = n
  BY <1>5
<1>7. sent' = more
  <2>1. PICK m : m = more
    OBVIOUS
  <2>2. m \in Seq(E) /\ <<>> \o m = m
    BY <1>6, <2>1
  <2> QED
    BY <1>1, <2>1, <2>2
<1> QED
  BY <1>3, <1>4, <1>6, <1>7

LEMMA PressQuiet ==
  ASSUME CutInv, Running, QueueChanneling, ~InterruptOutside,
         NEW s \in Spells, NEW n \in BOOLEAN, NEW d \in BOOLEAN, Press(s, n, d)
  PROVE  /\ s \notin OnHit => casts' = casts /\ data'.channeling /\ data'.left = data.left
         /\ s \in OnHit /\ sent = <<>> => \A i \in 1..Len(sent') : sent'[i].spell = s
<1>1. data \in Data /\ data.channeling /\ data.left > Reduction /\ Reduction \in Nat
  BY RunningKnown
<1>2. PICK first \in ProcessQueues(data) :
        \E then \in CastSpell(DoublePress(first.data, d), s, n) :
              Emit(then.data, first.out \o then.out)
  BY DEF Press
<1>3. first.data = [data EXCEPT !.processed = TRUE] /\ first.out = <<>>
  BY <1>1, ChannelingWaits
<1>4. first.data \in Data /\ first.data.channeling /\ first.data.left = data.left
  BY <1>1, <1>3 DEF Data
<1>5. PICK g : g = DoublePress(first.data, d)
  OBVIOUS
<1>6. g \in Data /\ g.channeling /\ g.left = data.left
  <2>1. g = first.data \/ g = [first.data EXCEPT !.cancel = TRUE]
    BY <1>5 DEF DoublePress
  <2> QED
    BY <1>4, <2>1 DEF Data
<1>7. PICK then \in CastSpell(g, s, n) : Emit(then.data, first.out \o then.out)
  BY <1>2, <1>5
<1>8. Kept(g, then)
  BY <1>6, CastSpellKept
<1>9. PICK out : out = then.out
  OBVIOUS
<1>10. Emit(then.data, out)
  <2>1. out \in Seq(Spells)
    BY <1>8, <1>9, OneOrNone DEF Kept
  <2>2. <<>> \o out = out
    BY <2>1
  <2> QED
    BY <1>3, <1>7, <1>9, <2>2
<1>11. ASSUME s \notin OnHit PROVE casts' = casts /\ data'.channeling /\ data'.left = data.left
  <2>1. g.left > 0
    BY <1>1, <1>6, Times DEF Data
  <2>2. then.out = <<>> /\ then.data.channeling /\ then.data.left = g.left
    BY <1>6, <1>7, <1>11, <2>1, QueuedOrNone
  <2>3. data' = then.data
    BY <1>10 DEF Emit
  <2>4. TypeOK
    BY Parts DEF CutInv
  <2> QED
    BY <1>6, <1>9, <1>10, <2>2, <2>3, <2>4, EmitNone
<1>12. ASSUME s \in OnHit, sent = <<>> PROVE \A i \in 1..Len(sent') : sent'[i].spell = s
  <2>1. then \in Attempted(g, s)
    BY <1>7, <1>12 DEF CastSpell
  <2>2. out = <<>> \/ out = <<s>>
    BY <1>9, <2>1 DEF Attempted, Outcome
  <2> QED
    BY <1>10, <1>12, <2>2, EmitOne
<1> QED
  BY <1>11, <1>12

LEMMA FrameQuiet ==
  ASSUME CutInv, Running, QueueChanneling, ~InterruptOutside, Frame
  PROVE  casts' = casts /\ data'.channeling /\ data'.left = data.left
<1>1. data \in Data /\ data.channeling /\ ~data.cancel /\ data.left > Reduction
      /\ Reduction \in Nat
  BY RunningKnown
<1>2. CheckForStopChanneling(data) = data
  <2>1. Minus(data.left, Reduction) # 0
    BY <1>1, Times DEF Minus, Data
  <2> QED
    BY <1>1, <2>1 DEF CheckForStopChanneling
<1>3. PICK r \in ProcessQueues(data) : Emit([r.data EXCEPT !.processed = FALSE], r.out)
  BY <1>2 DEF Frame
<1>4. r.data = [data EXCEPT !.processed = TRUE] /\ r.out = <<>>
  BY <1>1, <1>3, ChannelingWaits
<1>5. data' = [r.data EXCEPT !.processed = FALSE]
  BY <1>3 DEF Emit
<1>6. data'.channeling = data.channeling /\ data'.left = data.left
  BY <1>1, <1>4, <1>5 DEF Data
<1>7. TypeOK
  BY Parts DEF CutInv
<1> QED
  BY <1>1, <1>3, <1>4, <1>6, <1>7, EmitNone

LEMMA CutParts ==
  ASSUME CutInv
  PROVE  /\ IInv /\ Answered /\ Shortened /\ Sync
         /\ known <= casts - Len(sent) /\ server.cast <= casts - Len(sent)
         /\ StartsBy(packets, casts - Len(sent)) /\ Reduction \in Nat
  BY TimeAssumption DEF CutInv, Answered

(* Steps that leave the server and its packets alone.                        *)
LEMMA SameChannel ==
  ASSUME CutInv, UNCHANGED <<packets, server, known>>,
         casts' - Len(sent') = casts - Len(sent)
  PROVE  Answered' /\ Shortened'
  BY CutParts DEF Answered, Shortened

LEMMA PressCut ==
  ASSUME CutInv, QueueChanneling, ~InterruptOutside,
         NEW s \in Spells, NEW n \in BOOLEAN, NEW d \in BOOLEAN, Press(s, n, d)
  PROVE  Answered' /\ Shortened' /\ Sync'
<1>1. TypeOK /\ Numbered /\ Known /\ data \in Data /\ known \in Nat /\ begun \in Nat
  BY CutParts, Parts
<1>2. PICK first \in ProcessQueues(data) :
        \E then \in CastSpell(DoublePress(first.data, d), s, n) :
              Emit(then.data, first.out \o then.out)
  BY DEF Press
<1>3. PICK then \in CastSpell(DoublePress(first.data, d), s, n) :
              Emit(then.data, first.out \o then.out)
  BY <1>2
<1>4. Kept(data, first)
  BY <1>1, ProcessQueuesKept
<1>5. Kept(DoublePress(first.data, d), then)
  BY <1>4, DoublePressKept, CastSpellKept DEF Kept
<1>6. PICK e, out : e = then.data /\ out = first.out \o then.out
  OBVIOUS
<1>7. out \in Seq(Spells) /\ Len(out) \in 0..2
  <2>1. first.out \in Seq(Spells) /\ then.out \in Seq(Spells)
        /\ Len(first.out) \in 0..1 /\ Len(then.out) \in 0..1
    BY <1>4, <1>5, OneOrNone DEF Kept
  <2>2. PICK a, b : a = first.out /\ b = then.out
    OBVIOUS
  <2>3. a \in Seq(Spells) /\ b \in Seq(Spells) /\ out = a \o b
    BY <1>6, <2>1, <2>2
  <2>4. out \in Seq(Spells) /\ Len(out) = Len(a) + Len(b)
    BY <2>3, Sending
  <2>5. PICK l, m : l = Len(a) /\ m = Len(b)
    OBVIOUS
  <2>6. l \in 0..1 /\ m \in 0..1 /\ Len(out) = l + m
    BY <2>1, <2>2, <2>4, <2>5
  <2>7. l + m \in 0..2
    BY <2>6
  <2> QED
    BY <2>4, <2>6, <2>7
<1>8. Emit(e, out)
  BY <1>3, <1>6
<1>9. casts' - Len(sent') = casts - Len(sent) /\ begun' \in Nat /\ begun <= begun'
  <2>1. casts' - Len(sent') = casts - Len(sent) /\ begun' \in 0..casts' /\ begun <= begun'
        /\ casts' \in Nat
    BY <1>1, <1>7, <1>8, Emitted
  <2> QED
    BY <2>1
<1>10. UNCHANGED <<packets, server, known>> /\ lost' = (lost \/ s \in OnHit)
       /\ stopFor' \in {stopFor, begun'}
  BY DEF Press
<1>11. Answered' /\ Shortened'
  BY <1>9, <1>10, SameChannel
<1>12. ASSUME Running' PROVE data'.channeling /\ data'.left >= server'.left
  <2>1. known <= begun
    BY <1>1 DEF Known
  <2>2. ~(begun' < known)
    BY <1>1, <1>9, <2>1
  <2>3. stopFor' = stopFor /\ s \notin OnHit /\ ~lost
    BY <1>10, <1>12, <2>2 DEF Running
  <2>4. Running
    BY <1>10, <1>12, <2>3 DEF Running
  <2>5. data'.channeling /\ data'.left = data.left
    BY <2>3, <2>4, PressQuiet
  <2> QED
    BY <1>10, <2>4, <2>5, CutParts DEF Sync, Running
<1>13. Sync'
  BY <1>12 DEF Sync, Running
<1> QED
  BY <1>11, <1>13

LEMMA FrameCut ==
  ASSUME CutInv, QueueChanneling, ~InterruptOutside, Frame
  PROVE  Answered' /\ Shortened' /\ Sync'
<1>1. TypeOK /\ Numbered /\ Known /\ data \in Data
  BY CutParts, Parts
<1>2. PICK c : c = CheckForStopChanneling(data)
  OBVIOUS
<1>3. NoNews(data, c)
  BY <1>1, <1>2, StopCheckNews
<1>4. PICK r \in ProcessQueues(c) : Emit([r.data EXCEPT !.processed = FALSE], r.out)
  BY <1>2 DEF Frame
<1>5. Kept(c, r)
  BY <1>3, ProcessQueuesKept DEF NoNews
<1>6. PICK e, out : e = [r.data EXCEPT !.processed = FALSE] /\ out = r.out
  OBVIOUS
<1>7. out \in Seq(Spells) /\ Len(out) \in 0..2
  <2>1. out \in Seq(Spells) /\ Len(out) \in 0..1
    BY <1>5, <1>6, OneOrNone DEF Kept
  <2> QED
    BY <2>1
<1>8. casts' - Len(sent') = casts - Len(sent)
  <2>1. Emit(e, out)
    BY <1>4, <1>6
  <2> QED
    BY <1>1, <1>7, <2>1, Emitted
<1>9. UNCHANGED <<packets, server, known>> /\ lost' = lost /\ stopFor' = stopFor
  BY DEF Frame
<1>10. Answered' /\ Shortened'
  BY <1>8, <1>9, SameChannel
<1>11. ASSUME Running' PROVE data'.channeling /\ data'.left >= server'.left
  <2>1. Running
    BY <1>9, <1>11 DEF Running
  <2>2. data'.channeling /\ data'.left = data.left
    BY <2>1, FrameQuiet
  <2> QED
    BY <1>9, <2>1, <2>2, CutParts DEF Sync, Running
<1>12. Sync'
  BY <1>11 DEF Sync, Running
<1> QED
  BY <1>10, <1>12

LEMMA StopCut ==
  ASSUME CutInv, ChannelStopCastingNextTick
  PROVE  Answered' /\ Shortened' /\ Sync'
<1>1. /\ data' = [data EXCEPT !.cancel = TRUE] /\ stopFor' = begun
      /\ UNCHANGED <<sent, packets, server, casts, known, begun, lost>>
  BY DEF ChannelStopCastingNextTick
<1>2. Answered' /\ Shortened'
  BY <1>1, SameChannel
<1>3. known <= begun /\ known \in Nat /\ begun \in Nat
  BY CutParts, Parts DEF Known
<1>4. ~(begun < known)
  BY <1>3
<1> QED
  BY <1>1, <1>2, <1>4 DEF Sync

------------------------------------------------------------------------------
(* Packets, and what the starts and updates among them say.                  *)
LEMMA AddAny ==
  ASSUME NEW ps \in Seq(Packets), NEW p \in Packets, NEW qs, qs = Append(ps, p)
  PROVE  /\ qs \in Seq(Packets)
         /\ \A n : StartsBy(ps, n) /\ (p.kind = "start" => p.cast <= n /\ p.left = Duration)
                     => StartsBy(qs, n)
         /\ \A n : NotLess(ps, n) /\ (p.kind = "update" => p.left >= n) => NotLess(qs, n)
         /\ \A c, n : ThenNotLess(ps, c, n) /\ (p.kind = "update" => p.left >= n)
                        => ThenNotLess(qs, c, n)
         /\ \A c, n : (\A i \in 1..Len(ps) : ps[i].kind = "start" => ps[i].cast # c)
                        => ThenNotLess(qs, c, n)
<1>1. /\ qs \in Seq(Packets) /\ Len(qs) = Len(ps) + 1 /\ Len(ps) \in Nat
      /\ qs[Len(ps) + 1] = p /\ \A i \in 1..Len(ps) : qs[i] = ps[i]
  OBVIOUS
<1>2. \A i \in 1..Len(qs) :
        \/ i \in 1..Len(ps) /\ qs[i] = ps[i]
        \/ i = Len(ps) + 1 /\ qs[i] = p
  <2>1. ASSUME NEW i \in 1..Len(qs), i # Len(ps) + 1
        PROVE  i \in 1..Len(ps) /\ qs[i] = ps[i]
    BY <1>1, <2>1
  <2>2. qs[Len(ps) + 1] = p
    BY <1>1
  <2> QED
    BY <2>1, <2>2
<1>3. ASSUME NEW n, StartsBy(ps, n), p.kind = "start" => p.cast <= n /\ p.left = Duration
      PROVE  StartsBy(qs, n)
  BY <1>2, <1>3 DEF StartsBy
<1>4. ASSUME NEW n, NotLess(ps, n), p.kind = "update" => p.left >= n
      PROVE  NotLess(qs, n)
  BY <1>2, <1>4 DEF NotLess
<1>5. ASSUME NEW c, NEW n, ThenNotLess(ps, c, n), p.kind = "update" => p.left >= n
      PROVE  ThenNotLess(qs, c, n)
  <2> SUFFICES ASSUME NEW i \in 1..Len(qs), qs[i].kind = "start", qs[i].cast = c,
                      NEW j \in (i + 1)..Len(qs), qs[j].kind = "update"
               PROVE  qs[j].left >= n
    BY DEF ThenNotLess
  <2>1. i \in 1..Len(ps) /\ qs[i] = ps[i] /\ j \in 1..Len(qs)
    BY <1>1, <1>2
  <2>2. CASE j \in 1..Len(ps) /\ qs[j] = ps[j]
    <3>1. j \in (i + 1)..Len(ps)
      BY <1>1, <2>1, <2>2
    <3> QED
      BY <1>5, <2>1, <2>2, <3>1 DEF ThenNotLess
  <2>3. CASE qs[j] = p
    BY <1>5, <2>3
  <2> QED
    BY <1>2, <2>1, <2>2, <2>3
<1>6. ASSUME NEW c, NEW n, \A i \in 1..Len(ps) : ps[i].kind = "start" => ps[i].cast # c
      PROVE  ThenNotLess(qs, c, n)
  <2> SUFFICES ASSUME NEW i \in 1..Len(qs), qs[i].kind = "start", qs[i].cast = c,
                      NEW j \in (i + 1)..Len(qs)
               PROVE  FALSE
    BY DEF ThenNotLess
  <2>1. i = Len(ps) + 1
    BY <1>2, <1>6
  <2> QED
    BY <1>1, <2>1
<1> QED
  BY <1>1, <1>3, <1>4, <1>5, <1>6

LEMMA DropAny ==
  ASSUME NEW ps \in Seq(Packets), ps # <<>>, NEW qs, qs = Tail(ps), NEW p, p = Head(ps)
  PROVE  /\ qs \in Seq(Packets) /\ p \in Packets
         /\ \A n : StartsBy(ps, n) => /\ StartsBy(qs, n)
                                      /\ p.kind = "start" => p.cast <= n /\ p.left = Duration
         /\ \A n : NotLess(ps, n) => /\ NotLess(qs, n)
                                     /\ p.kind = "update" => p.left >= n
         /\ \A c, n : ThenNotLess(ps, c, n) =>
              /\ ThenNotLess(qs, c, n)
              /\ p.kind = "start" /\ p.cast = c => NotLess(qs, n)
<1>1. /\ qs \in Seq(Packets) /\ p \in Packets /\ 1 \in 1..Len(ps) /\ p = ps[1]
      /\ Len(ps) \in Nat /\ Len(qs) = Len(ps) - 1
      /\ \A i \in 1..Len(qs) : i + 1 \in 1..Len(ps) /\ qs[i] = ps[i + 1]
  BY Taken
<1>2. ASSUME NEW n, StartsBy(ps, n)
      PROVE  StartsBy(qs, n) /\ (p.kind = "start" => p.cast <= n /\ p.left = Duration)
  BY <1>1, <1>2 DEF StartsBy
<1>3. ASSUME NEW n, NotLess(ps, n)
      PROVE  NotLess(qs, n) /\ (p.kind = "update" => p.left >= n)
  BY <1>1, <1>3 DEF NotLess
<1>4. ASSUME NEW c, NEW n, ThenNotLess(ps, c, n)
      PROVE  ThenNotLess(qs, c, n)
  <2> SUFFICES ASSUME NEW i \in 1..Len(qs), qs[i].kind = "start", qs[i].cast = c,
                      NEW j \in (i + 1)..Len(qs), qs[j].kind = "update"
               PROVE  qs[j].left >= n
    BY DEF ThenNotLess
  <2>1. i + 1 \in 1..Len(ps) /\ qs[i] = ps[i + 1]
    BY <1>1
  <2>2. j \in 1..Len(qs) /\ j + 1 \in ((i + 1) + 1)..Len(ps)
    BY <1>1
  <2>3. qs[j] = ps[j + 1]
    BY <1>1, <2>2
  <2> QED
    BY <1>4, <2>1, <2>2, <2>3 DEF ThenNotLess
<1>5. ASSUME NEW c, NEW n, ThenNotLess(ps, c, n), p.kind = "start", p.cast = c
      PROVE  NotLess(qs, n)
  <2> SUFFICES ASSUME NEW j \in 1..Len(qs), qs[j].kind = "update" PROVE qs[j].left >= n
    BY DEF NotLess
  <2>1. j + 1 \in (1 + 1)..Len(ps) /\ qs[j] = ps[j + 1]
    BY <1>1
  <2> QED
    BY <1>1, <1>5, <2>1 DEF ThenNotLess
<1> QED
  BY <1>1, <1>2, <1>3, <1>4, <1>5

LEMMA StillNotLess ==
  ASSUME NEW ps \in Seq(Packets), NEW n \in Nat, NEW m \in Nat, m <= n
  PROVE  /\ NotLess(ps, n) => NotLess(ps, m)
         /\ \A c : ThenNotLess(ps, c, n) => ThenNotLess(ps, c, m)
<1>1. \A j \in 1..Len(ps) : ps[j].left \in Nat
  <2>1. \A j \in 1..Len(ps) : ps[j] \in Packets
    BY ElementOf
  <2> QED
    BY <2>1, Times DEF Packets
<1>2. \A j \in 1..Len(ps) : ps[j].left >= n => ps[j].left >= m
  BY <1>1
<1>3. NotLess(ps, n) => NotLess(ps, m)
  BY <1>2 DEF NotLess
<1>4. \A i \in 1..Len(ps) : \A j \in (i + 1)..Len(ps) : j \in 1..Len(ps)
  BY ElementOf
<1>5. ASSUME NEW c, ThenNotLess(ps, c, n) PROVE ThenNotLess(ps, c, m)
  BY <1>2, <1>4, <1>5 DEF ThenNotLess
<1> QED
  BY <1>3, <1>5

LEMMA StartsLater ==
  ASSUME NEW ps \in Seq(Packets), NEW n \in Int, StartsBy(ps, n)
  PROVE  /\ StartsBy(ps, n + 1)
         /\ \A i \in 1..Len(ps) : ps[i].kind = "start" => ps[i].cast # n + 1
<1>1. \A i \in 1..Len(ps) : ps[i].cast \in Nat
  <2>1. \A i \in 1..Len(ps) : ps[i] \in Packets
    BY ElementOf
  <2> QED
    BY <2>1 DEF Packets
<1> QED
  BY <1>1 DEF StartsBy
------------------------------------------------------------------------------
LEMMA CutTyped ==
  ASSUME CutInv
  PROVE  /\ packets \in Seq(Packets) /\ data \in Data
         /\ server.cast \in Nat /\ server.left \in Nat /\ server.left <= Duration
         /\ known \in Nat /\ data.left \in Nat /\ casts \in Nat /\ Len(sent) \in Nat
         /\ casts - Len(sent) \in Nat
<1>1. /\ packets \in Seq(Packets) /\ data \in Data /\ known \in Nat /\ casts \in Nat
      /\ server \in [cast : 0..casts, left : 0..Duration]
      /\ sent \in Seq([cast : 1..casts, spell : Spells])
  BY CutParts, Parts
<1>2. data.left \in Nat /\ server.cast \in Nat /\ server.left \in Nat /\ server.left <= Duration
  BY <1>1, Times DEF Data
<1>3. Len(sent) \in Nat
  BY <1>1, ElementOf
<1>4. known <= casts - Len(sent)
  BY CutParts
<1> QED
  BY <1>1, <1>2, <1>3, <1>4

LEMMA TickCut ==
  ASSUME CutInv, Tick
  PROVE  Answered' /\ Shortened' /\ Sync'
<1>1. /\ data' = [data EXCEPT !.left = Minus(@, 1), !.gcd = Minus(@, 1),
                          !.age = IF @ \in {NoAge, AgeLimit} THEN @ ELSE @ + 1]
      /\ server' = IF server.left > 1 THEN [server EXCEPT !.left = @ - 1] ELSE Idle
      /\ packets' = IF server.left = 1 THEN Append(packets, Update(server.cast, 0)) ELSE packets
      /\ UNCHANGED <<sent, casts, known, stopFor, lost>>
  BY DEF Tick, ghosts
<1>2. data'.channeling = data.channeling /\ data'.left = Minus(data.left, 1)
  BY <1>1, CutTyped DEF Data
<1>3. CASE server.left > 1
  <2>1. server' = [server EXCEPT !.left = @ - 1] /\ packets' = packets
    <3>1. server.left # 1
      BY <1>3, CutTyped
    <3> QED
      BY <1>1, <1>3, <3>1
  <2>2. server'.cast = server.cast /\ server'.left = server.left - 1
    BY <2>1, CutParts, Parts
  <2>3. Answered'
    BY <1>1, <2>1, <2>2, CutParts DEF Answered
  <2>4. server'.left \in Nat /\ server'.left <= server.left
    BY <1>3, <2>2, CutTyped
  <2>5. /\ NotLess(packets, server.left) => NotLess(packets, server'.left)
        /\ \A c : ThenNotLess(packets, c, server.left) => ThenNotLess(packets, c, server'.left)
    <3>1. PICK m : m = server'.left
      OBVIOUS
    <3> QED
      BY <2>4, <3>1, CutTyped, StillNotLess
  <2>6. Shortened'
    BY <1>1, <2>1, <2>2, <2>5, CutParts DEF Shortened
  <2>7. Sync'
    <3>1. server'.left > Reduction => server.left > Reduction
      BY <2>2, CutTyped, CutParts
    <3>2. data.left >= server.left => data'.left >= server'.left
      BY <1>2, <1>3, <2>2, CutTyped DEF Minus
    <3> QED
      BY <1>1, <1>2, <2>2, <3>1, <3>2, CutParts DEF Sync
  <2> QED
    BY <2>3, <2>6, <2>7
<1>4. CASE ~(server.left > 1)
  <2>1. server' = Idle /\ server'.cast = 0
    BY <1>1, <1>4 DEF Idle
  <2>2. StartsBy(packets', casts - Len(sent))
    <3>1. PICK p : p = Update(server.cast, 0)
      OBVIOUS
    <3>2. p \in Packets /\ p.kind # "start"
      BY <3>1, CutTyped, Times DEF Update, Packets
    <3>3. packets' = packets \/ packets' = Append(packets, p)
      BY <1>1, <3>1
    <3> QED
      BY <3>2, <3>3, CutParts, CutTyped, AddAny
  <2>3. Answered'
    BY <1>1, <2>1, <2>2, CutParts, CutTyped DEF Answered
  <2> QED
    BY <1>1, <2>1, <2>3 DEF Shortened, Sync
<1> QED
  BY <1>3, <1>4

LEMMA PushbackCut ==
  ASSUME CutInv, NEW d \in 0..Duration, Pushback(d)
  PROVE  Answered' /\ Shortened' /\ Sync'
<1>1. /\ server.left > d
      /\ server' = IF d = 0 THEN Idle ELSE [server EXCEPT !.left = d]
      /\ packets' = Append(packets, Update(server.cast, d))
      /\ UNCHANGED <<data, sent, casts, known, stopFor, lost>>
  BY DEF Pushback, ghosts
<1>2. PICK p : p = Update(server.cast, d)
  OBVIOUS
<1>3. p \in Packets /\ p.kind # "start" /\ p.left = d /\ packets' = Append(packets, p)
  BY <1>1, <1>2, CutTyped DEF Update, Packets
<1>4. StartsBy(packets', casts - Len(sent))
  BY <1>3, CutParts, CutTyped, AddAny
<1>5. CASE d = 0
  <2>1. server'.cast = 0
    BY <1>1, <1>5 DEF Idle
  <2>2. Answered'
    BY <1>1, <1>4, <2>1, CutParts, CutTyped DEF Answered
  <2> QED
    BY <1>1, <2>1, <2>2 DEF Shortened, Sync
<1>6. CASE d # 0
  <2>1. server'.cast = server.cast /\ server'.left = d
    BY <1>1, <1>6, CutParts, Parts
  <2>2. Answered'
    BY <1>1, <1>4, <2>1, CutParts DEF Answered
  <2>3. d \in Nat /\ d <= server.left /\ p.left >= d
    BY <1>1, <1>3, CutTyped, Times
  <2>4. /\ NotLess(packets, server.left) => NotLess(packets', d)
        /\ \A c : ThenNotLess(packets, c, server.left) => ThenNotLess(packets', c, d)
    <3>1. /\ NotLess(packets, server.left) => NotLess(packets, d)
          /\ \A c : ThenNotLess(packets, c, server.left) => ThenNotLess(packets, c, d)
      BY <2>3, CutTyped, StillNotLess
    <3> QED
      BY <1>3, <2>3, <3>1, CutTyped, AddAny
  <2>5. Shortened'
    BY <1>1, <2>1, <2>4, CutParts DEF Shortened
  <2>6. Sync'
    <3>1. d > Reduction => server.left > Reduction
      BY <1>1, <2>3, CutTyped, CutParts
    <3>2. data.left >= server.left => data.left >= d
      BY <2>3, CutTyped
    <3> QED
      BY <1>1, <2>1, <3>1, <3>2, CutParts DEF Sync
  <2> QED
    BY <2>2, <2>5, <2>6
<1> QED
  BY <1>5, <1>6

LEMMA RejectsCut ==
  ASSUME CutInv, ServerRejects
  PROVE  Answered' /\ Shortened' /\ Sync'
<1>1. /\ sent # <<>> /\ packets' = Append(packets, Failure(Head(sent).cast)) /\ sent' = Tail(sent)
      /\ UNCHANGED <<data, server, casts, known, stopFor, lost>>
  BY DEF ServerRejects, ghosts
<1>2. Head(sent).cast \in Nat /\ Len(Tail(sent)) = Len(sent) - 1
  <2>1. sent \in Seq([cast : 1..casts, spell : Spells]) /\ casts \in Nat
    BY CutParts, Parts
  <2>2. /\ Head(sent) \in [cast : 1..casts, spell : Spells]
        /\ Len(Tail(sent)) = Len(sent) - 1
    BY <1>1, <2>1, Taken
  <2> QED
    BY <2>1, <2>2
<1>3. PICK p : p = Failure(Head(sent).cast)
  OBVIOUS
<1>4. p \in Packets /\ p.kind = "failure" /\ packets' = Append(packets, p)
  BY <1>1, <1>2, <1>3, Times DEF Failure, Packets
<1>5. casts' - Len(sent') = (casts - Len(sent)) + 1
  BY <1>1, <1>2, CutTyped
<1>6. StartsBy(packets', casts' - Len(sent'))
  <2>1. PICK n : n = casts - Len(sent)
    OBVIOUS
  <2>2. StartsBy(packets, n + 1)
    BY <2>1, CutParts, CutTyped, StartsLater
  <2>3. StartsBy(packets', n + 1)
    BY <1>4, <2>2, CutTyped, AddAny
  <2> QED
    BY <1>5, <2>1, <2>3
<1>7. Answered'
  <2>1. known <= casts' - Len(sent') /\ server.cast <= casts' - Len(sent')
    BY <1>5, CutParts, CutTyped
  <2> QED
    BY <1>1, <1>6, <2>1 DEF Answered
<1>8. /\ NotLess(packets, server.left) => NotLess(packets', server.left)
      /\ \A c : ThenNotLess(packets, c, server.left) => ThenNotLess(packets', c, server.left)
  BY <1>4, CutTyped, AddAny
<1>9. Shortened' /\ Sync'
  BY <1>1, <1>8, CutParts DEF Shortened, Sync
<1> QED
  BY <1>7, <1>9

LEMMA AcceptsCut ==
  ASSUME CutInv, ServerAccepts
  PROVE  Answered' /\ Shortened' /\ Sync'
<1> DEFINE c == Head(sent)
<1>1. /\ sent # <<>> /\ sent' = Tail(sent)
      /\ IF c.spell \in Channels
         THEN /\ server' = [cast |-> c.cast, left |-> Duration]
              /\ packets' = packets \o Ended \o <<Start(c.cast, c.spell)>>
         ELSE IF c.spell \in OnHit THEN UNCHANGED <<server, packets>>
         ELSE server' = Idle /\ packets' = packets \o Ended
      /\ UNCHANGED <<data, casts, known, stopFor, lost>>
  BY DEF ServerAccepts, ghosts
<1>2. /\ c.cast = (casts - Len(sent)) + 1 /\ c.spell \in Spells
      /\ Len(Tail(sent)) = Len(sent) - 1
  <2>1. sent \in Seq([cast : 1..casts, spell : Spells]) /\ casts \in Nat
    BY CutParts, Parts
  <2>2. /\ c \in [cast : 1..casts, spell : Spells] /\ c = sent[1] /\ 1 \in 1..Len(sent)
        /\ Len(Tail(sent)) = Len(sent) - 1
    BY <1>1, <2>1, Taken
  <2>3. sent[1].cast = casts - Len(sent) + 1
    BY <2>2, CutParts, Parts DEF Numbered
  <2> QED
    BY <2>1, <2>2, <2>3
<1> HIDE DEF c
<1>3. PICK n : n = casts - Len(sent)
  OBVIOUS
<1>4. n \in Nat /\ c.cast = n + 1 /\ casts' - Len(sent') = n + 1
  <2>1. casts' - Len(sent') = n + 1
    BY <1>1, <1>2, <1>3, CutTyped
  <2> QED
    BY <1>2, <1>3, <2>1, CutTyped
<1>5. /\ known <= n /\ server.cast <= n /\ StartsBy(packets, n)
  BY <1>3, CutParts
<1>6. PICK a, ps : a = Update(server.cast, 0) /\ ps = packets \o Ended
  OBVIOUS
<1>7. a \in Packets /\ a.kind = "update"
  BY <1>6, CutTyped, Times DEF Update, Packets
<1>8. ps \in Seq(Packets) /\ StartsBy(ps, n)
  <2>1. ps = packets \/ ps = Append(packets, a)
    <3>1. Ended = <<>> \/ Ended = <<a>>
      BY <1>6 DEF Ended
    <3>2. packets \in Seq(Packets)
      BY CutTyped
    <3> QED
      BY <1>6, <1>7, <3>1, <3>2, EndedAppended
  <2> QED
    BY <1>5, <1>7, <2>1, CutTyped, AddAny
<1>9. CASE c.spell \in Channels
  <2>1. PICK p : p = Start(c.cast, c.spell)
    OBVIOUS
  <2>2. p \in Packets /\ p.kind = "start" /\ p.cast = n + 1 /\ p.left = Duration
    BY <1>2, <1>4, <2>1, Times DEF Start, Packets
  <2>3. packets' = Append(ps, p)
    <3>1. packets' = ps \o <<p>>
      BY <1>1, <1>6, <1>9, <2>1
    <3> QED
      BY <1>8, <2>2, <3>1, EndedAppended
  <2>4. server' = [cast |-> n + 1, left |-> Duration]
    BY <1>1, <1>4, <1>9
  <2>5. /\ StartsBy(ps, n + 1)
        /\ \A i \in 1..Len(ps) : ps[i].kind = "start" => ps[i].cast # n + 1
    BY <1>4, <1>8, StartsLater
  <2>6. StartsBy(packets', n + 1) /\ ThenNotLess(packets', n + 1, Duration)
    <3>1. p.cast <= n + 1
      BY <1>4, <2>2
    <3> QED
      BY <1>8, <2>2, <2>3, <2>5, <3>1, AddAny
  <2>7. known' # server'.cast /\ known' <= n + 1 /\ server'.cast <= n + 1
    BY <1>1, <1>4, <1>5, <2>4, CutTyped
  <2>8. Answered'
    BY <1>4, <2>6, <2>7 DEF Answered
  <2>9. Shortened'
    BY <2>4, <2>6, <2>7 DEF Shortened
  <2>10. Sync'
    BY <2>7 DEF Sync
  <2> QED
    BY <2>8, <2>9, <2>10
<1>10. CASE c.spell \notin Channels /\ c.spell \in OnHit
  <2>1. UNCHANGED <<server, packets>>
    BY <1>1, <1>10
  <2>2. StartsBy(packets, n + 1) /\ known <= n + 1 /\ server.cast <= n + 1
    BY <1>4, <1>5, CutTyped, StartsLater
  <2>3. Answered'
    BY <1>1, <1>4, <2>1, <2>2 DEF Answered
  <2> QED
    BY <1>1, <2>1, <2>3, CutParts DEF Shortened, Sync
<1>11. CASE c.spell \notin Channels /\ c.spell \notin OnHit
  <2>1. server'.cast = 0 /\ packets' = ps
    BY <1>1, <1>6, <1>11 DEF Idle
  <2>2. StartsBy(packets', n + 1) /\ known <= n + 1 /\ 0 <= n + 1
    BY <1>4, <1>5, <1>8, <2>1, CutTyped, StartsLater
  <2>3. Answered'
    BY <1>1, <1>4, <2>1, <2>2 DEF Answered
  <2> QED
    BY <2>1, <2>3 DEF Shortened, Sync
<1> QED
  BY <1>9, <1>10, <1>11

(* Packets that the client takes in.                                         *)
LEMMA ReceiveCut ==
  ASSUME CutInv, packets # <<>>, packets' = Tail(packets), UNCHANGED <<sent, server, casts>>,
         \/ known' = 0 \/ known' = known
         \/ known' = Head(packets).cast /\ Head(packets).kind = "start"
  PROVE  Answered' /\ Shortened'
<1>1. PICK p, qs, n : p = Head(packets) /\ qs = Tail(packets) /\ n = casts - Len(sent)
  OBVIOUS
<1>2. n \in Nat /\ known <= n /\ server.cast <= n /\ StartsBy(packets, n)
  BY <1>1, CutParts, CutTyped
<1>3. StartsBy(qs, n) /\ (p.kind = "start" => p.cast <= n)
  BY <1>1, <1>2, CutTyped, DropAny
<1>4. known' <= n
  BY <1>1, <1>2, <1>3
<1>5. Answered'
  BY <1>1, <1>2, <1>3, <1>4 DEF Answered
<1>6. ASSUME server.cast # 0
      PROVE  /\ ThenNotLess(qs, server.cast, server.left)
             /\ known' = server.cast => NotLess(qs, server.left)
  <2>1. /\ known = server.cast => NotLess(packets, server.left)
        /\ ThenNotLess(packets, server.cast, server.left)
    BY <1>6, CutParts DEF Shortened
  <2>2. /\ ThenNotLess(qs, server.cast, server.left)
        /\ p.kind = "start" /\ p.cast = server.cast => NotLess(qs, server.left)
    BY <1>1, <2>1, CutTyped, DropAny
  <2>3. known = server.cast => NotLess(qs, server.left)
    BY <1>1, <2>1, CutTyped, DropAny
  <2> QED
    BY <1>1, <1>6, <2>2, <2>3
<1>7. Shortened'
  BY <1>1, <1>6 DEF Shortened
<1> QED
  BY <1>5, <1>7

LEMMA StartCut ==
  ASSUME CutInv, NEW a \in Amplitudes, ChannelStart(a)
  PROVE  Answered' /\ Shortened' /\ Sync'
<1>1. PICK p : p = Head(packets)
  OBVIOUS
<1>2. /\ packets # <<>> /\ p.kind = "start" /\ packets' = Tail(packets)
      /\ IF p.left > 0 /\ p.spell \notin FarSight
         THEN /\ data' = [data EXCEPT !.channeling = TRUE, !.age = 0, !.left = p.left,
                                      !.tick = TickTime(a, p.left)]
              /\ known' = p.cast
         ELSE data' = ResetChannelingFlags(data) /\ known' = 0
      /\ UNCHANGED <<sent, server, casts, stopFor>>
  BY <1>1 DEF ChannelStart, Receives
<1>3. Answered' /\ Shortened'
  BY <1>1, <1>2, ReceiveCut
<1>4. Sync'
  <2>1. CASE p.left > 0 /\ p.spell \notin FarSight
    <3>1. p.left = Duration
      BY <1>1, <1>2, CutParts, CutTyped, DropAny
    <3>2. data'.channeling /\ data'.left = p.left
      BY <1>2, <2>1, CutTyped DEF Data
    <3>3. data'.left >= server'.left
      BY <1>2, <3>1, <3>2, CutTyped, Times
    <3> QED
      BY <3>2, <3>3 DEF Sync
  <2>2. CASE ~(p.left > 0 /\ p.spell \notin FarSight)
    BY <1>2, <2>2 DEF Sync
  <2> QED
    BY <2>1, <2>2
<1> QED
  BY <1>3, <1>4

LEMMA UpdateCut ==
  ASSUME CutInv, ChannelUpdate
  PROVE  Answered' /\ Shortened' /\ Sync'
<1>1. PICK p : p = Head(packets)
  OBVIOUS
<1>2. /\ packets # <<>> /\ p.kind = "update" /\ packets' = Tail(packets)
      /\ IF p.left <= 0 THEN data' = ResetChannelingFlags(data) /\ known' = 0
         ELSE data' = [data EXCEPT !.left = p.left] /\ UNCHANGED known
      /\ UNCHANGED <<sent, server, casts, stopFor, lost>>
  BY <1>1 DEF ChannelUpdate, Receives
<1>3. Answered' /\ Shortened'
  BY <1>1, <1>2, ReceiveCut
<1>4. Sync'
  <2>1. CASE p.left <= 0
    BY <1>2, <2>1 DEF Sync
  <2>2. CASE ~(p.left <= 0)
    <3>1. data'.channeling = data.channeling /\ data'.left = p.left /\ known' = known
      BY <1>2, <2>2, CutTyped DEF Data
    <3>2. server.cast # 0 /\ known = server.cast => p.left >= server.left
      <4>1. ASSUME NotLess(packets, server.left) PROVE p.left >= server.left
        BY <1>1, <1>2, <4>1, CutTyped, DropAny
      <4> QED
        BY <4>1, CutParts DEF Shortened
    <3> QED
      BY <1>2, <3>1, <3>2, CutParts DEF Sync
  <2> QED
    BY <2>1, <2>2
<1> QED
  BY <1>3, <1>4

LEMMA FailedCut ==
  ASSUME CutInv, SpellFailed
  PROVE  Answered' /\ Shortened' /\ Sync'
<1>1. /\ packets # <<>> /\ packets' = Tail(packets) /\ lost' = TRUE
      /\ UNCHANGED <<sent, server, casts, known>>
  BY DEF SpellFailed, Receives
<1> QED
  BY <1>1, ReceiveCut DEF Sync
------------------------------------------------------------------------------
LEMMA InitCut == Init => CutInv
<1> SUFFICES ASSUME Init PROVE CutInv
  OBVIOUS
<1>1. /\ sent = <<>> /\ packets = <<>> /\ server.cast = 0 /\ casts = 0 /\ known = 0
  BY DEF Init, Idle
<1>2. 1..Len(packets) = {}
  BY <1>1
<1>4. casts - Len(sent) = 0
  <2>1. PICK n : n = Len(sent)
    OBVIOUS
  <2>2. n = 0 /\ casts = 0
    BY <1>1, <2>1
  <2>3. 0 - 0 = 0
    OBVIOUS
  <2> QED
    BY <2>1, <2>2, <2>3
<1>3. Answered /\ Shortened /\ Sync
  BY <1>1, <1>2, <1>4 DEF Answered, Shortened, Sync, StartsBy
<1> QED
  BY <1>3, InitInv DEF CutInv

LEMMA NextCut ==
  ASSUME QueueChanneling, ~InterruptOutside, CutInv, [Next]_vars
  PROVE  CutInv'
<1>1. IInv'
  <2>1. IInv /\ [Next]_vars
    BY CutParts
  <2>2. IInv /\ [Next]_vars => IInv'
    BY NextInv
  <2> QED
    BY <2>1, <2>2
<1>2. ASSUME NEW s \in Spells, NEW n \in BOOLEAN, NEW d \in BOOLEAN, Press(s, n, d)
      PROVE  Answered' /\ Shortened' /\ Sync'
  BY <1>2, PressCut
<1>3. ASSUME Frame PROVE Answered' /\ Shortened' /\ Sync'
  BY <1>3, FrameCut
<1>4. ASSUME NEW d \in 0..Duration, Pushback(d) PROVE Answered' /\ Shortened' /\ Sync'
  BY <1>4, PushbackCut
<1>5. ASSUME NEW a \in Amplitudes, ChannelStart(a) PROVE Answered' /\ Shortened' /\ Sync'
  BY <1>5, StartCut
<1>6. ASSUME UNCHANGED vars PROVE Answered' /\ Shortened' /\ Sync'
  <2>1. /\ data' = data /\ sent' = sent /\ packets' = packets /\ server' = server
        /\ casts' = casts /\ known' = known /\ stopFor' = stopFor /\ lost' = lost
    BY <1>6 DEF vars, ghosts
  <2>2. Answered' /\ Shortened'
    BY <2>1, CutParts DEF Answered, Shortened
  <2>3. Sync'
    BY <2>1, CutParts DEF Sync
  <2> QED
    BY <2>2, <2>3
<1>7. Answered' /\ Shortened' /\ Sync'
  BY <1>2, <1>3, <1>4, <1>5, <1>6, StopCut, TickCut, AcceptsCut, RejectsCut, UpdateCut, FailedCut
     DEF Next
<1>8. CutInv' = (IInv' /\ Answered' /\ Shortened' /\ Sync')
  BY DEF CutInv
<1> QED
  BY <1>1, <1>7, <1>8

LEMMA CastsSame ==
  ASSUME [Next]_vars, casts' # casts
  PROVE  (\E s \in Spells, n, d \in BOOLEAN : Press(s, n, d)) \/ Frame
BY DEF Next, ChannelStopCastingNextTick, Tick, ServerAccepts, ServerRejects, Pushback,
       ChannelStart, ChannelUpdate, SpellFailed, vars

LEMMA StepCut ==
  ASSUME QueueChanneling, ~InterruptOutside, CutInv, [Next]_vars, CutsShort
  PROVE  lost
<1> SUFFICES ASSUME ~lost PROVE FALSE
  BY CutParts, Parts
<1>1. Running /\ casts' # casts /\ sent = <<>>
  BY DEF CutsShort, Running
<1>2. PICK i \in 1..Len(sent') : sent'[i].spell \notin OnHit
  BY DEF CutsShort
<1>3. ASSUME NEW s \in Spells, NEW n \in BOOLEAN, NEW d \in BOOLEAN, Press(s, n, d)
      PROVE  FALSE
  BY <1>1, <1>2, <1>3, PressQuiet
<1>4. CASE Frame
  BY <1>1, <1>4, FrameQuiet
<1> QED
  BY <1>1, <1>3, <1>4, CastsSame

(* README.md:337-338, with queueing on and no interruption outside the       *)
(* window: a channel the client knows to run is not cut short by a cast by   *)
(* more than the latency reduction, unless the player asked for it, a cast   *)
(* was under way, or a failure or an on-hit spell hid the channel from the   *)
(* client.  For any spells, times and number of casts.                       *)
THEOREM NotCutShortTheorem ==
  ASSUME QueueChanneling, ~InterruptOutside
  PROVE  Spec => NotCutShort
<1>1. CutInv /\ [Next]_vars => CutInv'
  BY NextCut
<1>2. CutInv /\ [Next]_vars => [CutsShort => lost]_vars
  BY StepCut
<1> QED
  BY <1>1, <1>2, InitCut, PTL DEF Spec, NotCutShort
==============================================================================

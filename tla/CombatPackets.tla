---------------------------- MODULE CombatPackets ----------------------------
(* The hooks on the combat packets (spellevents.cpp).  A hook remembers the *)
(* packet's read position, reads the fields itself, tells addons, puts the  *)
(* position back and hands the packet to the client.  The layout of a       *)
(* packet depends on its contents: a target list, an extra byte for a       *)
(* reflected spell, another rest per kind of aura.                          *)
EXTENDS Integers, Sequences, FiniteSets

CONSTANTS
  Fighters, Me,  \* guids, and the active player's
  NoTarget,      \* guid 0
  LandingSpells, \* spell |-> its effects: <<[aura, aims]>>, aims the implicit target
  ArraySize,     \* MAX_ALLOWED_SPELL_TARGETS
  EventGates,    \* the settings that may be on: subsets of {"go", "aura", "heal", "energize"}
  Outcomes,      \* what a landed spell may do: [hits, misses], no unit twice
  Misread        \* what is read at a place where another field stands

AimKinds == {"caster", "none", "one", "enemies", "all"}
Outcome(o) ==
  /\ o.hits \in Seq(Fighters) /\ o.misses \in Seq([unit : Fighters, how : STRING])
  /\ \A i, j \in DOMAIN o.hits : o.hits[i] = o.hits[j] => i = j
ASSUME CombatConstants ==
  /\ \A spell \in DOMAIN LandingSpells : LandingSpells[spell] \in Seq([aura : BOOLEAN, aims : AimKinds]) \ {<<>>}
  /\ ArraySize \in Nat /\ \A o \in Outcomes : Outcome(o)

VARIABLES
  eventGates,  \* the event settings
  packet,      \* the packet that is handled, or was last; NoPacket: none since
  targetHitGuids, \* the static array of SpellGoHook
  told,        \* the events told of it
  readAt,      \* m_read: the field that is read next; 0: nobody reads
  doing,       \* where SpellGoHook is: "misses", "auras"; "handled": every hook has returned
  missed, missesRead, \* numTargetsMissed, and the loop's counter
  effect, turn \* the counters of TriggerAuraCastEvent

progress == <<readAt, doing, missed, missesRead, effect, turn>>
combatVars == <<eventGates, packet, targetHitGuids, told, progress>>

NoPacket == [kind |-> "none"]
GoPacket(caster, spell, outcome, target) ==
  [kind |-> "go", caster |-> caster, spell |-> spell, hits |-> outcome.hits, misses |-> outcome.misses,
   target |-> target]
Logs == {"damage", "heal", "energize", "resist", "immune"}
LogPackets == [kind : Logs, caster : Fighters, target : Fighters]
PeriodicPackets == [kind : {"periodic"}, aura : {"damage", "heal", "energize", "leech"},
                    caster : Fighters, target : Fighters]
MissPackets == [kind : {"missLog"}, caster : Fighters, target : Fighters]
VisualPacket == [kind |-> "visual"]
------------------------------------------------------------------------------
(* The fields of a packet by their places.  In SMSG_SPELL_GO the list of    *)
(* misses begins behind the hits, and a reflected one takes three fields.   *)
PacketField(type, value) == [type |-> type, value |-> value]
MissAt(p, i) == 4 + Len(p.hits) + 2 * (i - 1) + Cardinality({j \in 1..(i - 1) : p.misses[j].how = "reflect"})
MaskAt(p) == MissAt(p, Len(p.misses) + 1)

MissField(p, n) ==
  LET i == CHOOSE i \in DOMAIN p.misses : MissAt(p, i) <= n /\ n < MissAt(p, i + 1) IN
  CASE n = MissAt(p, i)     -> PacketField("u64", p.misses[i].unit)
    [] n = MissAt(p, i) + 1 -> PacketField("u8", p.misses[i].how)
    [] OTHER                -> PacketField("u8", "result")

GoField(p, n) ==
  CASE n = 1                              -> PacketField("u16", "flags")
    [] n = 2                              -> PacketField("u8", Len(p.hits))
    [] n \in 3..(2 + Len(p.hits))         -> PacketField("u64", p.hits[n - 2])
    [] n = 3 + Len(p.hits)                -> PacketField("u8", Len(p.misses))
    [] n \in MissAt(p, 1)..(MaskAt(p) - 1) -> MissField(p, n)
    [] n = MaskAt(p)                      -> PacketField("u16", IF p.target = NoTarget THEN "self" ELSE "unit")
    [] OTHER                              -> PacketField("packed", p.target)

Packed(unit) == <<PacketField("packed", unit)>>
Guid(unit) == <<PacketField("u64", unit)>>
Word(value) == <<PacketField("u32", value)>>
FieldsOf(p) ==
  CASE p.kind = "go" -> [n \in 1..(MaskAt(p) + IF p.target = NoTarget THEN 0 ELSE 1) |-> GoField(p, n)]
    [] p.kind \in {"damage", "heal", "energize"} ->
         Packed(p.target) \o Packed(p.caster) \o Word("spell") \o Word("amount")
    [] p.kind \in {"resist", "immune"} -> Guid(p.caster) \o Guid(p.target) \o Word("spell")
    [] p.kind = "periodic" ->
         Packed(p.target) \o Packed(p.caster) \o Word("spell") \o Word("count") \o Word(p.aura)
         \o (IF p.aura \in {"energize", "leech"} THEN Word("power") ELSE <<>>) \o Word("amount")
    [] p.kind = "missLog" ->
         Word("spell") \o Guid(p.caster) \o <<PacketField("u8", "unk")>> \o Word("count") \o Guid(p.target)
         \o <<PacketField("u8", "resist")>>
    [] OTHER -> <<>>

(* CDataStore::Get and GetPackedGuid.                                       *)
Aligned(fields, i, type) == i \in DOMAIN fields /\ fields[i].type = type
Get(fields, i, type) == IF Aligned(fields, i, type) THEN fields[i].value ELSE Misread

Event(name, from, on, what) == <<[event |-> name, self |-> from = Me, from |-> from, on |-> on, what |-> what]>>
TriggerSpellMissEvent(from, on, how) == Event("SPELL_MISS", from, on, how)
TriggerSpellDamageEvent(from, on) == Event("SPELL_DAMAGE_EVENT", from, on, "damage")
(* Told by its caster, and again when the player is the target.             *)
Twice(name, from, on) ==
  Event(name, from, on, "by") \o (IF on = Me THEN Event(name, from, on, "onSelf") ELSE <<>>)
TriggerSpellHealEvent(from, on) == IF "heal" \in eventGates THEN Twice("SPELL_HEAL", from, on) ELSE <<>>
TriggerSpellEnergizeEvent(from, on) == IF "energize" \in eventGates THEN Twice("SPELL_ENERGIZE", from, on) ELSE <<>>
------------------------------------------------------------------------------
BehindWithoutReflect(fields, at) == at + 2   \* mutant: the reflect result stays in the packet

(* The place behind one entry of the miss list.                             *)
Behind(fields, at) == at + 2 + IF Get(fields, at + 1, "u8") = "reflect" THEN 1 ELSE 0

(* SpellGoHook: the hits go into the array, as many as it holds.            *)
SpellGo(p) ==
  LET fields == FieldsOf(p)
      n == Get(fields, 2, "u8")
      atMisses == 3 + (IF n < ArraySize THEN n ELSE ArraySize)
  IN  /\ targetHitGuids' = [i \in 1..ArraySize |-> IF i <= n THEN Get(fields, 2 + i, "u64") ELSE targetHitGuids[i]]
      /\ missed' \in IF Aligned(fields, atMisses, "u8") THEN {fields[atMisses].value} ELSE 0..ArraySize
      /\ readAt' = atMisses + 1 /\ told' = <<>>
      /\ doing' = "misses" /\ missesRead' = 0 /\ effect' = 1 /\ turn' = 1

(* Its loop over the misses.                                                *)
ReadMiss ==
  /\ doing = "misses" /\ missesRead < missed
  /\ LET fields == FieldsOf(packet) IN
     /\ told' = told \o TriggerSpellMissEvent(packet.caster, Get(fields, readAt, "u64"), Get(fields, readAt + 1, "u8"))
     /\ readAt' = Behind(fields, readAt)
  /\ missesRead' = missesRead + 1
  /\ UNCHANGED <<eventGates, packet, targetHitGuids, doing, missed, effect, turn>>

(* Behind it: the target, the event, and the packet to the client.          *)
Landed ==
  /\ doing = "misses" /\ missesRead = missed
  /\ LET fields == FieldsOf(packet)
         target == IF Get(fields, readAt, "u16") = "unit" THEN Get(fields, readAt + 1, "packed") ELSE NoTarget
     IN  told' = told \o IF "go" \in eventGates
                         THEN Event("SPELL_GO", packet.caster, target, <<Get(fields, 2, "u8"), missed>>) ELSE <<>>
  /\ readAt' = 1
  /\ doing' = IF "aura" \in eventGates THEN "auras" ELSE "handled"
  /\ UNCHANGED <<eventGates, packet, targetHitGuids, missed, missesRead, effect, turn>>

(* TriggerAuraCastEvent: how many units it looks at for an effect, and the  *)
(* t-th of them.  "n" is the number of targets the packet has, of which the *)
(* array holds the first.                                                   *)
Hit(i) == IF i <= ArraySize THEN targetHitGuids[i] ELSE Misread
Rounds(e, n) ==
  IF ~e.aura THEN 0
  ELSE IF n = 0 \/ e.aims \in {"caster", "none", "one"} THEN 1 ELSE n
Affected(e, n, t) ==
  IF e.aims = "caster" THEN packet.caster
  ELSE IF n = 0 \/ e.aims = "none" THEN NoTarget ELSE Hit(t)
Spared(e, n, t) == e.aims = "enemies" /\ n # 0 /\ Affected(e, n, t) = packet.caster

CastEffects == LandingSpells[packet.spell]
AuraCast ==
  /\ doing = "auras" /\ effect \in DOMAIN CastEffects
  /\ LET n == Get(FieldsOf(packet), 2, "u8")
         e == CastEffects[effect]
         unit == Affected(e, n, turn)
     IN  /\ turn <= Rounds(e, n)
         /\ told' = told \o IF Spared(e, n, turn) THEN <<>>
              ELSE <<[event |-> "AURA_CAST", self |-> unit = Me, from |-> packet.caster, on |-> unit, what |-> effect]>>
  /\ turn' = turn + 1
  /\ UNCHANGED <<eventGates, packet, targetHitGuids, readAt, doing, missed, missesRead, effect>>

NextEffect ==
  /\ doing = "auras" /\ effect \in DOMAIN CastEffects
  /\ turn > Rounds(CastEffects[effect], Get(FieldsOf(packet), 2, "u8"))
  /\ effect' = effect + 1 /\ turn' = 1
  /\ doing' = IF effect = Len(CastEffects) THEN "handled" ELSE "auras"
  /\ UNCHANGED <<eventGates, packet, targetHitGuids, told, readAt, missed, missesRead>>

(* The other hooks read fields at the start of their packets only.          *)
PeriodicAuraLogHandler(p) ==
  LET f == FieldsOf(p)  on == Get(f, 1, "packed")  from == Get(f, 2, "packed")  aura == Get(f, 5, "u32") IN
  told' = CASE aura = "damage"   -> TriggerSpellDamageEvent(from, on)
            [] aura = "heal"     -> TriggerSpellHealEvent(from, on)
            [] aura = "energize" -> TriggerSpellEnergizeEvent(from, on)
            [] OTHER             -> <<>>

LogHandler(p) ==
  LET f == FieldsOf(p) IN
  told' = CASE p.kind = "damage"   -> TriggerSpellDamageEvent(Get(f, 2, "packed"), Get(f, 1, "packed"))
            [] p.kind = "heal"     -> TriggerSpellHealEvent(Get(f, 2, "packed"), Get(f, 1, "packed"))
            [] p.kind = "energize" -> TriggerSpellEnergizeEvent(Get(f, 2, "packed"), Get(f, 1, "packed"))
            [] p.kind = "resist"   -> TriggerSpellMissEvent(Get(f, 1, "u64"), Get(f, 2, "u64"), "resist")
            [] p.kind = "immune"   -> TriggerSpellMissEvent(Get(f, 1, "u64"), Get(f, 2, "u64"), "immune")

(* SpellLogMissHandlerHook: the first entry of the list only.               *)
SpellLogMissHandler(p) ==
  LET f == FieldsOf(p) IN told' = TriggerSpellMissEvent(Get(f, 2, "u64"), Get(f, 5, "u64"), Get(f, 6, "u8"))

(* A hook, of which only SpellGoHook takes several steps;                   *)
(* PlaySpellVisualHandlerHook never calls the client's handler.             *)
Handle(p) ==
  /\ packet' = p
  /\ UNCHANGED eventGates
  /\ \/ p.kind = "go" /\ SpellGo(p)
     \/ /\ \/ p.kind = "periodic" /\ PeriodicAuraLogHandler(p)
           \/ p.kind = "missLog" /\ SpellLogMissHandler(p)
           \/ p.kind = "visual" /\ told' = <<>>
           \/ p.kind \in Logs /\ LogHandler(p)
        /\ readAt' = IF p.kind = "visual" THEN 0 ELSE 1
        /\ doing' = "handled" /\ UNCHANGED <<targetHitGuids, missed, missesRead, effect, turn>>

PacketDone ==
  /\ packet # NoPacket /\ doing = "handled"
  /\ packet' = NoPacket /\ told' = <<>> /\ readAt' = 0
  /\ missed' = 0 /\ missesRead' = 0 /\ effect' = 1 /\ turn' = 1
  /\ UNCHANGED <<eventGates, targetHitGuids, doing>>

CombatInit ==
  /\ eventGates \in EventGates /\ targetHitGuids = [i \in 1..ArraySize |-> NoTarget]
  /\ packet = NoPacket /\ told = <<>> /\ readAt = 0 /\ doing = "handled"
  /\ missed = 0 /\ missesRead = 0 /\ effect = 1 /\ turn = 1

CombatNext ==
  \/ /\ packet = NoPacket
     /\ \/ \E caster \in Fighters, spell \in DOMAIN LandingSpells, o \in Outcomes, target \in {NoTarget, Me} :
             Handle(GoPacket(caster, spell, o, target))
        \/ \E p \in LogPackets \cup PeriodicPackets \cup MissPackets : Handle(p)
        \/ Handle(VisualPacket)
  \/ ReadMiss \/ Landed \/ AuraCast \/ NextEffect \/ PacketDone

CombatSpec == CombatInit /\ [][CombatNext]_combatVars
------------------------------------------------------------------------------
CombatTypeOK ==
  /\ eventGates \in EventGates /\ readAt \in Nat /\ (packet = NoPacket => told = <<>>)
  /\ targetHitGuids \in [1..ArraySize -> Fighters \cup {NoTarget}]

Aims(e) ==
  CASE e.aims = "caster" -> {packet.caster}
    [] e.aims = "none"   -> {NoTarget}
    [] e.aims = "one"    -> IF packet.hits = <<>> THEN {NoTarget} ELSE {packet.hits[1]}
    [] OTHER             -> IF packet.hits = <<>> THEN {NoTarget}
                            ELSE {packet.hits[i] : i \in DOMAIN packet.hits}
                                   \ (IF e.aims = "enemies" THEN {packet.caster} ELSE {})
AuraCasts(unit, e) == {i \in DOMAIN told : told[i].event = "AURA_CAST" /\ told[i].on = unit /\ told[i].what = e}

(* What addons are told of a spell that landed is what the server sent:     *)
(* every missed unit once and with its own result, also behind a reflected  *)
(* one, then the counts and the target, and for every aura effect each unit *)
(* it is meant for once (spellevents.cpp:1026-1110, 788-868).  It takes a   *)
(* packet of at most MAX_ALLOWED_SPELL_TARGETS units: behind more of them   *)
(* the list of misses is read at the wrong place, and the aura events go    *)
(* beyond the array.                                                        *)
LandedAsSent ==
  (packet.kind = "go" /\ doing = "handled" /\ Len(packet.hits) <= ArraySize) =>
    /\ \A i \in DOMAIN packet.misses :
         i \in DOMAIN told /\ <<told[i]>> = Event("SPELL_MISS", packet.caster, packet.misses[i].unit, packet.misses[i].how)
    /\ \A i \in DOMAIN told : told[i].event = "SPELL_MISS" => i \in DOMAIN packet.misses
    /\ "go" \in eventGates =>
         LET i == Len(packet.misses) + 1 IN
         i \in DOMAIN told /\ <<told[i]>> = Event("SPELL_GO", packet.caster, packet.target,
                                                 <<Len(packet.hits), Len(packet.misses)>>)
    /\ "aura" \in eventGates =>
         \A unit \in Fighters \cup {NoTarget} : \A e \in DOMAIN CastEffects :
           Cardinality(AuraCasts(unit, e)) = IF CastEffects[e].aura /\ unit \in Aims(CastEffects[e]) THEN 1 ELSE 0
==============================================================================

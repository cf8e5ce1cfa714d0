------------------------------ MODULE Cooldowns ------------------------------
(* GetSpellIdCooldown and GetItemIdCooldown (cooldown_scripts.cpp): what is *)
(* left of a cooldown, read from the client's list of recent casts.  Each   *)
(* entry can hold three cooldowns: the spell's own, its category's and the  *)
(* GCD's.  The clock is the low bits of a running one, the end of a         *)
(* cooldown is computed in more bits.                                       *)
EXTENDS Integers, Sequences, SequencesExt, FiniteSetsExt

CONSTANTS
  Spells,     \* spell |-> [recovery, category, categoryRecovery, gcdCategory, gcd]
  ItemSpells, \* item |-> its spells: <<[spell, category]>>; an on-use spell or a passive effect
  NoItemID,   \* itemID 0
  Clock,      \* 2^32 in the code: the clock wraps there
  MaxNow,     \* bound on time
  MaxEntries, \* bound on the history
  MaxLock     \* bound on the cooldown a server may impose

(* A cooldown is shorter than a turn of the clock: 49 days in the code.     *)
ASSUME CooldownConstants ==
  /\ Clock \in Nat \ {0} /\ MaxNow \in Nat /\ MaxEntries \in Nat /\ MaxLock \in 0..(Clock - 1)
  /\ \A s \in DOMAIN Spells :
       /\ {Spells[s].recovery, Spells[s].categoryRecovery, Spells[s].gcd} \subseteq 0..(Clock - 1)
       /\ {Spells[s].category, Spells[s].gcdCategory} \subseteq Nat
  /\ \A item \in DOMAIN ItemSpells : \A s \in ToSet(ItemSpells[item]) :
       s.spell \in DOMAIN Spells /\ s.category \in Nat

VARIABLES
  now,        \* the running time
  history,    \* external: SpellHistories, entries of the client
  stats       \* the items whose ItemStats_C the client has

cooldownVars == <<now, history, stats>>

ItemIds == DOMAIN ItemSpells
Families == {"individual", "category", "gcd"}
Now32 == now % Clock

CooldownInit == now = 0 /\ history = <<>> /\ stats = {}
------------------------------------------------------------------------------
(* The entry matches the spell in the family, and what it has of it.  "at"  *)
(* is the time it began, which the code only knows modulo Clock.            *)
Time(e, f) == CASE f = "individual" -> e.recovery [] f = "category" -> e.categoryRecovery [] f = "gcd" -> e.gcd

Matches(e, f, spell, item, category) ==
  CASE f = "individual" -> e.spell = spell /\ e.item = item /\ (e.recovery # 0 \/ e.hold)
    [] f = "category"   -> e.categoryRecovery # 0 /\ e.category = category /\ category # 0
    [] f = "gcd"        -> /\ e.gcdCategory = Spells[spell].gcdCategory /\ e.gcdCategory # 0
                           /\ e.gcd # 0

EndNarrow(e, f) ==                       \* mutant: the end is computed in the clock's width
  IF e.hold THEN Now32 + Time(e, f) ELSE ((e.at % Clock) + Time(e, f)) % Clock

(* A cooldown on hold has not begun: all of it is left.                     *)
End(e, f) == IF e.hold THEN Now32 + Time(e, f) ELSE (e.at % Clock) + Time(e, f)

(* GetCooldownFromSpellHistory: of the entries that match and have not      *)
(* ended, the last one in the list counts; the difference is cut to the     *)
(* clock's width.                                                           *)
Remaining(f, spell, item, category) ==
  LET n == SelectLastInSeq(history, LAMBDA e : Matches(e, f, spell, item, category) /\ End(e, f) > Now32)
  IN  IF n = 0 THEN 0 ELSE (End(history[n], f) - Now32) % Clock

GetCooldownFromSpellHistory(spell, item, categoryOverride) ==
  LET category == IF categoryOverride # 0 THEN categoryOverride ELSE Spells[spell].category
  IN  Max({Remaining(f, spell, item, category) : f \in Families})

GetSpellIdCooldown(spell) == GetCooldownFromSpellHistory(spell, NoItemID, 0)

(* GetItemCooldownDetail: the longest of the item's spells; nothing is told *)
(* of an item whose stats have not come yet.                                *)
GetItemIdCooldown(item) ==
  IF item \in stats
  THEN Max({GetCooldownFromSpellHistory(s.spell, item, s.category) : s \in ToSet(ItemSpells[item])} \cup {0})
  ELSE 0
------------------------------------------------------------------------------
(* The client: a cast that nothing blocks starts its cooldowns, or puts     *)
(* them on hold until the server says that they begin; an entry it had of   *)
(* the spell and item is replaced.                                          *)
Left(e, f) == IF e.hold THEN Time(e, f) ELSE e.at + Time(e, f) - now
Live(f, spell, item, category) ==
  {i \in DOMAIN history : Matches(history[i], f, spell, item, category) /\ Left(history[i], f) > 0}
CategoryOf(spell, category) == IF category # 0 THEN category ELSE Spells[spell].category

Key(e) == <<e.spell, e.item>>
Without(key) ==
  IF \E i \in DOMAIN history : Key(history[i]) = key
  THEN RemoveAt(history, CHOOSE i \in DOMAIN history : Key(history[i]) = key) ELSE history
Enter(e) == history' = Append(Without(Key(e)), e)

Cast(spell, item, category, hold) ==
  /\ Len(history) < MaxEntries
  /\ \A f \in Families : Live(f, spell, item, CategoryOf(spell, category)) = {}
  /\ Enter([spell |-> spell, item |-> item, at |-> now, hold |-> hold,
            recovery |-> Spells[spell].recovery,
            category |-> CategoryOf(spell, category), categoryRecovery |-> Spells[spell].categoryRecovery,
            gcdCategory |-> Spells[spell].gcdCategory, gcd |-> Spells[spell].gcd])
  /\ UNCHANGED <<now, stats>>

(* The server locks a spell for a time, without a category.                 *)
Lock(spell, time) ==
  /\ Len(history) < MaxEntries
  /\ Enter([spell |-> spell, item |-> NoItemID, at |-> now, hold |-> FALSE, recovery |-> time,
            category |-> 0, categoryRecovery |-> 0, gcdCategory |-> 0, gcd |-> 0])
  /\ UNCHANGED <<now, stats>>

Release(i) ==
  /\ history[i].hold
  /\ history' = [history EXCEPT ![i].hold = FALSE, ![i].at = now]
  /\ UNCHANGED <<now, stats>>

Drop(i) ==
  /\ history' = RemoveAt(history, i)
  /\ UNCHANGED <<now, stats>>

StatsCome(item) ==
  /\ item \notin stats /\ stats' = stats \cup {item}
  /\ UNCHANGED <<now, history>>

CooldownTick == now < MaxNow /\ now' = now + 1 /\ UNCHANGED <<history, stats>>

CooldownNext ==
  \/ \E s \in DOMAIN Spells, hold \in BOOLEAN : Cast(s, NoItemID, 0, hold)
  \/ \E item \in ItemIds, hold \in BOOLEAN : \E s \in ToSet(ItemSpells[item]) : Cast(s.spell, item, s.category, hold)
  \/ \E s \in DOMAIN Spells, time \in 1..MaxLock : Lock(s, time)
  \/ \E i \in DOMAIN history : Release(i) \/ Drop(i)
  \/ \E item \in ItemIds : StatsCome(item)
  \/ CooldownTick

CooldownSpec == CooldownInit /\ [][CooldownNext]_cooldownVars
------------------------------------------------------------------------------
CooldownTypeOK ==
  /\ now \in 0..MaxNow /\ stats \subseteq ItemIds /\ Len(history) <= MaxEntries
  /\ \A i \in DOMAIN history : history[i].spell \in DOMAIN Spells /\ history[i].at \in 0..now

(* What is left by the running clock: the longest live cooldown.            *)
Longest(spell, item, category) ==
  Max({0} \cup UNION {{Left(history[i], f) : i \in Live(f, spell, item, category)} : f \in Families})

(* No ended cooldown from before the last wrap of the clock is in the list. *)
NothingOlderThanTheWrap ==
  \A i \in DOMAIN history : \A f \in Families :
    (Time(history[i], f) # 0 /\ Left(history[i], f) <= 0) => history[i].at \div Clock = now \div Clock

(* A spell, or an item whose stats are there, is told to be on cooldown     *)
(* exactly while one of its cooldowns runs or is on hold, and for as long   *)
(* as the longest of them, also while one runs across the wrap of the clock *)
(* (cooldown_scripts.cpp:63-118, 243-269).  It takes that no cooldown that  *)
(* ended before the clock wrapped is left in the list: the code would show  *)
(* it as running again.                                                     *)
CooldownsTold ==
  NothingOlderThanTheWrap =>
    /\ \A s \in DOMAIN Spells : GetSpellIdCooldown(s) = Longest(s, NoItemID, Spells[s].category)
    /\ \A item \in stats : GetItemIdCooldown(item) =
         Max({Longest(s.spell, item, CategoryOf(s.spell, s.category)) : s \in ToSet(ItemSpells[item])} \cup {0})
=============================================================================

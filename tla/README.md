# Nampower: a TLA+ verification project

Nampower is a library that is injected into the 1.12 game client. It replaces about a
hundred functions of the client with hooks, keeps the state of the player's casts in
globals, queues spells so that they are sent the moment the previous cast ends, and tells
Lua addons about all of it. There is one thread. What makes the program hard is that

- every signalled event and every original client function may run Lua handlers *before it
  returns*, and a handler may cast, stop casting or queue again: each function of the
  program is interrupted, at each of its callbacks, by every other one;
- the server answers later, in an order the client does not choose, with packets that name
  a spell and not the attempt;
- most of the state is a handful of global flags, times and parameter blocks that the
  hooks, the packet handlers and the frame loop all write.

Paths below are relative to `src/nampower/` unless they begin with `src/`.

## 1. Inventory

### Components with state of their own

**Cast ring (`castqueue.h`).** A bounded deque of `CastSpellParams` in an array with
`front`, `rear`, `size`, and the spells of evicted unresolved
entries. Operations: `push` (optionally replacing the entry of the same GCD category), `pushFront`,
`pop`, `removeSpellId`, `clear`, the searches by spell, id, state and category, and the correlated
search, which marks entries ambiguous. Used as `gNonGcdCastQueue` (6 entries) and `gCastHistory` (30). *Correct
when* it is the sequence it stands for in every order of operations, and when what a full
ring forgets is remembered well enough not to be mistaken later.

**On-next-swing ownership (`gOnSwingState`; `spellcast.cpp`, `spellevents.cpp`,
`spell_scripts.cpp`).** The generation (attempt) that is armed and the one buffered behind
it, with `SPELL_ON_SWING_STATE` events and the two legacy queue events. Operations: the cast
hook, the replay of a buffer, local and server failures, `SpellGo`, cancelling, stopping.
Interacts with the history (identities), the queues (clearing) and Lua. *Correct when* an
older frame never takes what a newer one owns, each generation is told one beginning and
one end, what was told is what is, and a rejection ends the rejected generation only, as far as
the program can tell whose it is.

**Cast attempt correlation (`gCastHistory`; `spellcast.cpp`, `spellevents.cpp`).** The id,
spell and state of the last attempts. Operations: the cast hook (`ActiveAttemptScope`),
`BeginCast`, the cast result handler, the failure hook, the retry path, a UI load. *Correct
when* an identity made known is right or absent, an attempt alone in its spell is identified,
and ambiguity once seen is kept.

**Spell queues and retries (`spellcast.cpp`, `spellevents.cpp`, `main.cpp`,
`spell_scripts.cpp`).** The non-GCD queue, the one-slot normal queue, the two cooldown queues
laid over them, the end times of cast, GCD and cooldowns, the retry count, and
`gQueuesProcessed`. Operations: the cast hook, `processQueues` once a frame and from casts,
the failure hook, the two cooldown hooks, `ClearQueuedSpells`, NoQueue scripts. *Correct when*
what is queued is cast or dropped in the end, nothing sits in a queue nobody looks at, the
retries of a press are bounded as long as the server starts no spell, and clearing one queue
leaves the others.

**Channels (`spellchannel.cpp`, `main.cpp`, `spellcast.cpp`).** `channeling`, the start, end
and tick times and the request to stop at the next tick. Operations: `BeginCast`, the start
and update packets, `checkForStopChanneling`, the double cast, `ChannelStopCastingNextTick`,
failures. *Correct when* the flags are those of the channel that runs, a stop request ends
the channel it was meant for, and queued spells are released.

**Script queue (`misc_scripts.cpp`, `main.cpp`).** One script and its priority, run by
`processQueues` before, between or after the spell queues. *Correct when* each queued script
of priority 1, 2 or 3 runs once, at its priority (any other number is stored and never run).

**Disenchant loop (`player_scripts.cpp`, `items.cpp`, `main.cpp`).** The item, id or quality
to disenchant, a timer and the item being disenchanted; driven by frames, a loot event and
failures. *Correct when* it stops, never takes a protected item and never casts twice.

**Item searches (`items.cpp`).** `itemStatsCache`, the requests under way (`pendingItemIds`) and the id each name
was found for (`itemNameToIdCache`, never emptied). Operations: the searches by id and name, an answer with
stats, the use of an item by name. *Correct when* a search leads to an item that was searched for, and the bag and
slot handed to an addon lead back to it.

**Kept Lua tables (`item_scripts.cpp`, `lua_refs.cpp`).** The tables of bags, worn items and trinkets are kept by
reference between calls, and a call rewrites only what differs from a memory beside the table. Operations:
`GetBagItems`, `GetEquippedItems`, `GetTrinkets`, a UI load. *Correct when* memory and table agree and no field of
an earlier call shows through.

**Cooldown scripts (`cooldown_scripts.cpp`).** No state; three cooldowns of a spell or item are read from a list
the client keeps. *Correct when* the longest that runs is told, across a wrap of the 32-bit clock.

**Combat packets (`spellevents.cpp`, `cdatastore.cpp`).** A hook reads the packet itself, tells addons, puts the
read position back and calls the client. State: a static array of 100 targets. *Correct when* what is told is what the
server sent, and the client reads from where it would have read.

**Cast times (`spellcast.cpp`, `spellevents.cpp`).** `castEndMs` and `gcdEndMs`, written by `BeginCast`, `SPELL_START`
and `SPELL_DELAYED`. *Correct when* no cast is let through while the server still casts the last one.

**Latency and buffer times (`main.cpp`, `spellcast.cpp`, `spellevents.cpp`).** The default buffer
that rises with rejections and falls with time, and the measured server delay that may replace it
once. *Correct when* the buffer stays in its range whatever the settings do, and a delay is used
for the cast it was measured for.

**Auras (`auras.cpp`).** No state but the client's aura fields; each event carries the position the
aura has in the list that addons see. *Correct when* an addon that follows the events has that list.

**Pet autocast (`pet.cpp`).** A saved map of slots for each of three demons and the slot being
toggled. Operations: the pet is set, a slot is toggled, an action is sent. *Correct when* a demon
comes back with the choices made for it, and the bar shows what the server does.

**Unit events (`unit.cpp`).** Which tokens name a unit, and who is told of a change. *Correct when* no
token keeps an old value, and what is switched off stays silent.

**Settings (`main.cpp`).** Some forty fields with a CVar each. Operations: `SetCVar`, the registration of
an event, a start. *Correct when* a start changes nothing and a registered event is heard.

### Components without state worth a model

Script functions that read client memory at fixed offsets, typed field tables, the
installation of hooks, tooltips, chat and auto-attack events, logging, files and the
loader (`src/loader`): a single read, write or call of the operating system each. They are
listed as `not_modelled` with the reason.

### How the parts interact

```
 Lua / key press ----> cast hook ----> history entry ----> client cast ---> BeginCast ---> server
      ^                  |  |  ^                             |   |                          |
      |  events          |  |  | processQueues               |   +-- handlers, casts again  |
      |                  v  v  | (frame, or a cast)          v                              |
      +--------- on-swing  queues <---- retries --- failure hook <--- cast result handler <-+
                    ^        ^                                                              |
                    |        +---- channel flags, end times <--- channel, delay, cooldown --+
                    +------------------- SpellGo <------------------------------------------+
```

The hazards, each at its line with the property that would catch it, are the list
`hazards` of `PROJECT.json`. Divergences met that are too small for a run are listed in section 6.

## 2. The modules

| module | models | refines / composes |
|---|---|---|
| `CastDeque` | operators: a bounded deque with its searches, as pure functions on sequences | used by all that hold a ring |
| `CastDequeSpec` | what a cast ring promises: a bounded sequence | abstract specification |
| `CastQueue` | `castqueue.h`: array, `front`, `rear`, `size` | implements `CastDequeSpec` |
| `OnSwing` | ownership of the on-swing spell under re-entry | |
| `CastCorrelation` | history, results, failures, identities | over `CastDeque` |
| `SpellQueue` | queues, cooldown queues, retries, frames | over `CastDeque` |
| `Channel` | channel flags, ticks, queues during a channel, the server | |
| `Frame` | queued scripts, the disenchant loop and `processQueues` around them | |
| `BufferTime` | the default buffer and the measured server delay | |
| `AuraSlots` | aura events, and an addon that follows them | |
| `PetAutocast` | saved autocast and react choices of three demons | |
| `UnitEvents` | the tokens of a unit and the events it gets | |
| `Settings` | fields, CVars, registration and a start | |
| `BagTables` | the kept tables of bags and worn items | |
| `TrinketTable` | the kept list of trinkets and its entries | |
| `ItemSearch` | searches by id and name while stats are asked for | |
| `Cooldowns` | the cooldown of a spell or item from the client's list | |
| `CombatPackets` | packets as field sequences, the hooks that read them, `SpellGoHook` step by step | |
| `CastTimes` | the end of a cast in the client and in the server | |
| `MCParts` | the last eleven for TLC: the first state picks one of twelve parts | extends all eleven |
| `CastDeque_proofs` | what the operators on sequences of entries return | extends `CastDeque` |
| `CastQueue_proofs`, `CastCorrelation_proofs`, `SpellQueue_proofs` | theorems | extend their module and `CastDeque_proofs` |
| `OnSwing_proofs`, `Frame_proofs`, `Channel_proofs` | theorems | extend their module |
| `Parts_proofs` | theorems of the eleven small parts and of `MCParts` | extends `MCParts` |

`map` in `PROJECT.json` gives for each definition the lines it stands for.

**Re-entry.** `OnSwing`, `SpellQueue`, `Frame` and `CastCorrelation` model the C++ call stack. In the
first three, `todo` is the stack flattened: the steps that the frames on it have left, the
innermost first. A step runs from one callback to the next, so a value the code reads before
a callback and uses after it is kept in the step, as in the code's local variable
(`stateBeforeClientCast` is the fields `armed` and `buffered` of a `Return` step of
`OnSwing`). `inLua` says that handlers of the last event may run: then any operation may be
started on top of the stack. In `CastCorrelation` the nest of `ActiveAttemptScope` objects is
the stack `scopes`, and a server result is handled in phases, between which handlers cast.

**CastQueue.** `queue`, `front`, `rear`, `size` and the tombstones are the members of the class;
there is an action for each operation that changes them, with the arithmetic modulo the capacity as
written. `Items` reads the ring from front to rear and is the refinement mapping to
`CastDequeSpec`.

**OnSwing.** `armed` and `buffered` hold the castId of the two parameter blocks, 0 for none.
`Cast` is the on-swing part of the cast hook up to the client call; the client's own
behaviour (it may accept, may fail locally any number of times and may run handlers) is a
choice; `Return` is what the hook does after it. `player` is the object the client currently
knows; it may change whenever Lua does not hold the thread. `heard` collects what a Lua
consumer was told of each generation and `legacy` what the two old queue events left it with.
A UI load ends the state and empties the history, but leaves attempts `inFlight`; `ServerRejects`
then gives the failure the true attempt's id, none, or (`Correlated`) that of a newer attempt of
the spell, for the code takes the one entry that waits (`spellevents.cpp:624-628`). `muddled` are
the spells with such answers to come.

**CastCorrelation.** `unanswered` is the truth the program does not see: the attempts that
were sent and whose answers are on the way, in any order. `told` is the last identity made
known, next to the true one. Terrain spells are sent by a later click, outside the scope of
their attempt (`SendTargeted`).

**SpellQueue.** A request carries the spell, the retries it stands for and where it came from;
an attempt is a request that reached the client. End times are Booleans, "still to come", and
`Tick` lets any of them pass; windows and settings that only decide whether a press is queued
are a choice. `SpellStart` is the packet's hook: it zeroes the retries of the newest entry of the spell
and those of `gLastNormalCastParams` whatever its spell, and comes for spells the model has no attempt of
too (`SpellStart(0)`: an item's, a server's). `renewed` is the first attempt made after the last one of these.
Channels, targeting, quickcast, items, mounts and UI loads are left out.

**Frame.** `processQueues` seen from its other two customers: the queued script and the
disenchant loop. A script's priority is 1, 2 or 3, one that stands for every other number
(`NeverRun`: the code stores any and looks for those three), or absent, which keeps the last one's. The spell queues are flags and a count. A script, a chat message and a client call
are points at which Lua has the thread, and a cast begins with `Queues`, as the hook does. An order is
what a call of `DisenchantAll` asked for; a `CastItem` step carries the order it was chosen under, so
that the item can be compared with it after the handlers ran. That Disenchant is a trade skill spell
(and so bypasses the queues) is taken from the client's data. Items in the bank are found only while
it is open, which is a choice.

**Channel.** Here times matter and are small numbers: what is left of a channel, its age, the
tick. The server is external: it runs one channel at a time, answers in order, pushes back,
interrupts, and may stop answering. Spells have no cast time, retries are off and handlers are
left out (they are the subject of `SpellQueue`). The hooks map the channel part of `gCastData`
to the set of its outcomes, because one call may cast a queued spell before its own.

**BufferTime.** The times since the last increase and decrease are ages that stop growing just above
their thresholds. `lastCast` is what `BeginCast` computed, from the cast's start. Arithmetic on the
buffer is modulo `Width`, for 2^32.

**AuraSlots.** `TriggerAuraEvent` is the program. External, from what the hooks rely on: an update
writes all fields first (`UpdateFields`), and the client then walks the slots upwards and reports each that differs from what
it reported last (`reported`, `Changed`). `copy` is an addon that inserts, removes and replaces entries at the position it is
told (`Followed`); `AuraList` is the list `UnitBuff` and `UnitDebuff` show.

**PetAutocast.** A slot's 32-bit word is abstracted to the slot: enabled or not, or the react state it
stands for. External: the client fills the bar before `SetPet` returns, and `GetPetSpellAction` yields
the word after the toggle. `chosen` is what the player last chose while choices were recorded.

**UnitEvents.** `names` says what each token names, and any token may come to name another unit of
those it can (`MayBe`); the client tells addons of that itself. `shown`, `shownRaw` and `shownGuid` are
addons that read a unit again when told. The player's own object is taken to be loaded.

**Settings.** Every CVar by name, in groups. Values count in halves, so that one of them is a fraction:
loading goes through the integer value of a CVar.

**BagTables.** A slot of a table is a cell: `kept` is what the cache remembers, `seen` what the Lua table shows.
An item stands for everything remembered of it (id, count, enchants, charges). The client's side (`PutItem`,
`ExchangeBag`, `BagKnown`, `UseBank`) is external: a bag is exchanged only while it is empty. `LoadScriptFunctions` is
`CleanupAllLuaTableRefs` with `ClearItemCaches`.

**TrinketTable.** `list` refers to places, because the code's list holds references to the entry tables of places;
`lastCount` is what the list is shortened by.

**ItemSearch.** A place is `<<bag, slot>>` with the client's numbers; `LuaSlot` and `ItemAt` are the conversions to and
from the slots addons use. Stats are asked of the server and may stay away (`ItemStatsCallback`); the client's database
(`rows`) may have any of them from an earlier session. The batch export is left out.

**Cooldowns.** `history` is the client's list. `at` is the true time an entry began; the code sees it modulo `Clock`, for
2^32, and computes the end of a cooldown beyond that width, as the 64-bit arithmetic does. The properties compare what it
tells with the running clock.

**CombatPackets.** A packet is the sequence of its typed fields (`FieldsOf`); reading a field at the place of another kind
yields `Misread`. `SpellGoHook` runs in steps: `SpellGo` stores the hits in its static array, `ReadMiss` is a turn of the
loop over the misses, `Landed` what follows it, `AuraCast` and `NextEffect` are the loops of `TriggerAuraCastEvent`. The array keeps
the units of an earlier spell where the new one has fewer. The damage, heal, energize, miss, immunity and periodic logs, whose
hooks read a few fields at the start, take one step each; `readAt` is the field the client's own handler then begins with.

**CastTimes.** The server receives a cast after `Latency`, uses a cast time of its own (`Takes`), pushes back, and each of
its packets travels for `Latency`. A packet's `ends` is a history: when the server's cast then ended. An aimed spell is dated from the press and sent by a later `Click`. Left out: spells whose
visual is hidden while they are cast, the resetting of retries, channels.

## 3. What is checked

| run | question | properties | states |
|---|---|---|---|
| `ring` | is the ring a sequence, in every order of operations? | `RingInv`, `ImplementsDeque` | 0.9 M |
| `onswing` | who owns the on-swing spell, and is Lua told the truth? | `OwnershipInv`, `FailedIsRejected`, `OneEnding`, `HeardIsState`, `NewerWins`, `CasterIsPlayer` | 1.3 M |
| `correlation` | is an identity right or absent? | `ExactOrNone`, `AloneIsIdentified`, `HistoryInv`, `AmbiguousForGood` | 1.4 M |
| `queues` | do retries survive nesting, and does everything queued come to an end? | `TypeOK`, `RetriesCounted`, `NothingOrphaned`, `Drains` | 1.0 M |
| `frame` | do scripts and the disenchant loop do what was asked, once, and end? | `ScriptInv`, `QualityHonoured`, `ScriptsRun`, `LoopEnds` | 0.9 M |
| `channel` | are the channel flags those of the channel that runs? | `ChannelInv`, `StopIsForThisChannel`, `NotCutShort`, `Released` | 0.6 M |
| `parts` | do the small parts keep their promises, each alone? | `TypesOK` and, by part, | 0.6 M |
| | buffer times | `BufferInRange`, `NextCastTimed` | |
| | auras | `CopyIsList` | |
| | pets | `BarIsServers`, `RestoredAsChosen` | |
| | units | `TokensTold` | |
| | settings | `KeptOverRestart` | |
| | bags and worn items | `FreshWhenAsked`, `SeenIsKept`, `WornNotWrong` | |
| | trinkets | `ListIsTrinkets` | |
| | item searches | `SearchFinds` | |
| | cooldowns | `CooldownsTold` | |
| | combat packets | `LandedAsSent` | |
| | cast times | `NotTooSoon` | |

Several invariants are conjunctions, each of the type invariant of the module with the part that makes it inductive or
of two sides of one promise: `RingInv` is the types with `RearAligned`, `OwnershipInv` with `BufferBehindOlder`,
`HistoryInv` with `WaitingIsInFlight`, `ScriptInv` with `RunsOnce`, `ChannelInv` with `LoopEnds`; `RetriesCounted` is
`RetriesInherited` and `RetryBound`, `NextCastTimed` is `DelayUsedOnce` and `NextNotTooSoon`, `TokensTold` is `ViewsFresh`
and `CombatToldToTokens`.

What the runs show beyond the names:

- `ring`: a push on a full ring, `pushFront` across the wrap, removal from the middle and a
  push after `clear` all leave the three redundant indices consistent, and every step is a
  step of the sequence. `RearAligned` is what the refinement needs and what the proof is of.
- `onswing`: with three attempts a generation can be armed, one buffered behind it and a
  third cast from any handler of the first two. `HeardIsState` is the consumer's view: once all
  handlers returned, the generations announced and not ended are exactly the state.
  `FailedIsRejected` needs the packet and the failure to be separated by handlers that replace
  the generation. It exempts, as `ExactOrNone` does, the spells with answers under way at a UI
  load (`muddled`): their rejections may end a newer generation (section 6).
- `correlation`: `ExactOrNone` exempts the spells of which an entry was taken for another
  attempt (`muddled`): a terrain click is sent after other attempts, or an answer is older than
  the UI load that emptied the history. In both cases the program cannot know better.
- `queues`: the player has cooldown queues on, or scripts that use NoQueue casts (`Usages`).
  `RetryBound` counts the attempts behind an attempt since a spell of the player last started (`renewed`), any of
  which lets the count begin anew; across starts a press has no bound (section 6). `RetriesInherited` says the same of
  the count the code keeps: it covers what the request stood for, unless a spell started since.
  `NothingOrphaned`, `RetryBound` and `Drains` are stated for cooldown queues off: with them on the
  code does orphan an entry (`spellevents.cpp:339`, section 6). `NothingOrphaned` is checked
  between frames.
- `frame`: `RunsOnce` (in `ScriptInv`) is why `gQueuesProcessed` is set before anything is run: the script runs before
  its flag is cleared, and may cast. `QualityHonoured` is the documented protection, which holds for
  qualities; for ids and names see below. `ScriptsRun` says that once scripts stop coming, a script that is
  still queued is one whose priority `processQueues` does not look for.
- `channel`: `LoopEnds` (in `ChannelInv`) is why the search for the next tick (`main.cpp:507`) cannot hang the
  render thread. `NotCutShort` is the documented promise restricted to channels with no failure
  and no on-hit spell since their start; the unrestricted one is violated, see below.
- `parts`: `BufferInRange` holds because both a change of the minimum and a start set the buffer to it, so
  the difference is always a whole number of steps; the largest increase may be passed by less than
  one step. `CopyIsList` is not obvious, for each position is counted from fields that already hold the
  later changes of the update: it is right because the slots are walked upwards. It stops at the
  removal of an aura that only its flags hid. `RestoredAsChosen` is restricted to demons whose
  object the client has when the pet is set, and to what is enabled: a spell the server enables by
  itself is not kept disabled. `KeptOverRestart` compares whole values. `SeenIsKept` holds because a place is
  cleared in full when its bag is gone and items leave a bag before the bag does; `WornNotWrong` exempts the one case in which
  memory and table part (section 6). `ListIsTrinkets` is about references: an item that moved must show at its new place with
  its own details, and the entry behind a shortened list must go. `SearchFinds` says that a remembered id and a comparison
  on the way lead to the same item where the name has one id. `CooldownsTold` exempts lists that still hold a cooldown that
  ended before the clock wrapped. `LandedAsSent` is about the place of each field behind lists and extra bytes, for at most
  as many hits as the array holds. `NotTooSoon` compares the two clocks of a cast: it fails for aimed spells, whose entry
  is dated from the press, and exempts them.

### Runs that find the code and its documentation apart

| run | statement | what the code does |
|---|---|---|
| `onswing_stop` | `spell_scripts.cpp:328-330`: nothing in the older stop frame may cancel callback-created state | a handler inside the client's SpellStopCasting casts; `ClearQueuedSpells` then cancels that younger generation |
| `queues_noqueue` | `src/SCRIPTS.md:1020`: a NoQueue cast is never queued | a refused NoQueue cast has already overwritten `gLastNormalCastParams`; the queue casts it in place of the queued spell |
| `queues_clear` | `src/README.md:342`: a new cast clears the appropriate cooldown queue | the front of the shared queue is popped, which may be a regularly queued spell |
| `frame_items` | `src/SCRIPTS.md:1682-1685`: worn, bank and keyring items are protected, soulbound ones by default | by id or name, the first item found anywhere is disenchanted, whatever `includeSoulbound` says |
| `channel_lost` | `src/README.md:326`, `:337-338`: a channel is not interrupted in its queue window; on-hit spells are separate | an on-hit spell, or any failure, resets the channel flags; the next press interrupts the channel |

### Bounds, and why they are enough

- `ring`: capacity 3 is the least at which front, rear and a middle entry differ and the wrap
  falls inside the contents; 4 pushes fill it and evict once in every position. Two spells of
  one category exercise both kinds of replacement. The proof covers every capacity.
- `onswing`: three attempts, because a property needs an owner, a rival and one that comes from
  a handler of either; two player objects for one replacement. Spells are symmetric.
- `correlation`: four attempts with a history of three, so that an entry is evicted while its
  answer is outstanding, and two spells, so that another spell's entry can lie between. Bound
  `MaxNesting`: client casts on the stack. Assumed (in `Nests`): the attempts made inside one
  client call fit in the history, which holds 30.
- `SpellQueue`: two presses, and three client casts (`attempts`; two with cooldown queues or NoQueue casts in the
  `queues` run, three in the runs that look for a disagreement there). `RetryLimit` is 1 for 3: three casts are a press, its retry
  and the second retry that must not be, or that a start in between allows. `QueueSize` is 2 for 6, so that the queue is full once.
- `Frame`: two scripts, so that one can replace or follow another, or inherit a priority that is never run; two orders, so that one can be
  called while the other is carried out; one other cast. Two copies of one item, one worn, the other
  soulbound in a bag, tell all four kinds of order apart.
- `Channel`: three presses; channels of length 3 with a window of 2, a reduction of 1 and ticks
  of 2, or 3 when the amplitude is 0 or too long, so that inside the window, outside of it, on a
  tick and between ticks are four different moments. `AgeLimit` stands for the 60 s after which a
  channel is forgotten. With four presses and no far sight (2.8 M states) the result is the same.
- `parts`: each part has its own bounds, in `MCParts` and its configuration; outside its part a state stays the first one
  or is none. The parts with theorems need only small ones: what TLC shows there is that the properties can fail and do not.
  Buffer: steps of 2, two minimums that differ by an odd number, increases on and off a multiple of the step, instant casts and
  casts just shorter and longer than the cooldown, two measured delays. Auras: three buff slots and one debuff slot, two changed
  by an update, spells that are shown, hidden and hidden by flags. Pets: three summons of two demons and an imp, so that another
  pet can come between two of a kind. Units: a unit that is pet, party pet and raid pet, one that is party and raid member and
  mouseover, and two settings: without mouseover and filter, or without pets and the raid. Settings: every CVar, two calls of
  `SetCVar`, two events to register for, starts at any time. Bags: the bank and one bag of size 0, 1 or 2, two items; worn items
  apart from them, two slots and another unit's. Trinkets: one place of each kind, two trinkets and another item. Search: a
  place in each kind of container, two of three ids of one name, any of which the database has from before. Cooldowns: a clock of 8 under a time of 9, so that it wraps, and
  two entries. Combat: three hits for an array of two, misses with a reflected one before another, two spells whose effects aim
  at all, one, none, enemies and the caster. Cast times: an attempt is cast shorter, as long and longer by the server, pushed
  back once or more, with the GCD above, at and below the cast.

### Fairness

- `SpellQueue`: `WF(Step)`, native code and handlers return; `WF(Frame)`, scenes are rendered;
  `SF(Tick)`, time passes although a frame may come between any two ticks. The server, presses and
  stopping are not assumed to happen.
- `Frame`: the same for native code, scenes and time, and `SF(Answer)`: a Disenchant that was sent is
  answered in the end, for the loop repeats for ever if the server is silent.
- `Channel`: `WF(Frame)` and `WF(Tick)` for the same reasons, nothing of the server: `Released` has
  to hold when it falls silent.

The other runs check safety only. Where a configuration turns off the check for deadlock, the
bounds on attempts and presses end the behaviour.

## 4. What is proved

With TLAPS, for all values of the constants, from the named assumptions of the modules (`NotCutShortTheorem` and
`NotTooSoonTheorem` state hypotheses of their own):

- `RingTheorem` (`CastQueue_proofs`): in a ring of any capacity, the types hold and `rear` is the
  slot of the last entry (`RearAligned`). The inductive invariant is `RingInv`, the type invariant
  with `RearAligned`: neither is inductive alone, because `push` advances `rear` while a removal
  recomputes it from `front` and `size`. Lemmas on arithmetic modulo the capacity come first.
- `ImplementsTheorem` (`CastQueue_proofs`): the ring implements the sequence of `CastDequeSpec`, from which every other model
  takes its queues. The refinement mapping is `Items`, the `size` slots from `front` on; one lemma per operation shows that
  it does to `Items` what the specification says (`PushFrontRefines`, `PushRefines`, ...), using `RingInv` before and after.
  A slot of the ring is turned into a position by `SlotsDiffer` and `NextSlot`, a sequence into its elements by the `Shape`
  lemmas of `CastDeque_proofs`.
- `HistoryTheorem`, `ExactTheorem`, `AloneTheorem`, `AmbiguousTheorem` (`CastCorrelation_proofs`): for any spells, capacity,
  nesting of client calls, retries and order of answers, the four properties of the history. An identity that is handed out
  is the true attempt's or none. The inductive invariant `IInv` adds to the types and the properties: an entry stands at the
  distance of its identity from the next one (`Numbered`), so that entries can be named by attempts; the client calls on the
  stack are younger the deeper they are, and the history still holds the entry of each (`ScopesFit`); an entry that nothing
  was sent for is not marked ambiguous (`FreshPlain`); the attempt that waits for a click is not sent yet (`TargetOpen`); as many entries
  of a spell wait as attempts of it are in flight, for every spell the history has not given up on, and the exact ones are
  in flight (`Counted`); an attempt alone of its spell so far has the one exact entry (`AloneKept`); and the identity a
  result carries to its failure is right and its entry settled (`ResultTrue`, `ResultSettled`). `ExactOrNone` is not
  inductive alone: that the unique waiting entry is the attempt that was answered follows from `Counted`, with the cardinalities.
  The attempts made inside one client call are assumed to fit in the history: `Nests` is the guard of an attempt, and
  the history has 30 entries.
- `TypeTheorem`, `OrphanTheorem`, `RetryTheorem` (`SpellQueue_proofs`): for any spells, capacity, retry limit, number of
  attempts and presses, both ways to play and any nesting of handlers, pops and failures: the types, which include the bounds on
  retries and on `gNonGcdCastQueue`; that without cooldown queues nothing is left in that queue unflagged between two frames; and that
  no press is retried more than `RetryLimit` times between two starts of spells of the player. The inductive invariant `IInv` describes the call stack. A queue that is not
  empty and not flagged has a `SetNonGcd` left on it (`Flagged`): that alone is not inductive, since the end of a pop (`NonGcdDone`)
  also writes the flag, from the queue as handlers left it. A request that was popped lies above the end of its pop and a scene
  ends at the bottom (`Ordered`), and none of these is there before `processQueues` ran (`SceneProcessed`); so `numRetries`, which
  is reset at the end of a pop, still covers the request being cast (`FramesOK`), which gives `RetriesInherited`; attempts made
before the last start are exempt (`SpellStartKeeps`). For the bound,
  `BoundInv` adds, without cooldown queues, that a request which may still be cast counts the attempts behind it (`AllCounted`), and
  that a popped one is on top of the stack with no handler running, no cast under way and `gLastNormalCastParams` no longer
  needed (`CastAtOnce`): the hook overwrites those with a retry count of 0 before it decides whether to queue. Counted are the attempts
since `renewed`; a start leaves every count at 0 (`SpellStartBound`). The attempts behind an
  attempt are counted by a recursive function; because nothing is proved by induction here, the invariant carries instead that such a
  function exists and that each one is bounded (`SomeCount`, `EveryCount`), and `CountAdded` extends it by one attempt.
- `OwnershipTheorem` (`OnSwing_proofs`): a buffered generation is always behind an armed, older one,
  for any spells, players and number of attempts, under any nesting of handlers. The inductive
  invariant is `OwnershipInv`, the type invariant with `BufferBehindOlder`. The type of a step on the call
  stack carries the strengthening: the snapshot a `Return` step holds is older than its own id, so
  that a frame which finds its snapshot unchanged installs something younger.
- `NewerWinsTheorem` (`OnSwing_proofs`): from the same invariant, the action property that an armed
  or buffered generation is only ever replaced by a younger one.
- `CasterTheorem` (`OnSwing_proofs`): from the same invariant, that an attempt is made with the unit the player is at that
  moment, a replayed buffer included.
- `FailedIsRejectedTheorem` (`OnSwing_proofs`): an attempt Lua was told has failed is none the server may still
  answer, but for the spells whose answers were under way at a UI load. Its invariant `Inv` adds to `OwnershipInv` what has to be known of the call stack: inner frames are of younger
  attempts, so an attempt has one frame at most; an attempt inside its client call is not yet on its way; and an attempt that
  a step on the stack says, or Lua heard, has failed is `Over`, not on its way and without a frame that may still send it.
  The property alone is not inductive: between the client's failure and the return of the call it would allow the
  attempt to be sent.
- `OneEndingTheorem`, `HeardIsStateTheorem` (`OnSwing_proofs`): what Lua hears of a generation is one of the stories of
  `src/EVENTS.md:113-123`, and it is the state once every handler has returned, the legacy events included. Neither is inductive: both
  depend on what the frames on the stack have left to tell. The inductive invariant `StoryInv` adds to `Inv` that of one attempt at
  most one telling step is pending, except an end above an announcement that is out of date and a pop above its replay
  (`InOrder`); that a pending step continues what was heard, and that an end, a replay or a frame in the client is of no current
  generation (`Fits`); that a current generation was announced or will be (`Awaits`); that one which was announced and is no longer
  current has its end on the stack (`EndsToCome`); and that the legacy event which would correct a consumer is on it too. A handler
  may therefore replace a generation before the frame below announces it: the announcement stays on the stack and finds the
  generation gone.
- `ScriptsOnceTheorem` and `QualityTheorem` (`Frame_proofs`): for any number of scripts, orders and casts and any nesting of
  callbacks, no script runs twice, and Disenchant is cast by quality only on what the call in force allows. The inductive
  invariant `Inv` has four parts. `Stack` says of the call stack that a step between which `processQueues` may not run a
  script (`Marks`) is on it at most once and only while `gQueuesProcessed` is set, that the end of the scene is at the bottom,
  and that a frame which carries an item chosen by quality carries an allowed one. `NotRun`: a queued script has not run
  unless its own call is on the stack. `Wanted`: the settings of the loop are those of the last call, or none. None of
  `RunsOnce` and `QualityHonoured` is inductive alone: the first needs the flag and the stack, the second what the
  settings were when the item was chosen.
- `SeenIsKeptTheorem`, `FreshWhenAskedTheorem`, `WornNotWrongTheorem` (`Parts_proofs`): for any bags, sizes and items, the
  three properties of the kept tables. Besides the types the invariant says that nothing lies in a slot a bag does not have
  (`HeldFits`), which is what makes clearing the table of a missing bag right, and that a worn slot shows what is remembered
  or nothing (`WornSeen`). Assumed (`BagConstants`): bag numbers are in -1..10 and another unit's gear is a function of slots.
- `ChannelTheorem`, `StopTheorem`, `NotCutShortTheorem` (`Channel_proofs`): for any spells, times, settings, pushbacks and
  number of casts and packets under way, the fields of a channel keep their ranges, the loop of `checkForStopChanneling`
  advances, and a request to stop at the next tick never reaches a channel that began after it was made. The last is not
  inductive: neither `BeginCast` nor the start packet clears `cancelChannelNextTick`, so it depends on what is under way.
  The inductive invariant `IInv` says that the client hears the end of the channel a request was made in before it hears of a
  later start (`StopEnds` with `Preceded`), because while the client believes in a channel, an end of it is among the
  packets, or the server runs one, or one was sent and is yet unanswered (`WillEnd`); a start is followed by its end or
  its channel still runs (`Followed`); casts are answered in the order they were numbered (`Numbered`, `Known`).
  `NotCutShortTheorem` is the README's claim on interruptions (`src/README.md:337-338`) and assumes what the claim does:
  `QueueChanneling` is on and `InterruptOutside` is off. Its invariant `CutInv` adds that what was answered is older than
  what is under way (`Answered`), that no update the client has yet to hear of the running channel gives it less time than
  the server does (`Shortened`), and so that the client does not think the channel shorter than it is (`Sync`).
- `BufferTheorem`, `NextCastTheorem` (`Parts_proofs`): for any increments, settings, cast times and delays, the default buffer is
  its minimum and whole increments, less than one beyond the largest increase; and a measured delay serves one cast and leaves
  the server its buffer. The first needs that sums do not wrap (`BufferConstants`: minimum, largest increase and one increment
  fit in `Width`, 2^32 ms in the code) and a lemma on whole increments (`Steps`), because a lower limit set later does not
  lower the buffer at once; the second that a delay still kept was measured at the last cast (`DelayInv`).
- `BarTheorem`, `RestoredTheorem` (`Parts_proofs`): for any slots, kinds of demon and number of summons, the bar shows what the
  server has, and a greater demon returns with the player's last recorded choices. The invariant `PetInv` says that what is
  saved for a kind is what was chosen for it (`SavedIsChosen`), across toggles, dismissals and pets the client has no object of.
- `TokensTheorem` (`Parts_proofs`): for any units, groups and settings, each token that is not switched off is told. The loops of
  `GetUnitNames` stop at the first slot that names the unit; that they find all of its tokens (`NamesAreTokens`) needs that
  no unit is in two slots of one group (`OneSlotEach`), which the invariant carries over every change of the groups.
- `RestartTheorem` (`Parts_proofs`): for any values and registrations, a restart keeps the settings. The invariant ties field and
  CVar (`FieldMeansCVar`): the field is what the CVar means, or its whole part after a start, or was turned on by a
  registration. Assumed (`SettingsConstants`): values have no sign, frames register for gated events only.
- `CooldownTheorem` (`Parts_proofs`): for any spells, items and categories, the cooldown told is the longest that runs, on any
  clock that turns in more than a cooldown takes (`CooldownConstants`; 49 days in the code). The code does not compare the entries of
  a category: of those that run the last one it meets counts. That is right because the client's list has one entry per spell and item
  (`KeysDiffer`), of which one per category and GCD category runs at a time (`OneLive`). `EndAhead` is the arithmetic: the end
  computed modulo the clock is ahead of the clock exactly while something is left, unless the entry ended before the last wrap.
- `SearchTheorem` (`Parts_proofs`): for any items, names and places, a search by name finds an item of that name, where the
  bag and slot told lead, and the first such place if one item has the name. Its invariant is that a remembered id is
  the id of an item of that name whose stats are there (`Remembered`); `FirstPlace` shows that some places have a first one
  in the order of the search, and `ThereAndBack` that the slots told lead back. Assumed (`SearchConstants`): places are the client's.
- `TrinketTheorem` (`Parts_proofs`): for any places and items, the list shows the trinkets the player has. Its invariant is that
  the details in a place's entry table are those of the trinket remembered there (`DetailKept`; what a UI load that kept the
  memory would break), and that the list is empty beyond the last call's count (`ListEnds`). `MetGrows` counts the
  trinkets met on the walk, and so the n-th of them is there to be shown (`FoundIsTrinket`). Assumed (`TrinketConstants`): no item is 0.

- `CopyTheorem` (`Parts_proofs`): for any slots, spells, stacks and updates of several slots at once, an addon that follows the
  events has the lists of the client when all changes are reported. In the middle of an update the copy is the list of
  neither the old nor the new fields, but of `reported`: the new fields up to the slot the walk is at and the old ones beyond it. The
  positions are right all the same because `LuaUnitSlot` looks at slots below only, where both agree. One lemma per event
  shows that inserting, removing or replacing at that position turns the list of one into the list of the other;
  `Counted` and `EachCounted` name the n-th of a set of slots.
- `NotTooSoonTheorem` (`Parts_proofs`): for any spells, times, latency, push-backs and number of casts, a cast the client lets
  through arrives when the server is free, but for what the client cannot have heard. Hypotheses: a cast takes no time, for
  client and server, or longer than a packet there and back (`RoundTrips`), and a difference within the rounding error, which the
  code ignores, is covered by the buffer (`RoundingCovered`; if GCD and buffer leave none it is early by up to 5 ms). The
  property depends on everything that travels. The invariant `TimesInv` says that at most one cast that takes time is unheard,
  that the newest history entry is its own, with the time it was sent, and that the client's end is late enough until its
  SPELL_START (`CountsOn`), so that `findSpellId` by spell corrects the right entry; and that the packets about the server's cast are
  its start and then its push-backs, each continuing the last (`PushedFrom`), with what the client has heard of the end counted in
  `castEndMs` or past (`InTime`).

- `LandedTheorem` (`Parts_proofs`): for any units, spells, effects, settings and outcomes of at most as many hits as the array holds
  (100 in the code), addons are told of each miss, of the spell and of each aura as the packet says. The invariant `CombatInv`
  follows the hook: the array holds the hits of this packet, whatever the last one left there (`InArray`); the misses told are the
  first of the packet's, in order (`MissesTold`), and the next field is that of the next miss (`AtMisses`), which `MissPlace`
  makes a matter of counting the reflected ones before it; behind them stands the event of the spell (`GoTold`); and a unit has been
  told of an effect exactly if one of the turns so far looked at it (`AurasTold`), once, because no unit is hit twice. Assumed
  (`CombatConstants`): every spell has an effect slot, and the server lists a unit once in an outcome.
- `TypesTheorem` (`Parts_proofs`): for any constants, the variables of the part that runs keep their types. For pets, buffer
  times, auras, units and bags the invariants above contain the types. The others need theirs with more: that a search asks
  the server for no stats the database has (`SearchTyped`); that the trinkets counted on a walk are at most its places, because the
  walk meets no slot twice (`TrinketTyped`, assumed in `TrinketConstants`); that the client's list of cooldowns only grows by
  entries that fit (`CooldownTyped`); and that a cast history is no longer than its capacity and numbered up to
  `attempts` (`TimesTyped`). Assumed for it (`CastConstants`): time has a moment (`LastMoment > 0`).

Only model-checked: liveness (`Drains` of `SpellQueue`, `Released`, `ScriptsRun`, `LoopEnds` of `Frame`), because fairness and
ENABLED are out of the prover's reach; and the disagreements of the five runs above, which are counterexamples.

## 5. What is not modelled

- Wording, layout, logging and event arguments other than the identity and the kind of an event.
- The 32-bit clock, except in `Cooldowns`: it is abstracted to what is still to come, or to small numbers; the
  unsigned subtraction at `spellevents.cpp:394` is out of the models.
- In `SpellQueue`: targeting and quickcast, item casts, the mount guard, `NP_MinBufferTimeMs` and
  other settings that only shift a time.
- Channels together with handlers and retries: the two modules share the queues but are not composed.
- In the small parts: the running average of the latency, the buff bar's durations, the events of
  environment damage, the text form of saved pet slots, units before the player's object is loaded.
- Item levels, stats and icons of items; `GetTrinketCooldown`; the events of dispels and cooldowns; the batch export of items,
  which nothing in the code starts (`main.cpp:642`).
- Script functions that only read client memory at fixed offsets, typed field tables, file access, tooltips, the loader and
  the installation of hooks: a read, a write or a call of the operating system each, with no state to go wrong between calls.

## 6. Plan, and what was met on the way

Next, in this order:

1. `ChannelQueue`: `Channel` composed with the retries of `SpellQueue`.
2. Abstract specifications: what a Lua consumer is promised by `SPELL_ON_SWING_STATE`, implemented by
   `OnSwing`; a bag of pressed spells that are each cast, dropped or replaced once, for `SpellQueue`.
3. Theorems of those refinements; of the present modules every safety property a run checks has one.

Seen while modelling, without a run of their own. About the queues and scripts: an attempt off the GCD sets `gcdEndMs` to 0
while a GCD runs (`spellcast.cpp:1087`); handlers between the flag and the push of a cooldown entry can leave the entry
without its flag (`spellevents.cpp:339`); a stale normal spell is announced before its flag is cleared (`main.cpp:599`); a
retry is queued for failures the client finds itself (`spellevents.cpp:383`, `src/README.md:84`, `:316`) and of a spell
queued by hand (`spellevents.cpp:422`); a script queued without a priority keeps that of the last one (`misc_scripts.cpp:54`,
`src/SCRIPTS.md:1035`), and a priority other than 1, 2 or 3 is accepted, never run and kept for later scripts without one
(`misc_scripts.cpp:57-58`); one of priority 1 waits for the GCD while a queued spell off the GCD does not
(`main.cpp:548`, `src/SCRIPTS.md:1036`); scripts are lost by re-queueing from a script; a failing `TryDisenchant` ends a loop a
handler began meanwhile (`player_scripts.cpp:324`); a stop request before the first tick (`main.cpp:506`, `src/SCRIPTS.md:1357`);
`channelNumTicks` is written and never read. The start of any spell of the player lets the retries of the spell in
`gLastNormalCastParams` count anew (`spellevents.cpp:1239`), and a spell's own start those of its newest history entry (`:1235`), so
that over several starts a press can be retried more often than `spellevents.cpp:398` says.

About identities: a rejection older than a UI load ends a younger generation of the spell, when that is the only
attempt in the emptied history that waits (`main.cpp:449`, `spellevents.cpp:624-628`); the server may yet accept it.

About times: a measured delay is used below 200 ms and not only below the default buffer (`main.cpp:310`,
`src/README.md:358-360`); the corrected end of an aimed spell is too early (`spellevents.cpp:1197`); a cooldown that ended before
the clock wrapped and is still listed shows as running (`cooldown_scripts.cpp:63`).

About events: the removal of an aura hidden by its flags carries a position (`auras.cpp:94`, `src/EVENTS.md:445`); casts of
auras without a target go to AURA_CAST_ON_OTHER with no unit (`src/EVENTS.md:502`); the miss and periodic logs tell their
first entry only; `NP_EnableUnitEventsPet` does not silence the own pet's unit events but does its combat feedback, and
party pets' feedback ignores the party switch (`unit.cpp:105`, `:238`, `:248`, `src/README.md:120`);
`NP_EnableUnitEventsGuidFiltering` defaults to off (`types.h`); one name in the load list lacks its prefix (`main.cpp:1488`).

About items: the same item put on again after a call saw its slot empty stays missing (`item_scripts.cpp:737`); the entries of
the bank stay in the table of all bags when it closes (`item_scripts.cpp:1113`); `GetBagItems` refuses the keyring that
`src/SCRIPTS.md:426` lists; `FindPlayerItemSlot` yields an equipped slot counted from 1 where SCRIPTS.md says 0 to 18;
`GetTrinketCooldown` of a trinket that is not worn yields a table where SCRIPTS.md says -1.

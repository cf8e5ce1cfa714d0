---------------------------- MODULE TrinketTable ----------------------------
(* GetTrinkets (item_scripts.cpp): the list of the trinkets a player wears  *)
(* and carries.  The list is one Lua table, kept between calls; each place  *)
(* has an entry table of its own, also kept, whose details are written only *)
(* when the place's item changed.  The list refers to the entry tables.     *)
EXTENDS Integers, Sequences, SequencesExt, FiniteSets

CONSTANTS
  Worn,       \* the trinket slots, in order
  Pack,       \* the slots of the backpack, in order
  BagSlots,   \* the slots of the bag a player may carry, in order
  Trinkets,   \* item ids
  OtherItems, \* ids of items that are no trinkets
  NoTrinket,  \* itemId 0
  MaxFilled   \* bound on the items at the walked places

(* No slot is listed twice.                                                 *)
EachOnce(slots) == \A i, j \in DOMAIN slots : slots[i] = slots[j] => i = j
ASSUME TrinketConstants ==
  /\ \A slots \in {Worn, Pack, BagSlots} : slots \in Seq(ToSet(slots))
  /\ NoTrinket \notin Trinkets \cup OtherItems /\ MaxFilled \in Nat
  /\ "nil" \notin ToSet(Worn) \cup ToSet(Pack) \cup ToSet(BagSlots)
  /\ EachOnce(Worn \o Pack \o BagSlots)

VARIABLES
  itemAt,     \* external: place |-> item
  bagThere,   \* external: the bag's container is there
  statsThere, \* items whose ItemStats_C the client has
  kept,       \* equippedTrinketDataCache and bagTrinketDataCache
  detail,     \* the entry table of a place; NoTrinket: none yet
  list,       \* index |-> the place whose entry table it refers to
  lastCount   \* lastTrinketCount

trinketVars == <<itemAt, bagThere, statsThere, kept, detail, list, lastCount>>
whereabouts == <<itemAt, bagThere, statsThere>>
lua == <<kept, detail, list, lastCount>>

TrinketPlaces == ToSet(Worn) \cup ToSet(Pack) \cup ToSet(BagSlots)
AllItems == Trinkets \cup OtherItems \cup {NoTrinket}
BlankPlaces == [p \in TrinketPlaces |-> NoTrinket]
NoEntry == "nil"
Positions == 1..Cardinality(TrinketPlaces)
BlankList == [i \in Positions |-> NoEntry]

TrinketInit ==
  /\ itemAt = BlankPlaces /\ bagThere = TRUE /\ statsThere = {}
  /\ kept = BlankPlaces /\ detail = BlankPlaces /\ list = BlankList /\ lastCount = 0
------------------------------------------------------------------------------
Carry(p, item) ==
  /\ itemAt[p] # item
  /\ item # NoTrinket => Cardinality({q \in TrinketPlaces \ {p} : itemAt[q] # NoTrinket}) < MaxFilled
  /\ p \in ToSet(BagSlots) => bagThere
  /\ itemAt' = [itemAt EXCEPT ![p] = item]
  /\ UNCHANGED <<bagThere, statsThere, lua>>

SwapItems(p, q) ==
  /\ itemAt[p] # itemAt[q]
  /\ {p, q} \cap ToSet(BagSlots) # {} => bagThere
  /\ itemAt' = [itemAt EXCEPT ![p] = itemAt[q], ![q] = itemAt[p]]
  /\ UNCHANGED <<bagThere, statsThere, lua>>

TakeBag ==
  /\ bagThere' = ~bagThere
  /\ itemAt' = [p \in TrinketPlaces |-> IF p \in ToSet(BagSlots) THEN NoTrinket ELSE itemAt[p]]
  /\ UNCHANGED <<statsThere, lua>>

(* The server answers a request GetItemStats made.                          *)
TrinketStatsCallback(item) ==
  /\ item \notin statsThere /\ \E p \in TrinketPlaces : itemAt[p] = item
  /\ statsThere' = statsThere \cup {item}
  /\ UNCHANGED <<itemAt, bagThere, lua>>
------------------------------------------------------------------------------
(* The order in which GetTrinkets visits the places.                        *)
Walk == Worn \o Pack \o (IF bagThere THEN BagSlots ELSE <<>>)
OnWalk == ToSet(Walk)

(* An item counts as a trinket once its stats are there.                    *)
IsTrinket(p) == itemAt[p] \in Trinkets /\ itemAt[p] \in statsThere

(* trinketCount, after the first i places and in the end, and the place the *)
(* n-th trinket was found at.                                               *)
Met(i) == {j \in 1..i : IsTrinket(Walk[j])}
Count == Cardinality(Met(Len(Walk)))
FoundAt(n) == Walk[CHOOSE i \in DOMAIN Walk : i \in Met(i) /\ Cardinality(Met(i)) = n]

(* The list's new entries, and nil for those the last call had beyond them. *)
Listed ==
  [i \in Positions |-> IF i <= Count THEN FoundAt(i) ELSE IF i <= lastCount THEN NoEntry ELSE list[i]]

(* CachedTrinketData: 0 for a place that holds no trinket.                  *)
Current(p) == IF IsTrinket(p) THEN itemAt[p] ELSE NoTrinket

(* Without a player object the call changes nothing: it returns the list as *)
(* it was.                                                                  *)
GetTrinkets ==
  /\ lastCount' = Count
  /\ detail' = [p \in TrinketPlaces |->
       IF p \in OnWalk /\ IsTrinket(p) /\ Current(p) # kept[p] THEN itemAt[p] ELSE detail[p]]
  /\ kept' = [p \in TrinketPlaces |-> IF p \in OnWalk THEN Current(p) ELSE kept[p]]
  /\ list' = Listed
  /\ UNCHANGED whereabouts

LoadKeepingTrinkets ==                                 \* mutant: ClearItemCaches is not called
  /\ detail' = BlankPlaces /\ list' = BlankList
  /\ UNCHANGED <<whereabouts, kept, lastCount>>

(* Player_LoadScriptFunctionsHook: the tables go and the remembered items   *)
(* with them; lastTrinketCount stays.                                       *)
LoadTrinketFunctions ==
  /\ kept' = BlankPlaces /\ detail' = BlankPlaces /\ list' = BlankList
  /\ UNCHANGED <<whereabouts, lastCount>>

TrinketNext ==
  \/ \E p \in TrinketPlaces, item \in AllItems : Carry(p, item)
  \/ \E p, q \in TrinketPlaces : SwapItems(p, q)
  \/ TakeBag
  \/ \E item \in Trinkets \cup OtherItems : TrinketStatsCallback(item)
  \/ GetTrinkets
  \/ LoadTrinketFunctions

TrinketSpec == TrinketInit /\ [][TrinketNext]_trinketVars
------------------------------------------------------------------------------
TrinketTypeOK ==
  /\ itemAt \in [TrinketPlaces -> AllItems] /\ bagThere \in BOOLEAN
  /\ statsThere \subseteq Trinkets \cup OtherItems
  /\ kept \in [TrinketPlaces -> Trinkets \cup {NoTrinket}]
  /\ detail \in [TrinketPlaces -> Trinkets \cup {NoTrinket}]
  /\ list \in [Positions -> TrinketPlaces \cup {NoEntry}] /\ lastCount \in 0..Cardinality(TrinketPlaces)

(* What an addon reads in the list.                                         *)
Shows(places, entries) ==
  [i \in Positions |-> IF places[i] = NoEntry THEN NoTrinket ELSE entries[places[i]]]

(* After a call the list shows the trinkets the player has, in the order of *)
(* the walk, each with the details of the item that is there now, and       *)
(* nothing after them, whatever moved between the places since the last     *)
(* call or UI load (item_scripts.cpp:555-640, 676-684).                     *)
ShowsTrinkets ==
  GetTrinkets =>
    Shows(list', detail') =
      [i \in Positions |-> IF i <= Count THEN itemAt[FoundAt(i)] ELSE NoTrinket]
ListIsTrinkets == [][ShowsTrinkets]_trinketVars
=============================================================================

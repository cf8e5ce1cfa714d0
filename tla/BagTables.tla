------------------------------ MODULE BagTables ------------------------------
(* The tables GetBagItems and GetEquippedItems hand to addons               *)
(* (item_scripts.cpp, lua_refs.cpp).  A bag's table is kept between calls   *)
(* and a call only rewrites the slots whose item differs from the one the   *)
(* program remembers of the call before, so a table is right only as long   *)
(* as the memory and the table agree.                                       *)
EXTENDS Integers

CONSTANTS
  Bags,      \* the bag numbers: 0 the backpack, 1..4, -1 the bank, 5..10 the bank's bags
  MaxSlots,  \* MAX_BAG_SLOTS
  Sizes,     \* bag |-> the sizes it may have; 0 is no bag in that place
  WornSlots, \* the equipped slots
  Items,     \* what is remembered of an item: its id, count, enchants, charges...
  NoItem,    \* itemId 0
  Gear       \* unit |-> equipped slot |-> item: the other units one may inspect

VARIABLES
  held,      \* external: bag |-> slot |-> item
  size,      \* external: bag |-> its number of slots
  known,     \* external: the bags whose object the client has
  bankOpen,  \* external: BankGuid # 0
  worn,      \* external: equipped slot |-> item
  bagCell,   \* index |-> slot |-> [kept: bagItemDataCache, seen: what the bag's table shows]
  wornCell,  \* equipped slot |-> the same of equippedItemDataCache
  inspected, \* equipped slot |-> what the table of the inspected unit shows
  listed     \* the bags the table of all bags has

bagVars == <<held, size, known, bankOpen, worn, bagCell, wornCell, inspected, listed>>
client == <<held, size, known, bankOpen, worn>>
tables == <<bagCell, wornCell, inspected, listed>>

Slots == 0..(MaxSlots - 1)
MaybeItem == Items \cup {NoItem}

ASSUME BagConstants ==
  /\ Bags \subseteq -1..10
  /\ \A unit \in DOMAIN Gear : Gear[unit] \in [WornSlots -> MaybeItem]

BankBags == {b \in Bags : b = -1 \/ b >= 5}
Fixed == Bags \cap {0, -1}

(* BANK_CACHE_INDEX for the bank, 0..10 for the others.                     *)
Index(b) == IF b = -1 THEN 11 ELSE b
Indices == {Index(b) : b \in Bags}

Empty == [kept |-> NoItem, seen |-> NoItem]

ClearAllButData(cell) == [cell EXCEPT !.seen = NoItem]   \* mutant: the remembered item stays

(* ClearBagSlot: only a slot something is remembered of.                    *)
ClearBagSlot(cell) == IF cell.kept = NoItem THEN cell ELSE Empty

(* PushBagCGItemToTable: the entry is written when the item differs from    *)
(* the remembered one.                                                      *)
PushBagCGItemToTable(cell, item) ==
  IF cell.kept = item THEN cell ELSE [kept |-> item, seen |-> item]

(* Lua loads the UI: no table reference and no remembered item is left.     *)
BlankBags == [i \in Indices |-> [s \in Slots |-> Empty]]
BlankWorn == [s \in WornSlots |-> Empty]
BlankTable == [s \in WornSlots |-> NoItem]

Init ==
  /\ held = [b \in Bags |-> [s \in Slots |-> NoItem]]
  /\ size \in {f \in [Bags -> 0..MaxSlots] : \A b \in Bags : f[b] \in Sizes[b]}
  /\ known = Fixed
  /\ bankOpen = FALSE
  /\ worn = [s \in WornSlots |-> NoItem]
  /\ bagCell = BlankBags /\ wornCell = BlankWorn /\ inspected = BlankTable /\ listed = {}
------------------------------------------------------------------------------
(* The client: items come, change and go, bags are exchanged while empty,   *)
(* the bank opens and closes, container objects arrive.                     *)
PutItem(b, s, item) ==
  /\ s < size[b] /\ held[b][s] # item
  /\ held' = [held EXCEPT ![b][s] = item]
  /\ UNCHANGED <<size, known, bankOpen, worn, tables>>

Wear(s, item) ==
  /\ worn[s] # item
  /\ worn' = [worn EXCEPT ![s] = item]
  /\ UNCHANGED <<held, size, known, bankOpen, tables>>

ExchangeBag(b, n) ==
  /\ b \notin Fixed /\ size[b] # n
  /\ \A s \in Slots : held[b][s] = NoItem
  /\ size' = [size EXCEPT ![b] = n]
  /\ \E k \in {known \cup {b}, known \ {b}} : known' = k
  /\ UNCHANGED <<held, bankOpen, worn, tables>>

BagKnown(b) ==
  /\ b \notin known
  /\ known' = known \cup {b}
  /\ UNCHANGED <<held, size, bankOpen, worn, tables>>

UseBank ==
  /\ bankOpen' = ~bankOpen
  /\ UNCHANGED <<held, size, known, worn, tables>>
------------------------------------------------------------------------------
(* GetSingleBagItems.  It returns no table while the bank is closed or the  *)
(* bag's object is not there; a place without a bag has every slot cleared, *)
(* a bag only the slots it has.                                             *)
Returned(b) ==
  /\ b \in BankBags => bankOpen
  /\ size[b] = 0 \/ b \in known

Walked(b) == IF size[b] = 0 THEN Slots ELSE {s \in Slots : s < size[b]}

Refreshed(b) ==
  [s \in Slots |->
     LET cell == bagCell[Index(b)][s] IN
     IF s \notin Walked(b) THEN cell
     ELSE IF size[b] > 0 /\ held[b][s] # NoItem THEN PushBagCGItemToTable(cell, held[b][s])
     ELSE ClearBagSlot(cell)]

GetSingleBagItems(b) ==
  /\ Returned(b)
  /\ bagCell' = [bagCell EXCEPT ![Index(b)] = Refreshed(b)]
  /\ UNCHANGED <<client, wornCell, inspected, listed>>

(* GetAllBagItems: a bag that returns no table keeps the entry it had.      *)
GetAllBagItems ==
  LET asked == {b \in Bags : Returned(b)} IN
  /\ bagCell' = [i \in Indices |->
       IF \E b \in asked : Index(b) = i
       THEN Refreshed(CHOOSE b \in asked : Index(b) = i) ELSE bagCell[i]]
  /\ listed' = listed \cup asked
  /\ UNCHANGED <<client, wornCell, inspected>>

GetWornOnly ==                       \* mutant: empty slots are passed over
  /\ wornCell' = [s \in WornSlots |->
       IF worn[s] # NoItem THEN PushBagCGItemToTable(wornCell[s], worn[s]) ELSE wornCell[s]]
  /\ UNCHANGED <<client, bagCell, inspected, listed>>

(* Script_GetEquippedItems of the player: an empty slot is cleared in the   *)
(* table, not in the memory.                                                *)
GetEquippedItems ==
  /\ wornCell' = [s \in WornSlots |->
       IF worn[s] # NoItem THEN PushBagCGItemToTable(wornCell[s], worn[s])
       ELSE [wornCell[s] EXCEPT !.seen = NoItem]]
  /\ UNCHANGED <<client, bagCell, inspected, listed>>

(* Script_GetEquippedItems of another unit: one table, written in full.     *)
InspectItems(unit) ==
  /\ inspected' = Gear[unit]
  /\ UNCHANGED <<client, bagCell, wornCell, listed>>

(* Player_LoadScriptFunctionsHook: CleanupAllLuaTableRefs, ClearItemCaches. *)
LoadKeepingCaches ==                 \* mutant: only the table references are dropped
  /\ bagCell' = [i \in Indices |-> [s \in Slots |-> [bagCell[i][s] EXCEPT !.seen = NoItem]]]
  /\ wornCell' = BlankWorn /\ inspected' = BlankTable /\ listed' = {}
  /\ UNCHANGED client

LoadScriptFunctions ==
  /\ bagCell' = BlankBags /\ wornCell' = BlankWorn /\ inspected' = BlankTable /\ listed' = {}
  /\ UNCHANGED client

Next ==
  \/ \E b \in Bags, s \in Slots, item \in MaybeItem : PutItem(b, s, item)
  \/ \E s \in WornSlots, item \in MaybeItem : Wear(s, item)
  \/ \E b \in Bags, n \in 0..MaxSlots : n \in Sizes[b] /\ ExchangeBag(b, n)
  \/ \E b \in Bags : BagKnown(b)
  \/ UseBank
  \/ \E b \in Bags : GetSingleBagItems(b)
  \/ GetAllBagItems
  \/ GetEquippedItems
  \/ \E unit \in DOMAIN Gear : InspectItems(unit)
  \/ LoadScriptFunctions

Spec == Init /\ [][Next]_bagVars
------------------------------------------------------------------------------
Cells == [kept : MaybeItem, seen : MaybeItem]

BagTypeOK ==
  /\ held \in [Bags -> [Slots -> MaybeItem]] /\ worn \in [WornSlots -> MaybeItem]
  /\ size \in [Bags -> 0..MaxSlots] /\ known \subseteq Bags /\ bankOpen \in BOOLEAN
  /\ bagCell \in [Indices -> [Slots -> Cells]] /\ wornCell \in [WornSlots -> Cells]
  /\ inspected \in [WornSlots -> MaybeItem] /\ listed \subseteq Bags

(* Whatever calls came before, a call that returns a bag's table has just   *)
(* brought every slot the bag has up to date, a place that lost its bag     *)
(* shows nothing, and no other bag's table changed (item_scripts.cpp:144).  *)
FreshBag(b) == \A s \in Walked(b) : bagCell'[Index(b)][s].seen = held[b][s]

AskedIsFresh ==
  /\ \A b \in Bags : GetSingleBagItems(b) =>
       FreshBag(b) /\ \A i \in Indices \ {Index(b)} : bagCell'[i] = bagCell[i]
  /\ GetAllBagItems => \A b \in Bags : Returned(b) => FreshBag(b)
FreshWhenAsked == [][AskedIsFresh]_bagVars

(* GetEquippedItems never shows a wrong or a removed item.  It shows the    *)
(* item worn, unless the same item, unchanged, was taken off, a call saw    *)
(* the slot empty, and it was put on again: then the slot stays empty in    *)
(* the table until the item changes (item_scripts.cpp:737-741).             *)
ShownIsWorn ==
  GetEquippedItems => \A s \in WornSlots :
    \/ wornCell'[s].seen = worn[s]
    \/ wornCell'[s].seen = NoItem /\ wornCell[s] = [kept |-> worn[s], seen |-> NoItem]
WornNotWrong == [][ShownIsWorn]_bagVars

(* A bag's table shows exactly what is remembered of the bag.               *)
SeenIsKept == \A i \in Indices, s \in Slots : bagCell[i][s].seen = bagCell[i][s].kept
=============================================================================

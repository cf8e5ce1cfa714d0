----------------------------- MODULE ItemSearch -----------------------------
(* Finding an item the player has by its id or name (items.cpp), and the    *)
(* functions that hand the place found to addons or use the item            *)
(* (item_scripts.cpp).  A name is compared with the names of the items on   *)
(* the way; their stats may still have to be asked of the server.  The id a *)
(* name was found for is remembered for good.                               *)
EXTENDS Integers, Sequences, FiniteSets

CONSTANTS
  Places,     \* <<bag, slot>> with the client's slot numbers; -3 equipped, -1 bank, -2 keyring
  Ids,        \* item ids
  NoId,       \* itemId 0
  NameOf,     \* id |-> display name, in lower case
  MaxCarried, \* bound on the items the player has
  NoPlace     \* a search result that is not found()

(* Places are those of the client.                                          *)
SlotsOf(bag) ==
  CASE bag = -3 -> 0..18 [] bag = -2 -> 81..96 [] bag = -1 -> 39..62 [] bag = 0 -> 23..38 [] OTHER -> Nat
ASSUME SearchConstants ==
  /\ \A p \in Places : p \in (-3..10) \X Nat /\ p[2] \in SlotsOf(p[1])
  /\ NoPlace \notin Places /\ NoId \notin Ids /\ MaxCarried \in Nat

VARIABLES
  carried,    \* external: place |-> item
  bags,       \* external: the numbers of the bags that are there
  bankAtHand, \* external: BankGuid # 0
  rows,       \* external: the items the client's database has a row of
  loaded,     \* the keys of itemStatsCache
  pendingItemIds, \* those the server was asked for
  nameToId,   \* itemNameToIdCache; NoId: no entry
  found       \* the place a search just returned; NoPlace after any other step

searchVars == <<carried, bags, bankAtHand, rows, loaded, pendingItemIds, nameToId, found>>
belongings == <<carried, bags, bankAtHand, rows>>

Names == {NameOf[i] : i \in Ids}
BagNumbers == {p[1] : p \in Places} \cap 1..10
EQUIPPED_BAG_INDEX == -3
BANK_BAG_INDEX == -1
KEYRING_BAG_INDEX == -2

SearchInit ==
  /\ carried = [p \in Places |-> NoId]
  /\ bags = BagNumbers /\ bankAtHand = FALSE
  /\ rows \in SUBSET Ids /\ loaded = {} /\ pendingItemIds = {}
  /\ nameToId = [n \in Names |-> NoId]
  /\ found = NoPlace
------------------------------------------------------------------------------
(* FindPlayerItem: worn items, the backpack, the bags, the bank and its     *)
(* bags while it is open, the keyring.                                      *)
Turn(bag) ==
  CASE bag = EQUIPPED_BAG_INDEX -> 0
    [] bag \in 0..4             -> bag + 1
    [] bag = BANK_BAG_INDEX     -> 6
    [] bag \in 5..10            -> bag + 2
    [] bag = KEYRING_BAG_INDEX  -> 13
Before(p, q) == Turn(p[1]) < Turn(q[1]) \/ (Turn(p[1]) = Turn(q[1]) /\ p[2] < q[2])

Reachable(p) ==
  /\ p[1] \in 1..10 => p[1] \in bags
  /\ p[1] = BANK_BAG_INDEX \/ p[1] \in 5..10 => bankAtHand

Filled == {p \in Places : carried[p] # NoId /\ Reachable(p)}

(* The first of some places on the way.                                     *)
FirstOf(S) == IF S = {} THEN NoPlace ELSE CHOOSE p \in S : \A q \in S \ {p} : Before(p, q)

(* GetItemStats and LoadItem: known, or a row comes at once.                *)
HasStats(id) == id \in loaded \cup rows

MatchesRemembered(id, searchId, name) ==      \* mutant: the first item whose stats are missing is taken
  IF searchId # NoId THEN id = searchId ELSE HasStats(id) => NameOf[id] = name

DoesItemMatch(id, searchId, name) ==
  IF searchId # NoId THEN id = searchId ELSE HasStats(id) /\ NameOf[id] = name

(* A search through some places: the stats of the items on the way are     *)
(* loaded or asked for, and a name that is found is remembered.             *)
Search(places, searchId, name) ==
  LET matching == {p \in places : DoesItemMatch(carried[p], searchId, name)}
      first == FirstOf(matching)
      passed == {p \in places : matching = {} \/ ~Before(first, p)}
      seen == {carried[p] : p \in IF searchId = NoId THEN passed ELSE {}}
  IN  /\ found' = first
      /\ loaded' = loaded \cup (seen \cap rows)
      /\ pendingItemIds' = pendingItemIds \cup (seen \ (loaded \cup rows))
      /\ nameToId' = IF matching # {} /\ searchId = NoId
                     THEN [nameToId EXCEPT ![name] = carried[first]] ELSE nameToId
      /\ UNCHANGED belongings

(* Script_FindPlayerItemSlot and Script_UseItemIdOrName.                    *)
FindById(id) == Search(Filled, id, NameOf[id])
FindByName(name) == Search(Filled, nameToId[name], name)

(* Script_UseTrinket: of the two trinket slots only.                        *)
TrinketSlots == {<<EQUIPPED_BAG_INDEX, 12>>, <<EQUIPPED_BAG_INDEX, 13>>}
UseTrinketByName(name) == Search(Filled \cap TrinketSlots, nameToId[name], name)
------------------------------------------------------------------------------
(* PushItemFoundResult: slots counted from 1 within the bag.                *)
LuaSlot(p) ==
  CASE p[1] = 0                 -> p[2] - 23 + 1
    [] p[1] = BANK_BAG_INDEX    -> p[2] - 39 + 1
    [] p[1] = KEYRING_BAG_INDEX -> p[2] - 81 + 1
    [] OTHER                    -> p[2] + 1

(* ConvertLuaSlot, back to the client's slots.                              *)
ConvertLuaSlot(bag, luaSlot) ==
  LET firstSlot == CASE bag = 0 -> 23 [] bag = BANK_BAG_INDEX -> 39 [] bag = KEYRING_BAG_INDEX -> 81 [] OTHER -> 0
  IN  luaSlot - 1 + firstSlot

(* Script_GetBagItem, and Script_GetEquippedItem of the player; NoPlace is  *)
(* an error or nil.                                                         *)
ItemAt(bag, luaSlot) ==
  LET slot == ConvertLuaSlot(bag, luaSlot)
      legal == CASE bag = EQUIPPED_BAG_INDEX -> luaSlot \in 1..19
                 [] bag = 0                  -> slot \in 23..38
                 [] bag \in 1..10            -> Reachable(<<bag, slot>>) /\ <<bag, slot>> \in Places
                 [] bag = BANK_BAG_INDEX     -> (bankAtHand /\ slot \in 39..62) \/ slot \in 69..80
                 [] bag = KEYRING_BAG_INDEX  -> slot \in 81..96
  IN  IF legal THEN <<bag, slot>> ELSE NoPlace
------------------------------------------------------------------------------
Move(p, item) ==
  /\ carried[p] # item /\ Reachable(p)
  /\ item # NoId => Cardinality({q \in Places \ {p} : carried[q] # NoId}) < MaxCarried
  /\ carried' = [carried EXCEPT ![p] = item]
  /\ found' = NoPlace
  /\ UNCHANGED <<bags, bankAtHand, rows, loaded, pendingItemIds, nameToId>>

ChangeBag(b) ==
  /\ \A p \in Places : p[1] = b => carried[p] = NoId
  /\ bags' = IF b \in bags THEN bags \ {b} ELSE bags \cup {b}
  /\ found' = NoPlace
  /\ UNCHANGED <<carried, bankAtHand, rows, loaded, pendingItemIds, nameToId>>

BankGuidChanges ==
  /\ bankAtHand' = ~bankAtHand
  /\ found' = NoPlace
  /\ UNCHANGED <<carried, bags, rows, loaded, pendingItemIds, nameToId>>

(* ItemStatsCallback: the server has the item, or it has not.               *)
ItemStatsCallback(id) ==
  /\ id \in pendingItemIds
  /\ \/ rows' = rows \cup {id} /\ loaded' = loaded \cup {id}
     \/ UNCHANGED <<rows, loaded>>
  /\ pendingItemIds' = pendingItemIds \ {id}
  /\ found' = NoPlace
  /\ UNCHANGED <<carried, bags, bankAtHand, nameToId>>

SearchNext ==
  \/ \E p \in Places, item \in Ids \cup {NoId} : Move(p, item)
  \/ \E b \in BagNumbers : ChangeBag(b)
  \/ BankGuidChanges
  \/ \E id \in Ids : ItemStatsCallback(id)
  \/ \E id \in Ids : FindById(id)
  \/ \E name \in Names : FindByName(name)
  \/ \E name \in Names : UseTrinketByName(name)

SearchSpec == SearchInit /\ [][SearchNext]_searchVars
------------------------------------------------------------------------------
SearchTypeOK ==
  /\ carried \in [Places -> Ids \cup {NoId}] /\ bags \subseteq BagNumbers /\ bankAtHand \in BOOLEAN
  /\ rows \subseteq Ids /\ loaded \subseteq rows /\ pendingItemIds \subseteq Ids \ loaded
  /\ nameToId \in [Names -> Ids \cup {NoId}] /\ found \in Places \cup {NoPlace}

Called(name) == {i \in Ids : NameOf[i] = name}
Holding(id) == {p \in Filled : carried[p] = id}

(* A search by name that returns a place returns one that holds an item of  *)
(* that name, and the bag and slot an addon is told lead GetBagItem and     *)
(* GetEquippedItem to that very item.  Where only one id has the name, the  *)
(* search returns the first place that holds it, whether the name was       *)
(* remembered from an earlier search or is compared on the way              *)
(* (items.cpp:68-110, item_scripts.cpp:324-350); two items of one name are  *)
(* told apart by the first search for good.                                 *)
FindsNamed ==
  \A name \in DOMAIN nameToId : FindByName(name) =>
    /\ found' # NoPlace => /\ NameOf[carried[found']] = name
                           /\ ItemAt(found'[1], LuaSlot(found')) = found'
    /\ \A id \in Ids : Called(name) = {id} =>
         found' = IF HasStats(id) THEN FirstOf(Holding(id)) ELSE NoPlace
SearchFinds == [][FindsNamed]_searchVars
=============================================================================

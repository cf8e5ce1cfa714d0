--------------------------- MODULE Parts_proofs ---------------------------
(* The small parts of MCParts, for every value of their constants.  The     *)
(* table of a bag and the memory of the bag agree, and no table shows a     *)
(* wrong item; the default buffer keeps its range and leaves the next cast  *)
(* the time it needs; the pet bar and the server agree, and a demon comes   *)
(* back as it was; every token of a unit is told of it; a restart keeps the *)
(* settings; the cooldown told is the longest that runs; a search by name   *)
(* finds what it was asked for; the list of trinkets shows those the player *)
(* has; an addon that follows the aura events has the client's lists; no    *)
(* cast overtakes the one the server is busy with; and addons are told of   *)
(* spells that land as they landed.  The parts share no state, and each has *)
(* an invariant of its own; the last theorem puts the types these give the  *)
(* variables together.                                                      *)
EXTENDS MCParts, FiniteSetTheorems, SequenceTheorems, WellFoundedInduction, TLAPS

(* Nothing is in a slot a bag does not have: what makes clearing the table  *)
(* of a missing bag right.                                                  *)
HeldFits == \A b \in Bags, s \in Slots : held[b][s] # NoItem => s < size[b]

(* A worn slot shows what is remembered of it or nothing.                   *)
WornSeen == \A s \in WornSlots : wornCell[s].seen \in {wornCell[s].kept, NoItem}

BagInv == BagTypeOK /\ SeenIsKept /\ HeldFits /\ WornSeen

(* What becomes of a cell: it keeps its type, and the table and the memory  *)
(* go on to agree.                                                          *)
LEMMA ClearedCell ==
  ASSUME NEW cell \in Cells
  PROVE  /\ ClearBagSlot(cell) \in Cells
         /\ cell.seen = cell.kept => /\ ClearBagSlot(cell).seen = ClearBagSlot(cell).kept
                                     /\ ClearBagSlot(cell).seen = NoItem
  BY DEF ClearBagSlot, Cells, Empty, MaybeItem

LEMMA PushedCell ==
  ASSUME NEW cell \in Cells, NEW item \in MaybeItem
  PROVE  /\ PushBagCGItemToTable(cell, item) \in Cells
         /\ cell.seen = cell.kept => /\ PushBagCGItemToTable(cell, item).seen = PushBagCGItemToTable(cell, item).kept
                                     /\ PushBagCGItemToTable(cell, item).seen = item
         /\ cell.seen \in {cell.kept, NoItem} =>
              \/ PushBagCGItemToTable(cell, item).seen = item
              \/ cell = [kept |-> item, seen |-> NoItem] /\ PushBagCGItemToTable(cell, item) = cell
         /\ cell.seen \in {cell.kept, NoItem} =>
              PushBagCGItemToTable(cell, item).seen \in {PushBagCGItemToTable(cell, item).kept, NoItem}
  BY DEF PushBagCGItemToTable, Cells, MaybeItem

(* A call brings the bag's table up to date in every slot it walks.         *)
LEMMA RefreshedBag ==
  ASSUME BagInv, NEW b \in Bags
  PROVE  /\ Refreshed(b) \in [Slots -> Cells]
         /\ \A s \in Slots : Refreshed(b)[s].seen = Refreshed(b)[s].kept
         /\ \A s \in Walked(b) : Refreshed(b)[s].seen = held[b][s]
<1> DEFINE cell(s) == bagCell[Index(b)][s]
<1>0. size[b] \in Nat /\ Index(b) \in Indices /\ Walked(b) \subseteq Slots
  BY DEF BagInv, BagTypeOK, Indices, Walked
<1>1. ASSUME NEW s \in Slots
      PROVE  cell(s) \in Cells /\ cell(s).seen = cell(s).kept /\ held[b][s] \in MaybeItem
  BY <1>0, <1>1 DEF BagInv, BagTypeOK, SeenIsKept
<1>2. ASSUME NEW s \in Slots, s \notin Walked(b)
      PROVE  Refreshed(b)[s] = cell(s)
  BY <1>2 DEF Refreshed
<1>3. ASSUME NEW s \in Walked(b), size[b] > 0, held[b][s] # NoItem
      PROVE  Refreshed(b)[s] = PushBagCGItemToTable(cell(s), held[b][s])
  BY <1>0, <1>3 DEF Refreshed
<1>4. ASSUME NEW s \in Walked(b), ~(size[b] > 0 /\ held[b][s] # NoItem)
      PROVE  Refreshed(b)[s] = ClearBagSlot(cell(s)) /\ held[b][s] = NoItem
  <2>1. Refreshed(b)[s] = ClearBagSlot(cell(s))
    BY <1>0, <1>4 DEF Refreshed
  <2>2. held[b][s] # NoItem => s < size[b]
    BY <1>0, <1>4 DEF BagInv, HeldFits
  <2>3. s \in Nat
    BY <1>0, <1>4 DEF Slots
  <2> QED BY <1>0, <1>4, <2>1, <2>2, <2>3
<1>5. ASSUME NEW s \in Slots
      PROVE  /\ Refreshed(b)[s] \in Cells
             /\ Refreshed(b)[s].seen = Refreshed(b)[s].kept
             /\ s \in Walked(b) => Refreshed(b)[s].seen = held[b][s]
  <2>1. CASE s \notin Walked(b)
    BY <1>1, <1>2, <2>1
  <2>2. CASE s \in Walked(b) /\ size[b] > 0 /\ held[b][s] # NoItem
    BY <1>1, <1>3, <2>2, PushedCell
  <2>3. CASE s \in Walked(b) /\ ~(size[b] > 0 /\ held[b][s] # NoItem)
    BY <1>1, <1>4, <2>3, ClearedCell
  <2> QED BY <2>1, <2>2, <2>3
<1>6. Refreshed(b) = [s \in Slots |-> Refreshed(b)[s]]
  BY DEF Refreshed
<1> QED BY <1>0, <1>5, <1>6

LEMMA BagInitInv == Init => BagInv
<1> SUFFICES ASSUME Init PROVE BagInv
  OBVIOUS
<1>1. NoItem \in MaybeItem /\ Empty \in Cells
  BY DEF MaybeItem, Empty, Cells
<1>2. BagTypeOK
  BY <1>1 DEF Init, BagTypeOK, BlankBags, BlankWorn, BlankTable, Fixed
<1>3. SeenIsKept /\ HeldFits /\ WornSeen
  BY DEF Init, SeenIsKept, HeldFits, WornSeen, BlankBags, BlankWorn, Empty
<1> QED
  BY <1>2, <1>3 DEF BagInv

(* The items of the client change: the tables are left alone.               *)
LEMMA BagClientInv ==
  ASSUME BagInv, UNCHANGED tables, BagTypeOK', HeldFits'
  PROVE  BagInv'
BY DEF tables, BagInv, SeenIsKept, WornSeen

LEMMA BagStepInv ==
  ASSUME BagInv, [Next]_bagVars
  PROVE  BagInv'
<1>1. ASSUME NEW b \in Bags, NEW s \in Slots, NEW item \in MaybeItem, PutItem(b, s, item)
      PROVE  BagInv'
  <2>1. BagTypeOK'
    BY <1>1 DEF PutItem, BagInv, BagTypeOK, tables
  <2>2. HeldFits'
    BY <1>1 DEF PutItem, BagInv, BagTypeOK, HeldFits, tables
  <2> QED BY <1>1, <2>1, <2>2, BagClientInv DEF PutItem
<1>2. ASSUME NEW s \in WornSlots, NEW item \in MaybeItem, Wear(s, item)
      PROVE  BagInv'
  <2>1. BagTypeOK' /\ HeldFits'
    BY <1>2 DEF Wear, BagInv, BagTypeOK, HeldFits, tables
  <2> QED BY <1>2, <2>1, BagClientInv DEF Wear
<1>3. ASSUME NEW b \in Bags, NEW n \in 0..MaxSlots, ExchangeBag(b, n)
      PROVE  BagInv'
  <2>1. BagTypeOK'
    BY <1>3 DEF ExchangeBag, BagInv, BagTypeOK, tables
  <2>2. HeldFits'
    BY <1>3 DEF ExchangeBag, BagInv, BagTypeOK, HeldFits, tables
  <2> QED BY <1>3, <2>1, <2>2, BagClientInv DEF ExchangeBag
<1>4. ASSUME NEW b \in Bags, BagKnown(b)
      PROVE  BagInv'
  <2>1. BagTypeOK' /\ HeldFits'
    BY <1>4 DEF BagKnown, BagInv, BagTypeOK, HeldFits, tables
  <2> QED BY <1>4, <2>1, BagClientInv DEF BagKnown
<1>5. CASE UseBank
  <2>1. BagTypeOK' /\ HeldFits'
    BY <1>5 DEF UseBank, BagInv, BagTypeOK, HeldFits, tables
  <2> QED BY <1>5, <2>1, BagClientInv DEF UseBank
<1>6. ASSUME NEW b \in Bags, GetSingleBagItems(b)
      PROVE  BagInv'
  <2>1. Index(b) \in Indices
    BY DEF Indices
  <2>2. bagCell' \in [Indices -> [Slots -> Cells]]
    BY <1>6, <2>1, RefreshedBag DEF GetSingleBagItems, BagInv, BagTypeOK
  <2>3. SeenIsKept'
    BY <1>6, <2>1, RefreshedBag DEF GetSingleBagItems, BagInv, BagTypeOK, SeenIsKept
  <2> QED BY <1>6, <2>2, <2>3 DEF GetSingleBagItems, client, BagInv, BagTypeOK, HeldFits, WornSeen
<1>7. CASE GetAllBagItems
  <2> DEFINE asked == {b \in Bags : Returned(b)}
             bagOf(i) == CHOOSE b \in asked : Index(b) = i
  <2>1. ASSUME NEW i \in Indices
        PROVE  /\ bagCell'[i] \in [Slots -> Cells]
               /\ \A s \in Slots : bagCell'[i][s].seen = bagCell'[i][s].kept
    <3>1. CASE \E b \in asked : Index(b) = i
      <4>1. bagCell'[i] = Refreshed(bagOf(i))
        BY <1>7, <3>1 DEF GetAllBagItems
      <4>2. bagOf(i) \in Bags
        BY <3>1
      <4> QED BY <4>1, <4>2, RefreshedBag
    <3>2. CASE ~ \E b \in asked : Index(b) = i
      <4>1. bagCell'[i] = bagCell[i]
        BY <1>7, <3>2 DEF GetAllBagItems
      <4> QED BY <4>1 DEF BagInv, BagTypeOK, SeenIsKept
    <3> QED BY <3>1, <3>2
  <2>2. bagCell' = [i \in Indices |-> bagCell'[i]]
    BY <1>7 DEF GetAllBagItems
  <2>3. listed' \subseteq Bags
    BY <1>7 DEF GetAllBagItems, BagInv, BagTypeOK
  <2> QED BY <1>7, <2>1, <2>2, <2>3 DEF GetAllBagItems, client, BagInv, BagTypeOK, HeldFits, WornSeen, SeenIsKept
<1>8. CASE GetEquippedItems
  <2>1. ASSUME NEW s \in WornSlots
        PROVE  wornCell'[s] \in Cells /\ wornCell'[s].seen \in {wornCell'[s].kept, NoItem}
    <3>1. wornCell[s] \in Cells /\ wornCell[s].seen \in {wornCell[s].kept, NoItem} /\ worn[s] \in MaybeItem
      BY DEF BagInv, BagTypeOK, WornSeen
    <3>2. CASE worn[s] # NoItem
      <4>1. wornCell'[s] = PushBagCGItemToTable(wornCell[s], worn[s])
        BY <1>8, <3>2 DEF GetEquippedItems
      <4> QED BY <3>1, <4>1, PushedCell
    <3>3. CASE worn[s] = NoItem
      <4>1. wornCell'[s] = [wornCell[s] EXCEPT !.seen = NoItem]
        BY <1>8, <3>3 DEF GetEquippedItems
      <4> QED BY <3>1, <4>1 DEF Cells, MaybeItem
    <3> QED BY <3>2, <3>3
  <2>2. wornCell' = [s \in WornSlots |-> wornCell'[s]]
    BY <1>8 DEF GetEquippedItems
  <2> QED BY <1>8, <2>1, <2>2 DEF GetEquippedItems, client, BagInv, BagTypeOK, SeenIsKept, HeldFits, WornSeen
<1>9. CASE LoadScriptFunctions
  <2>1. NoItem \in MaybeItem /\ Empty \in Cells /\ Empty.seen = Empty.kept
    BY DEF MaybeItem, Empty, Cells
  <2> QED BY <1>9, <2>1 DEF LoadScriptFunctions, client, BagInv, BagTypeOK, SeenIsKept, HeldFits, WornSeen,
             BlankBags, BlankWorn, BlankTable
<1>10. CASE UNCHANGED bagVars
  BY <1>10 DEF bagVars, BagInv, BagTypeOK, SeenIsKept, HeldFits, WornSeen
<1>11. ASSUME NEW unit \in DOMAIN Gear, InspectItems(unit)
       PROVE  BagInv'
  BY <1>11, BagConstants DEF InspectItems, client, BagInv, BagTypeOK, SeenIsKept, HeldFits, WornSeen
<1> QED
  BY <1>1, <1>2, <1>3, <1>4, <1>5, <1>6, <1>7, <1>8, <1>9, <1>10, <1>11 DEF Next

(* What is remembered of a bag is what its table shows, after any calls.    *)
THEOREM SeenIsKeptTheorem ==
  Spec => []SeenIsKept
<1>1. BagInv /\ [Next]_bagVars => BagInv'
  BY BagStepInv
<1>2. BagInv => SeenIsKept
  BY DEF BagInv
<1> QED
  BY <1>1, <1>2, BagInitInv, PTL DEF Spec

LEMMA IndexOne ==
  ASSUME NEW a \in Bags, NEW b \in Bags, Index(a) = Index(b)
  PROVE  a = b
<1>1. a \in -1..10 /\ b \in -1..10
  BY BagConstants
<1> QED BY <1>1 DEF Index

LEMMA FreshStep ==
  ASSUME BagInv
  PROVE  AskedIsFresh
<1>1. ASSUME NEW b \in Bags, GetSingleBagItems(b)
      PROVE  FreshBag(b) /\ \A i \in Indices \ {Index(b)} : bagCell'[i] = bagCell[i]
  <2>1. Index(b) \in Indices
    BY DEF Indices
  <2>2. bagCell'[Index(b)] = Refreshed(b) /\ \A i \in Indices \ {Index(b)} : bagCell'[i] = bagCell[i]
    BY <1>1, <2>1 DEF GetSingleBagItems, BagInv, BagTypeOK
  <2> QED BY <2>2, RefreshedBag DEF FreshBag
<1>2. ASSUME GetAllBagItems, NEW b \in Bags, Returned(b)
      PROVE  FreshBag(b)
  <2> DEFINE asked == {c \in Bags : Returned(c)}
  <2>1. Index(b) \in Indices /\ b \in asked
    BY <1>2 DEF Indices
  <2>2. (CHOOSE c \in asked : Index(c) = Index(b)) = b
    BY <2>1, IndexOne
  <2>3. bagCell'[Index(b)] = Refreshed(b)
    BY <1>2, <2>1, <2>2 DEF GetAllBagItems
  <2> QED BY <2>3, RefreshedBag DEF FreshBag
<1> QED BY <1>1, <1>2 DEF AskedIsFresh

(* A call that returns a bag's table has brought it up to date.             *)
THEOREM FreshWhenAskedTheorem ==
  Spec => FreshWhenAsked
<1>1. BagInv /\ [Next]_bagVars => BagInv'
  BY BagStepInv
<1>2. BagInv /\ [Next]_bagVars => [AskedIsFresh]_bagVars
  BY FreshStep
<1> QED
  BY <1>1, <1>2, BagInitInv, PTL DEF Spec, FreshWhenAsked

LEMMA ShownStep ==
  ASSUME BagInv
  PROVE  ShownIsWorn
<1> SUFFICES ASSUME GetEquippedItems, NEW s \in WornSlots
             PROVE  \/ wornCell'[s].seen = worn[s]
                    \/ wornCell'[s].seen = NoItem /\ wornCell[s] = [kept |-> worn[s], seen |-> NoItem]
  BY DEF ShownIsWorn
<1>1. wornCell[s] \in Cells /\ wornCell[s].seen \in {wornCell[s].kept, NoItem} /\ worn[s] \in MaybeItem
  BY DEF BagInv, BagTypeOK, WornSeen
<1>2. CASE worn[s] # NoItem
  <2>1. wornCell'[s] = PushBagCGItemToTable(wornCell[s], worn[s])
    BY <1>2 DEF GetEquippedItems
  <2> QED BY <1>1, <2>1, PushedCell
<1>3. CASE worn[s] = NoItem
  <2>1. wornCell'[s] = [wornCell[s] EXCEPT !.seen = NoItem]
    BY <1>3 DEF GetEquippedItems
  <2> QED BY <1>1, <1>3, <2>1 DEF Cells, MaybeItem
<1> QED BY <1>2, <1>3

(* The table of the worn items shows what is worn; the one thing that may   *)
(* be missing is an item that was taken off and put on again unchanged.     *)
THEOREM WornNotWrongTheorem ==
  Spec => WornNotWrong
<1>1. BagInv /\ [Next]_bagVars => BagInv'
  BY BagStepInv
<1>2. BagInv /\ [Next]_bagVars => [ShownIsWorn]_bagVars
  BY ShownStep
<1> QED
  BY <1>1, <1>2, BagInitInv, PTL DEF Spec, WornNotWrong
------------------------------------------------------------------------------
(* The default buffer and the measured delay.                               *)

LEMMA LargestIncrease ==
  /\ MaxOf(Increases) \in Nat
  /\ \A m \in Increases : m <= MaxOf(Increases)
  /\ \A m \in Minimums : m + MaxOf(Increases) + Increment <= Width
<1>1. PICK most \in Increases : /\ \A m \in Increases : m <= most
                                /\ \A m \in Minimums : m + most + Increment <= Width
  BY BufferConstants
<1>2. \E x \in Increases : \A y \in Increases : y <= x
  BY <1>1
<1>3. MaxOf(Increases) \in Increases /\ \A y \in Increases : y <= MaxOf(Increases)
  BY <1>2 DEF MaxOf
<1>4. MaxOf(Increases) = most
  <2>1. MaxOf(Increases) <= most /\ most <= MaxOf(Increases)
    BY <1>1, <1>3
  <2>2. MaxOf(Increases) \in Nat /\ most \in Nat
    BY <1>1, <1>3, BufferConstants
  <2> QED BY <2>1, <2>2
<1> QED BY <1>1, <1>3, <1>4, BufferConstants

LEMMA Multiple ==
  ASSUME NEW n \in Nat \ {0}, NEW a \in Int, NEW k \in Int, a = k * n
  PROVE  a % n = 0
<1>1. DEFINE q == a \div n
             r == a % n
<1>2. a = n * q + r /\ r \in 0..(n - 1) /\ q \in Int
  OBVIOUS
<1>3. r = n * (k - q)
  BY <1>2
<1>4. CASE k - q >= 1
  <2>1. n * (k - q) >= n
    BY <1>2, <1>4
  <2> QED BY <1>2, <1>3, <2>1
<1>5. CASE k - q <= -1
  <2>1. n * (k - q) <= -n
    BY <1>2, <1>5
  <2> QED BY <1>2, <1>3, <2>1
<1>6. CASE k = q
  BY <1>2, <1>3, <1>6
<1> QED BY <1>2, <1>4, <1>5, <1>6

LEMMA Quotient ==
  ASSUME NEW n \in Nat \ {0}, NEW a \in Int, a % n = 0
  PROVE  a = n * (a \div n) /\ a \div n \in Int
  OBVIOUS

LEMMA Small ==
  ASSUME NEW n \in Nat \ {0}, NEW a \in 0..(n - 1)
  PROVE  a % n = a
  OBVIOUS

LEMMA Steps ==
  ASSUME NEW n \in Nat \ {0}, NEW a \in Int, a % n = 0
  PROVE  (a + n) % n = 0 /\ (a - n) % n = 0 /\ (a > 0 => a >= n)
<1>0. a = n * (a \div n) /\ a \div n \in Int
  BY Quotient
<1>1. PICK k \in Int : a = k * n
  <2>1. n * (a \div n) = (a \div n) * n
    BY <1>0
  <2> QED BY <1>0, <2>1
<1>2. a + n = (k + 1) * n /\ a - n = (k - 1) * n
  BY <1>1
<1>3. a > 0 => a >= n
  <2>1. ASSUME a > 0, k <= 0 PROVE FALSE
    BY <1>1, <2>1
  <2>2. ASSUME k >= 1 PROVE a >= n
    BY <1>1, <2>2
  <2> QED BY <2>1, <2>2
<1> QED BY <1>2, <1>3, Multiple

BufferInv ==
  /\ BufferTypeOK
  /\ minBuffer \in Minimums /\ maxIncrease \in Increases
  /\ BufferInRange

LEMMA BufferInitInv ==
  ASSUME BufferInit
  PROVE  BufferInv
<1>1. minBuffer \in Nat /\ bufferTime = minBuffer /\ bufferTime - minBuffer = 0
  BY BufferConstants DEF BufferInit
<1>2. 0 % Increment = 0
  BY Small, BufferConstants
<1>3. bufferTime \in minBuffer..(minBuffer + MaxOf(Increases) + Increment - 1)
  BY <1>1, LargestIncrease, BufferConstants
<1> QED BY <1>1, <1>2, <1>3 DEF BufferInv, BufferTypeOK, BufferInRange, BufferInit

(* Above the minimum, a decrease takes off one whole increment.             *)
LEMMA Decreased ==
  ASSUME BufferInv, DecreaseBuffer
  PROVE  bufferTime' \in minBuffer..bufferTime /\ (bufferTime' - minBuffer) % Increment = 0
<1>0. PICK above : above = bufferTime - minBuffer
  OBVIOUS
<1>1. /\ bufferTime \in Nat /\ minBuffer \in Nat /\ above \in Nat /\ above % Increment = 0
      /\ Increment \in Nat \ {0} /\ Width \in Nat \ {0} /\ bufferTime < Width
  BY <1>0, LargestIncrease, BufferConstants DEF BufferInv, BufferTypeOK, BufferInRange
<1>2. (above - Increment) % Increment = 0 /\ (above > 0 => above >= Increment)
  <2>1. above \in Int /\ above % Increment = 0 /\ Increment \in Nat \ {0}
    BY <1>1
  <2> QED BY <2>1, Steps, Zenon
<1>3. CASE bufferTime' = bufferTime
  BY <1>0, <1>1, <1>3
<1>4. CASE bufferTime > minBuffer /\ bufferTime' = Minus(bufferTime, Increment)
  <2>1. bufferTime - Increment \in 0..(Width - 1)
    BY <1>0, <1>1, <1>2, <1>4
  <2>2. bufferTime' = bufferTime - Increment
    BY <1>1, <1>4, <2>1, Small DEF Minus
  <2>3. bufferTime' - minBuffer = above - Increment
    BY <1>0, <1>1, <2>2
  <2> QED BY <1>0, <1>1, <1>2, <1>4, <2>2, <2>3
<1> QED BY <1>3, <1>4 DEF DecreaseBuffer

(* Below the largest increase, a rejection adds one whole increment.        *)
LEMMA Increased ==
  ASSUME BufferInv, Minus(bufferTime, minBuffer) < maxIncrease
  PROVE  /\ bufferTime + Increment \in minBuffer..(minBuffer + MaxOf(Increases) + Increment - 1)
         /\ (bufferTime + Increment - minBuffer) % Increment = 0
<1>0. PICK above : above = bufferTime - minBuffer
  OBVIOUS
<1>1. /\ bufferTime \in Nat /\ minBuffer \in Nat /\ above \in Nat /\ above % Increment = 0
      /\ Increment \in Nat \ {0} /\ Width \in Nat \ {0} /\ bufferTime < Width
      /\ maxIncrease \in Nat /\ MaxOf(Increases) \in Nat /\ maxIncrease <= MaxOf(Increases)
  BY <1>0, LargestIncrease, BufferConstants DEF BufferInv, BufferTypeOK, BufferInRange
<1>2. (above + Increment) % Increment = 0
  BY <1>1, Steps
<1>3. Minus(bufferTime, minBuffer) = above
  <2>1. above \in 0..(Width - 1)
    BY <1>0, <1>1
  <2> QED BY <1>0, <1>1, <2>1, Small DEF Minus
<1>4. bufferTime + Increment - minBuffer = above + Increment /\ above < MaxOf(Increases)
  BY <1>0, <1>1, <1>3
<1> QED BY <1>0, <1>1, <1>2, <1>4

LEMMA BufferStepInv ==
  ASSUME BufferInv, [BufferNext]_bufferVars
  PROVE  BufferInv'
<1> USE DEF BufferInv, BufferTypeOK, BufferInRange
<1>0. Minimums \subseteq Nat
  BY BufferConstants
<1>1. ASSUME NEW c \in CastTimes, NEW onGcd \in BOOLEAN, BeginCast(c, onGcd)
      PROVE  BufferInv'
  <2>1. bufferTime' \in minBuffer..bufferTime /\ (bufferTime' - minBuffer) % Increment = 0
    BY <1>1, Decreased DEF BeginCast
  <2>2. minBuffer' = minBuffer /\ maxIncrease' = maxIncrease /\ serverDelay' = 0 /\ usedDelay' \in BOOLEAN
    BY <1>1 DEF BeginCast, UsesDelay
  <2>3. bufferTime' \in Nat /\ bufferTime' \in minBuffer..(minBuffer + MaxOf(Increases) + Increment - 1)
    BY <1>0, <2>1, LargestIncrease, BufferConstants
  <2>4. BufferTypeOK'
    BY <2>2, <2>3
  <2> QED BY <2>1, <2>2, <2>3, <2>4
<1>2. ASSUME NEW d \in {0} \cup Delays, CastResult(d)
      PROVE  BufferInv'
  BY <1>2 DEF CastResult
<1>3. CASE Rejected
  <2>1. CASE Minus(bufferTime, minBuffer) < maxIncrease /\ bufferTime' = bufferTime + Increment
    <3>1. UNCHANGED <<minBuffer, maxIncrease, serverDelay, usedDelay>>
      BY <1>3 DEF Rejected
    <3> QED BY <1>0, <2>1, <3>1, Increased, BufferConstants
  <2>2. CASE UNCHANGED bufferTime
    BY <1>3, <2>2 DEF Rejected
  <2> QED BY <1>3, <2>1, <2>2 DEF Rejected
<1>4. CASE Tick
  BY <1>4 DEF Tick
<1>5. CASE SetOptimize
  BY <1>5 DEF SetOptimize
<1>6. ASSUME NEW m \in Minimums, SetMinimum(m)
      PROVE  BufferInv'
  <2>1. m \in Nat /\ m - m = 0 /\ 0 % Increment = 0
    BY <1>0, Small, BufferConstants
  <2>2. m \in m..(m + MaxOf(Increases) + Increment - 1)
    BY <1>0, LargestIncrease, BufferConstants
  <2> QED BY <1>6, <2>1, <2>2 DEF SetMinimum
<1>7. ASSUME NEW m \in Increases, SetIncrease(m)
      PROVE  BufferInv'
  BY <1>7 DEF SetIncrease
<1>8. CASE UNCHANGED bufferVars
  BY <1>8 DEF bufferVars
<1> QED BY <1>1, <1>2, <1>3, <1>4, <1>5, <1>6, <1>7, <1>8 DEF BufferNext

(* The default buffer stays in its range, in whole increments.              *)
THEOREM BufferTheorem ==
  BufferSpec => []BufferInRange
<1>1. BufferInit => BufferInv
  BY BufferInitInv
<1>2. BufferInv /\ [BufferNext]_bufferVars => BufferInv'
  BY BufferStepInv
<1>3. BufferInv => BufferInRange
  BY DEF BufferInv
<1> QED BY <1>1, <1>2, <1>3, PTL DEF BufferSpec

(* A measured delay is of the last cast until one begins, and what the last *)
(* cast used is remembered.                                                 *)
DelayInv ==
  /\ serverDelay = 0 \/ measuredAgo = 0
  /\ measuredAgo \in Nat
  /\ inARow = IF usedDelay THEN 1 ELSE 0
  /\ lastCast.ago = 0

TimedInv == BufferInv /\ DelayInv /\ NextNotTooSoon

(* What a cast leaves in lastCast.                                          *)
LEMMA NextAfterCast ==
  ASSUME BufferInv, NEW c \in CastTimes, NEW onGcd \in BOOLEAN, BeginCast(c, onGcd)
  PROVE  NextNotTooSoon'
<1> DEFINE applied == IF onGcd THEN Applied(c, Buffer) ELSE Buffer
<1>1. /\ Buffer \in Nat /\ c \in Nat /\ Gcd \in Nat /\ ServerTick \in Nat
  BY BufferConstants DEF BufferInv, BufferTypeOK, Buffer, UsesDelay
<1>2. /\ lastCast'.length = c /\ lastCast'.buffer = Buffer
      /\ lastCast'.castEnd = IF c = 0 THEN 0 ELSE c + applied
      /\ lastCast'.gcdEnd = IF onGcd THEN Gcd + applied ELSE 0
  BY DEF BeginCast
<1>3. CASE onGcd /\ lastCast'.gcdEnd > 0
  <2>1. PICK b \in Nat : b = Buffer
    BY <1>1
  <2>2. PICK a : a = Applied(c, b)
    OBVIOUS
  <2>3. /\ a \in Nat
        /\ c \in (Gcd - ServerTick)..(Gcd - 1) => a >= b - (Gcd - c)
        /\ c >= Gcd => a = b
    BY <1>1, <2>1, <2>2 DEF Applied, Larger
  <2>4. /\ lastCast'.length = c /\ lastCast'.buffer = b /\ lastCast'.gcdEnd = Gcd + a
        /\ lastCast'.castEnd = IF c = 0 THEN 0 ELSE c + a
    BY <1>2, <1>3, <2>1, <2>2
  <2>5. PICK next : next = Larger(IF c = 0 THEN 0 ELSE c + a, Gcd + a)
    OBVIOUS
  <2>6. next \in Nat /\ next >= Gcd + a /\ next >= (IF c = 0 THEN 0 ELSE c + a)
    BY <1>1, <2>3, <2>5 DEF Larger
  <2>7. next >= Gcd /\ (c >= Gcd - ServerTick => next >= c + b)
    BY <1>1, <2>1, <2>3, <2>6
  <2> QED BY <2>4, <2>5, <2>7 DEF NextNotTooSoon
<1>4. CASE ~onGcd
  BY <1>2, <1>4 DEF NextNotTooSoon
<1> QED BY <1>3, <1>4 DEF NextNotTooSoon

LEMMA TimedStepInv ==
  ASSUME TimedInv, [BufferNext]_bufferVars
  PROVE  TimedInv'
<1>0. BufferInv'
  BY BufferStepInv DEF TimedInv
<1>1. ASSUME NEW c \in CastTimes, NEW onGcd \in BOOLEAN, BeginCast(c, onGcd)
      PROVE  DelayInv' /\ NextNotTooSoon'
  <2>1. NextNotTooSoon'
    BY <1>1, NextAfterCast DEF TimedInv
  <2>2. UsesDelay => measuredAgo = 0 /\ ~usedDelay
    BY DEF TimedInv, DelayInv, UsesDelay
  <2>3. /\ serverDelay' = 0 /\ usedDelay' = UsesDelay
        /\ lastCast'.ago = IF UsesDelay THEN measuredAgo ELSE 0
        /\ inARow' = IF UsesDelay THEN Smaller(inARow + 1, 2) ELSE 0
        /\ measuredAgo' = Smaller(measuredAgo + 1, 2)
    BY <1>1 DEF BeginCast
  <2>4. measuredAgo' \in Nat
    BY <2>3 DEF TimedInv, DelayInv, Smaller
  <2>5. inARow' = IF usedDelay' THEN 1 ELSE 0
    BY <2>2, <2>3 DEF TimedInv, DelayInv, Smaller
  <2> QED BY <2>1, <2>2, <2>3, <2>4, <2>5 DEF DelayInv
<1>2. ASSUME NEW d \in {0} \cup Delays, CastResult(d)
      PROVE  DelayInv' /\ NextNotTooSoon'
  <2>1. d \in Nat
    BY BufferConstants
  <2> QED BY <1>2, <2>1 DEF CastResult, TimedInv, DelayInv, NextNotTooSoon
<1>3. ASSUME UNCHANGED <<serverDelay, measuredAgo, inARow, usedDelay, lastCast>>
      PROVE  DelayInv' /\ NextNotTooSoon'
  BY <1>3 DEF TimedInv, DelayInv, NextNotTooSoon
<1>4. ASSUME \/ Rejected \/ Tick \/ SetOptimize \/ UNCHANGED bufferVars
             \/ \E m \in Minimums : SetMinimum(m)
             \/ \E m \in Increases : SetIncrease(m)
      PROVE  DelayInv' /\ NextNotTooSoon'
  BY <1>3, <1>4 DEF Rejected, Tick, SetOptimize, SetMinimum, SetIncrease, bufferVars
<1>5. DelayInv' /\ NextNotTooSoon'
  BY <1>1, <1>2, <1>3, <1>4 DEF BufferNext
<1> QED BY <1>0, <1>5 DEF TimedInv

(* The next cast is not too soon, and no measured delay is used twice.      *)
THEOREM NextCastTheorem ==
  BufferSpec => []NextCastTimed
<1>1. BufferInit => TimedInv
  <2>1. BufferInit => BufferInv
    BY BufferInitInv
  <2>2. BufferInit => DelayInv /\ NextNotTooSoon
    BY DEF BufferInit, DelayInv, NextNotTooSoon
  <2> QED BY <2>1, <2>2 DEF TimedInv
<1>2. TimedInv /\ [BufferNext]_bufferVars => TimedInv'
  BY TimedStepInv
<1>3. TimedInv => NextCastTimed
  BY DEF TimedInv, DelayInv, NextCastTimed, DelayUsedOnce
<1> QED BY <1>1, <1>2, <1>3, PTL DEF BufferSpec
------------------------------------------------------------------------------
(* The pet bar.                                                             *)

(* What is saved of a kind of demon is what the player chose for it last.   *)
SavedIsChosen ==
  \A k \in Demons :
    /\ saved[k] \cap SpellSlots = chosen[k].on
    /\ saved[k] \cap ReactSlots = IF chosen[k].react = NoReact THEN {} ELSE {chosen[k].react}

ChoicesOK == chosen \in [Demons -> [on : SUBSET SpellSlots, react : {NoReact} \cup ReactSlots]]

PetInv ==
  /\ PetTypeOK /\ ChoicesOK
  /\ petGuid <= summons /\ summons \in Nat /\ pending = 0
  /\ BarIsServers
  /\ SavedIsChosen

LEMMA LargestOfOne ==
  ASSUME NEW x \in Nat
  PROVE  Largest({x}) = x
  BY DEF Largest

(* Of the saved react states there is one at most, so the largest is it.    *)
LEMMA Restored ==
  ASSUME PetInv, NEW k \in Demons
  PROVE  /\ BarAuto(saved[k]) = DefaultOn \cup chosen[k].on
         /\ React(saved[k]) = IF chosen[k].react = NoReact THEN DefaultReact ELSE chosen[k].react
<1>1. /\ saved[k] \cap SpellSlots = chosen[k].on
      /\ saved[k] \cap ReactSlots = IF chosen[k].react = NoReact THEN {} ELSE {chosen[k].react}
      /\ chosen[k].react \in {NoReact} \cup ReactSlots
  BY DEF PetInv, SavedIsChosen, ChoicesOK
<1>2. CASE chosen[k].react = NoReact
  BY <1>1, <1>2 DEF BarAuto, React
<1>3. CASE chosen[k].react # NoReact
  <2>1. chosen[k].react \in Nat
    BY <1>1, <1>3, PetConstants
  <2>2. Largest(saved[k] \cap ReactSlots) = chosen[k].react
    BY <1>1, <1>3, <2>1, LargestOfOne
  <2> QED BY <1>1, <1>3, <2>2 DEF BarAuto, React
<1> QED BY <1>2, <1>3

LEMMA RestoredTypes ==
  ASSUME PetInv, NEW k \in Kinds, NEW isKnown \in BOOLEAN
  PROVE  /\ BarAuto(ToRestore(k, isKnown)) \in SUBSET SpellSlots
         /\ React(ToRestore(k, isKnown)) \in ReactSlots
<1>1. PICK data : data = ToRestore(k, isKnown)
  OBVIOUS
<1>2. BarAuto(data) \in SUBSET SpellSlots
  BY PetConstants DEF BarAuto
<1>3. ASSUME data = {} PROVE React(data) \in ReactSlots
  BY <1>3, PetConstants DEF React
<1>4. ASSUME k \in Demons, data = saved[k] PROVE React(data) \in ReactSlots
  <2>1. chosen[k].react \in {NoReact} \cup ReactSlots
    BY <1>4 DEF PetInv, ChoicesOK
  <2> QED BY <1>4, <2>1, Restored, PetConstants
<1>5. React(data) \in ReactSlots
  BY <1>1, <1>3, <1>4 DEF ToRestore
<1> QED BY <1>1, <1>2, <1>5

LEMMA PetInitInv ==
  ASSUME PetInit
  PROVE  PetInv
<1> USE DEF PetInit
<1>1. PetTypeOK
  <2>0. petGuid \in 0..MaxSummons
    BY PetConstants
  <2>1. petKind \in Kinds /\ petKnown \in BOOLEAN
    BY DEF Kinds
  <2>2. autoOn \subseteq SpellSlots /\ reaction \in ReactSlots
    BY PetConstants
  <2>3. server \in [auto : SUBSET SpellSlots, react : ReactSlots]
    BY PetConstants
  <2>4. saved \in [Demons -> SUBSET PetSlots]
    OBVIOUS
  <2> QED BY <2>0, <2>1, <2>2, <2>3, <2>4 DEF PetTypeOK
<1>2. ChoicesOK
  BY DEF ChoicesOK, Undecided, NoReact
<1>3. SavedIsChosen
  BY DEF SavedIsChosen, Undecided, NoReact
<1> QED BY <1>1, <1>2, <1>3 DEF PetInv, BarIsServers

(* Saving a slot saves the player's choice: WithSlot does to the saved      *)
(* slots what Chooses does to the choice.                                   *)
LEMMA SlotSaved ==
  ASSUME NEW data \in SUBSET PetSlots
  PROVE  /\ \A s \in SpellSlots, type \in {"enabled", "disabled"} :
              /\ WithSlot(data, s, type) \in SUBSET PetSlots
              /\ WithSlot(data, s, type) \cap SpellSlots =
                   IF type = "enabled" THEN (data \cap SpellSlots) \cup {s} ELSE (data \cap SpellSlots) \ {s}
              /\ WithSlot(data, s, type) \cap ReactSlots = data \cap ReactSlots
         /\ \A r \in ReactSlots, type \in {"react"} :
              /\ WithSlot(data, r, type) \in SUBSET PetSlots
              /\ WithSlot(data, r, type) \cap SpellSlots = data \cap SpellSlots
              /\ WithSlot(data, r, type) \cap ReactSlots = {r}
         /\ \A type \in {"enabled", "disabled", "other"} : WithSlot(data, 0, type) = data
<1>1. ASSUME NEW s \in SpellSlots, NEW type \in {"enabled", "disabled"}
      PROVE  /\ WithSlot(data, s, type) \in SUBSET PetSlots
             /\ WithSlot(data, s, type) \cap SpellSlots =
                  IF type = "enabled" THEN (data \cap SpellSlots) \cup {s} ELSE (data \cap SpellSlots) \ {s}
             /\ WithSlot(data, s, type) \cap ReactSlots = data \cap ReactSlots
  <2>1. WithSlot(data, s, type) = IF type = "enabled" THEN data \cup {s} ELSE data \ {s}
    BY DEF WithSlot
  <2>2. s \in PetSlots /\ s \notin ReactSlots
    BY PetConstants DEF PetSlots
  <2> QED BY <2>1, <2>2
<1>2. ASSUME NEW r \in ReactSlots
      PROVE  /\ WithSlot(data, r, "react") \in SUBSET PetSlots
             /\ WithSlot(data, r, "react") \cap SpellSlots = data \cap SpellSlots
             /\ WithSlot(data, r, "react") \cap ReactSlots = {r}
  <2>1. r \notin SpellSlots /\ r \in PetSlots
    BY PetConstants DEF PetSlots
  <2>2. WithSlot(data, r, "react") = (data \ ReactSlots) \cup {r}
    BY <2>1 DEF WithSlot
  <2> QED BY <2>1, <2>2, PetConstants
<1>3. 0 \notin SpellSlots /\ 0 \notin ReactSlots
  BY PetConstants
<1> QED BY <1>1, <1>2, <1>3 DEF WithSlot

LEMMA PetStepInv ==
  ASSUME PetInv, [PetNext]_petVars
  PROVE  PetInv'
<1> USE DEF PetInv
<1>1. ASSUME NEW k \in Kinds, NEW isKnown \in BOOLEAN, Summon(k, isKnown)
      PROVE  PetInv'
  <2>1. PICK data : data = ToRestore(k, isKnown)
    OBVIOUS
  <2>2. BarAuto(data) \in SUBSET SpellSlots /\ React(data) \in ReactSlots
    BY <2>1, RestoredTypes
  <2>3. /\ summons < MaxSummons /\ summons' = summons + 1 /\ petGuid' = summons'
        /\ petKind' = k /\ petKnown' = isKnown /\ autoOn' = BarAuto(data) /\ reaction' = React(data)
        /\ server' = [auto |-> BarAuto(data), react |-> React(data)]
        /\ UNCHANGED <<saved, preserve, pending, chosen>>
    BY <1>1, <2>1 DEF Summon, Packets
  <2>4. PetTypeOK'
    BY <2>2, <2>3, PetConstants DEF PetTypeOK
  <2>5. ChoicesOK' /\ SavedIsChosen'
    BY <2>3 DEF ChoicesOK, SavedIsChosen
  <2> QED BY <2>3, <2>4, <2>5 DEF BarIsServers
<1>2. CASE SamePet
  <2>1. /\ petGuid # 0 /\ autoOn' = server.auto /\ reaction' = server.react
        /\ UNCHANGED <<petGuid, petKind, petKnown, server, saved, preserve, pending, summons, chosen>>
    BY <1>2 DEF SamePet
  <2>2. server' = [auto |-> server.auto, react |-> server.react]
    BY <2>1 DEF PetTypeOK
  <2> QED BY <2>1, <2>2 DEF PetTypeOK, ChoicesOK, SavedIsChosen, BarIsServers
<1>3. CASE Dismiss
  <2>1. petGuid' = 0 /\ petKnown' = FALSE
        /\ UNCHANGED <<petKind, autoOn, reaction, server, saved, preserve, pending, summons, chosen>>
    BY <1>3 DEF Dismiss
  <2>2. petKnown' \in BOOLEAN
    BY <2>1
  <2>3. petGuid' \in 0..MaxSummons
    BY <2>1, PetConstants
  <2>4. PetTypeOK'
    BY <2>1, <2>2, <2>3 DEF PetTypeOK
  <2>5. ChoicesOK' /\ SavedIsChosen'
    BY <2>1 DEF ChoicesOK, SavedIsChosen
  <2>6. petGuid' <= summons' /\ summons' \in Nat
    BY <2>1
  <2> QED BY <2>1, <2>4, <2>5, <2>6 DEF BarIsServers
<1>4. CASE ObjectAppearsOrLeaves
  BY <1>4 DEF ObjectAppearsOrLeaves, PetTypeOK, ChoicesOK, SavedIsChosen, BarIsServers
<1>5. CASE SetPreserve
  BY <1>5 DEF SetPreserve, PetTypeOK, ChoicesOK, SavedIsChosen, BarIsServers
<1>6. ASSUME NEW s \in SpellSlots, TogglePetSlotAutocast(s)
      PROVE  PetInv'
  <2>1. PICK type \in {"enabled", "disabled"} : type = IF s \in autoOn' THEN "enabled" ELSE "disabled"
    OBVIOUS
  <2>2. /\ petGuid # 0
        /\ autoOn' = IF s \in autoOn THEN autoOn \ {s} ELSE autoOn \cup {s}
        /\ server' = [server EXCEPT !.auto = autoOn']
        /\ pending' = 0
        /\ UNCHANGED <<petGuid, petKind, petKnown, reaction, preserve, summons>>
        /\ SaveGreaterDemonPreferences(s, type)
    BY <1>6, <2>1 DEF TogglePetSlotAutocast
  <2>3. PetTypeOK' /\ BarIsServers'
    <3>1. server' = [auto |-> autoOn', react |-> reaction']
      BY <2>2 DEF PetTypeOK, BarIsServers
    <3>2. autoOn' \in SUBSET SpellSlots
      BY <2>2 DEF PetTypeOK
    <3>3. saved' \in [Demons -> SUBSET PetSlots]
      <4>1. CASE ~Recorded
        BY <2>2, <4>1 DEF SaveGreaterDemonPreferences, PetTypeOK
      <4>2. CASE Recorded
        <5>1. petKind \in Demons /\ saved[petKind] \in SUBSET PetSlots
          BY <4>2 DEF Recorded, HasCvar, PetTypeOK
        <5>2. WithSlot(saved[petKind], s, type) \in SUBSET PetSlots
          BY <5>1, SlotSaved
        <5> QED BY <2>2, <4>2, <5>1, <5>2 DEF SaveGreaterDemonPreferences, PetTypeOK
      <4> QED BY <4>1, <4>2
    <3> QED BY <2>2, <3>1, <3>2, <3>3 DEF PetTypeOK, BarIsServers
  <2>4. ChoicesOK' /\ SavedIsChosen'
    <3>1. CASE ~Recorded
      BY <1>6, <2>2, <3>1 DEF SaveGreaterDemonPreferences, TogglePetSlotAutocast, Chooses, ChoicesOK, SavedIsChosen
    <3>2. CASE Recorded
      <4>1. petKind \in Demons /\ saved[petKind] \in SUBSET PetSlots
        BY <3>2 DEF Recorded, HasCvar, PetTypeOK
      <4>2. PICK c : c = chosen[petKind]
        OBVIOUS
      <4>3. c \in [on : SUBSET SpellSlots, react : {NoReact} \cup ReactSlots]
        BY <4>1, <4>2 DEF ChoicesOK
      <4>4. chosen' = [chosen EXCEPT ![petKind] =
              [on |-> IF type = "enabled" THEN c.on \cup {s} ELSE c.on \ {s}, react |-> c.react]]
        <5>1. chosen' = [chosen EXCEPT ![petKind] =
                [c EXCEPT !.on = IF s \in autoOn' THEN @ \cup {s} ELSE @ \ {s}]]
          BY <1>6, <3>2, <4>1, <4>2 DEF TogglePetSlotAutocast, Chooses, Choice
        <5>2. [c EXCEPT !.on = IF s \in autoOn' THEN @ \cup {s} ELSE @ \ {s}] =
                [on |-> IF type = "enabled" THEN c.on \cup {s} ELSE c.on \ {s}, react |-> c.react]
          BY <2>1, <4>3
        <5> QED BY <5>1, <5>2
      <4>5. saved' = [saved EXCEPT ![petKind] = WithSlot(saved[petKind], s, type)]
        BY <2>2, <3>2 DEF SaveGreaterDemonPreferences
      <4>6. /\ WithSlot(saved[petKind], s, type) \cap SpellSlots =
                 IF type = "enabled" THEN (saved[petKind] \cap SpellSlots) \cup {s}
                 ELSE (saved[petKind] \cap SpellSlots) \ {s}
            /\ WithSlot(saved[petKind], s, type) \cap ReactSlots = saved[petKind] \cap ReactSlots
        <5>1. PICK data \in SUBSET PetSlots : data = saved[petKind]
          BY <4>1
        <5>2. /\ WithSlot(data, s, type) \cap SpellSlots =
                   IF type = "enabled" THEN (data \cap SpellSlots) \cup {s} ELSE (data \cap SpellSlots) \ {s}
              /\ WithSlot(data, s, type) \cap ReactSlots = data \cap ReactSlots
          BY SlotSaved
        <5> QED BY <5>1, <5>2
      <4>7. ChoicesOK'
        BY <4>1, <4>3, <4>4 DEF ChoicesOK
      <4>8. SavedIsChosen'
        <5> SUFFICES ASSUME NEW k \in Demons
                     PROVE  /\ saved'[k] \cap SpellSlots = chosen'[k].on
                            /\ saved'[k] \cap ReactSlots =
                                 IF chosen'[k].react = NoReact THEN {} ELSE {chosen'[k].react}
          BY DEF SavedIsChosen
        <5>1. CASE k = petKind
          BY <4>1, <4>2, <4>3, <4>4, <4>5, <4>6, <5>1 DEF SavedIsChosen, PetTypeOK, ChoicesOK
        <5>2. CASE k # petKind
          BY <4>1, <4>4, <4>5, <5>2 DEF SavedIsChosen, PetTypeOK, ChoicesOK
        <5> QED BY <5>1, <5>2
      <4> QED BY <4>7, <4>8
    <3> QED BY <3>1, <3>2
  <2> QED BY <2>2, <2>3, <2>4
<1>7. ASSUME NEW type \in {"enabled", "disabled", "other"}, GetPetSpellAction(type)
      PROVE  PetInv'
  <2>1. saved' = saved
    <3>1. CASE Recorded
      <4>1. petKind \in Demons /\ saved[petKind] \in SUBSET PetSlots
        BY <3>1 DEF Recorded, HasCvar, PetTypeOK
      <4>2. WithSlot(saved[petKind], 0, type) = saved[petKind]
        BY <4>1, SlotSaved
      <4> QED BY <1>7, <3>1, <4>1, <4>2 DEF GetPetSpellAction, SaveGreaterDemonPreferences, PetTypeOK
    <3> QED BY <1>7, <3>1 DEF GetPetSpellAction, SaveGreaterDemonPreferences
  <2> QED BY <1>7, <2>1 DEF GetPetSpellAction, PetTypeOK, ChoicesOK, SavedIsChosen, BarIsServers
<1>8. ASSUME NEW r \in ReactSlots, SendPetAction(r)
      PROVE  PetInv'
  <2>2. /\ petGuid # 0 /\ reaction' = r
        /\ server' = [server EXCEPT !.react = r]
        /\ UNCHANGED <<petGuid, petKind, petKnown, autoOn, preserve, pending, summons>>
        /\ SaveGreaterDemonPreferences(r, "react")
    BY <1>8 DEF SendPetAction
  <2>3. PetTypeOK' /\ BarIsServers'
    <3>1. server' = [auto |-> autoOn', react |-> reaction']
      BY <2>2 DEF PetTypeOK, BarIsServers
    <3>3. saved' \in [Demons -> SUBSET PetSlots]
      <4>1. CASE ~Recorded
        BY <2>2, <4>1 DEF SaveGreaterDemonPreferences, PetTypeOK
      <4>2. CASE Recorded
        <5>1. petKind \in Demons /\ saved[petKind] \in SUBSET PetSlots
          BY <4>2 DEF Recorded, HasCvar, PetTypeOK
        <5>2. WithSlot(saved[petKind], r, "react") \in SUBSET PetSlots
          BY <5>1, SlotSaved
        <5> QED BY <2>2, <4>2, <5>1, <5>2 DEF SaveGreaterDemonPreferences, PetTypeOK
      <4> QED BY <4>1, <4>2
    <3> QED BY <2>2, <3>1, <3>3 DEF PetTypeOK, BarIsServers
  <2>4. ChoicesOK' /\ SavedIsChosen'
    <3>1. CASE ~Recorded
      BY <1>8, <2>2, <3>1 DEF SaveGreaterDemonPreferences, SendPetAction, Chooses, ChoicesOK, SavedIsChosen
    <3>2. CASE Recorded
      <4>1. petKind \in Demons /\ saved[petKind] \in SUBSET PetSlots
        BY <3>2 DEF Recorded, HasCvar, PetTypeOK
      <4>2. PICK c : c = chosen[petKind]
        OBVIOUS
      <4>3. c \in [on : SUBSET SpellSlots, react : {NoReact} \cup ReactSlots]
        BY <4>1, <4>2 DEF ChoicesOK
      <4>4. chosen' = [chosen EXCEPT ![petKind] = [on |-> c.on, react |-> r]]
        <5>1. chosen' = [chosen EXCEPT ![petKind] = [c EXCEPT !.react = r]]
          BY <1>8, <3>2, <4>1, <4>2 DEF SendPetAction, Chooses, Choice
        <5>2. [c EXCEPT !.react = r] = [on |-> c.on, react |-> r]
          BY <4>3
        <5> QED BY <5>1, <5>2
      <4>5. saved' = [saved EXCEPT ![petKind] = WithSlot(saved[petKind], r, "react")]
        BY <2>2, <3>2 DEF SaveGreaterDemonPreferences
      <4>6. /\ WithSlot(saved[petKind], r, "react") \cap SpellSlots = saved[petKind] \cap SpellSlots
            /\ WithSlot(saved[petKind], r, "react") \cap ReactSlots = {r}
        BY <4>1, SlotSaved
      <4>7. ChoicesOK'
        BY <4>1, <4>3, <4>4 DEF ChoicesOK
      <4>8. SavedIsChosen'
        <5> SUFFICES ASSUME NEW k \in Demons
                     PROVE  /\ saved'[k] \cap SpellSlots = chosen'[k].on
                            /\ saved'[k] \cap ReactSlots =
                                 IF chosen'[k].react = NoReact THEN {} ELSE {chosen'[k].react}
          BY DEF SavedIsChosen
        <5>0. r # NoReact
          BY PetConstants DEF NoReact
        <5>1. CASE k = petKind
          BY <4>1, <4>2, <4>3, <4>4, <4>5, <4>6, <5>0, <5>1 DEF SavedIsChosen, PetTypeOK, ChoicesOK
        <5>2. CASE k # petKind
          BY <4>1, <4>4, <4>5, <5>2 DEF SavedIsChosen, PetTypeOK, ChoicesOK
        <5> QED BY <5>1, <5>2
      <4> QED BY <4>7, <4>8
    <3> QED BY <3>1, <3>2
  <2> QED BY <2>2, <2>3, <2>4
<1>9. CASE UNCHANGED petVars
  BY <1>9 DEF petVars, PetTypeOK, ChoicesOK, SavedIsChosen, BarIsServers
<1> QED BY <1>1, <1>2, <1>3, <1>4, <1>5, <1>6, <1>7, <1>8, <1>9 DEF PetNext

(* The pet bar and the server agree, whatever is summoned and chosen.       *)
THEOREM BarTheorem ==
  PetSpec => []BarIsServers
<1>1. PetInit => PetInv
  BY PetInitInv
<1>2. PetInv /\ [PetNext]_petVars => PetInv'
  BY PetStepInv
<1>3. PetInv => BarIsServers
  BY DEF PetInv
<1> QED BY <1>1, <1>2, <1>3, PTL DEF PetSpec

LEMMA ReturnStep ==
  ASSUME PetInv, [PetNext]_petVars
  PROVE  ReturnsAsChosen
<1> SUFFICES ASSUME NEW k \in Demons, petGuid' > petGuid, petKind' = k, petKnown', preserve
             PROVE  /\ autoOn' = DefaultOn \cup chosen[k].on
                    /\ reaction' = IF chosen[k].react = NoReact THEN DefaultReact ELSE chosen[k].react
  BY DEF ReturnsAsChosen
<1>1. petGuid \in Nat /\ ~(petGuid' = petGuid) /\ ~(petGuid' = 0)
  BY PetConstants DEF PetInv, PetTypeOK
<1>2. PICK kind \in Kinds, isKnown \in BOOLEAN : Summon(kind, isKnown)
  BY <1>1 DEF PetNext, petVars, SamePet, Dismiss, ObjectAppearsOrLeaves, SetPreserve, TogglePetSlotAutocast,
              GetPetSpellAction, SendPetAction
<1>3. kind = k /\ isKnown
  BY <1>2 DEF Summon
<1>4. ToRestore(kind, isKnown) = saved[k]
  BY <1>3 DEF ToRestore
<1>5. autoOn' = BarAuto(saved[k]) /\ reaction' = React(saved[k])
  BY <1>2, <1>4 DEF Summon
<1> QED BY <1>5, Restored

(* A greater demon comes back with the player's last choices for its kind.  *)
THEOREM RestoredTheorem ==
  PetSpec => RestoredAsChosen
<1>1. PetInit => PetInv
  BY PetInitInv
<1>2. PetInv /\ [PetNext]_petVars => PetInv'
  BY PetStepInv
<1>3. PetInv /\ [PetNext]_petVars => [ReturnsAsChosen]_petVars
  BY ReturnStep
<1> QED BY <1>1, <1>2, <1>3, PTL DEF PetSpec, RestoredAsChosen
------------------------------------------------------------------------------
(* The tokens of a unit.                                                    *)

(* No unit is in two party slots, or in two raid slots.                     *)
OneSlotEach ==
  \A t, u \in Tokens :
    (t # u /\ Group(t) = Group(u) /\ Group(t) # "own" /\ names[t] # NoGuid) => names[t] # names[u]

UnitTypes ==
  /\ names \in [Tokens -> Guids \cup {NoGuid}] /\ gates \subseteq Gates
  /\ value \in [Guids -> {0, 1}] /\ shown \in [Tokens -> {0, 1}]
  /\ shownRaw \in [Guids -> {0, 1}] /\ shownGuid \in [Guids -> {0, 1}]
  /\ feedback \in [guid : Guids \cup {NoGuid}, told : SUBSET Tokens]

UnitInv == UnitTypes /\ OneSlotEach /\ TokensTold

(* A search over the slots of a group that holds the unit once finds it.    *)
LEMMA OnlySlot ==
  ASSUME UnitInv, NEW g \in Guids, NEW S \in SUBSET Nat, NEW member, NEW pet, member # pet,
         \A i \in S : <<member, i>> \in Tokens /\ <<pet, i>> \in Tokens,
         \A i, j \in S : \A a, b \in {member, pet} :
           (names[<<a, i>>] = g /\ names[<<b, j>>] = g) => a = b /\ i = j
  PROVE  FirstSlot(g, S, member, pet) =
           {t \in {<<member, i>> : i \in S} \cup {<<pet, i>> : i \in S} : names[t] = g}
<1> DEFINE at == {i \in S : g \in {names[<<member, i>>], names[<<pet, i>>]}}
           all == {<<member, i>> : i \in S} \cup {<<pet, i>> : i \in S}
<1>1. CASE at = {}
  <2>1. \A t \in all : names[t] # g
    BY <1>1
  <2> QED BY <1>1, <2>1 DEF FirstSlot
<1>2. CASE at # {}
  <2>1. PICK k \in S : names[<<member, k>>] = g \/ names[<<pet, k>>] = g
    BY <1>2
  <2>2. at = {k}
    BY <2>1
  <2>3. (CHOOSE i \in at : \A j \in at : i <= j) = k
    BY <2>2
  <2>4. FirstSlot(g, S, member, pet) = IF names[<<member, k>>] = g THEN {<<member, k>>} ELSE {<<pet, k>>}
    <3>1. FirstSlot(g, S, member, pet) =
            LET i == CHOOSE i \in at : \A j \in at : i <= j IN
            IF at = {} THEN {} ELSE IF names[<<member, i>>] = g THEN {<<member, i>>} ELSE {<<pet, i>>}
      BY DEF FirstSlot
    <3> HIDE DEF at
    <3> QED BY <1>2, <2>3, <3>1
  <2>5. CASE names[<<member, k>>] = g
    <3>1. \A t \in all : names[t] = g => t = <<member, k>>
      BY <2>5
    <3> QED BY <2>1, <2>4, <2>5, <3>1
  <2>6. CASE names[<<member, k>>] # g
    <3>1. names[<<pet, k>>] = g
      BY <2>1, <2>6
    <3>2. \A t \in all : names[t] = g => t = <<pet, k>>
      BY <3>1
    <3> QED BY <2>4, <2>6, <3>1, <3>2
  <2> QED BY <2>5, <2>6
<1> QED BY <1>1, <1>2

LEMMA Groups ==
  /\ \A i \in Party : /\ <<"party", i>> \in Tokens /\ <<"partypet", i>> \in Tokens
                      /\ Group(<<"party", i>>) = "party" /\ Group(<<"partypet", i>>) = "party"
  /\ \A i \in Raid : /\ <<"raid", i>> \in Tokens /\ <<"raidpet", i>> \in Tokens
                     /\ Group(<<"raid", i>>) = "raid" /\ Group(<<"raidpet", i>>) = "raid"
  /\ \A t \in OwnTokens : t \in Tokens /\ Group(t) = "own"
<1>1. \A i \in Party : /\ <<"party", i>> \in Tokens /\ <<"partypet", i>> \in Tokens
                       /\ Group(<<"party", i>>) = "party" /\ Group(<<"partypet", i>>) = "party"
  BY DEF Tokens, PartyTokens, PartyPets, Group
<1>2. \A i \in Raid : /\ <<"raid", i>> \in Tokens /\ <<"raidpet", i>> \in Tokens
                      /\ Group(<<"raid", i>>) = "raid" /\ Group(<<"raidpet", i>>) = "raid"
  BY DEF Tokens, RaidTokens, RaidPets, Group
<1>3. \A t \in OwnTokens : t \in Tokens /\ Group(t) = "own"
  BY DEF Tokens, OwnTokens, Group
<1> QED BY <1>1, <1>2, <1>3

(* The names of a unit are all its tokens.                                  *)
LEMMA NamesAreTokens ==
  ASSUME UnitInv, NEW g \in Guids
  PROVE  GetUnitNames(g) = {t \in Tokens : names[t] = g}
<1>0. g # NoGuid
  BY UnitConstants
<1>1. FirstSlot(g, Party, "party", "partypet") = {t \in PartyTokens \cup PartyPets : names[t] = g}
  <2>1. ASSUME NEW i \in Party, NEW j \in Party, NEW a \in {"party", "partypet"}, NEW b \in {"party", "partypet"},
               names[<<a, i>>] = g, names[<<b, j>>] = g
        PROVE  a = b /\ i = j
    <3>1. <<a, i>> \in Tokens /\ <<b, j>> \in Tokens /\ Group(<<a, i>>) = "party" /\ Group(<<b, j>>) = "party"
      BY Groups
    <3>2. <<a, i>> = <<b, j>>
      BY <1>0, <2>1, <3>1 DEF UnitInv, OneSlotEach
    <3> QED BY <3>2
  <2>2. Party \in SUBSET Nat /\ \A i \in Party : <<"party", i>> \in Tokens /\ <<"partypet", i>> \in Tokens
    BY Groups, UnitConstants
  <2>3. \A i, j \in Party : \A a, b \in {"party", "partypet"} :
          (names[<<a, i>>] = g /\ names[<<b, j>>] = g) => a = b /\ i = j
    BY <2>1
  <2>4. "party" # "partypet"
    OBVIOUS
  <2>5. FirstSlot(g, Party, "party", "partypet") =
          {t \in {<<"party", i>> : i \in Party} \cup {<<"partypet", i>> : i \in Party} : names[t] = g}
    BY <2>2, <2>3, <2>4, OnlySlot
  <2> QED BY <2>5 DEF PartyTokens, PartyPets
<1>2. FirstSlot(g, Raid, "raid", "raidpet") = {t \in RaidTokens \cup RaidPets : names[t] = g}
  <2>1. ASSUME NEW i \in Raid, NEW j \in Raid, NEW a \in {"raid", "raidpet"}, NEW b \in {"raid", "raidpet"},
               names[<<a, i>>] = g, names[<<b, j>>] = g
        PROVE  a = b /\ i = j
    <3>1. <<a, i>> \in Tokens /\ <<b, j>> \in Tokens /\ Group(<<a, i>>) = "raid" /\ Group(<<b, j>>) = "raid"
      BY Groups
    <3>2. <<a, i>> = <<b, j>>
      BY <1>0, <2>1, <3>1 DEF UnitInv, OneSlotEach
    <3> QED BY <3>2
  <2>2. Raid \in SUBSET Nat /\ \A i \in Raid : <<"raid", i>> \in Tokens /\ <<"raidpet", i>> \in Tokens
    BY Groups, UnitConstants
  <2>3. \A i, j \in Raid : \A a, b \in {"raid", "raidpet"} :
          (names[<<a, i>>] = g /\ names[<<b, j>>] = g) => a = b /\ i = j
    BY <2>1
  <2>4. "raid" # "raidpet"
    OBVIOUS
  <2>5. FirstSlot(g, Raid, "raid", "raidpet") =
          {t \in {<<"raid", i>> : i \in Raid} \cup {<<"raidpet", i>> : i \in Raid} : names[t] = g}
    BY <2>2, <2>3, <2>4, OnlySlot
  <2> QED BY <2>5 DEF RaidTokens, RaidPets
<1> QED BY <1>1, <1>2 DEF GetUnitNames, Tokens

(* What is not switched off passes the gates of its events.                 *)
LEMMA OnPasses ==
  ASSUME NEW t \in Tokens, ~SwitchedOff(t)
  PROVE  PassesUnitEvent(t) /\ PassesCombat(t)
  BY DEF SwitchedOff, PassesUnitEvent, PassesCombat

LEMMA UnitInitInv ==
  ASSUME UnitInit
  PROVE  UnitInv
<1> USE DEF UnitInit
<1>1. UnitTypes
  BY UnitConstants DEF UnitTypes, Nothing
<1>2. OneSlotEach
  <2>1. \A t \in Tokens : names[t] # NoGuid => t = <<"player", 0>>
    OBVIOUS
  <2> QED BY <2>1 DEF OneSlotEach
<1>3. \A t \in Tokens : (names[t] # NoGuid /\ ~SwitchedOff(t)) => shown[t] = value[names[t]]
  BY UnitConstants
<1>4. shownGuid = value /\ shownRaw = value
  OBVIOUS
<1>5. ViewsFresh
  BY <1>3, <1>4 DEF ViewsFresh
<1>6. CombatToldToTokens
  BY DEF CombatToldToTokens, Nothing
<1> QED BY <1>1, <1>2, <1>5, <1>6 DEF UnitInv, TokensTold

(* The gates do not change and so neither does what is switched off.        *)
LEMMA HealthStep ==
  ASSUME UnitInv, NEW g \in Guids, HealthChanges(g)
  PROVE  UnitInv'
<1>1. PICK v \in {0, 1} : v = 1 - value[g]
  BY DEF UnitInv, UnitTypes
<1>2. PICK hears \in SUBSET Tokens : hears = {t \in GetUnitNames(g) : PassesUnitEvent(t)}
  BY NamesAreTokens
<1>3. /\ value' = [value EXCEPT ![g] = v]
      /\ shown' = [t \in Tokens |-> IF t \in hears THEN v ELSE shown[t]]
      /\ shownRaw' = IF PassesRaw THEN [shownRaw EXCEPT ![g] = v] ELSE shownRaw
      /\ shownGuid' = [shownGuid EXCEPT ![g] = v]
      /\ feedback' = Nothing /\ names' = names /\ gates' = gates
  <2>1. value' = [value EXCEPT ![g] = v] /\ value'[g] = v
    BY <1>1 DEF HealthChanges, UnitInv, UnitTypes
  <2> QED BY <1>2, <2>1 DEF HealthChanges
<1>4. UnitTypes'
  BY <1>3 DEF UnitInv, UnitTypes, Nothing
<1>5. OneSlotEach'
  BY <1>3 DEF UnitInv, OneSlotEach
<1>6. \A t \in Tokens : SwitchedOff(t)' <=> SwitchedOff(t)
  BY <1>3 DEF SwitchedOff, On
<1>7. ASSUME NEW t \in Tokens, names[t] # NoGuid, ~SwitchedOff(t)
      PROVE  shown'[t] = value'[names[t]]
  <2>1. CASE names[t] = g
    <3>1. t \in hears
      BY <1>2, <1>7, <2>1, NamesAreTokens, OnPasses
    <3> QED BY <1>3, <2>1, <3>1 DEF UnitInv, UnitTypes
  <2>2. CASE names[t] # g
    <3>1. t \notin hears /\ names[t] \in Guids
      BY <1>2, <1>7, <2>2, NamesAreTokens DEF UnitInv, UnitTypes
    <3>2. shown[t] = value[names[t]]
      BY <1>7 DEF UnitInv, TokensTold, ViewsFresh
    <3> QED BY <1>3, <2>2, <3>1, <3>2 DEF UnitInv, UnitTypes
  <2> QED BY <2>1, <2>2
<1>8. shownGuid' = value'
  BY <1>3 DEF UnitInv, TokensTold, ViewsFresh
<1>9. ASSUME PassesRaw PROVE shownRaw' = value'
  BY <1>3, <1>9 DEF UnitInv, TokensTold, ViewsFresh, PassesRaw
<1>10. ViewsFresh'
  <2>1. (On("guid") /\ ~On("filter"))' <=> PassesRaw
    BY <1>3 DEF PassesRaw, On
  <2> QED BY <1>3, <1>6, <1>7, <1>8, <1>9, <2>1 DEF ViewsFresh
<1>11. CombatToldToTokens'
  BY <1>3 DEF CombatToldToTokens, Nothing
<1> QED BY <1>4, <1>5, <1>10, <1>11 DEF UnitInv, TokensTold

LEMMA FeedbackStep ==
  ASSUME UnitInv, NEW g \in Guids, ShowCombatFeedback(g)
  PROVE  UnitInv'
<1>1. PICK hears \in SUBSET Tokens : hears = {t \in Tokens : names[t] = g /\ PassesCombat(t)}
  OBVIOUS
<1>2. /\ feedback' = [guid |-> g, told |-> hears]
      /\ UNCHANGED <<names, gates, value, shown, shownRaw, shownGuid>>
  BY <1>1, NamesAreTokens DEF ShowCombatFeedback
<1>3. UnitTypes'
  BY <1>2 DEF UnitInv, UnitTypes
<1>4. OneSlotEach'
  BY <1>2 DEF UnitInv, OneSlotEach
<1>5. ViewsFresh'
  BY <1>2 DEF UnitInv, TokensTold, ViewsFresh, SwitchedOff, On
<1>6. \A t \in Tokens : SwitchedOff(t)' <=> SwitchedOff(t)
  BY <1>2 DEF SwitchedOff, On
<1>7. {t \in Tokens : names[t] = g /\ ~SwitchedOff(t)} \subseteq hears
  BY <1>1, OnPasses
<1>8. On("pet")' \/ <<"pet", 0>> \notin hears
  BY <1>1, <1>2 DEF PassesCombat, On
<1>9. CombatToldToTokens'
  BY <1>1, <1>2, <1>6, <1>7, <1>8 DEF CombatToldToTokens
<1> QED BY <1>3, <1>4, <1>5, <1>9 DEF UnitInv, TokensTold

LEMMA NameStep ==
  ASSUME UnitInv, NEW t \in Tokens, NEW g \in MayBe[t], NamesAnother(t, g)
  PROVE  UnitInv'
<1>0. g \in Guids \cup {NoGuid}
  BY UnitConstants
<1>1. /\ names' = [names EXCEPT ![t] = g]
      /\ shown' = [shown EXCEPT ![t] = IF g = NoGuid THEN 0 ELSE value[g]]
      /\ feedback' = Nothing /\ MayName(t, g)
      /\ UNCHANGED <<gates, value, shownRaw, shownGuid>>
  BY DEF NamesAnother
<1>2. UnitTypes'
  BY <1>0, <1>1 DEF UnitInv, UnitTypes, Nothing
<1>3. OneSlotEach'
  <2> SUFFICES ASSUME NEW a \in Tokens, NEW b \in Tokens, a # b, Group(a) = Group(b), Group(a) # "own",
                      names'[a] # NoGuid
               PROVE  names'[a] # names'[b]
    BY DEF OneSlotEach
  <2>1. CASE a = t
    <3>1. names'[a] = g /\ names'[b] = names[b] /\ b \in Tokens \ {t}
      BY <1>1, <2>1 DEF UnitInv, UnitTypes
    <3> QED BY <1>1, <2>1, <3>1 DEF MayName
  <2>2. CASE b = t
    <3>1. names'[b] = g /\ names'[a] = names[a] /\ a \in Tokens \ {t}
      BY <1>1, <2>2 DEF UnitInv, UnitTypes
    <3> QED BY <1>1, <2>2, <3>1 DEF MayName
  <2>3. CASE a # t /\ b # t
    BY <1>1, <2>3 DEF UnitInv, UnitTypes, OneSlotEach
  <2> QED BY <2>1, <2>2, <2>3
<1>4. ViewsFresh'
  <2>1. \A u \in Tokens : SwitchedOff(u)' <=> SwitchedOff(u)
    BY <1>1 DEF SwitchedOff, On
  <2>2. ASSUME NEW u \in Tokens, names'[u] # NoGuid, ~SwitchedOff(u)
        PROVE  shown'[u] = value'[names'[u]]
    <3>1. CASE u = t
      BY <1>0, <1>1, <2>2, <3>1 DEF UnitInv, UnitTypes
    <3>2. CASE u # t
      BY <1>1, <2>2, <3>2 DEF UnitInv, UnitTypes, TokensTold, ViewsFresh
    <3> QED BY <3>1, <3>2
  <2>3. shownGuid' = value' /\ ((On("guid") /\ ~On("filter"))' => shownRaw' = value')
    BY <1>1 DEF UnitInv, TokensTold, ViewsFresh, On
  <2> QED BY <2>1, <2>2, <2>3 DEF ViewsFresh
<1>5. CombatToldToTokens'
  BY <1>1 DEF CombatToldToTokens, Nothing
<1> QED BY <1>2, <1>3, <1>4, <1>5 DEF UnitInv, TokensTold

LEMMA UnitStepInv ==
  ASSUME UnitInv, [UnitNext]_unitVars
  PROVE  UnitInv'
<1>1. CASE UNCHANGED unitVars
  <2>1. UnitTypes' /\ OneSlotEach'
    BY <1>1 DEF unitVars, UnitInv, UnitTypes, OneSlotEach
  <2>2. ViewsFresh'
    BY <1>1 DEF unitVars, UnitInv, TokensTold, ViewsFresh, SwitchedOff, On
  <2>3. CombatToldToTokens'
    BY <1>1 DEF unitVars, UnitInv, TokensTold, CombatToldToTokens, SwitchedOff, On
  <2> QED BY <2>1, <2>2, <2>3 DEF UnitInv, TokensTold
<1> QED BY <1>1, HealthStep, FeedbackStep, NameStep DEF UnitNext

(* Every token that names a unit and is not switched off is told of it.     *)
THEOREM TokensTheorem ==
  UnitSpec => []TokensTold
<1>1. UnitInit => UnitInv
  BY UnitInitInv
<1>2. UnitInv /\ [UnitNext]_unitVars => UnitInv'
  BY UnitStepInv
<1>3. UnitInv => TokensTold
  BY DEF UnitInv
<1> QED BY <1>1, <1>2, <1>3, PTL DEF UnitSpec

-----------------------------------------------------------------------------
(* The settings.                                                            *)

(* A field has the meaning of its CVar, or of its whole part after a start, *)
(* unless a registration turned it on.                                      *)
FieldMeansCVar ==
  \A n \in CVars :
    \/ setting[n] = Meaning(n, cvar[n]) \/ setting[n] = Meaning(n, Whole(cvar[n]))
    \/ n \in registered /\ setting[n] = 2
SettingsInv ==
  /\ cvar \in [CVars -> Nat] /\ setting \in [Fields -> Nat]
  /\ registered \subseteq GatedEvents \cup {KeyPress}
  /\ FieldMeansCVar

LEMMA WholeOnce ==
  ASSUME NEW v \in Nat
  PROVE  /\ Whole(v) \in Nat /\ Whole(Whole(v)) = Whole(v)
         /\ Whole(v) = 0 <=> v < 2
<1>1. PICK q \in Nat : v = 2 * q \/ v = 2 * q + 1
  <2>1. v \div 2 \in Nat /\ (v = 2 * (v \div 2) \/ v = 2 * (v \div 2) + 1)
    OBVIOUS
  <2> QED BY <2>1
<1>2. v \div 2 = q
  BY <1>1
<1>3. (2 * q) \div 2 = q
  OBVIOUS
<1>4. Whole(v) = q * 2 /\ q * 2 = 2 * q
  BY <1>2 DEF Whole
<1>5. Whole(2 * q) = q * 2
  BY <1>3 DEF Whole
<1> QED BY <1>1, <1>4, <1>5

LEMMA WholeEnds == Whole(0) = 0 /\ Whole(2) = 2
BY DEF Whole

(* What a value means for each sort of setting.                             *)
LEMMA Meanings ==
  ASSUME NEW n, NEW v \in Nat
  PROVE  /\ n \in Switches => Meaning(n, v) = IF Whole(v) # 0 THEN 2 ELSE 0
         /\ n = "NP_NameplateDistance" => Meaning(n, v) = v
         /\ n \notin Switches /\ n # "NP_NameplateDistance" => Meaning(n, v) = Whole(v)
         /\ Meaning(n, v) \in Nat
<1>1. "NP_NameplateDistance" \notin Switches
  BY DEF Switches, Queueing, Casting, UnitEventTokens, GatedEvents, Client
<1> QED BY <1>1, WholeOnce DEF Meaning

LEMMA LoadedMeaning ==
  ASSUME NEW n, NEW v \in Nat
  PROVE  Meaning(n, Whole(v)) = Whole(Meaning(n, v))
<1>1. Whole(v) \in Nat /\ Whole(Whole(v)) = Whole(v)
  BY WholeOnce
<1> QED BY <1>1, WholeEnds, Meanings

LEMMA InitialMeaning ==
  ASSUME NEW n
  PROVE  Initial(n) \in {0, 2} /\ Meaning(n, Initial(n)) = Initial(n)
<1>1. Initial(n) \in {0, 2}
  BY DEF Initial
<1> QED BY <1>1, WholeEnds, Meanings

LEMMA AllLoaded == LoadedCVars \cap RegisteredCVars = CVars /\ CVars \subseteq Fields
BY DEF LoadedCVars, RegisteredCVars, CVars, Switches, Fields

LEMMA SettingsInitInv ==
  ASSUME SettingsInit
  PROVE  SettingsInv
BY InitialMeaning, AllLoaded DEF SettingsInit, SettingsInv, FieldMeansCVar

LEMMA SettingsStepInv ==
  ASSUME SettingsInv, [SettingsNext]_settingVars
  PROVE  SettingsInv'
<1> USE DEF SettingsInv, FieldMeansCVar
<1>1. ASSUME NEW n \in CVars, NEW v \in Values, SetCVar(n, v)
      PROVE  SettingsInv'
  <2>1. v \in Nat /\ Meaning(n, v) \in Nat
    BY Meanings, SettingsConstants
  <2> QED BY <1>1, <2>1, AllLoaded DEF SetCVar
<1>2. ASSUME NEW n \in Heard, RegisterEvent(n)
      PROVE  SettingsInv'
  BY <1>2, AllLoaded, SettingsConstants DEF RegisterEvent
<1>3. CASE Restart
  <2>1. ASSUME NEW n \in CVars
        PROVE  setting'[n] = Meaning(n, Whole(cvar[n])) /\ setting'[n] \in Nat
    <3>1. Whole(cvar[n]) \in Nat
      BY WholeOnce
    <3> QED BY <1>3, <3>1, AllLoaded, Meanings DEF Restart
  <2>2. setting' = [n \in Fields |-> setting'[n]] /\ cvar' = cvar /\ registered' = {}
    BY <1>3 DEF Restart
  <2>3. ASSUME NEW n \in Fields
        PROVE  setting'[n] \in Nat
    <3>1. n \notin CVars => setting'[n] = Initial(n)
      BY <1>3, <2>3, AllLoaded DEF Restart
    <3> QED BY <2>1, <3>1, InitialMeaning
  <2> QED BY <2>1, <2>2, <2>3
<1>4. CASE UNCHANGED settingVars
  BY <1>4 DEF settingVars
<1> QED BY <1>1, <1>2, <1>3, <1>4 DEF SettingsNext

LEMMA RestartStep ==
  ASSUME SettingsInv, [SettingsNext]_settingVars
  PROVE  StartKeeps
<1> SUFFICES ASSUME starting', ~starting, NEW n \in CVars
             PROVE  setting'[n] = Whole(setting[n]) \/ (n \in registered /\ cvar[n] < 2)
  BY DEF StartKeeps
<1>1. Restart
  BY DEF SettingsNext, SetCVar, RegisterEvent, settingVars
<1>2. cvar[n] \in Nat
  BY DEF SettingsInv
<1>3. setting'[n] = Meaning(n, Whole(cvar[n]))
  BY <1>1, AllLoaded DEF Restart
<1>4. CASE setting[n] = Meaning(n, cvar[n]) \/ setting[n] = Meaning(n, Whole(cvar[n]))
  <2>1. Whole(cvar[n]) \in Nat /\ Whole(Whole(cvar[n])) = Whole(cvar[n])
    BY <1>2, WholeOnce
  <2> QED BY <1>2, <1>3, <1>4, <2>1, LoadedMeaning
<1>5. CASE n \in registered /\ setting[n] = 2
  <2>1. n \in Switches
    BY <1>5 DEF SettingsInv, Switches, KeyPress, CVars, Durations, Distances
  <2> QED BY <1>2, <1>3, <1>5, <2>1, WholeOnce, WholeEnds, Meanings
<1> QED BY <1>4, <1>5 DEF SettingsInv, FieldMeansCVar

(* A restart of the client changes no setting.                              *)
THEOREM RestartTheorem ==
  SettingsSpec => KeptOverRestart
<1>1. SettingsInv /\ [SettingsNext]_settingVars => SettingsInv'
  BY SettingsStepInv
<1>2. SettingsInv /\ [SettingsNext]_settingVars => [StartKeeps]_settingVars
  BY RestartStep
<1> QED
  BY <1>1, <1>2, SettingsInitInv, PTL DEF SettingsSpec, KeptOverRestart

-----------------------------------------------------------------------------
(* The cooldowns.                                                           *)

Duration == 0..(Clock - 1)
Entries ==
  [spell : DOMAIN Spells, item : ItemIds \cup {NoItemID}, at : Nat, hold : BOOLEAN, recovery : Duration,
   category : Nat, categoryRecovery : Duration, gcdCategory : Nat, gcd : Duration]

(* Entries of the client's list have different spells or items, and of the  *)
(* cooldowns of one category, or of one GCD category, one runs at a time.   *)
SharedFamilies == {"category", "gcd"}
CategoryIn(e, f) == IF f = "category" THEN e.category ELSE e.gcdCategory
Rivals(d, e, f) == Time(d, f) # 0 /\ Time(e, f) # 0 /\ CategoryIn(d, f) = CategoryIn(e, f) /\ CategoryIn(e, f) # 0
KeysDiffer == \A i, j \in DOMAIN history : i # j => Key(history[i]) # Key(history[j])
OneLive ==
  \A i, j \in DOMAIN history, f \in SharedFamilies :
    i # j /\ Rivals(history[i], history[j], f) => Left(history[i], f) <= 0 \/ Left(history[j], f) <= 0
ListTypes ==
  /\ history \in Seq(Entries) /\ now \in Nat /\ stats \subseteq ItemIds
  /\ \A i \in DOMAIN history : history[i].at <= now
CooldownInv == ListTypes /\ KeysDiffer /\ OneLive

LEMMA RemoveAtShape ==
  ASSUME NEW E, NEW items \in Seq(E), NEW k \in 1..Len(items)
  PROVE  /\ RemoveAt(items, k) \in Seq(E)
         /\ Len(RemoveAt(items, k)) = Len(items) - 1
         /\ \A i \in 1..(Len(items) - 1) :
              RemoveAt(items, k)[i] = IF i < k THEN items[i] ELSE items[i + 1]
<1> DEFINE n == Len(items)
           a == SubSeq(items, 1, k - 1)
           b == SubSeq(items, k + 1, n)
<1>1. n \in Nat /\ k \in 1..n
  OBVIOUS
<1>2. a \in Seq(E) /\ Len(a) = k - 1 /\ \A i \in 1..(k - 1) : a[i] = items[i]
  OBVIOUS
<1>3. b \in Seq(E) /\ Len(b) = n - k /\ \A i \in 1..(n - k) : b[i] = items[k + i]
  OBVIOUS
<1>4. RemoveAt(items, k) = a \o b
  BY DEF RemoveAt
<1> HIDE DEF n, a, b
<1>5. /\ a \o b \in Seq(E) /\ Len(a \o b) = Len(a) + Len(b)
      /\ \A i \in 1..(Len(a) + Len(b)) : (a \o b)[i] = IF i <= Len(a) THEN a[i] ELSE b[i - Len(a)]
  BY <1>2, <1>3, ConcatProperties
<1> DEFINE all == a \o b
<1> HIDE DEF all
<1>6. /\ all \in Seq(E) /\ Len(all) = n - 1
      /\ \A i \in 1..(n - 1) : all[i] = IF i <= k - 1 THEN a[i] ELSE b[i - (k - 1)]
  <2>1. (k - 1) + (n - k) = n - 1
    BY <1>1
  <2> QED
    BY <1>2, <1>3, <1>5, <2>1 DEF all
<1>7. ASSUME NEW i \in 1..(n - 1) PROVE all[i] = IF i < k THEN items[i] ELSE items[i + 1]
  <2>1. CASE i < k
    BY <1>1, <1>2, <1>6, <2>1
  <2>2. CASE i >= k
    <3>1. i - (k - 1) \in 1..(n - k) /\ k + (i - (k - 1)) = i + 1
      BY <1>1, <2>2
    <3>2. all[i] = b[i - (k - 1)]
      BY <1>1, <1>6, <2>2
    <3>3. \A j \in 1..(n - k) : b[j] = items[k + j]
      BY <1>3
    <3> QED
      BY <1>1, <2>2, <3>1, <3>2, <3>3
  <2> QED
    BY <1>1, <2>1, <2>2
<1> QED
  BY <1>4, <1>6, <1>7 DEF all, n

(* A list without one of its entries: "from" says where each one was.       *)
Shortened(rest, from) ==
  /\ rest \in Seq(Entries) /\ from \in [1..Len(rest) -> 1..Len(history)]
  /\ \A k \in 1..Len(rest) : rest[k] = history[from[k]]
  /\ \A k, l \in 1..Len(rest) : k # l => from[k] # from[l]

LEMMA OneLess ==
  ASSUME history \in Seq(Entries), NEW i \in 1..Len(history)
  PROVE  \E from : /\ Shortened(RemoveAt(history, i), from)
                   /\ \A k \in 1..Len(RemoveAt(history, i)) : from[k] # i
<1> DEFINE rest == RemoveAt(history, i)
           from == [k \in 1..Len(rest) |-> IF k < i THEN k ELSE k + 1]
<1>1. /\ rest \in Seq(Entries) /\ Len(rest) = Len(history) - 1 /\ Len(history) \in Nat
      /\ \A k \in 1..(Len(history) - 1) : rest[k] = IF k < i THEN history[k] ELSE history[k + 1]
  BY RemoveAtShape
<1> HIDE DEF rest
<1>2. ASSUME NEW k \in 1..Len(rest)
      PROVE  from[k] \in 1..Len(history) /\ rest[k] = history[from[k]] /\ from[k] # i
  BY <1>1
<1>3. \A k, l \in 1..Len(rest) : k # l => from[k] # from[l]
  BY <1>1
<1>4. from \in [1..Len(rest) -> 1..Len(history)]
  BY <1>2
<1> HIDE DEF from
<1>5. Shortened(rest, from)
  BY <1>1, <1>2, <1>3, <1>4 DEF Shortened
<1> QED
  BY <1>2, <1>5 DEF rest

LEMMA Others ==
  ASSUME CooldownInv, NEW key
  PROVE  \E from : /\ Shortened(Without(key), from)
                   /\ \A k \in 1..Len(Without(key)) : Key(history[from[k]]) # key
<1>0. history \in Seq(Entries) /\ DOMAIN history = 1..Len(history)
  BY DEF CooldownInv, ListTypes
<1>1. CASE \E i \in DOMAIN history : Key(history[i]) = key
  <2> DEFINE gone == CHOOSE i \in DOMAIN history : Key(history[i]) = key
  <2>1. gone \in 1..Len(history) /\ Key(history[gone]) = key
    BY <1>0, <1>1
  <2>2. Without(key) = RemoveAt(history, gone)
    BY <1>1 DEF Without
  <2> HIDE DEF gone
  <2>3. PICK from : /\ Shortened(Without(key), from)
                    /\ \A k \in 1..Len(Without(key)) : from[k] # gone
    BY <1>0, <2>1, <2>2, OneLess
  <2>4. ASSUME NEW k \in 1..Len(Without(key))
        PROVE  Key(history[from[k]]) # key
    BY <1>0, <2>1, <2>3 DEF Shortened, CooldownInv, KeysDiffer
  <2> QED BY <2>3, <2>4
<1>2. CASE ~ \E i \in DOMAIN history : Key(history[i]) = key
  <2> DEFINE from == [k \in 1..Len(history) |-> k]
  <2>1. Without(key) = history
    BY <1>2 DEF Without
  <2>2. Shortened(history, from)
    BY <1>0 DEF Shortened
  <2>3. \A k \in 1..Len(history) : Key(history[from[k]]) # key
    BY <1>0, <1>2
  <2> HIDE DEF from
  <2> QED BY <2>1, <2>2, <2>3
<1> QED BY <1>1, <1>2

LEMMA CooldownInitInv ==
  ASSUME CooldownInit
  PROVE  CooldownInv
BY DEF CooldownInit, CooldownInv, ListTypes, KeysDiffer, OneLive

(* What is left of a shortened list, and of one with an entry added that    *)
(* no live one rivals.                                                      *)
LEMMA ShortenedInv ==
  ASSUME CooldownInv, NEW from, Shortened(history', from), UNCHANGED <<now, stats>>
  PROVE  CooldownInv'
<1>1. history' \in Seq(Entries) /\ DOMAIN history' = 1..Len(history') /\ DOMAIN history = 1..Len(history)
  BY DEF Shortened, CooldownInv, ListTypes
<1>2. ListTypes'
  BY <1>1 DEF Shortened, CooldownInv, ListTypes
<1>3. KeysDiffer'
  BY <1>1 DEF Shortened, CooldownInv, KeysDiffer, Key
<1>4. OneLive'
  <2> SUFFICES ASSUME NEW k \in DOMAIN history', NEW l \in DOMAIN history', NEW f \in SharedFamilies, k # l,
                      Rivals(history[k], history[l], f)'
               PROVE  (Left(history[k], f) <= 0)' \/ (Left(history[l], f) <= 0)'
    BY DEF OneLive
  <2>1. PICK i \in DOMAIN history, j \in DOMAIN history : i # j /\ history'[k] = history[i] /\ history'[l] = history[j]
    BY <1>1 DEF Shortened
  <2>2. Rivals(history[i], history[j], f)
    BY <2>1 DEF Rivals, CategoryIn, Time
  <2>3. (Left(history[k], f) <= 0)' <=> Left(history[i], f) <= 0
    BY <2>1 DEF Left, Time
  <2>4. (Left(history[l], f) <= 0)' <=> Left(history[j], f) <= 0
    BY <2>1 DEF Left, Time
  <2> QED BY <2>1, <2>2, <2>3, <2>4 DEF CooldownInv, OneLive
<1> QED BY <1>2, <1>3, <1>4 DEF CooldownInv

LEMMA EnterInv ==
  ASSUME CooldownInv, NEW e \in Entries, e.at <= now, Enter(e), UNCHANGED <<now, stats>>,
         \A i \in DOMAIN history, f \in SharedFamilies : Rivals(history[i], e, f) => Left(history[i], f) <= 0
  PROVE  CooldownInv'
<1> DEFINE rest == Without(Key(e))
<1>1. PICK from : Shortened(rest, from) /\ \A k \in 1..Len(rest) : Key(history[from[k]]) # Key(e)
  BY Others
<1>2. history' = Append(rest, e)
  BY DEF Enter
<1> HIDE DEF rest
<1>3. /\ rest \in Seq(Entries) /\ from \in [1..Len(rest) -> 1..Len(history)]
      /\ \A k \in 1..Len(rest) : rest[k] = history[from[k]]
      /\ \A k, l \in 1..Len(rest) : k # l => from[k] # from[l]
      /\ DOMAIN history = 1..Len(history)
  BY <1>1 DEF Shortened, CooldownInv, ListTypes
<1>4. /\ history' \in Seq(Entries) /\ DOMAIN history' = 1..(Len(rest) + 1) /\ Len(rest) \in Nat
      /\ \A k \in 1..Len(rest) : history'[k] = rest[k]
      /\ history'[Len(rest) + 1] = e
  BY <1>2, <1>3
<1>5. ASSUME NEW k \in DOMAIN history'
      PROVE  \/ k \in 1..Len(rest) /\ from[k] \in DOMAIN history /\ history'[k] = history[from[k]]
             \/ k = Len(rest) + 1 /\ history'[k] = e
  BY <1>3, <1>4
<1>6. ListTypes'
  <2>1. \A k \in DOMAIN history' : history'[k].at <= now'
    BY <1>5 DEF CooldownInv, ListTypes
  <2> QED BY <1>4, <2>1 DEF CooldownInv, ListTypes
<1>7. KeysDiffer'
  <2> SUFFICES ASSUME NEW k \in DOMAIN history', NEW l \in DOMAIN history', k # l
               PROVE  Key(history'[k]) # Key(history'[l])
    BY DEF KeysDiffer, Key
  <2>1. CASE k \in 1..Len(rest) /\ l \in 1..Len(rest)
    <3>1. PICK i \in DOMAIN history, j \in DOMAIN history :
            i # j /\ history'[k] = history[i] /\ history'[l] = history[j]
      BY <1>3, <1>4, <2>1
    <3> QED BY <3>1 DEF CooldownInv, KeysDiffer
  <2>2. ASSUME NEW m \in 1..Len(rest)
        PROVE  Key(history'[m]) # Key(e)
    <3>1. history'[m] = history[from[m]]
      BY <1>3, <1>4
    <3> QED BY <1>1, <3>1
  <2> QED BY <1>5, <2>1, <2>2
<1>8. OneLive'
  <2> SUFFICES ASSUME NEW k \in DOMAIN history', NEW l \in DOMAIN history', NEW f \in SharedFamilies, k # l,
                      Rivals(history[k], history[l], f)'
               PROVE  (Left(history[k], f) <= 0)' \/ (Left(history[l], f) <= 0)'
    BY DEF OneLive
  <2>1. ASSUME NEW m \in DOMAIN history', NEW i \in DOMAIN history, history'[m] = history[i]
        PROVE  (Left(history[m], f) <= 0)' <=> Left(history[i], f) <= 0
    BY <2>1 DEF Left, Time
  <2>2. CASE k \in 1..Len(rest) /\ l \in 1..Len(rest)
    <3>1. PICK i \in DOMAIN history, j \in DOMAIN history :
            i # j /\ history'[k] = history[i] /\ history'[l] = history[j]
      BY <1>3, <1>4, <2>2
    <3>2. Rivals(history[i], history[j], f)
      BY <3>1 DEF Rivals, CategoryIn, Time
    <3> QED BY <2>1, <3>1, <3>2 DEF CooldownInv, OneLive
  <2>3. ASSUME NEW m \in 1..Len(rest), Rivals(history'[m], e, f)
        PROVE  (Left(history[m], f) <= 0)'
    <3>1. PICK i \in DOMAIN history : history'[m] = history[i]
      <4>1. from[m] \in DOMAIN history
        BY <1>3
      <4>2. history'[m] = history[from[m]]
        BY <1>3, <1>4
      <4> QED BY <4>1, <4>2
    <3>2. m \in DOMAIN history'
      BY <1>4
    <3> QED BY <2>1, <2>3, <3>1, <3>2
  <2>4. CASE k \in 1..Len(rest) /\ l = Len(rest) + 1
    <3>1. Rivals(history'[k], e, f)
      BY <1>4, <2>4 DEF Rivals, CategoryIn, Time
    <3> QED BY <2>3, <2>4, <3>1
  <2>5. CASE l \in 1..Len(rest) /\ k = Len(rest) + 1
    <3>1. Rivals(history'[l], e, f)
      BY <1>4, <2>5 DEF Rivals, CategoryIn, Time
    <3> QED BY <2>3, <2>5, <3>1
  <2> QED BY <1>5, <2>2, <2>4, <2>5
<1> QED BY <1>6, <1>7, <1>8 DEF CooldownInv

LEMMA LeftType ==
  ASSUME ListTypes, NEW e \in Entries, NEW f \in Families
  PROVE  Time(e, f) \in Duration /\ Time(e, f) \in Nat /\ Left(e, f) \in Int
<1>1. Time(e, f) \in Duration
  BY DEF Entries, Families, Time
<1>2. Duration \subseteq Nat
  BY CooldownConstants DEF Duration
<1>3. e.at \in Nat /\ now \in Nat
  BY DEF Entries, ListTypes
<1>4. Time(e, f) \in Nat
  BY <1>1, <1>2
<1>5. Left(e, f) \in Int
  BY <1>3, <1>4 DEF Left
<1> QED BY <1>1, <1>4, <1>5

LEMMA EntryType ==
  ASSUME ListTypes, NEW i \in DOMAIN history
  PROVE  history[i] \in Entries /\ history[i].at \in Nat /\ history[i].at <= now
<1>1. history[i] \in Entries
  BY DEF ListTypes
<1>2. history[i].at \in Nat
  BY <1>1 DEF Entries
<1> QED BY <1>1, <1>2 DEF ListTypes

LEMMA CastStepInv ==
  ASSUME CooldownInv, NEW spell \in DOMAIN Spells, NEW item \in ItemIds \cup {NoItemID},
         NEW category \in Nat, NEW hold \in BOOLEAN, Cast(spell, item, category, hold)
  PROVE  CooldownInv'
<1> DEFINE c == CategoryOf(spell, category)
           e == [spell |-> spell, item |-> item, at |-> now, hold |-> hold,
                 recovery |-> Spells[spell].recovery,
                 category |-> c, categoryRecovery |-> Spells[spell].categoryRecovery,
                 gcdCategory |-> Spells[spell].gcdCategory, gcd |-> Spells[spell].gcd]
<1>1. /\ {Spells[spell].recovery, Spells[spell].categoryRecovery, Spells[spell].gcd} \subseteq Duration
      /\ Spells[spell].gcdCategory \in Nat /\ c \in Nat
  BY CooldownConstants DEF Duration, CategoryOf
<1>2. Enter(e) /\ UNCHANGED <<now, stats>>
  BY DEF Cast
<1>3. \A f \in Families : Live(f, spell, item, c) = {}
  BY DEF Cast
<1> HIDE DEF c
<1>4. e \in Entries /\ e.at <= now
  BY <1>1 DEF Entries, CooldownInv, ListTypes
<1>5. ASSUME NEW i \in DOMAIN history, NEW f \in SharedFamilies, Rivals(history[i], e, f)
      PROVE  Left(history[i], f) <= 0
  <2>1. Matches(history[i], f, spell, item, c)
    BY <1>5 DEF Rivals, CategoryIn, Time, Matches, SharedFamilies
  <2>2. ~ (Left(history[i], f) > 0)
    BY <1>3, <2>1 DEF Live, SharedFamilies, Families
  <2>3. history[i] \in Entries /\ f \in Families
    BY DEF CooldownInv, ListTypes, SharedFamilies, Families
  <2>4. Left(history[i], f) \in Int
    BY <2>3, LeftType DEF CooldownInv
  <2> QED BY <2>2, <2>4
<1> HIDE DEF e
<1> QED BY <1>2, <1>4, <1>5, EnterInv

LEMMA LockStepInv ==
  ASSUME CooldownInv, NEW spell \in DOMAIN Spells, NEW time \in 1..MaxLock, Lock(spell, time)
  PROVE  CooldownInv'
<1> DEFINE e == [spell |-> spell, item |-> NoItemID, at |-> now, hold |-> FALSE, recovery |-> time,
                 category |-> 0, categoryRecovery |-> 0, gcdCategory |-> 0, gcd |-> 0]
<1>1. Enter(e) /\ UNCHANGED <<now, stats>>
  BY DEF Lock
<1>2. time \in Duration /\ 0 \in Duration
  BY CooldownConstants DEF Duration
<1>3. e \in Entries /\ e.at <= now
  BY <1>2 DEF Entries, CooldownInv, ListTypes
<1>4. \A i \in DOMAIN history, f \in SharedFamilies : ~ Rivals(history[i], e, f)
  BY DEF Rivals, CategoryIn
<1> HIDE DEF e
<1> QED BY <1>1, <1>3, <1>4, EnterInv

(* Between two states with the same keys and times, in which nothing has    *)
(* more left than before.                                                   *)
LEMMA SameEntries ==
  ASSUME CooldownInv, ListTypes', DOMAIN history' = DOMAIN history,
         \A i \in DOMAIN history : Key(history'[i]) = Key(history[i]),
         \A i \in DOMAIN history, f \in SharedFamilies :
           /\ Time(history'[i], f) = Time(history[i], f) /\ CategoryIn(history'[i], f) = CategoryIn(history[i], f)
           /\ Left(history[i], f) <= 0 => (Left(history[i], f) <= 0)'
  PROVE  CooldownInv'
<1>1. KeysDiffer'
  BY DEF CooldownInv, KeysDiffer, Key
<1>2. OneLive'
  <2> SUFFICES ASSUME NEW k \in DOMAIN history', NEW l \in DOMAIN history', NEW f \in SharedFamilies, k # l,
                      Rivals(history[k], history[l], f)'
               PROVE  (Left(history[k], f) <= 0)' \/ (Left(history[l], f) <= 0)'
    BY DEF OneLive
  <2>1. Rivals(history[k], history[l], f)
    BY DEF Rivals, CategoryIn, Time
  <2> QED BY <2>1 DEF CooldownInv, OneLive
<1> QED BY <1>1, <1>2 DEF CooldownInv

LEMMA ReleaseStepInv ==
  ASSUME CooldownInv, NEW n \in DOMAIN history, Release(n)
  PROVE  CooldownInv'
<1>1. history[n] \in Entries /\ history[n].hold /\ now \in Nat
  BY DEF CooldownInv, ListTypes, Release
<1>2. /\ DOMAIN history' = DOMAIN history /\ history' \in Seq(Entries) /\ now' = now /\ stats' = stats
      /\ history'[n] = [history[n] EXCEPT !.hold = FALSE, !.at = now]
      /\ \A i \in DOMAIN history : i # n => history'[i] = history[i]
  <2>1. [history[n] EXCEPT !.hold = FALSE, !.at = now] \in Entries
    BY <1>1 DEF Entries
  <2>2. history' = [history EXCEPT ![n] = [history[n] EXCEPT !.hold = FALSE, !.at = now]]
    BY <1>1 DEF Release
  <2>3. history \in Seq(Entries) /\ n \in 1..Len(history) /\ DOMAIN history = 1..Len(history)
    BY DEF CooldownInv, ListTypes
  <2> DEFINE new == [history[n] EXCEPT !.hold = FALSE, !.at = now]
  <2>4. new \in Entries /\ history' = [history EXCEPT ![n] = new]
    BY <2>1, <2>2
  <2> HIDE DEF new
  <2>5. /\ history' \in Seq(Entries) /\ DOMAIN history' = DOMAIN history /\ history'[n] = new
        /\ \A i \in DOMAIN history : i # n => history'[i] = history[i]
    BY <2>3, <2>4
  <2> QED BY <2>5 DEF Release, new
<1>3. ListTypes'
  <2>1. history'[n].at = now
    BY <1>1, <1>2 DEF Entries
  <2>2. ASSUME NEW i \in DOMAIN history'
        PROVE  history'[i].at <= now'
    <3>1. CASE i = n
      <4>1. history'[i].at = now
        BY <2>1, <3>1
      <4>2. now <= now
        BY <1>1
      <4> QED BY <1>2, <4>1, <4>2
    <3>2. CASE i # n
      BY <1>2, <3>2, EntryType DEF CooldownInv
    <3> QED BY <3>1, <3>2
  <2> QED BY <1>2, <2>2 DEF CooldownInv, ListTypes
<1>4. ASSUME NEW i \in DOMAIN history
      PROVE  Key(history'[i]) = Key(history[i])
  <2>1. Key([history[n] EXCEPT !.hold = FALSE, !.at = now]) = Key(history[n])
    BY <1>1 DEF Key, Entries
  <2> QED BY <1>2, <2>1
<1>5. ASSUME NEW i \in DOMAIN history, NEW f \in SharedFamilies
      PROVE  /\ Time(history'[i], f) = Time(history[i], f) /\ CategoryIn(history'[i], f) = CategoryIn(history[i], f)
             /\ Left(history[i], f) <= 0 => (Left(history[i], f) <= 0)'
  <2>1. CASE i # n
    <3>1. history'[i] = history[i] /\ now' = now
      BY <1>2, <2>1
    <3> QED BY <3>1 DEF Time, CategoryIn, Left
  <2>2. CASE i = n
    <3>1. Time(history'[n], f) = Time(history[n], f) /\ CategoryIn(history'[n], f) = CategoryIn(history[n], f)
      <4>1. /\ history'[n].recovery = history[n].recovery /\ history'[n].gcd = history[n].gcd
            /\ history'[n].categoryRecovery = history[n].categoryRecovery
            /\ history'[n].category = history[n].category /\ history'[n].gcdCategory = history[n].gcdCategory
        BY <1>1, <1>2 DEF Entries
      <4> QED BY <4>1 DEF Time, CategoryIn
    <3>2. Left(history[n], f) = Time(history[n], f)
      BY <1>1 DEF Left
    <3>3. history'[n].at = now /\ history'[n].hold = FALSE
      BY <1>1, <1>2 DEF Entries
    <3>4. (Left(history[n], f))' = now + Time(history'[n], f) - now
      BY <1>2, <3>3 DEF Left, Time
    <3>5. Time(history[n], f) \in Nat
      BY <1>1, LeftType DEF CooldownInv, SharedFamilies, Families
    <3>6. (Left(history[n], f))' = Left(history[n], f)
      BY <1>1, <3>1, <3>2, <3>4, <3>5
    <3> QED BY <2>2, <3>1, <3>6
  <2> QED BY <2>1, <2>2
<1> QED BY <1>2, <1>3, <1>4, <1>5, SameEntries

LEMMA TickStepInv ==
  ASSUME CooldownInv, CooldownTick
  PROVE  CooldownInv'
<1>1. history' = history /\ now' = now + 1 /\ stats' = stats /\ now \in Nat
  BY DEF CooldownTick, CooldownInv, ListTypes
<1>2. ListTypes'
  <2>1. ASSUME NEW i \in DOMAIN history'
        PROVE  history'[i].at <= now'
    <3>1. history[i].at <= now /\ history[i].at \in Nat
      BY <1>1, EntryType DEF CooldownInv
    <3> QED BY <1>1, <3>1
  <2> QED BY <1>1, <2>1 DEF CooldownInv, ListTypes
<1>3. ASSUME NEW i \in DOMAIN history, NEW f \in SharedFamilies
      PROVE  Left(history[i], f) <= 0 => (Left(history[i], f) <= 0)'
  <2>1. history[i] \in Entries /\ f \in Families
    BY DEF CooldownInv, ListTypes, SharedFamilies, Families
  <2>2. Time(history[i], f) \in Nat /\ history[i].at \in Nat
    BY <2>1, LeftType DEF CooldownInv, Entries
  <2>3. (Left(history[i], f))' = IF history[i].hold THEN Time(history[i], f) ELSE history[i].at + Time(history[i], f) - (now + 1)
    BY <1>1 DEF Left, Time
  <2> QED BY <1>1, <2>2, <2>3 DEF Left
<1>4. \A i \in DOMAIN history, f \in SharedFamilies :
        Time(history'[i], f) = Time(history[i], f) /\ CategoryIn(history'[i], f) = CategoryIn(history[i], f)
  BY <1>1
<1> QED BY <1>1, <1>2, <1>3, <1>4, SameEntries

LEMMA CooldownStepInv ==
  ASSUME CooldownInv, [CooldownNext]_cooldownVars
  PROVE  CooldownInv'
<1>1. ASSUME NEW s \in DOMAIN Spells, NEW hold \in BOOLEAN, Cast(s, NoItemID, 0, hold)
      PROVE  CooldownInv'
  BY <1>1, CastStepInv
<1>2. ASSUME NEW item \in ItemIds, NEW hold \in BOOLEAN, NEW s \in ToSet(ItemSpells[item]),
             Cast(s.spell, item, s.category, hold)
      PROVE  CooldownInv'
  <2>1. s.spell \in DOMAIN Spells /\ s.category \in Nat
    BY CooldownConstants DEF ItemIds
  <2> QED BY <1>2, <2>1, CastStepInv
<1>3. ASSUME NEW s \in DOMAIN Spells, NEW time \in 1..MaxLock, Lock(s, time)
      PROVE  CooldownInv'
  BY <1>3, LockStepInv
<1>4. ASSUME NEW n \in DOMAIN history, Release(n)
      PROVE  CooldownInv'
  BY <1>4, ReleaseStepInv
<1>5. ASSUME NEW n \in DOMAIN history, Drop(n)
      PROVE  CooldownInv'
  <2>1. PICK from : Shortened(RemoveAt(history, n), from)
    BY OneLess DEF CooldownInv, ListTypes
  <2> QED BY <1>5, <2>1, ShortenedInv DEF Drop
<1>6. ASSUME NEW item \in ItemIds, StatsCome(item)
      PROVE  CooldownInv'
  BY <1>6 DEF StatsCome, CooldownInv, ListTypes, KeysDiffer, OneLive, Left, Rivals
<1>7. CASE CooldownTick
  BY <1>7, TickStepInv
<1>8. CASE UNCHANGED cooldownVars
  BY <1>8 DEF cooldownVars, CooldownInv, ListTypes, KeysDiffer, OneLive, Left, Rivals
<1> QED BY <1>1, <1>2, <1>3, <1>4, <1>5, <1>6, <1>7, <1>8 DEF CooldownNext

(* At most one entry of a family is live.                                   *)
LEMMA LiveUnique ==
  ASSUME CooldownInv, NEW f \in Families, NEW spell, NEW item, NEW category,
         NEW i \in Live(f, spell, item, category), NEW j \in Live(f, spell, item, category)
  PROVE  i = j
<1>1. /\ i \in DOMAIN history /\ Matches(history[i], f, spell, item, category) /\ Left(history[i], f) > 0
      /\ j \in DOMAIN history /\ Matches(history[j], f, spell, item, category) /\ Left(history[j], f) > 0
  BY DEF Live
<1>2. CASE f = "individual"
  <2>1. Key(history[i]) = Key(history[j])
    BY <1>1, <1>2 DEF Matches, Key
  <2> QED BY <1>1, <2>1 DEF CooldownInv, KeysDiffer
<1>3. CASE f \in SharedFamilies
  <2>1. Rivals(history[i], history[j], f)
    BY <1>1, <1>3 DEF Matches, SharedFamilies, Rivals, Time, CategoryIn
  <2>2. Left(history[i], f) \in Int /\ Left(history[j], f) \in Int
    BY <1>1, EntryType, LeftType DEF CooldownInv
  <2>3. ~ (Left(history[i], f) <= 0) /\ ~ (Left(history[j], f) <= 0)
    BY <1>1, <2>2
  <2> QED BY <1>1, <1>3, <2>1, <2>3 DEF CooldownInv, OneLive
<1> QED BY <1>2, <1>3 DEF Families, SharedFamilies

LEMMA Division ==
  ASSUME NEW n \in Nat \ {0}, NEW a \in Nat
  PROVE  a = n * (a \div n) + (a % n) /\ a \div n \in Nat /\ a % n \in 0..(n - 1)
OBVIOUS

LEMMA DivisionGrows ==
  ASSUME NEW n \in Nat \ {0}, NEW a \in Nat, NEW b \in Nat, a <= b
  PROVE  n * (a \div n) <= n * (b \div n)
<1> DEFINE q == a \div n
           r == b \div n
<1>1. /\ a = n * q + (a % n) /\ q \in Nat /\ a % n \in 0..(n - 1)
      /\ b = n * r + (b % n) /\ r \in Nat /\ b % n \in 0..(n - 1)
  BY Division
<1> HIDE DEF q, r
<1>2. CASE q <= r
  BY <1>1, <1>2
<1>3. CASE q >= r + 1
  <2>1. n * q >= n * (r + 1) /\ n * (r + 1) = n * r + n
    BY <1>1, <1>3
  <2> QED BY <1>1, <2>1
<1> QED BY <1>1, <1>2, <1>3 DEF q, r

(* The remainder of a number does not feel whole turns.                     *)
LEMMA Turns ==
  ASSUME NEW n \in Nat \ {0}, NEW x \in 0..(n - 1), NEW k \in Int
  PROVE  (x + n * k) % n = x
<1> DEFINE a == x + n * k
           q == a \div n
           r == a % n
<1>1. a \in Int /\ a = n * q + r /\ q \in Int /\ r \in 0..(n - 1)
  OBVIOUS
<1>2. n * (k - q) = r - x
  BY <1>1
<1> HIDE DEF q, r
<1>3. CASE k = q
  BY <1>1, <1>2, <1>3 DEF r
<1>4. CASE k >= q + 1
  <2>1. n * (k - q) >= n
    BY <1>1, <1>4
  <2> QED BY <1>1, <1>2, <2>1
<1>5. CASE k <= q - 1
  <2>1. n * (k - q) <= -n
    BY <1>1, <1>5
  <2> QED BY <1>1, <1>2, <2>1
<1> QED BY <1>1, <1>3, <1>4, <1>5

(* The end of a matching entry in the client's clock lies ahead exactly     *)
(* while something is left, and by as much up to turns of the clock.        *)
LEMMA EndAhead ==
  ASSUME CooldownInv, NothingOlderThanTheWrap, NEW i \in DOMAIN history, NEW f \in Families,
         history[i].hold \/ Time(history[i], f) # 0
  PROVE  /\ End(history[i], f) > Now32 <=> Left(history[i], f) > 0
         /\ Left(history[i], f) > 0 => (End(history[i], f) - Now32) % Clock = Left(history[i], f)
<1>0. PICK e : e = history[i]
  OBVIOUS
<1>1. PICK time, left, at : time = Time(e, f) /\ left = Left(e, f) /\ at = e.at
  OBVIOUS
<1>2. /\ time \in 0..(Clock - 1) /\ left \in Int /\ at \in Nat /\ at <= now /\ now \in Nat
      /\ Clock \in Nat \ {0}
  BY <1>0, <1>1, EntryType, LeftType, CooldownConstants DEF CooldownInv, ListTypes, Duration
<1>3. CASE e.hold
  <2>1. left = time /\ End(e, f) = (now % Clock) + time
    BY <1>1, <1>3 DEF Left, End, Now32
  <2>2. now % Clock \in Nat
    BY <1>2, Division
  <2>3. End(e, f) - Now32 = time + Clock * 0
    BY <1>2, <2>1, <2>2 DEF Now32
  <2>4. (time + Clock * 0) % Clock = time
    BY <1>2, Turns
  <2>5. End(e, f) > Now32 <=> time > 0
    BY <1>2, <2>1, <2>2 DEF Now32
  <2> QED BY <1>0, <1>1, <2>1, <2>3, <2>4, <2>5
<1>4. CASE ~ e.hold
  <2>1. left = at + time - now /\ End(e, f) = (at % Clock) + time
    BY <1>1, <1>4 DEF Left, End
  <2>2. PICK k, l : k = at \div Clock /\ l = now \div Clock
    OBVIOUS
  <2>3. /\ at = Clock * k + (at % Clock) /\ k \in Nat /\ at % Clock \in 0..(Clock - 1)
        /\ now = Clock * l + (now % Clock) /\ l \in Nat /\ now % Clock \in 0..(Clock - 1)
    <3>1. at = Clock * k + (at % Clock) /\ k \in Nat /\ at % Clock \in 0..(Clock - 1)
      BY <1>2, <2>2, Division
    <3>2. now = Clock * l + (now % Clock) /\ l \in Nat /\ now % Clock \in 0..(Clock - 1)
      BY <1>2, <2>2, Division
    <3> QED BY <3>1, <3>2
  <2>4. Clock * k <= Clock * l
    BY <1>2, <2>2, DivisionGrows
  <2>5. Clock * k \in Int /\ Clock * l \in Int /\ Clock * l - Clock * k = Clock * (l - k)
    BY <1>2, <2>3
  <2>6. End(e, f) - Now32 = left + (Clock * l - Clock * k)
    <3> DEFINE p == Clock * k
               q == Clock * l
               x == at % Clock
               y == now % Clock
    <3>1. at = p + x /\ now = q + y /\ p \in Int /\ q \in Int /\ x \in Int /\ y \in Int
      BY <2>3, <2>5
    <3>2. left = at + time - now /\ End(e, f) = x + time /\ Now32 = y
      BY <2>1 DEF Now32
    <3> HIDE DEF p, q, x, y
    <3>3. End(e, f) - Now32 = left + (q - p)
      BY <1>2, <3>1, <3>2
    <3> QED BY <3>3 DEF p, q
  <2>7. left > 0 => End(e, f) > Now32
    BY <1>2, <2>1, <2>3, <2>4, <2>5, <2>6 DEF Now32
  <2>8. left <= 0 => ~ (End(e, f) > Now32)
    <3> SUFFICES ASSUME left <= 0 PROVE ~ (End(e, f) > Now32)
      OBVIOUS
    <3>1. k = l
      BY <1>0, <1>1, <1>4, <2>2 DEF NothingOlderThanTheWrap
    <3>2. End(e, f) - Now32 = left
      BY <1>2, <2>5, <2>6, <3>1
    <3>3. End(e, f) \in Int /\ Now32 \in Int
      BY <1>2, <2>1, <2>3 DEF Now32
    <3> QED BY <1>2, <3>2, <3>3
  <2>9. left > 0 => (left + Clock * (l - k)) % Clock = left
    <3> SUFFICES ASSUME left > 0 PROVE (left + Clock * (l - k)) % Clock = left
      OBVIOUS
    <3>1. left \in 0..(Clock - 1)
      BY <1>2, <2>1
    <3>2. PICK turns \in Int : turns = l - k
      BY <2>3
    <3>3. (left + Clock * turns) % Clock = left
      BY <1>2, <3>1, Turns
    <3> QED BY <3>2, <3>3
  <2> QED BY <1>0, <1>1, <1>2, <2>5, <2>6, <2>7, <2>8, <2>9
<1> QED BY <1>3, <1>4

(* What the code finds of a family is what its one live entry has left.     *)
LEMMA RemainingIsLeft ==
  ASSUME CooldownInv, NothingOlderThanTheWrap, NEW f \in Families, NEW spell, NEW item, NEW category
  PROVE  \/ /\ Live(f, spell, item, category) = {}
            /\ Remaining(f, spell, item, category) = 0
         \/ \E i \in Live(f, spell, item, category) :
              /\ Live(f, spell, item, category) = {i}
              /\ Remaining(f, spell, item, category) = Left(history[i], f)
<1> DEFINE ahead == {i \in 1..Len(history) : Matches(history[i], f, spell, item, category) /\ End(history[i], f) > Now32}
           n == SelectLastInSeq(history, LAMBDA e : Matches(e, f, spell, item, category) /\ End(e, f) > Now32)
           live == Live(f, spell, item, category)
<1>1. DOMAIN history = 1..Len(history) /\ Len(history) \in Nat
  BY DEF CooldownInv, ListTypes
<1>2. \A i \in DOMAIN history :
        Matches(history[i], f, spell, item, category) => history[i].hold \/ Time(history[i], f) # 0
  BY DEF Matches, Time, Families
<1>3. ahead = live
  BY <1>1, <1>2, EndAhead DEF Live
<1>4. n = IF ahead # {} THEN Max(ahead) ELSE 0
  BY DEF SelectLastInSeq
<1>5. Remaining(f, spell, item, category) = IF n = 0 THEN 0 ELSE (End(history[n], f) - Now32) % Clock
  BY DEF Remaining
<1> HIDE DEF ahead, n
<1>6. CASE live = {}
  BY <1>3, <1>4, <1>5, <1>6
<1>7. CASE live # {}
  <2>1. PICK i \in live : TRUE
    BY <1>7
  <2>2. live = {i}
    BY <2>1, LiveUnique
  <2>3. /\ i \in 1..Len(history) /\ Left(history[i], f) > 0
        /\ Matches(history[i], f, spell, item, category)
    BY <1>1, <2>1 DEF Live
  <2>4. Max({i}) = i
    <3>1. i \in {i} /\ \A y \in {i} : i >= y
      BY <1>1, <2>3
    <3>2. \A x \in {i} : x = i
      OBVIOUS
    <3> QED BY <3>1, <3>2 DEF Max
  <2>5. n = i /\ n # 0
    BY <1>1, <1>3, <1>4, <2>2, <2>3, <2>4
  <2>6. (End(history[i], f) - Now32) % Clock = Left(history[i], f)
    BY <1>1, <1>2, <2>3, EndAhead
  <2> QED BY <1>5, <2>1, <2>2, <2>5, <2>6
<1> QED BY <1>6, <1>7

(* The greatest of some numbers is that of more, none of which is greater.  *)
LEMMA MaxOfMore ==
  ASSUME NEW S, NEW T, S \subseteq T, T \subseteq Int,
         NEW m \in S, \A x \in S : m >= x, \A x \in T : \E y \in S : y >= x
  PROVE  Max(S) = Max(T)
<1>1. \A x \in T : m >= x
  <2> SUFFICES ASSUME NEW x \in T PROVE m >= x
    OBVIOUS
  <2>1. PICK y \in S : y >= x
    OBVIOUS
  <2>2. m >= y /\ m \in Int /\ x \in Int /\ y \in Int
    OBVIOUS
  <2> QED BY <2>1, <2>2
<1>2. ASSUME NEW U, U \subseteq Int, m \in U, \A x \in U : m >= x
      PROVE  Max(U) = m
  <2>1. Max(U) \in U /\ \A x \in U : Max(U) >= x
    BY <1>2 DEF Max
  <2>2. Max(U) >= m /\ m >= Max(U) /\ m \in Int /\ Max(U) \in Int
    BY <1>2, <2>1
  <2> QED BY <2>2
<1>3. Max(S) = m
  BY <1>2
<1>4. Max(T) = m
  BY <1>1, <1>2
<1> QED BY <1>3, <1>4

LEMMA HistoryIsLongest ==
  ASSUME CooldownInv, NothingOlderThanTheWrap, NEW spell, NEW item, NEW category
  PROVE  Max({Remaining(f, spell, item, category) : f \in Families}) = Longest(spell, item, category)
<1> DEFINE r(f) == Remaining(f, spell, item, category)
           live(f) == Live(f, spell, item, category)
           S == {r(f) : f \in Families}
           T == {0} \cup UNION {{Left(history[i], f) : i \in live(f)} : f \in Families}
<1>1. ASSUME NEW f \in Families, NEW i \in live(f)
      PROVE  r(f) = Left(history[i], f) /\ Left(history[i], f) \in Nat
  <2>1. r(f) = Left(history[i], f)
    BY RemainingIsLeft
  <2>2. Left(history[i], f) > 0 /\ history[i] \in Entries
    BY EntryType DEF Live, CooldownInv
  <2> QED BY <2>1, <2>2, LeftType DEF CooldownInv
<1>2. ASSUME NEW f \in Families
      PROVE  r(f) \in Nat /\ r(f) \in T
  <2>1. CASE live(f) = {}
    BY <2>1, RemainingIsLeft
  <2>2. CASE live(f) # {}
    <3>1. PICK i \in live(f) : TRUE
      BY <2>2
    <3> QED BY <1>1, <3>1
  <2> QED BY <2>1, <2>2
<1>3. S \subseteq T
  BY <1>2
<1>4. T \subseteq Nat
  BY <1>1
<1>5. ASSUME NEW x \in T
      PROVE  \E y \in S : y >= x
  <2>1. CASE x = 0
    <3>1. r("gcd") \in S /\ r("gcd") \in Nat
      BY <1>2 DEF Families
    <3> QED BY <2>1, <3>1
  <2>2. ASSUME NEW f \in Families, NEW i \in live(f), x = Left(history[i], f)
        PROVE  \E y \in S : y >= x
    <3>1. r(f) \in S /\ r(f) = x /\ x \in Nat
      BY <1>1, <2>2
    <3> QED BY <3>1
  <2> QED BY <2>1, <2>2
<1>6. S = {r("individual"), r("category"), r("gcd")}
  BY DEF Families
<1>7. \E m \in S : \A x \in S : m >= x
  <2>1. r("individual") \in Nat /\ r("category") \in Nat /\ r("gcd") \in Nat
    BY <1>2 DEF Families
  <2> HIDE DEF r
  <2> QED BY <1>6, <2>1
<1>8. Longest(spell, item, category) = Max(T)
  BY DEF Longest
<1> HIDE DEF S, T
<1>9. PICK m \in S : \A x \in S : m >= x
  BY <1>7
<1>10. T \subseteq Int /\ \A x \in T : \E y \in S : y >= x
  BY <1>4, <1>5
<1>11. Max(S) = Max(T)
  BY <1>3, <1>9, <1>10, MaxOfMore
<1> QED BY <1>8, <1>11 DEF S

LEMMA ToldWhenSound ==
  ASSUME CooldownInv
  PROVE  CooldownsTold
<1> SUFFICES ASSUME NothingOlderThanTheWrap
             PROVE  /\ \A s \in DOMAIN Spells : GetSpellIdCooldown(s) = Longest(s, NoItemID, Spells[s].category)
                    /\ \A item \in stats : GetItemIdCooldown(item) =
                         Max({Longest(s.spell, item, CategoryOf(s.spell, s.category)) : s \in ToSet(ItemSpells[item])} \cup {0})
  BY DEF CooldownsTold
<1>1. \A spell, item, category :
        GetCooldownFromSpellHistory(spell, item, category) = Longest(spell, item, CategoryOf(spell, category))
  BY HistoryIsLongest DEF GetCooldownFromSpellHistory, CategoryOf
<1>2. ASSUME NEW s \in DOMAIN Spells
      PROVE  GetSpellIdCooldown(s) = Longest(s, NoItemID, Spells[s].category)
  BY <1>1 DEF GetSpellIdCooldown, CategoryOf
<1>3. ASSUME NEW item \in stats
      PROVE  GetItemIdCooldown(item) =
               Max({Longest(s.spell, item, CategoryOf(s.spell, s.category)) : s \in ToSet(ItemSpells[item])} \cup {0})
  <2> DEFINE of == ToSet(ItemSpells[item])
             longest == {GetCooldownFromSpellHistory(s.spell, item, s.category) : s \in of}
             left == {Longest(s.spell, item, CategoryOf(s.spell, s.category)) : s \in of}
  <2>1. longest = left
    BY <1>1
  <2>2. GetItemIdCooldown(item) = Max(longest \cup {0})
    BY DEF GetItemIdCooldown
  <2> QED BY <2>1, <2>2
<1> QED BY <1>2, <1>3

(* The cooldown told is the longest that runs.                              *)
THEOREM CooldownTheorem ==
  CooldownSpec => []CooldownsTold
<1>1. CooldownInv /\ [CooldownNext]_cooldownVars => CooldownInv'
  BY CooldownStepInv
<1>2. CooldownInv => CooldownsTold
  BY ToldWhenSound
<1> QED
  BY <1>1, <1>2, CooldownInitInv, PTL DEF CooldownSpec

-----------------------------------------------------------------------------
(* The item searches.                                                       *)

(* A remembered id is the id of an item of that name whose stats are there. *)
Remembered ==
  \A name \in Names : nameToId[name] # NoId => nameToId[name] \in Called(name) /\ HasStats(nameToId[name])
SearchInv ==
  /\ carried \in [Places -> Ids \cup {NoId}] /\ nameToId \in [Names -> Ids \cup {NoId}]
  /\ loaded \subseteq Ids /\ rows \subseteq Ids
  /\ Remembered

(* Every bag has its turn, and none two bags share.                         *)
LEMMA BagTurns ==
  ASSUME NEW p \in Places, NEW q \in Places
  PROVE  /\ Turn(p[1]) \in Nat /\ p[2] \in Nat
         /\ Turn(p[1]) = Turn(q[1]) /\ p[2] = q[2] => p = q
<1>1. p \in (-3..10) \X Nat /\ q \in (-3..10) \X Nat
  BY SearchConstants
<1>2. ASSUME NEW b \in -3..10
      PROVE  /\ Turn(b) \in Nat
             /\ b = (CASE Turn(b) = 0 -> -3 [] Turn(b) \in 1..5 -> Turn(b) - 1 [] Turn(b) = 6 -> -1
                       [] Turn(b) = 13 -> -2 [] OTHER -> Turn(b) - 2)
  BY DEF Turn, EQUIPPED_BAG_INDEX, BANK_BAG_INDEX, KEYRING_BAG_INDEX
<1>3. Turn(p[1]) = Turn(q[1]) => p[1] = q[1]
  BY <1>1, <1>2
<1> QED BY <1>1, <1>2, <1>3

(* A set of naturals that is not empty has a least element.                 *)
LEMMA LeastNatural ==
  ASSUME NEW S, S \subseteq Nat, S # {}
  PROVE  \E n \in S : \A m \in S : n <= m
<1> DEFINE less == {ss \in Nat \X Nat : ss[1] < ss[2]}
<1>1. IsWellFoundedOn(less, Nat)
  <2>1. OpToRel(<, Nat) = less
    BY DEF OpToRel
  <2> QED BY <2>1, NatLessThanWellFounded
<1> HIDE DEF less
<1>2. PICK n \in S : \A m \in S : <<m, n>> \notin less
  BY <1>1, WFMin
<1>3. ASSUME NEW m \in S
      PROVE  n <= m
  <2>1. m \in Nat /\ n \in Nat /\ ~(m < n)
    <3>1. m \in Nat /\ n \in Nat /\ <<m, n>> \in Nat \X Nat
      OBVIOUS
    <3>2. <<m, n>> \notin less
      BY <1>2
    <3> QED BY <3>1, <3>2 DEF less
  <2> QED BY <2>1
<1> QED BY <1>3

LEMMA FirstPlace ==
  ASSUME NEW S, S \subseteq Places, S # {}
  PROVE  /\ FirstOf(S) \in S
         /\ \A q \in S : ~Before(q, FirstOf(S))
<1> DEFINE turns == {Turn(p[1]) : p \in S}
<1>1. turns \subseteq Nat /\ turns # {}
  BY BagTurns
<1>2. PICK t \in turns : \A u \in turns : t <= u
  BY <1>1, LeastNatural
<1> DEFINE slots == {p[2] : p \in {q \in S : Turn(q[1]) = t}}
<1>3. slots \subseteq Nat /\ slots # {}
  BY BagTurns
<1>4. PICK s \in slots : \A u \in slots : s <= u
  BY <1>3, LeastNatural
<1>5. PICK p \in S : Turn(p[1]) = t /\ p[2] = s
  OBVIOUS
<1>6. ASSUME NEW q \in S, q # p
      PROVE  Before(p, q)
  <2>1. t <= Turn(q[1]) /\ (Turn(q[1]) = t => s <= q[2])
    BY <1>2, <1>4
  <2>2. t \in Nat /\ s \in Nat /\ Turn(q[1]) \in Nat /\ q[2] \in Nat /\ (Turn(q[1]) = t => q[2] # s)
    BY <1>5, <1>6, BagTurns
  <2> QED BY <1>5, <2>1, <2>2 DEF Before
<1> HIDE DEF turns, slots
<1>7. FirstOf(S) \in S /\ \A q \in S \ {FirstOf(S)} : Before(FirstOf(S), q)
  <2>1. \E x \in S : \A q \in S \ {x} : Before(x, q)
    BY <1>5, <1>6
  <2> QED BY <2>1 DEF FirstOf
<1>8. ASSUME NEW q \in S
      PROVE  ~Before(q, FirstOf(S))
  <2>1. PICK x \in S : x = FirstOf(S)
    BY <1>7
  <2>2. q = x \/ Before(x, q)
    BY <1>7, <2>1
  <2>3. Turn(q[1]) \in Nat /\ q[2] \in Nat /\ Turn(x[1]) \in Nat /\ x[2] \in Nat
    BY BagTurns
  <2>4. ~Before(q, x)
    BY <2>2, <2>3 DEF Before
  <2> QED BY <2>1, <2>4
<1> QED BY <1>7, <1>8

(* What a search returns and remembers.                                     *)
Matching(places, id, name) == {p \in places : DoesItemMatch(carried[p], id, name)}

LEMMA Returns ==
  ASSUME SearchInv, NEW places, places \subseteq Filled, NEW id, NEW name, Search(places, id, name)
  PROVE  /\ found' = FirstOf(Matching(places, id, name))
         /\ Matching(places, id, name) = {} => found' = NoPlace /\ nameToId' = nameToId
         /\ Matching(places, id, name) # {} => found' \in Matching(places, id, name)
         /\ Matching(places, id, name) # {} /\ id = NoId =>
              nameToId' = [nameToId EXCEPT ![name] = carried[found']]
         /\ id # NoId => nameToId' = nameToId
<1> DEFINE matching == Matching(places, id, name)
<1> USE DEF Matching
<1>1. matching \subseteq Places
  BY DEF Filled
<1>2. found' = FirstOf(matching)
  BY DEF Search
<1>3. nameToId' = IF matching # {} /\ id = NoId THEN [nameToId EXCEPT ![name] = carried[found']] ELSE nameToId
  BY DEF Search
<1> HIDE DEF matching
<1>4. matching = {} => found' = NoPlace
  BY <1>2 DEF FirstOf
<1>5. matching # {} => found' \in matching
  BY <1>1, <1>2, FirstPlace
<1> QED BY <1>2, <1>3, <1>4, <1>5 DEF matching

LEMMA SearchStep ==
  ASSUME SearchInv, NEW places, places \subseteq Filled, NEW id, NEW name \in Names, Search(places, id, name)
  PROVE  SearchInv'
<1> DEFINE matching == Matching(places, id, name)
<1>1. carried' = carried /\ rows' = rows
  BY DEF Search, belongings
<1>2. loaded' \subseteq Ids /\ loaded \subseteq loaded'
  BY DEF Search, SearchInv
<1>3. ASSUME NEW n \in Names, nameToId'[n] = nameToId[n]
      PROVE  nameToId'[n] # NoId => nameToId'[n] \in Called(n) /\ (HasStats(nameToId[n]))'
  BY <1>1, <1>2, <1>3 DEF SearchInv, Remembered, HasStats
<1>4. CASE nameToId' = nameToId
  BY <1>1, <1>2, <1>4 DEF SearchInv, Remembered, HasStats
<1>5. CASE matching # {} /\ id = NoId /\ nameToId' = [nameToId EXCEPT ![name] = carried[found']]
  <2>1. found' \in matching
    BY <1>5, Returns
  <2>2. PICK item : item = carried[found']
    OBVIOUS
  <2>3. item \in Ids /\ HasStats(item) /\ NameOf[item] = name
    BY <1>5, <2>1, <2>2 DEF Matching, DoesItemMatch, Filled, SearchInv
  <2>4. nameToId' \in [Names -> Ids \cup {NoId}]
        /\ \A n \in Names : nameToId'[n] = IF n = name THEN item ELSE nameToId[n]
    BY <1>5, <2>2, <2>3 DEF SearchInv
  <2>5. item \in Called(name) /\ item \in loaded' \cup rows
    BY <1>1, <1>2, <2>3 DEF Called, HasStats
  <2>6. Remembered'
    BY <1>1, <1>2, <2>4, <2>5 DEF SearchInv, Remembered, HasStats
  <2> QED BY <1>1, <1>2, <2>4, <2>6 DEF SearchInv
<1>6. /\ id # NoId => nameToId' = nameToId
      /\ matching = {} => nameToId' = nameToId
  BY DEF Search, Matching
<1>7. matching # {} /\ id = NoId => nameToId' = [nameToId EXCEPT ![name] = carried[found']]
  BY Returns
<1> QED BY <1>4, <1>5, <1>6, <1>7

LEMMA SearchInitInv == SearchInit => SearchInv
BY DEF SearchInit, SearchInv, Remembered

LEMMA SearchStepInv ==
  ASSUME SearchInv, [SearchNext]_searchVars
  PROVE  SearchInv'
<1>1. ASSUME NEW p \in Places, NEW item \in Ids \cup {NoId}, Move(p, item)
      PROVE  SearchInv'
  BY <1>1 DEF Move, SearchInv, Remembered, HasStats
<1>2. ASSUME NEW b \in BagNumbers, ChangeBag(b)
      PROVE  SearchInv'
  BY <1>2 DEF ChangeBag, SearchInv, Remembered, HasStats
<1>3. CASE BankGuidChanges
  BY <1>3 DEF BankGuidChanges, SearchInv, Remembered, HasStats
<1>4. ASSUME NEW id \in Ids, ItemStatsCallback(id)
      PROVE  SearchInv'
  BY <1>4 DEF ItemStatsCallback, SearchInv, Remembered, HasStats
<1>5. ASSUME NEW id \in Ids, FindById(id)
      PROVE  SearchInv'
  <2>1. NameOf[id] \in Names
    BY DEF Names
  <2> QED BY <1>5, <2>1, SearchStep DEF FindById
<1>6. ASSUME NEW name \in Names, FindByName(name)
      PROVE  SearchInv'
  BY <1>6, SearchStep DEF FindByName
<1>7. ASSUME NEW name \in Names, UseTrinketByName(name)
      PROVE  SearchInv'
  BY <1>7, SearchStep DEF UseTrinketByName
<1>8. CASE UNCHANGED searchVars
  BY <1>8 DEF searchVars, SearchInv, Remembered, HasStats
<1> QED BY <1>1, <1>2, <1>3, <1>4, <1>5, <1>6, <1>7, <1>8 DEF SearchNext

(* The bag and slot an addon is told lead back to the place.                *)
LEMMA ThereAndBack ==
  ASSUME NEW p \in Places, Reachable(p)
  PROVE  ItemAt(p[1], LuaSlot(p)) = p
<1>1. p[1] \in -3..10 /\ p[2] \in Nat /\ p = <<p[1], p[2]>> /\ p[2] \in SlotsOf(p[1])
  BY SearchConstants
<1>2. PICK b \in -3..10, s \in Nat : b = p[1] /\ s = p[2]
  BY <1>1
<1>3. ConvertLuaSlot(b, LuaSlot(p)) = s
  BY <1>2 DEF ConvertLuaSlot, LuaSlot, BANK_BAG_INDEX, KEYRING_BAG_INDEX
<1>4. b = -3 => LuaSlot(p) \in 1..19
  BY <1>1, <1>2 DEF LuaSlot, SlotsOf, BANK_BAG_INDEX, KEYRING_BAG_INDEX
<1>5. ItemAt(b, LuaSlot(p)) = <<b, s>>
  <2> USE DEF EQUIPPED_BAG_INDEX, BANK_BAG_INDEX, KEYRING_BAG_INDEX
  <2>1. CASE b = -3
    BY <1>3, <1>4, <2>1 DEF ItemAt
  <2>2. CASE b = 0
    BY <1>1, <1>2, <1>3, <2>2 DEF ItemAt, SlotsOf
  <2>3. CASE b \in 1..10
    <3>1. Reachable(<<b, s>>) /\ <<b, s>> \in Places /\ b # -3 /\ b # 0
      BY <1>1, <1>2, <2>3
    <3>2. ConvertLuaSlot(b, LuaSlot(p)) = s /\ b # -1 /\ b # -2
      BY <1>3, <2>3
    <3> HIDE DEF EQUIPPED_BAG_INDEX, BANK_BAG_INDEX, KEYRING_BAG_INDEX
    <3>3. b # EQUIPPED_BAG_INDEX /\ b # BANK_BAG_INDEX /\ b # KEYRING_BAG_INDEX
      BY <3>1, <3>2 DEF EQUIPPED_BAG_INDEX, BANK_BAG_INDEX, KEYRING_BAG_INDEX
    <3> QED BY <2>3, <3>1, <3>2, <3>3 DEF ItemAt
  <2>4. CASE b = -1
    BY <1>1, <1>2, <1>3, <2>4 DEF ItemAt, SlotsOf, Reachable
  <2>5. CASE b = -2
    BY <1>1, <1>2, <1>3, <2>5 DEF ItemAt, SlotsOf
  <2> QED BY <1>2, <2>1, <2>2, <2>3, <2>4, <2>5
<1> QED BY <1>1, <1>2, <1>5

LEMMA NamedFound ==
  ASSUME SearchInv
  PROVE  FindsNamed
<1> SUFFICES ASSUME NEW name \in Names, FindByName(name)
             PROVE  /\ found' # NoPlace => /\ NameOf[carried[found']] = name
                                           /\ ItemAt(found'[1], LuaSlot(found')) = found'
                    /\ \A id \in Ids : Called(name) = {id} =>
                         found' = IF HasStats(id) THEN FirstOf(Holding(id)) ELSE NoPlace
  BY DEF FindsNamed, SearchInv
<1> DEFINE lookedUp == nameToId[name]
           matching == Matching(Filled, lookedUp, name)
<1>1. /\ found' = FirstOf(matching) /\ (matching = {} => found' = NoPlace)
      /\ matching # {} => found' \in matching
  BY Returns DEF FindByName
<1>2. ASSUME NEW p \in matching
      PROVE  NameOf[carried[p]] = name /\ HasStats(carried[p]) /\ p \in Filled /\ carried[p] \in Ids
  <2>1. p \in Filled /\ carried[p] \in Ids
    BY DEF Matching, Filled, SearchInv
  <2> QED BY <2>1 DEF Matching, DoesItemMatch, SearchInv, Remembered, Called
<1>3. ASSUME found' # NoPlace
      PROVE  NameOf[carried[found']] = name /\ ItemAt(found'[1], LuaSlot(found')) = found'
  <2>1. PICK p \in matching : p = found'
    BY <1>1, <1>3
  <2> HIDE DEF matching
  <2>2. NameOf[carried[p]] = name /\ p \in Places /\ Reachable(p)
    BY <1>2 DEF Filled
  <2>3. ItemAt(p[1], LuaSlot(p)) = p
    BY <2>2, ThereAndBack
  <2> QED BY <2>1, <2>2, <2>3
<1>4. ASSUME NEW id \in Ids, Called(name) = {id}
      PROVE  found' = IF HasStats(id) THEN FirstOf(Holding(id)) ELSE NoPlace
  <2>1. \A i \in Ids : NameOf[i] = name <=> i = id
    BY <1>4 DEF Called
  <2>2. CASE HasStats(id)
    <3>1. matching = Holding(id)
      <4>1. ASSUME NEW p \in Filled
            PROVE  DoesItemMatch(carried[p], lookedUp, name) <=> carried[p] = id
        <5>1. carried[p] \in Ids
          BY DEF Filled, SearchInv
        <5> QED BY <1>4, <2>1, <2>2, <5>1 DEF DoesItemMatch, SearchInv, Remembered
      <4> QED BY <4>1 DEF Holding, Matching
    <3> QED BY <1>1, <2>2, <3>1
  <2>3. CASE ~HasStats(id)
    <3>1. matching = {}
      BY <1>2, <2>1, <2>3
    <3> QED BY <1>1, <2>3, <3>1
  <2> QED BY <2>2, <2>3
<1> QED BY <1>3, <1>4

(* A search by name finds an item of that name, where an addon is told.     *)
THEOREM SearchTheorem ==
  SearchSpec => SearchFinds
<1>1. SearchInv /\ [SearchNext]_searchVars => SearchInv'
  BY SearchStepInv
<1>2. SearchInv => FindsNamed
  BY NamedFound
<1> QED
  BY <1>1, <1>2, SearchInitInv, PTL DEF SearchSpec, SearchFinds
-----------------------------------------------------------------------------
(* The list ends where the last call ended, and the details of a place are  *)
(* those of the trinket remembered there.                                   *)
ListEnds == \A i \in Positions : i > lastCount => list[i] = NoEntry
DetailKept == \A p \in TrinketPlaces : kept[p] # NoTrinket => detail[p] = kept[p]
TrinketInv ==
  /\ itemAt \in [TrinketPlaces -> AllItems]
  /\ kept \in [TrinketPlaces -> Trinkets \cup {NoTrinket}] /\ detail \in [TrinketPlaces -> Trinkets \cup {NoTrinket}]
  /\ list \in [Positions -> TrinketPlaces \cup {NoEntry}] /\ lastCount \in Nat
  /\ ListEnds /\ DetailKept

LEMMA WalkTypes ==
  Walk \in Seq(TrinketPlaces) /\ OnWalk \subseteq TrinketPlaces
<1>1. ASSUME NEW slots \in {Worn, Pack, BagSlots}
      PROVE  slots \in Seq(TrinketPlaces)
  <2>1. slots \in Seq(ToSet(slots)) /\ ToSet(slots) \subseteq TrinketPlaces
    BY TrinketConstants DEF TrinketPlaces
  <2> QED BY <2>1
<1>2. Worn \in Seq(TrinketPlaces) /\ Pack \in Seq(TrinketPlaces) /\ BagSlots \in Seq(TrinketPlaces)
  BY <1>1
<1>3. Walk \in Seq(TrinketPlaces)
  BY <1>2 DEF Walk
<1>4. \A i \in DOMAIN Walk : Walk[i] \in TrinketPlaces
  BY <1>3
<1> QED BY <1>3, <1>4 DEF OnWalk, ToSet

LEMMA FinitePlaces ==
  IsFiniteSet(TrinketPlaces) /\ Cardinality(TrinketPlaces) \in Nat /\ Positions \subseteq Nat \ {0}
<1>1. ASSUME NEW slots \in {Worn, Pack, BagSlots}
      PROVE  IsFiniteSet(ToSet(slots))
  <2>1. slots \in Seq(ToSet(slots))
    BY TrinketConstants
  <2>2. IsFiniteSet(1..Len(slots)) /\ DOMAIN slots = 1..Len(slots)
    BY <2>1, FS_Interval
  <2>3. slots \in Surjection(1..Len(slots), ToSet(slots))
    <3>1. slots \in [1..Len(slots) -> ToSet(slots)]
      BY <2>1, <2>2
    <3>2. \A t \in ToSet(slots) : \E i \in 1..Len(slots) : slots[i] = t
      BY <2>2 DEF ToSet
    <3> QED BY <3>1, <3>2 DEF Surjection
  <2> QED BY <2>2, <2>3, FS_Surjection
<1>2. IsFiniteSet(TrinketPlaces)
  BY <1>1, FS_Union DEF TrinketPlaces
<1>3. Cardinality(TrinketPlaces) \in Nat
  BY <1>2, FS_CardinalityType
<1> QED BY <1>2, <1>3 DEF Positions

(* How many trinkets were met grows by one with each.                       *)
LEMMA MetGrows ==
  ASSUME NEW i \in 0..Len(Walk)
  PROVE  /\ IsFiniteSet(Met(i)) /\ Cardinality(Met(i)) \in Nat
         /\ i = 0 => Cardinality(Met(i)) = 0
         /\ i > 0 => IF i \in Met(i) THEN Cardinality(Met(i)) = Cardinality(Met(i - 1)) + 1
                     ELSE Cardinality(Met(i)) = Cardinality(Met(i - 1))
<1>1. Len(Walk) \in Nat
  BY WalkTypes
<1>2. \A k \in 0..Len(Walk) : IsFiniteSet(Met(k)) /\ Cardinality(Met(k)) \in Nat
  <2>1. ASSUME NEW k \in 0..Len(Walk)
        PROVE  IsFiniteSet(Met(k))
    <3>1. IsFiniteSet(1..k) /\ Met(k) \subseteq 1..k
      BY <1>1, FS_Interval DEF Met
    <3> QED BY <3>1, FS_Subset
  <2> QED BY <2>1, FS_CardinalityType
<1>3. i = 0 => Met(i) = {}
  BY DEF Met
<1>4. CASE i = 0
  BY <1>2, <1>3, <1>4, FS_EmptySet
<1>5. CASE i > 0
  <2>1. i - 1 \in 0..Len(Walk) /\ i \in Nat
    BY <1>1, <1>5
  <2>2. Met(i) = IF i \in Met(i) THEN Met(i - 1) \cup {i} ELSE Met(i - 1)
    <3>1. 1..i = 1..(i - 1) \cup {i}
      BY <1>5, <2>1
    <3> QED BY <3>1 DEF Met
  <2>3. i \notin Met(i - 1)
    BY <2>1 DEF Met
  <2>4. Cardinality(Met(i - 1) \cup {i}) = Cardinality(Met(i - 1)) + 1
    BY <1>2, <2>1, <2>3, FS_AddElement
  <2>5. CASE i \in Met(i)
    <3>1. Met(i) = Met(i - 1) \cup {i}
      BY <2>2, <2>5
    <3>2. Cardinality(Met(i)) = Cardinality(Met(i - 1)) + 1
      BY <2>4, <3>1
    <3>3. ~(i = 0)
      BY <1>5, <2>1
    <3> QED BY <1>2, <2>5, <3>2, <3>3
  <2>6. CASE i \notin Met(i)
    <3>1. Met(i) = Met(i - 1)
      BY <2>2, <2>6
    <3>2. ~(i = 0)
      BY <1>5, <2>1
    <3> QED BY <1>2, <2>6, <3>1, <3>2
  <2> QED BY <2>5, <2>6
<1> QED BY <1>4, <1>5

(* The n-th trinket is on the way.                                          *)
LEMMA FoundIsTrinket ==
  ASSUME NEW n \in 1..Count
  PROVE  FoundAt(n) \in OnWalk /\ FoundAt(n) \in TrinketPlaces /\ IsTrinket(FoundAt(n))
<1> DEFINE enough == {i \in 0..Len(Walk) : Cardinality(Met(i)) >= n}
<1>1. Len(Walk) \in Nat /\ DOMAIN Walk = 1..Len(Walk)
  BY WalkTypes
<1>2. Count \in Nat /\ n \in Nat \ {0} /\ Len(Walk) \in enough
  <2>1. Len(Walk) \in 0..Len(Walk)
    BY <1>1
  <2>2. Count \in Nat
    BY <2>1, MetGrows DEF Count
  <2> QED BY <2>1, <2>2 DEF Count
<1>3. PICK i \in enough : \A j \in enough : i <= j
  <2>1. enough \subseteq Nat /\ enough # {}
    BY <1>1, <1>2
  <2> HIDE DEF enough
  <2> QED BY <2>1, LeastNatural
<1>4. i \in 0..Len(Walk) /\ Cardinality(Met(i)) >= n /\ Cardinality(Met(i)) \in Nat
  BY MetGrows
<1>5. i > 0
  BY <1>2, <1>4, MetGrows
<1>6. i - 1 \in 0..Len(Walk) /\ ~(Cardinality(Met(i - 1)) >= n) /\ Cardinality(Met(i - 1)) \in Nat
  <2>1. i - 1 \in 0..Len(Walk) /\ ~(i <= i - 1)
    BY <1>1, <1>4, <1>5
  <2> QED BY <1>3, <2>1, MetGrows
<1>7. i \in Met(i) /\ Cardinality(Met(i)) = n
  BY <1>2, <1>4, <1>5, <1>6, MetGrows
<1>8. \E k \in DOMAIN Walk : k \in Met(k) /\ Cardinality(Met(k)) = n
  BY <1>1, <1>4, <1>5, <1>7
<1>9. PICK k \in DOMAIN Walk : k \in Met(k) /\ FoundAt(n) = Walk[k]
  BY <1>8 DEF FoundAt
<1>10. IsTrinket(Walk[k]) /\ Walk[k] \in OnWalk
  BY <1>9 DEF Met, OnWalk, ToSet
<1> QED BY <1>9, <1>10, WalkTypes

LEMMA CountType == Count \in Nat
<1>1. Len(Walk) \in 0..Len(Walk)
  BY WalkTypes
<1> QED BY <1>1, MetGrows DEF Count

LEMMA TrinketInitInv == TrinketInit => TrinketInv
BY DEF TrinketInit, TrinketInv, ListEnds, DetailKept, BlankPlaces, BlankList, AllItems

(* A call writes the details of each trinket it finds.                      *)
LEMMA EntriesWritten ==
  ASSUME TrinketInv, GetTrinkets, NEW p \in OnWalk, IsTrinket(p)
  PROVE  detail'[p] = itemAt[p] /\ kept'[p] = itemAt[p] /\ itemAt[p] \in Trinkets
<1>1. p \in TrinketPlaces /\ Current(p) = itemAt[p] /\ itemAt[p] \in Trinkets /\ itemAt[p] # NoTrinket
  BY WalkTypes, TrinketConstants DEF Current, IsTrinket
<1>2. kept'[p] = itemAt[p]
  BY <1>1 DEF GetTrinkets
<1>3. detail'[p] = IF itemAt[p] # kept[p] THEN itemAt[p] ELSE detail[p]
  BY <1>1 DEF GetTrinkets
<1> QED BY <1>1, <1>2, <1>3 DEF TrinketInv, DetailKept

LEMMA CallStep ==
  ASSUME TrinketInv, GetTrinkets
  PROVE  TrinketInv'
<1>1. itemAt' = itemAt /\ lastCount' = Count /\ Count \in Nat
  BY CountType DEF GetTrinkets, whereabouts
<1>2. ASSUME NEW p \in TrinketPlaces
      PROVE  /\ kept'[p] \in Trinkets \cup {NoTrinket} /\ detail'[p] \in Trinkets \cup {NoTrinket}
             /\ kept'[p] # NoTrinket => detail'[p] = kept'[p]
  <2>1. CASE p \in OnWalk /\ IsTrinket(p)
    BY <2>1, EntriesWritten
  <2>2. CASE p \in OnWalk /\ ~IsTrinket(p)
    <3>1. kept'[p] = NoTrinket /\ detail'[p] = detail[p]
      BY <2>2 DEF GetTrinkets, Current
    <3> QED BY <3>1 DEF TrinketInv
  <2>3. CASE p \notin OnWalk
    <3>1. kept'[p] = kept[p] /\ detail'[p] = detail[p]
      BY <2>3 DEF GetTrinkets
    <3> QED BY <3>1 DEF TrinketInv, DetailKept
  <2> QED BY <2>1, <2>2, <2>3
<1>3. /\ kept' \in [TrinketPlaces -> Trinkets \cup {NoTrinket}]
      /\ detail' \in [TrinketPlaces -> Trinkets \cup {NoTrinket}]
  <2>1. /\ kept' = [p \in TrinketPlaces |-> kept'[p]]
        /\ detail' = [p \in TrinketPlaces |-> detail'[p]]
    BY DEF GetTrinkets
  <2> QED BY <1>2, <2>1
<1>4. ASSUME NEW i \in Positions
      PROVE  /\ list'[i] \in TrinketPlaces \cup {NoEntry}
             /\ i > Count => list'[i] = NoEntry
  <2>1. list'[i] = IF i <= Count THEN FoundAt(i) ELSE IF i <= lastCount THEN NoEntry ELSE list[i]
    BY DEF GetTrinkets, Listed
  <2>2. i \in Nat \ {0}
    BY FinitePlaces
  <2>3. CASE i <= Count
    <3>1. FoundAt(i) \in TrinketPlaces
      BY <1>1, <2>2, <2>3, FoundIsTrinket
    <3> QED BY <1>1, <2>1, <2>2, <2>3, <3>1
  <2>4. CASE i > Count
    <3>1. ~(i <= lastCount) => list[i] = NoEntry
      BY <2>2 DEF TrinketInv, ListEnds
    <3> QED BY <1>1, <2>1, <2>2, <2>4, <3>1
  <2> QED BY <1>1, <2>2, <2>3, <2>4
<1>5. list' \in [Positions -> TrinketPlaces \cup {NoEntry}]
  <2>1. list' = [i \in Positions |-> list'[i]]
    BY DEF GetTrinkets, Listed
  <2> QED BY <1>4, <2>1
<1> QED BY <1>1, <1>2, <1>3, <1>4, <1>5 DEF TrinketInv, ListEnds, DetailKept

LEMMA TrinketStepInv ==
  ASSUME TrinketInv, [TrinketNext]_trinketVars
  PROVE  TrinketInv'
<1> USE DEF TrinketInv, ListEnds, DetailKept
<1>1. ASSUME NEW p \in TrinketPlaces, NEW item \in AllItems, Carry(p, item)
      PROVE  TrinketInv'
  BY <1>1 DEF Carry, lua
<1>2. ASSUME NEW p \in TrinketPlaces, NEW q \in TrinketPlaces, SwapItems(p, q)
      PROVE  TrinketInv'
  BY <1>2 DEF SwapItems, lua
<1>3. CASE TakeBag
  BY <1>3 DEF TakeBag, lua, AllItems
<1>4. ASSUME NEW item, TrinketStatsCallback(item)
      PROVE  TrinketInv'
  BY <1>4 DEF TrinketStatsCallback, lua
<1>5. CASE GetTrinkets
  BY <1>5, CallStep
<1>6. CASE LoadTrinketFunctions
  BY <1>6 DEF LoadTrinketFunctions, whereabouts, BlankPlaces, BlankList
<1>7. CASE UNCHANGED trinketVars
  BY <1>7 DEF trinketVars
<1> QED BY <1>1, <1>2, <1>3, <1>4, <1>5, <1>6, <1>7 DEF TrinketNext

LEMMA TrinketsShown ==
  ASSUME TrinketInv
  PROVE  ShowsTrinkets
<1> SUFFICES ASSUME GetTrinkets
             PROVE  Shows(list', detail') =
                      [i \in Positions |-> IF i <= Count THEN itemAt[FoundAt(i)] ELSE NoTrinket]
  BY DEF ShowsTrinkets
<1> SUFFICES ASSUME NEW i \in Positions
             PROVE  (IF list'[i] = NoEntry THEN NoTrinket ELSE detail'[list'[i]]) =
                      IF i <= Count THEN itemAt[FoundAt(i)] ELSE NoTrinket
  BY DEF Shows
<1>1. i \in Nat \ {0} /\ Count \in Nat
  BY FinitePlaces, CountType
<1>2. list'[i] = IF i <= Count THEN FoundAt(i) ELSE IF i <= lastCount THEN NoEntry ELSE list[i]
  BY DEF GetTrinkets, Listed
<1>3. CASE i <= Count
  <2>1. FoundAt(i) \in OnWalk /\ FoundAt(i) \in TrinketPlaces /\ IsTrinket(FoundAt(i))
    BY <1>1, <1>3, FoundIsTrinket
  <2>2. FoundAt(i) # NoEntry
    BY <2>1, TrinketConstants DEF TrinketPlaces, NoEntry
  <2>3. detail'[FoundAt(i)] = itemAt[FoundAt(i)]
    BY <2>1, EntriesWritten
  <2> QED BY <1>2, <1>3, <2>2, <2>3
<1>4. CASE ~(i <= Count)
  <2>1. ~(i <= lastCount) => list[i] = NoEntry
    BY <1>1 DEF TrinketInv, ListEnds
  <2> QED BY <1>2, <1>4, <2>1
<1> QED BY <1>3, <1>4

(* The list shows the trinkets the player has.                              *)
THEOREM TrinketTheorem ==
  TrinketSpec => ListIsTrinkets
<1>1. TrinketInv /\ [TrinketNext]_trinketVars => TrinketInv'
  BY TrinketStepInv
<1>2. TrinketInv => ShowsTrinkets
  BY TrinketsShown
<1> QED
  BY <1>1, <1>2, TrinketInitInv, PTL DEF TrinketSpec, ListIsTrinkets
----------------------------------------------------------------------------
(* How many of a set's numbers there are up to each of them: the numbers of *)
(* a finite set are counted from 1 to its size, each once.                  *)
LEMMA Counted ==
  ASSUME NEW S \in SUBSET Nat, IsFiniteSet(S), NEW s \in S
  PROVE  /\ IsFiniteSet(UpTo(S, s)) /\ Cardinality(UpTo(S, s)) \in 1..Cardinality(S)
         /\ \A t \in S : t < s => Cardinality(UpTo(S, t)) < Cardinality(UpTo(S, s))
<1>1. ASSUME NEW t \in S
      PROVE  /\ IsFiniteSet(UpTo(S, t)) /\ Cardinality(UpTo(S, t)) \in Nat
             /\ Cardinality(UpTo(S, t)) <= Cardinality(S)
  <2>1. UpTo(S, t) \in SUBSET S
    BY DEF UpTo
  <2> QED BY <2>1, FS_Subset, FS_CardinalityType
<1>2. Cardinality(S) \in Nat
  BY FS_CardinalityType
<1>3. Cardinality(UpTo(S, s)) # 0
  <2>1. s \in UpTo(S, s)
    BY DEF UpTo
  <2> QED BY <1>1, <2>1, FS_EmptySet
<1>4. ASSUME NEW t \in S, t < s
      PROVE  Cardinality(UpTo(S, t)) < Cardinality(UpTo(S, s))
  <2>1. UpTo(S, t) \in SUBSET UpTo(S, s)
    <3>1. \A i \in S : i \in Nat /\ (i <= t => i <= s)
      BY <1>4
    <3> QED BY <3>1 DEF UpTo
  <2>2. s \in UpTo(S, s) /\ s \notin UpTo(S, t)
    BY <1>4 DEF UpTo
  <2>3. UpTo(S, t) # UpTo(S, s)
    BY <2>2
  <2>4. /\ Cardinality(UpTo(S, t)) <= Cardinality(UpTo(S, s))
        /\ Cardinality(UpTo(S, t)) # Cardinality(UpTo(S, s))
    BY <1>1, <2>1, <2>3, FS_Subset
  <2> QED BY <1>1, <2>4
<1> QED BY <1>1, <1>2, <1>3, <1>4

LEMMA CountedOnce ==
  ASSUME NEW S \in SUBSET Nat, IsFiniteSet(S), NEW s \in S, NEW t \in S,
         Cardinality(UpTo(S, s)) = Cardinality(UpTo(S, t))
  PROVE  s = t
<1>1. /\ Cardinality(UpTo(S, s)) \in Nat
      /\ t < s => Cardinality(UpTo(S, t)) < Cardinality(UpTo(S, s))
      /\ s < t => Cardinality(UpTo(S, s)) < Cardinality(UpTo(S, t))
  BY Counted
<1> QED BY <1>1

LEMMA EachCounted ==
  ASSUME NEW S \in SUBSET Nat, IsFiniteSet(S), NEW n \in 1..Cardinality(S)
  PROVE  \E s \in S : Cardinality(UpTo(S, s)) = n
<1> DEFINE count == [s \in S |-> Cardinality(UpTo(S, s))]
<1>1. Cardinality(S) \in Nat
  BY FS_CardinalityType
<1>2. IsFiniteSet(1..Cardinality(S)) /\ Cardinality(1..Cardinality(S)) = Cardinality(S)
  BY <1>1, FS_Interval
<1>3. count \in [S -> 1..Cardinality(S)]
  BY Counted
<1>4. \A s, t \in S : count[s] = count[t] => s = t
  BY CountedOnce
<1>5. count \in Injection(S, 1..Cardinality(S))
  <2> HIDE DEF count
  <2> QED BY <1>3, <1>4 DEF Injection, IsInjective
<1>6. count \in Surjection(S, 1..Cardinality(S))
  BY <1>2, <1>5, FS_Injection
<1>7. PICK s \in S : count[s] = n
  BY <1>6 DEF Surjection
<1> QED BY <1>7

(* The lists of any fields.                                                 *)
AuraFields == [AuraSlotSet -> Auras]
ListEntries == [spell : AuraSpells, count : Nat]
Below(S, s) == {i \in S : i < s}
PlaceOf(fields, b, s) == Cardinality(Below(InList(fields, b), s)) + 1

LEMMA SlotsFinite ==
  ASSUME NEW fields, NEW b
  PROVE  /\ InList(fields, b) \in SUBSET Nat /\ IsFiniteSet(InList(fields, b))
         /\ Cardinality(InList(fields, b)) \in Nat
<1>1. IsFiniteSet(AuraSlotSet) /\ AuraSlotSet \subseteq Nat
  BY AuraConstants, FS_Interval DEF AuraSlotSet
<1>2. InList(fields, b) \in SUBSET AuraSlotSet
  BY DEF InList
<1> QED BY <1>1, <1>2, FS_Subset, FS_CardinalityType

LEMMA ListIs ==
  ASSUME NEW fields, NEW b
  PROVE  /\ DOMAIN AuraList(fields, b) = 1..Cardinality(InList(fields, b))
         /\ \A s \in InList(fields, b) :
              AuraList(fields, b)[Cardinality(UpTo(InList(fields, b), s))] = AuraEntry(fields, s)
<1>1. ASSUME NEW s \in InList(fields, b)
      PROVE  AuraList(fields, b)[Cardinality(UpTo(InList(fields, b), s))] = AuraEntry(fields, s)
  <2> DEFINE n == Cardinality(UpTo(InList(fields, b), s))
             t == CHOOSE i \in InList(fields, b) : Cardinality(UpTo(InList(fields, b), i)) = n
  <2>1. n \in 1..Cardinality(InList(fields, b))
    BY SlotsFinite, Counted
  <2>2. t \in InList(fields, b) /\ Cardinality(UpTo(InList(fields, b), t)) = n
    OBVIOUS
  <2>3. t = s
    BY <2>2, SlotsFinite, CountedOnce
  <2>4. AuraList(fields, b)[n] = AuraEntry(fields, t)
    BY <2>1 DEF AuraList
  <2> QED BY <2>3, <2>4
<1> QED BY <1>1 DEF AuraList

ShowsSlots(slots, fields, b) ==
  /\ slots = [n \in 1..Cardinality(InList(fields, b)) |-> slots[n]]
  /\ \A s \in InList(fields, b) :
       slots[Cardinality(UpTo(InList(fields, b), s))] = AuraEntry(fields, s)

LEMMA ListOnly ==
  ASSUME NEW fields, NEW b, NEW slots, ShowsSlots(slots, fields, b)
  PROVE  slots = AuraList(fields, b)
<1>1. ASSUME NEW n \in 1..Cardinality(InList(fields, b))
      PROVE  slots[n] = AuraList(fields, b)[n]
  <2>1. PICK s \in InList(fields, b) : Cardinality(UpTo(InList(fields, b), s)) = n
    BY SlotsFinite, EachCounted
  <2> QED BY <2>1, ListIs DEF ShowsSlots
<1>2. AuraList(fields, b) = [n \in 1..Cardinality(InList(fields, b)) |-> AuraList(fields, b)[n]]
  BY DEF AuraList
<1> QED BY <1>1, <1>2 DEF ShowsSlots

LEMMA AuraListType ==
  ASSUME NEW fields \in AuraFields, NEW b
  PROVE  AuraList(fields, b) \in Seq(ListEntries) /\ Len(AuraList(fields, b)) = Cardinality(InList(fields, b))
<1>1. ASSUME NEW n \in 1..Cardinality(InList(fields, b))
      PROVE  AuraList(fields, b)[n] \in ListEntries
  <2>1. PICK s \in InList(fields, b) : Cardinality(UpTo(InList(fields, b), s)) = n
    BY SlotsFinite, EachCounted
  <2>2. AuraList(fields, b)[n] = AuraEntry(fields, s)
    BY <2>1, ListIs
  <2>3. s \in AuraSlotSet /\ fields[s] \in Auras /\ fields[s].spell # NoAura
    BY DEF InList, AuraFields, CountsAsEmptyForLua, IsAuraHiddenForLua
  <2>4. fields[s].spell \in AuraSpells /\ fields[s].stacks \in Nat
    <3>1. CASE fields[s] \in [spell : Shown, stacks : Stacks]
      BY <3>1, AuraConstants DEF AuraSpells
    <3>2. CASE fields[s] \in [spell : Hidden \cup Faint, stacks : {0}]
      BY <3>2 DEF AuraSpells
    <3> QED BY <2>3, <3>1, <3>2 DEF Auras, NoAuraThere
  <2> QED BY <2>2, <2>4 DEF AuraEntry, ListEntries
<1>2. AuraList(fields, b) \in [1..Cardinality(InList(fields, b)) -> ListEntries]
  BY <1>1 DEF AuraList
<1>3. Cardinality(InList(fields, b)) \in Nat
  BY SlotsFinite
<1>4. AuraList(fields, b) \in Seq(ListEntries)
  BY <1>2, <1>3
<1> QED BY <1>2, <1>3, <1>4, LenProperties

(* A number more: where it stands, and what becomes of the others.          *)
LEMMA OneMore ==
  ASSUME NEW S \in SUBSET Nat, IsFiniteSet(S), NEW s \in Nat, s \notin S
  PROVE  /\ Cardinality(S \cup {s}) = Cardinality(S) + 1
         /\ Cardinality(Below(S, s)) + 1 \in 1..(Cardinality(S) + 1)
         /\ Cardinality(UpTo(S \cup {s}, s)) = Cardinality(Below(S, s)) + 1
         /\ \A t \in S : IF t < s
              THEN /\ Cardinality(UpTo(S \cup {s}, t)) = Cardinality(UpTo(S, t))
                   /\ Cardinality(UpTo(S, t)) < Cardinality(Below(S, s)) + 1
              ELSE /\ Cardinality(UpTo(S \cup {s}, t)) = Cardinality(UpTo(S, t)) + 1
                   /\ Cardinality(UpTo(S, t)) >= Cardinality(Below(S, s)) + 1
<1>1. Cardinality(S) \in Nat /\ Cardinality(S \cup {s}) = Cardinality(S) + 1
  BY FS_CardinalityType, FS_AddElement
<1>2. /\ IsFiniteSet(Below(S, s)) /\ Cardinality(Below(S, s)) \in Nat
      /\ Cardinality(Below(S, s)) <= Cardinality(S)
  <2>1. Below(S, s) \in SUBSET S
    BY DEF Below
  <2> QED BY <2>1, FS_Subset, FS_CardinalityType
<1>3. Cardinality(UpTo(S \cup {s}, s)) = Cardinality(Below(S, s)) + 1
  <2>1. \A i \in S : i \in Nat /\ (i <= s <=> i < s)
    OBVIOUS
  <2>2. UpTo(S \cup {s}, s) = Below(S, s) \cup {s} /\ s \notin Below(S, s)
    <3>1. s <= s /\ ~(s < s)
      OBVIOUS
    <3>2. UpTo(S \cup {s}, s) = {i \in S : i <= s} \cup {s}
      BY <3>1 DEF UpTo
    <3>3. {i \in S : i <= s} = {i \in S : i < s}
      BY <2>1
    <3> QED BY <3>1, <3>2, <3>3 DEF Below
  <2> QED BY <1>2, <2>2, FS_AddElement
<1>4. ASSUME NEW t \in S
      PROVE  /\ IsFiniteSet(UpTo(S, t)) /\ Cardinality(UpTo(S, t)) \in Nat
             /\ t \in Nat /\ t # s
  BY Counted, <1>1
<1>5. ASSUME NEW t \in S, t < s
      PROVE  /\ Cardinality(UpTo(S \cup {s}, t)) = Cardinality(UpTo(S, t))
             /\ Cardinality(UpTo(S, t)) < Cardinality(Below(S, s)) + 1
  <2>1. UpTo(S \cup {s}, t) = UpTo(S, t)
    <3>1. ~(s <= t)
      BY <1>4, <1>5
    <3> QED BY <3>1 DEF UpTo
  <2>2. UpTo(S, t) \in SUBSET Below(S, s)
    <3>1. \A i \in S : i \in Nat /\ (i <= t => i < s)
      BY <1>4, <1>5
    <3> QED BY <3>1 DEF UpTo, Below
  <2>3. Cardinality(UpTo(S, t)) <= Cardinality(Below(S, s))
    BY <1>2, <2>2, FS_Subset
  <2> QED BY <1>2, <1>4, <2>1, <2>3
<1>6. ASSUME NEW t \in S, ~(t < s)
      PROVE  /\ Cardinality(UpTo(S \cup {s}, t)) = Cardinality(UpTo(S, t)) + 1
             /\ Cardinality(UpTo(S, t)) >= Cardinality(Below(S, s)) + 1
  <2>1. UpTo(S \cup {s}, t) = UpTo(S, t) \cup {s} /\ s \notin UpTo(S, t)
    <3>1. s <= t
      BY <1>4, <1>6
    <3> QED BY <3>1 DEF UpTo
  <2>2. Cardinality(UpTo(S \cup {s}, t)) = Cardinality(UpTo(S, t)) + 1
    BY <1>4, <2>1, FS_AddElement
  <2>3. Below(S, s) \cup {t} \in SUBSET UpTo(S, t) /\ t \notin Below(S, s)
    <3>1. \A i \in S : i \in Nat /\ (i < s => i <= t) /\ t <= t
      BY <1>4, <1>6
    <3> QED BY <1>6, <3>1 DEF UpTo, Below
  <2>4. Cardinality(Below(S, s) \cup {t}) = Cardinality(Below(S, s)) + 1
    BY <1>2, <2>3, FS_AddElement
  <2>5. Cardinality(Below(S, s) \cup {t}) <= Cardinality(UpTo(S, t))
    BY <1>4, <2>3, FS_Subset
  <2> QED BY <1>2, <1>4, <2>2, <2>4, <2>5
<1> QED BY <1>1, <1>2, <1>3, <1>5, <1>6

(* What an addon does to its copy: the sequence operators by their entries. *)
LEMMA Inserted ==
  ASSUME NEW E, NEW seq \in Seq(E), NEW e \in E, NEW n \in 1..(Len(seq) + 1)
  PROVE  InsertAt(seq, n, e) =
           [k \in 1..(Len(seq) + 1) |-> IF k < n THEN seq[k] ELSE IF k = n THEN e ELSE seq[k - 1]]
<1> DEFINE front == SubSeq(seq, 1, n - 1)
           back == SubSeq(seq, n, Len(seq))
<1>1. Len(seq) \in Nat /\ n \in Nat \ {0} /\ n <= Len(seq) + 1
  BY LenProperties
<1>2. front \in Seq(E) /\ Len(front) = n - 1 /\ \A k \in 1..(n - 1) : front[k] = seq[k]
  BY <1>1
<1>3. /\ back \in Seq(E) /\ Len(back) = Len(seq) - n + 1
      /\ \A k \in 1..(Len(seq) - n + 1) : back[k] = seq[n + k - 1]
  BY <1>1
<1> HIDE DEF front, back
<1>4. /\ front \o <<e>> \in Seq(E) /\ Len(front \o <<e>>) = n
      /\ \A k \in 1..n : (front \o <<e>>)[k] = IF k < n THEN seq[k] ELSE e
  BY <1>1, <1>2
<1> DEFINE all == (front \o <<e>>) \o back
<1> HIDE DEF all
<1>5. all \in Seq(E) /\ Len(all) = Len(seq) + 1
  <2>1. all \in Seq(E) /\ Len(all) = Len(front \o <<e>>) + Len(back)
    BY <1>3, <1>4, ConcatProperties DEF all
  <2>2. Len(front \o <<e>>) = n /\ Len(back) = Len(seq) - n + 1
    BY <1>3, <1>4
  <2>3. n + (Len(seq) - n + 1) = Len(seq) + 1
    BY <1>1
  <2> QED BY <2>1, <2>2, <2>3
<1>6. ASSUME NEW k \in 1..(Len(seq) + 1)
      PROVE  all[k] = IF k < n THEN seq[k] ELSE IF k = n THEN e ELSE seq[k - 1]
  <2>1. CASE k <= n
    BY <1>1, <1>3, <1>4, <2>1 DEF all
  <2>2. CASE k > n
    <3>1. all[k] = back[k - n] /\ k - n \in 1..(Len(seq) - n + 1)
      BY <1>1, <1>3, <1>4, <2>2 DEF all
    <3>2. back[k - n] = seq[n + (k - n) - 1] /\ n + (k - n) - 1 = k - 1
      BY <1>1, <1>3, <3>1
    <3> QED BY <1>1, <2>2, <3>1, <3>2
  <2> QED BY <1>1, <2>1, <2>2
<1>7. all = [k \in 1..(Len(seq) + 1) |-> all[k]]
  BY <1>5, LenProperties
<1>8. all = [k \in 1..(Len(seq) + 1) |-> IF k < n THEN seq[k] ELSE IF k = n THEN e ELSE seq[k - 1]]
  BY <1>6, <1>7
<1> QED BY <1>8 DEF InsertAt, all, front, back

LEMMA Removed ==
  ASSUME NEW E, NEW seq \in Seq(E), NEW n \in 1..Len(seq)
  PROVE  RemoveAt(seq, n) = [k \in 1..(Len(seq) - 1) |-> IF k < n THEN seq[k] ELSE seq[k + 1]]
<1> DEFINE front == SubSeq(seq, 1, n - 1)
           back == SubSeq(seq, n + 1, Len(seq))
<1>1. Len(seq) \in Nat /\ n \in Nat \ {0} /\ n <= Len(seq)
  BY LenProperties
<1>2. front \in Seq(E) /\ Len(front) = n - 1 /\ \A k \in 1..(n - 1) : front[k] = seq[k]
  BY <1>1
<1>3. /\ back \in Seq(E) /\ Len(back) = Len(seq) - n
      /\ \A k \in 1..(Len(seq) - n) : back[k] = seq[n + k]
  BY <1>1
<1> HIDE DEF front, back
<1> DEFINE all == front \o back
<1> HIDE DEF all
<1>5. all \in Seq(E) /\ Len(all) = Len(seq) - 1
  <2>1. all \in Seq(E) /\ Len(all) = Len(front) + Len(back)
    BY <1>2, <1>3, ConcatProperties DEF all
  <2> QED BY <1>1, <1>2, <1>3, <2>1
<1>6. ASSUME NEW k \in 1..(Len(seq) - 1)
      PROVE  all[k] = IF k < n THEN seq[k] ELSE seq[k + 1]
  <2>1. CASE k < n
    BY <1>1, <1>2, <1>3, <2>1 DEF all
  <2>2. CASE k >= n
    <3>1. all[k] = back[k - (n - 1)] /\ k - (n - 1) \in 1..(Len(seq) - n)
      BY <1>1, <1>2, <1>3, <2>2 DEF all
    <3>2. back[k - (n - 1)] = seq[n + (k - (n - 1))] /\ n + (k - (n - 1)) = k + 1
      BY <1>1, <1>3, <3>1
    <3> QED BY <1>1, <2>2, <3>1, <3>2
  <2> QED BY <1>1, <2>1, <2>2
<1>7. all = [k \in 1..(Len(seq) - 1) |-> all[k]]
  BY <1>5, LenProperties
<1>8. all = [k \in 1..(Len(seq) - 1) |-> IF k < n THEN seq[k] ELSE seq[k + 1]]
  BY <1>6, <1>7
<1> QED BY <1>8 DEF RemoveAt, all, front, back

LEMMA Replaced ==
  ASSUME NEW E, NEW seq \in Seq(E), NEW e \in E, NEW n \in 1..Len(seq)
  PROVE  ReplaceAt(seq, n, e) = [k \in 1..Len(seq) |-> IF k = n THEN e ELSE seq[k]]
BY DEF ReplaceAt

(* What a change of one slot does to the lists.                             *)
LEMMA SlotComes ==
  ASSUME NEW old \in AuraFields, NEW new \in AuraFields, NEW s \in AuraSlotSet, NEW b,
         \A i \in AuraSlotSet \ {s} : old[i] = new[i], s \notin InList(old, b), s \in InList(new, b)
  PROVE  /\ PlaceOf(new, b, s) \in 1..(Len(AuraList(old, b)) + 1)
         /\ InsertAt(AuraList(old, b), PlaceOf(new, b, s), AuraEntry(new, s)) = AuraList(new, b)
<1> DEFINE S == InList(old, b)
           n == Cardinality(Below(S, s)) + 1
           slots == AuraList(old, b)
           other == InsertAt(slots, n, AuraEntry(new, s))
<1>1. /\ S \in SUBSET Nat /\ IsFiniteSet(S) /\ Cardinality(S) \in Nat /\ s \in Nat
      /\ slots \in Seq(ListEntries) /\ Len(slots) = Cardinality(S)
  BY SlotsFinite, AuraListType, AuraConstants DEF AuraSlotSet
<1>2. InList(new, b) = S \cup {s}
  BY DEF InList, CountsAsEmptyForLua
<1>3. AuraEntry(new, s) \in ListEntries
  <2>1. PICK k \in DOMAIN AuraList(new, b) : AuraList(new, b)[k] = AuraEntry(new, s)
    <3>1. Cardinality(UpTo(InList(new, b), s)) \in 1..Cardinality(InList(new, b))
      BY SlotsFinite, Counted
    <3> QED BY <3>1, ListIs
  <2> QED BY <2>1, AuraListType, ElementOfSeq, LenProperties
<1>4. \A t \in S : AuraEntry(new, t) = AuraEntry(old, t)
  BY DEF AuraEntry, InList
<1> HIDE DEF S
<1>5. /\ Cardinality(S \cup {s}) = Cardinality(S) + 1 /\ n \in 1..(Cardinality(S) + 1)
      /\ Cardinality(UpTo(S \cup {s}, s)) = n
  BY <1>1, OneMore DEF S
<1>6. other = [k \in 1..(Cardinality(S) + 1) |->
                 IF k < n THEN slots[k] ELSE IF k = n THEN AuraEntry(new, s) ELSE slots[k - 1]]
  <2>1. n \in 1..(Len(slots) + 1)
    BY <1>1, <1>5
  <2> HIDE DEF n, slots
  <2>2. InsertAt(slots, n, AuraEntry(new, s)) = [k \in 1..(Len(slots) + 1) |->
                 IF k < n THEN slots[k] ELSE IF k = n THEN AuraEntry(new, s) ELSE slots[k - 1]]
    BY <1>1, <1>3, <2>1, Inserted
  <2> QED BY <1>1, <2>2
<1> HIDE DEF n, slots, other
<1>7. ASSUME NEW t \in S \cup {s}
      PROVE  other[Cardinality(UpTo(S \cup {s}, t))] = AuraEntry(new, t)
  <2>1. CASE t = s
    BY <1>1, <1>5, <1>6, <2>1
  <2>2. CASE t # s
    <3>1. slots[Cardinality(UpTo(S, t))] = AuraEntry(new, t)
      BY <1>4, <2>2, ListIs DEF S, slots
    <3>2. Cardinality(UpTo(S, t)) \in 1..Cardinality(S)
      BY <1>1, <2>2, Counted
    <3>3. IF t < s THEN /\ Cardinality(UpTo(S \cup {s}, t)) = Cardinality(UpTo(S, t))
                        /\ Cardinality(UpTo(S, t)) < n
          ELSE /\ Cardinality(UpTo(S \cup {s}, t)) = Cardinality(UpTo(S, t)) + 1
               /\ Cardinality(UpTo(S, t)) >= n
      BY <1>1, <2>2, OneMore DEF n, S
    <3>4. CASE t < s
      BY <1>1, <1>5, <1>6, <3>1, <3>2, <3>3, <3>4
    <3>5. CASE ~(t < s)
      <4>1. other[Cardinality(UpTo(S, t)) + 1] = slots[Cardinality(UpTo(S, t)) + 1 - 1]
        BY <1>1, <1>5, <1>6, <3>2, <3>3, <3>5
      <4>2. Cardinality(UpTo(S, t)) + 1 - 1 = Cardinality(UpTo(S, t))
        BY <3>2
      <4> QED BY <3>1, <3>3, <3>5, <4>1, <4>2
    <3> QED BY <3>4, <3>5
  <2> QED BY <2>1, <2>2
<1>8. other = [k \in 1..Cardinality(S \cup {s}) |-> other[k]]
  BY <1>5, <1>6
<1>9. other = AuraList(new, b)
  <2>1. ShowsSlots(other, new, b)
    BY <1>2, <1>7, <1>8 DEF ShowsSlots
  <2> QED BY <2>1, ListOnly
<1>10. Below(S, s) = Below(S \cup {s}, s)
  <2>1. ~(s < s)
    BY <1>1
  <2> QED BY <2>1 DEF Below
<1> QED BY <1>1, <1>2, <1>5, <1>9, <1>10 DEF n, slots, other, S, PlaceOf

LEMMA SlotGoes ==
  ASSUME NEW old \in AuraFields, NEW new \in AuraFields, NEW s \in AuraSlotSet, NEW b,
         \A i \in AuraSlotSet \ {s} : old[i] = new[i], s \in InList(old, b), s \notin InList(new, b)
  PROVE  /\ PlaceOf(new, b, s) \in 1..Len(AuraList(old, b))
         /\ RemoveAt(AuraList(old, b), PlaceOf(new, b, s)) = AuraList(new, b)
<1> DEFINE S == InList(new, b)
           n == Cardinality(Below(S, s)) + 1
           slots == AuraList(old, b)
           other == RemoveAt(slots, n)
<1>1. /\ S \in SUBSET Nat /\ IsFiniteSet(S) /\ Cardinality(S) \in Nat /\ s \in Nat
  BY SlotsFinite, AuraConstants DEF AuraSlotSet
<1>2. InList(old, b) = S \cup {s}
  BY DEF InList, CountsAsEmptyForLua
<1>4. \A t \in S : AuraEntry(new, t) = AuraEntry(old, t)
  BY DEF AuraEntry, InList
<1> HIDE DEF S
<1>5. /\ Cardinality(S \cup {s}) = Cardinality(S) + 1 /\ n \in 1..(Cardinality(S) + 1)
  BY <1>1, OneMore DEF S
<1>3. slots \in Seq(ListEntries) /\ Len(slots) = Cardinality(S) + 1
  BY <1>2, <1>5, AuraListType
<1>6. other = [k \in 1..(Len(slots) - 1) |-> IF k < n THEN slots[k] ELSE slots[k + 1]]
  BY <1>3, <1>5, Removed
<1> HIDE DEF n, slots, other
<1>7. ASSUME NEW t \in S
      PROVE  other[Cardinality(UpTo(S, t))] = AuraEntry(new, t)
  <2>1. slots[Cardinality(UpTo(S \cup {s}, t))] = AuraEntry(new, t)
    <3>1. t \in InList(old, b)
      BY <1>2
    <3>2. slots[Cardinality(UpTo(InList(old, b), t))] = AuraEntry(old, t)
      BY <3>1, ListIs DEF slots
    <3> QED BY <1>2, <1>4, <3>2
  <2>2. Cardinality(UpTo(S, t)) \in 1..Cardinality(S)
    BY <1>1, Counted
  <2>3. IF t < s THEN /\ Cardinality(UpTo(S \cup {s}, t)) = Cardinality(UpTo(S, t))
                      /\ Cardinality(UpTo(S, t)) < n
        ELSE /\ Cardinality(UpTo(S \cup {s}, t)) = Cardinality(UpTo(S, t)) + 1
             /\ Cardinality(UpTo(S, t)) >= n
    BY <1>1, OneMore DEF n, S
  <2>4. Len(slots) - 1 = Cardinality(S)
    BY <1>1, <1>3
  <2>5. CASE t < s
    BY <1>1, <1>6, <2>1, <2>2, <2>3, <2>4, <2>5
  <2>6. CASE ~(t < s)
    BY <1>1, <1>5, <1>6, <2>1, <2>2, <2>3, <2>4, <2>6
  <2> QED BY <2>5, <2>6
<1>8. other = [k \in 1..Cardinality(S) |-> other[k]]
  BY <1>1, <1>3, <1>6
<1>9. other = AuraList(new, b)
  <2>1. ShowsSlots(other, new, b)
    BY <1>7, <1>8 DEF ShowsSlots, S
  <2> QED BY <2>1, ListOnly
<1> QED BY <1>1, <1>3, <1>5, <1>9 DEF n, slots, other, S, PlaceOf

LEMMA SlotChanges ==
  ASSUME NEW old \in AuraFields, NEW new \in AuraFields, NEW s \in AuraSlotSet, NEW b,
         \A i \in AuraSlotSet \ {s} : old[i] = new[i], s \in InList(old, b), s \in InList(new, b)
  PROVE  /\ PlaceOf(new, b, s) \in 1..Len(AuraList(old, b))
         /\ ReplaceAt(AuraList(old, b), PlaceOf(new, b, s), AuraEntry(new, s)) = AuraList(new, b)
<1> DEFINE S == InList(new, b)
           n == Cardinality(Below(S, s)) + 1
           slots == AuraList(old, b)
           other == ReplaceAt(slots, n, AuraEntry(new, s))
<1>1. S \in SUBSET Nat /\ IsFiniteSet(S) /\ Cardinality(S) \in Nat
  BY SlotsFinite
<1>2. InList(old, b) = S
  BY DEF InList, CountsAsEmptyForLua
<1>3. slots \in Seq(ListEntries) /\ Len(slots) = Cardinality(S)
  BY <1>2, AuraListType
<1>4. \A t \in S \ {s} : AuraEntry(new, t) = AuraEntry(old, t)
  BY DEF AuraEntry, InList
<1> HIDE DEF S
<1>5. n = Cardinality(UpTo(S, s)) /\ n \in 1..Cardinality(S)
  <2>1. /\ S \ {s} \in SUBSET Nat /\ IsFiniteSet(S \ {s}) /\ s \in Nat /\ s \notin S \ {s}
        /\ (S \ {s}) \cup {s} = S
    BY <1>1, FS_RemoveElement DEF S
  <2>2. Cardinality(UpTo(S, s)) = Cardinality(Below(S \ {s}, s)) + 1
    BY <2>1, OneMore
  <2>3. Below(S \ {s}, s) = Below(S, s)
    <3>1. ~(s < s)
      BY <2>1
    <3> QED BY <3>1 DEF Below
  <2> QED BY <1>1, <2>2, <2>3, Counted DEF S
<1>6. AuraEntry(new, s) \in ListEntries
  <2>1. AuraList(new, b)[n] = AuraEntry(new, s)
    BY <1>5, ListIs DEF S
  <2> QED BY <1>5, <2>1, AuraListType, ElementOfSeq DEF S
<1>7. other = [k \in 1..Len(slots) |-> IF k = n THEN AuraEntry(new, s) ELSE slots[k]]
  BY <1>3, <1>5, <1>6, Replaced
<1> HIDE DEF n, slots, other
<1>8. ASSUME NEW t \in S
      PROVE  other[Cardinality(UpTo(S, t))] = AuraEntry(new, t)
  <2>1. Cardinality(UpTo(S, t)) \in 1..Cardinality(S)
    BY <1>1, Counted
  <2>2. CASE t = s
    BY <1>3, <1>5, <1>7, <2>1, <2>2
  <2>3. CASE t # s
    <3>1. Cardinality(UpTo(S, t)) # n
      BY <1>1, <1>5, <2>3, CountedOnce DEF S
    <3>2. slots[Cardinality(UpTo(S, t))] = AuraEntry(old, t)
      BY <1>2, ListIs DEF slots
    <3> QED BY <1>3, <1>4, <1>7, <2>1, <2>3, <3>1, <3>2
  <2> QED BY <2>2, <2>3
<1>9. other = [k \in 1..Cardinality(S) |-> other[k]]
  BY <1>3, <1>7
<1>10. other = AuraList(new, b)
  <2>1. ShowsSlots(other, new, b)
    BY <1>8, <1>9 DEF ShowsSlots, S
  <2> QED BY <2>1, ListOnly
<1> QED BY <1>3, <1>5, <1>10 DEF n, slots, other, S, PlaceOf

LEMMA NoSlotChanges ==
  ASSUME NEW old \in AuraFields, NEW new \in AuraFields, NEW s \in AuraSlotSet, NEW b,
         \A i \in AuraSlotSet \ {s} : old[i] = new[i], s \notin InList(old, b), s \notin InList(new, b)
  PROVE  AuraList(old, b) = AuraList(new, b)
<1>1. InList(old, b) = InList(new, b)
  BY DEF InList, CountsAsEmptyForLua
<1>2. \A t \in InList(new, b) : AuraEntry(new, t) = AuraEntry(old, t)
  BY DEF AuraEntry, InList
<1>3. AuraList(old, b) = [n \in 1..Cardinality(InList(new, b)) |-> AuraList(old, b)[n]]
  BY <1>1 DEF AuraList
<1>4. \A t \in InList(new, b) :
        AuraList(old, b)[Cardinality(UpTo(InList(new, b), t))] = AuraEntry(new, t)
  BY <1>1, <1>2, ListIs
<1>5. ShowsSlots(AuraList(old, b), new, b)
  BY <1>3, <1>4 DEF ShowsSlots
<1> QED BY <1>5, ListOnly

(* The position the code computes is the one after the entries of the slots *)
(* before, as far as those are reported.                                    *)
LEMMA LuaSlotIs ==
  ASSUME NEW fields \in AuraFields, NEW s \in AuraSlotSet,
         \A i \in AuraSlotSet : i < s => fields[i] = aura[i]
  PROVE  LuaUnitSlot(aura, s) = PlaceOf(fields, Bank(s), s)
<1> DEFINE first == FirstOfBank(s)
           span == first..(s - 1)
           empty == {i \in span : CountsAsEmptyForLua(aura, i)}
<1>1. s \in Nat /\ first \in Nat /\ first <= s
  BY AuraConstants DEF AuraSlotSet, FirstOfBank
<1>2. IsFiniteSet(span) /\ Cardinality(span) = s - first
  <2> HIDE DEF first
  <2>1. IsFiniteSet(span) /\ Cardinality(span) = IF first > s - 1 THEN 0 ELSE (s - 1) - first + 1
    <3>1. first \in Int /\ s - 1 \in Int
      BY <1>1
    <3> QED BY <3>1, FS_Interval
  <2> HIDE DEF span
  <2> QED BY <1>1, <2>1
<1>3. /\ Cardinality(span \ empty) = Cardinality(span) - Cardinality(span \cap empty)
      /\ span \cap empty = empty
  BY <1>2, FS_Difference
<1>4. IsFiniteSet(empty) /\ Cardinality(empty) \in Nat
  BY <1>2, FS_Subset, FS_CardinalityType
<1>5. span \ empty = Below(InList(fields, Bank(s)), s)
  <2>1. \A i : i \in span <=> i \in AuraSlotSet /\ i < s /\ Bank(i) = Bank(s)
    BY AuraConstants DEF AuraSlotSet, FirstOfBank, Bank
  <2>2. \A i \in span : CountsAsEmptyForLua(aura, i) <=> CountsAsEmptyForLua(fields, i)
    BY <2>1 DEF CountsAsEmptyForLua
  <2> QED BY <2>1, <2>2 DEF Below, InList
<1>6. LuaUnitSlot(aura, s) = s + 1 - first - Cardinality(empty)
  BY DEF LuaUnitSlot
<1> HIDE DEF first, span, empty
<1>7. Cardinality(Below(InList(fields, Bank(s)), s)) = s - first - Cardinality(empty)
  BY <1>2, <1>3, <1>5
<1>8. s + 1 - first - Cardinality(empty) = s - first - Cardinality(empty) + 1
  BY <1>1, <1>4
<1> QED BY <1>6, <1>7, <1>8 DEF PlaceOf

(* As far as the changes are reported, the addon's copy is right.           *)
AuraInv ==
  /\ aura \in AuraFields /\ reported \in AuraFields /\ DOMAIN copy = Banks /\ faintGone \in BOOLEAN
  /\ ~faintGone => \A b \in Banks : copy[b] = AuraList(reported, b)

LEMMA AuraInitInv == AuraInit => AuraInv
<1> SUFFICES ASSUME AuraInit
             PROVE  AuraInv
  OBVIOUS
<1>1. aura \in AuraFields /\ reported = aura
  BY DEF AuraInit, AuraFields, Auras
<1>2. ASSUME NEW b \in Banks
      PROVE  copy[b] = AuraList(reported, b)
  <2>1. InList(reported, b) = {}
    BY DEF AuraInit, InList, CountsAsEmptyForLua, IsAuraHiddenForLua, NoAuraThere
  <2>2. 1..Cardinality(InList(reported, b)) = {}
    BY <2>1, FS_EmptySet
  <2>3. AuraList(reported, b) = <<>>
    BY <2>2 DEF AuraList
  <2> QED BY <2>3 DEF AuraInit
<1> QED BY <1>1, <1>2 DEF AuraInit, AuraInv

(* Every report keeps the copy right.                                       *)
LEMMA Reports ==
  ASSUME AuraInv, NEW s \in AuraSlotSet, Changed(s), NEW a \in Auras, NEW spell, NEW state,
         reported' = [reported EXCEPT ![s] = a], TriggerAuraEvent(s, spell, state),
         \/ state = "removed" /\ a = NoAuraThere /\ spell = reported[s].spell
         \/ state = "added" /\ a = aura[s] /\ spell = a.spell /\ reported[s].spell = NoAura
         \/ state = "modified" /\ a = aura[s] /\ spell = a.spell /\ reported[s].spell = spell
  PROVE  AuraInv'
<1> DEFINE here == Bank(s)
           luaSlot == IF IsHiddenAura(aura, s, spell, state) THEN 0 ELSE LuaUnitSlot(aura, s)
           entry == [spell |-> spell, count |-> IF state = "removed" THEN aura[s].stacks ELSE aura[s].stacks + 1]
<1>0. PICK old, new : old = reported /\ new = reported'
  OBVIOUS
<1>1. /\ aura' = aura /\ new \in AuraFields /\ aura \in AuraFields /\ old \in AuraFields
      /\ new[s] = a /\ \A i \in AuraSlotSet \ {s} : old[i] = new[i]
  BY <1>0 DEF AuraInv, AuraFields, TriggerAuraEvent
<1>2. /\ copy' = [copy EXCEPT ![here] = Followed(@, luaSlot, entry, state)]
      /\ faintGone' = (faintGone \/ (state = "removed" /\ spell \in Faint))
  BY DEF TriggerAuraEvent
<1>3. here \in Banks /\ DOMAIN copy' = Banks /\ faintGone' \in BOOLEAN
  BY <1>2 DEF Banks, Bank, AuraInv
<1>4. LuaUnitSlot(aura, s) = PlaceOf(new, here, s)
  <2>1. \A i \in AuraSlotSet : i < s => new[i] = aura[i]
    <3>1. \A i \in AuraSlotSet : i < s => i # s
      BY AuraConstants DEF AuraSlotSet
    <3> QED BY <1>0, <1>1, <3>1 DEF Changed
  <2> QED BY <1>1, <2>1, LuaSlotIs
<1>5. \A b \in Banks \ {here} : s \notin InList(old, b) /\ s \notin InList(new, b)
  BY DEF InList
<1>6. /\ s \in InList(old, here) <=> ~CountsAsEmptyForLua(old, s)
      /\ s \in InList(new, here) <=> ~CountsAsEmptyForLua(new, s)
  BY DEF InList
<1>7. Len(copy[here]) \in Nat => ~(0 \in 1..(Len(copy[here]) + 1)) /\ ~(0 \in 1..Len(copy[here]))
  OBVIOUS
<1>8. ASSUME ~faintGone'
      PROVE  Followed(copy[here], luaSlot, entry, state) = AuraList(new, here)
  <2>1. copy[here] = AuraList(old, here) /\ Len(copy[here]) \in Nat
    BY <1>0, <1>1, <1>2, <1>3, <1>8, AuraListType, LenProperties DEF AuraInv
  <2>2. CASE IsHiddenAura(aura, s, spell, state)
    <3>1. s \notin InList(old, here) /\ s \notin InList(new, here)
      <4>1. CASE state = "removed"
        BY <1>0, <1>1, <1>6, <2>2, <4>1 DEF IsHiddenAura, CountsAsEmptyForLua, IsAuraHiddenForLua, NoAuraThere
      <4>2. CASE state # "removed"
        BY <1>0, <1>1, <1>6, <2>2, <4>2 DEF IsHiddenAura, CountsAsEmptyForLua, IsAuraHiddenForLua
      <4> QED BY <4>1, <4>2
    <3>2. AuraList(old, here) = AuraList(new, here)
      BY <1>1, <3>1, NoSlotChanges
    <3>3. Followed(copy[here], luaSlot, entry, state) = copy[here]
      BY <1>7, <2>1, <2>2 DEF Followed
    <3> QED BY <2>1, <3>2, <3>3
  <2>3. CASE ~IsHiddenAura(aura, s, spell, state)
    <3>1. luaSlot = PlaceOf(new, here, s)
      BY <1>4, <2>3
    <3>2. CASE state = "removed"
      <4>1. s \in InList(old, here) /\ s \notin InList(new, here)
        <5>1. spell \notin Faint
          BY <1>2, <1>8, <3>2
        <5>2. old[s].spell = spell /\ new[s] = NoAuraThere
          BY <1>0, <1>1, <3>2
        <5> QED BY <1>6, <2>3, <3>2, <5>1, <5>2
              DEF IsHiddenAura, CountsAsEmptyForLua, IsAuraHiddenForLua, NoAuraThere
      <4>2. /\ luaSlot \in 1..Len(copy[here])
            /\ RemoveAt(copy[here], luaSlot) = AuraList(new, here)
        <5>1. /\ PlaceOf(new, here, s) \in 1..Len(AuraList(old, here))
              /\ RemoveAt(AuraList(old, here), PlaceOf(new, here, s)) = AuraList(new, here)
          BY <1>1, <4>1, SlotGoes
        <5> QED BY <2>1, <3>1, <5>1
      <4> QED BY <3>2, <4>2 DEF Followed
    <3>3. CASE state = "added"
      <4>1. s \notin InList(old, here) /\ s \in InList(new, here)
        BY <1>0, <1>1, <1>6, <2>3, <3>3 DEF IsHiddenAura, CountsAsEmptyForLua, IsAuraHiddenForLua
      <4>2. entry = AuraEntry(new, s)
        BY <1>1, <3>3 DEF AuraEntry
      <4>3. /\ luaSlot \in 1..(Len(copy[here]) + 1)
            /\ InsertAt(copy[here], luaSlot, entry) = AuraList(new, here)
        <5>1. /\ PlaceOf(new, here, s) \in 1..(Len(AuraList(old, here)) + 1)
              /\ InsertAt(AuraList(old, here), PlaceOf(new, here, s), AuraEntry(new, s)) = AuraList(new, here)
          BY <1>1, <4>1, SlotComes
        <5> QED BY <2>1, <3>1, <4>2, <5>1
      <4>4. luaSlot \in 1..(Len(copy[here]) + 1) /\ state = "added"
        BY <3>3, <4>3
      <4> HIDE DEF luaSlot, entry, here
      <4>5. Followed(copy[here], luaSlot, entry, state) = InsertAt(copy[here], luaSlot, entry)
        BY <4>4 DEF Followed
      <4> QED BY <4>3, <4>5
    <3>4. CASE state = "modified"
      <4>1. s \in InList(old, here) /\ s \in InList(new, here)
        BY <1>0, <1>1, <1>6, <2>3, <3>4 DEF IsHiddenAura, CountsAsEmptyForLua, IsAuraHiddenForLua
      <4>2. entry = AuraEntry(new, s)
        BY <1>1, <3>4 DEF AuraEntry
      <4>3. /\ luaSlot \in 1..Len(copy[here])
            /\ ReplaceAt(copy[here], luaSlot, entry) = AuraList(new, here)
        <5>1. /\ PlaceOf(new, here, s) \in 1..Len(AuraList(old, here))
              /\ ReplaceAt(AuraList(old, here), PlaceOf(new, here, s), AuraEntry(new, s)) = AuraList(new, here)
          BY <1>1, <4>1, SlotChanges
        <5> QED BY <2>1, <3>1, <4>2, <5>1
      <4> QED BY <3>4, <4>3 DEF Followed
    <3> QED BY <3>2, <3>3, <3>4
  <2> QED BY <2>2, <2>3
<1> HIDE DEF here, luaSlot, entry
<1>9. ASSUME ~faintGone', NEW b \in Banks
      PROVE  copy'[b] = AuraList(new, b)
  <2>1. CASE b = here
    BY <1>2, <1>8, <1>9, <2>1 DEF AuraInv
  <2>2. CASE b # here
    <3>1. copy'[b] = copy[b]
      BY <1>2, <2>2 DEF AuraInv
    <3>2. copy[b] = AuraList(old, b)
      BY <1>0, <1>2, <1>9 DEF AuraInv
    <3>3. AuraList(old, b) = AuraList(new, b)
      BY <1>1, <1>5, <2>2, NoSlotChanges
    <3> QED BY <3>1, <3>2, <3>3
  <2> QED BY <2>1, <2>2
<1> QED BY <1>0, <1>1, <1>3, <1>9 DEF AuraInv

LEMMA AuraStepInv ==
  ASSUME AuraInv, [AuraNext]_auraVars
  PROVE  AuraInv'
<1>1. ASSUME NEW new \in Updates, UpdateFields(new)
      PROVE  AuraInv'
  <2>1. \A s \in DOMAIN new : new[s] \in Auras
    BY DEF Updates
  <2>2. aura' \in AuraFields
    BY <1>1, <2>1 DEF UpdateFields, AuraFields, AuraInv
  <2>3. reported' = reported /\ copy' = copy /\ faintGone' = faintGone
    BY <1>1 DEF UpdateFields
  <2> QED BY <2>2, <2>3 DEF AuraInv
<1>2. ASSUME NEW s \in AuraSlotSet, OnAuraRemoved(s)
      PROVE  AuraInv'
  BY <1>2, Reports DEF OnAuraRemoved, Auras
<1>3. ASSUME NEW s \in AuraSlotSet, OnAuraAdded(s)
      PROVE  AuraInv'
  <2>1. aura[s] \in Auras
    BY DEF AuraInv, AuraFields
  <2> QED BY <1>3, <2>1, Reports DEF OnAuraAdded
<1>4. ASSUME NEW s \in AuraSlotSet, OnAuraStacksChanged(s)
      PROVE  AuraInv'
  <2>1. aura[s] \in Auras
    BY DEF AuraInv, AuraFields
  <2> QED BY <1>4, <2>1, Reports DEF OnAuraStacksChanged
<1>5. CASE UNCHANGED auraVars
  BY <1>5 DEF auraVars, AuraInv
<1> QED BY <1>1, <1>2, <1>3, <1>4, <1>5 DEF AuraNext

(* The copy an addon keeps is the list once an update is reported.          *)
THEOREM CopyTheorem ==
  AuraSpec => []CopyIsList
<1>1. AuraInv /\ [AuraNext]_auraVars => AuraInv'
  BY AuraStepInv
<1>2. AuraInv => CopyIsList
  BY DEF AuraInv, CopyIsList
<1> QED
  BY <1>1, <1>2, AuraInitInv, PTL DEF AuraSpec
----------------------------------------------------------------------------
(* A cast takes longer than a packet's way there and back, or no time at    *)
(* all; what the server adds to it within a rounding error, the buffer of   *)
(* its spell covers.                                                        *)
RoundTrips ==
  \A spell \in DOMAIN CastSpells : ~CastSpells[spell].autoRepeat =>
    IF CastSpells[spell].cast = 0 THEN Takes[spell] = {0} ELSE CastSpells[spell].cast > 2 * Latency
RoundingCovered ==
  \A spell \in DOMAIN CastSpells : ~CastSpells[spell].autoRepeat /\ ~CastSpells[spell].aimed =>
    \A time \in Takes[spell] :
      time - CastSpells[spell].cast <= Rounding => time <= CastSpells[spell].cast + BufferFor(spell)

CastEntry == [id : Nat, spell : DOMAIN CastSpells, castTimeMs : Nat, castStartTimeMs : Nat]
SentCast == [id : Nat, spell : DOMAIN CastSpells, due : Nat]
TimePacket ==
  [kind : {"start", "delayed"}, id : Nat, spell : DOMAIN CastSpells, time : Nat, due : Nat, ends : Nat]

TimesTypes ==
  /\ castNow \in Nat /\ castEndMs \in Nat /\ gcdEndMs \in Nat
  /\ castHistory \in Seq(CastEntry)
  /\ attempts \in Nat /\ aiming \in Nat
  /\ toServer \in Seq(SentCast)
  /\ serverCast \in [id : Nat, spell : DOMAIN CastSpells \cup {"none"}, ends : Nat]
  /\ serverCast # Idle => serverCast.spell \in DOMAIN CastSpells
  /\ toClient \in Seq(TimePacket)
  /\ overdue \in BOOLEAN

(* No packet is late, and a SPELL_START carries a time of its spell.        *)
DueInv ==
  /\ \A i \in DOMAIN toServer : toServer[i].due \in castNow..castNow + Latency
  /\ \A i \in DOMAIN toClient : toClient[i].due \in castNow..castNow + Latency
  /\ \A i \in DOMAIN toClient : toClient[i].kind = "start" =>
       /\ toClient[i].time \in Takes[toClient[i].spell]
       /\ toClient[i].ends = toClient[i].due - Latency + toClient[i].time

(* The casts that take time and whose SPELL_START has not arrived yet.      *)
Slow(spell) == CastSpells[spell].cast > 0 /\ ~CastSpells[spell].autoRepeat
SentSlow == {i \in DOMAIN toServer : Slow(toServer[i].spell)}
StartedSlow == {i \in DOMAIN toClient : toClient[i].kind = "start" /\ Slow(toClient[i].spell)}

(* The client counts on such a cast: it ends no sooner than it was told at  *)
(* the cast, and the history's newest entry is its own.                     *)
CountsOn(id, spell, sent) ==
  /\ castEndMs >= sent + CastSpells[spell].cast + BufferFor(spell)
  /\ castHistory # <<>> /\ castHistory[1].id = id /\ castHistory[1].spell = spell
  /\ castHistory[1].castTimeMs = CastSpells[spell].cast
  /\ CastSpells[spell].aimed \/ castHistory[1].castStartTimeMs = sent
  /\ id = attempts /\ aiming = 0
SlowInv ==
  /\ \A i \in SentSlow : CountsOn(toServer[i].id, toServer[i].spell, toServer[i].due - Latency)
  /\ \A i \in StartedSlow : CountsOn(toClient[i].id, toClient[i].spell, toClient[i].due - 2 * Latency)
  /\ \A i, j \in SentSlow : i = j
  /\ \A i, j \in StartedSlow : i = j
  /\ SentSlow = {} \/ StartedSlow = {}

(* The entries are of different attempts; an aimed attempt is the newest.   *)
AttemptsInv ==
  /\ \A i \in DOMAIN castHistory : castHistory[i].id <= attempts
  /\ \A i, j \in DOMAIN castHistory : i < j => castHistory[j].id < castHistory[i].id
  /\ \A i \in DOMAIN castHistory :
       CastSpells[castHistory[i].spell].cast = 0 => castHistory[i].castTimeMs = 0
  /\ aiming # 0 => /\ castHistory # <<>> /\ castHistory[1].id = aiming /\ aiming = attempts
                   /\ castHistory[1].castTimeMs = CastSpells[castHistory[1].spell].cast
                   /\ castEndMs = 0 /\ SentSlow = {} /\ StartedSlow = {}

(* What is on its way about the server's cast: its push-backs one after the *)
(* other, after its SPELL_START or with that heard, when the end the client *)
(* has heard of is in its castEndMs or has passed.                          *)
Push(i) == toClient[i].kind = "delayed" /\ toClient[i].id = serverCast.id
PushedFrom(k) ==
  \A i \in DOMAIN toClient : i > k =>
    Push(i) /\ (i > 1 => toClient[i].ends = toClient[i - 1].ends + toClient[i].time)
LastEnds == toClient # <<>> => toClient[Len(toClient)].ends = serverCast.ends
StartAt(k) ==
  /\ toClient[k].kind = "start" /\ toClient[k].id = serverCast.id /\ toClient[k].spell = serverCast.spell
  /\ PushedFrom(k)
HeardEnd == IF toClient = <<>> THEN serverCast.ends ELSE toClient[1].ends - toClient[1].time
InTime ==
  ~CastSpells[serverCast.spell].aimed /\ ~overdue => HeardEnd <= Latency + castEndMs \/ HeardEnd <= Latency + castNow
ServerInv ==
  serverCast # Idle =>
    /\ ~CastSpells[serverCast.spell].autoRepeat /\ LastEnds
    /\ (\E k \in DOMAIN toClient : StartAt(k)) \/ (PushedFrom(0) /\ InTime)

TimesInv == TimesTypes /\ DueInv /\ SlowInv /\ AttemptsInv /\ ServerInv

LEMMA TimeFacts ==
  ASSUME NEW spell \in DOMAIN CastSpells
  PROVE  /\ CastSpells[spell].cast \in Nat /\ CastSpells[spell].gcd \in Nat
         /\ CastSpells[spell].aimed \in BOOLEAN /\ CastSpells[spell].autoRepeat \in BOOLEAN
         /\ GcdTime(spell) \in Nat /\ BufferFor(spell) \in Nat
<1>1. CastSpells[spell] \in [cast : Nat, gcd : Nat, aimed : BOOLEAN, autoRepeat : BOOLEAN]
  BY CastConstants
<1>2. /\ CastSpells[spell].cast \in Nat /\ CastSpells[spell].gcd \in Nat
      /\ CastSpells[spell].aimed \in BOOLEAN /\ CastSpells[spell].autoRepeat \in BOOLEAN
  BY <1>1
<1>3. GcdCap \in Nat /\ BufferMs \in Nat
  BY CastConstants
<1>4. GcdTime(spell) \in Nat
  BY <1>2, <1>3 DEF GcdTime, Least
<1>5. BufferFor(spell) \in Nat
  BY <1>2, <1>3, <1>4 DEF BufferFor, Positive
<1> QED BY <1>2, <1>4, <1>5

LEMMA TimeConstants == Latency \in Nat /\ Rounding \in Nat /\ BufferMs \in Nat /\ Capacity \in Nat /\ Capacity > 0
<1>1. \A n \in {Rounding, GcdCap, NearGcd, BufferMs, Latency, MaxAttempts, LastMoment} : n \in Nat
  BY CastConstants
<1>2. Latency \in Nat /\ Rounding \in Nat /\ BufferMs \in Nat
  BY <1>1, Zenon
<1>3. Capacity \in Nat /\ Capacity > 0
  BY CastConstants
<1> QED BY <1>2, <1>3

LEMMA SentItem ==
  ASSUME TimesTypes, NEW i \in DOMAIN toServer
  PROVE  /\ toServer[i] \in SentCast /\ toServer[i].id \in Nat
         /\ toServer[i].spell \in DOMAIN CastSpells /\ toServer[i].due \in Nat
<1>1. toServer[i] \in SentCast
  BY DEF TimesTypes
<1> QED BY <1>1 DEF SentCast

LEMMA PacketItem ==
  ASSUME TimesTypes, NEW i \in DOMAIN toClient
  PROVE  /\ toClient[i] \in TimePacket /\ toClient[i].id \in Nat /\ toClient[i].kind \in {"start", "delayed"}
         /\ toClient[i].spell \in DOMAIN CastSpells /\ toClient[i].due \in Nat
         /\ toClient[i].time \in Nat /\ toClient[i].ends \in Nat
<1>1. toClient[i] \in TimePacket
  BY DEF TimesTypes
<1> QED BY <1>1 DEF TimePacket

LEMMA EntryItem ==
  ASSUME TimesTypes, NEW i \in DOMAIN castHistory
  PROVE  /\ castHistory[i] \in CastEntry /\ castHistory[i].id \in Nat
         /\ castHistory[i].spell \in DOMAIN CastSpells
         /\ castHistory[i].castTimeMs \in Nat /\ castHistory[i].castStartTimeMs \in Nat
<1>1. castHistory[i] \in CastEntry
  BY DEF TimesTypes
<1> QED BY <1>1 DEF CastEntry

LEMMA Queued ==
  ASSUME NEW S, NEW queue \in Seq(S), NEW x \in S
  PROVE  /\ Append(queue, x) \in Seq(S) /\ Append(queue, x) # <<>> /\ Len(queue) \in Nat
         /\ Len(Append(queue, x)) = Len(queue) + 1 /\ Append(queue, x)[Len(queue) + 1] = x
         /\ DOMAIN queue = 1..Len(queue) /\ DOMAIN Append(queue, x) = 1..(Len(queue) + 1)
         /\ \A i \in DOMAIN queue : Append(queue, x)[i] = queue[i]
         /\ queue = <<>> => Len(queue) = 0
OBVIOUS

LEMMA Unqueued ==
  ASSUME NEW S, NEW queue \in Seq(S), queue # <<>>
  PROVE  /\ Tail(queue) \in Seq(S) /\ Len(queue) \in Nat /\ Len(queue) > 0
         /\ Len(Tail(queue)) = Len(queue) - 1 /\ Head(queue) = queue[1] /\ Head(queue) \in S
         /\ DOMAIN queue = 1..Len(queue) /\ DOMAIN Tail(queue) = 1..(Len(queue) - 1)
         /\ \A i \in DOMAIN Tail(queue) : i + 1 \in DOMAIN queue /\ Tail(queue)[i] = queue[i + 1]
         /\ Tail(queue) = <<>> => Len(queue) = 1
<1>1. Len(queue) \in Nat /\ Len(queue) > 0 /\ DOMAIN queue = 1..Len(queue)
  OBVIOUS
<1>2. /\ Tail(queue) \in Seq(S) /\ Len(Tail(queue)) = Len(queue) - 1
      /\ \A i \in 1..(Len(queue) - 1) : Tail(queue)[i] = queue[i + 1]
  OBVIOUS
<1>3. DOMAIN Tail(queue) = 1..(Len(queue) - 1) /\ (Tail(queue) = <<>> => Len(Tail(queue)) = 0)
  BY <1>2
<1>4. Head(queue) = queue[1] /\ queue[1] \in S
  BY <1>1
<1>5. \A i \in 1..(Len(queue) - 1) : i + 1 \in 1..Len(queue)
  BY <1>1
<1> QED BY <1>1, <1>2, <1>3, <1>4, <1>5

(* No cast may follow while the client counts on one.                       *)
LEMMA NoneUnheard ==
  ASSUME TimesInv, RoundTrips, castEndMs <= castNow \/ aiming # 0
  PROVE  SentSlow = {} /\ StartedSlow = {}
<1>1. ASSUME NEW i \in SentSlow PROVE FALSE
  <2>1. /\ toServer[i].spell \in DOMAIN CastSpells /\ toServer[i].due \in Nat /\ Slow(toServer[i].spell)
        /\ toServer[i].due <= castNow + Latency /\ castNow <= toServer[i].due
    <3>1. i \in DOMAIN toServer /\ Slow(toServer[i].spell) /\ toServer[i].due \in castNow..castNow + Latency
      BY DEF TimesInv, DueInv, SentSlow
    <3>2. toServer[i].spell \in DOMAIN CastSpells /\ toServer[i].due \in Nat /\ castNow \in Nat
      BY <3>1, SentItem DEF TimesInv, TimesTypes
    <3> QED BY <3>1, <3>2, TimeConstants
  <2>2. castEndMs >= toServer[i].due - Latency + CastSpells[toServer[i].spell].cast + BufferFor(toServer[i].spell)
        /\ aiming = 0
    BY DEF TimesInv, SlowInv, CountsOn
  <2>3. CastSpells[toServer[i].spell].cast > 2 * Latency
    BY <2>1, TimeFacts DEF RoundTrips, Slow
  <2>4. /\ CastSpells[toServer[i].spell].cast \in Nat /\ BufferFor(toServer[i].spell) \in Nat
        /\ Latency \in Nat /\ castNow \in Nat /\ castEndMs \in Nat
    BY <2>1, TimeFacts, TimeConstants DEF TimesInv, TimesTypes
  <2> HIDE DEF BufferFor
  <2>5. castEndMs > castNow
    BY <2>1, <2>2, <2>3, <2>4
  <2> QED BY <2>2, <2>4, <2>5
<1>2. ASSUME NEW i \in StartedSlow PROVE FALSE
  <2>1. /\ toClient[i].spell \in DOMAIN CastSpells /\ toClient[i].due \in Nat /\ Slow(toClient[i].spell)
        /\ toClient[i].due <= castNow + Latency /\ castNow <= toClient[i].due
    <3>1. i \in DOMAIN toClient /\ Slow(toClient[i].spell) /\ toClient[i].due \in castNow..castNow + Latency
      BY DEF TimesInv, DueInv, StartedSlow
    <3>2. toClient[i].spell \in DOMAIN CastSpells /\ toClient[i].due \in Nat /\ castNow \in Nat
      BY <3>1, PacketItem DEF TimesInv, TimesTypes
    <3> QED BY <3>1, <3>2, TimeConstants
  <2>2. castEndMs >= toClient[i].due - 2 * Latency + CastSpells[toClient[i].spell].cast + BufferFor(toClient[i].spell)
        /\ aiming = 0
    BY DEF TimesInv, SlowInv, CountsOn
  <2>3. CastSpells[toClient[i].spell].cast > 2 * Latency
    BY <2>1, TimeFacts DEF RoundTrips, Slow
  <2>4. /\ CastSpells[toClient[i].spell].cast \in Nat /\ BufferFor(toClient[i].spell) \in Nat
        /\ Latency \in Nat /\ castNow \in Nat /\ castEndMs \in Nat
    BY <2>1, TimeFacts, TimeConstants DEF TimesInv, TimesTypes
  <2> HIDE DEF BufferFor
  <2>5. castEndMs > castNow
    BY <2>1, <2>2, <2>3, <2>4
  <2> QED BY <2>2, <2>4, <2>5
<1> QED BY <1>1, <1>2

(* A new attempt's entry, and what the ring keeps of the older ones.        *)
LEMMA NewHistory ==
  ASSUME TimesTypes, AttemptsInv, NEW spell \in DOMAIN CastSpells
  PROVE  /\ HistoryWith(spell) \in Seq(CastEntry) /\ HistoryWith(spell) # <<>>
         /\ HistoryWith(spell)[1].id = attempts + 1 /\ HistoryWith(spell)[1].spell = spell
         /\ HistoryWith(spell)[1].castTimeMs = CastSpells[spell].cast
         /\ HistoryWith(spell)[1].castStartTimeMs = castNow
         /\ \A i \in DOMAIN HistoryWith(spell) :
              /\ HistoryWith(spell)[i].id <= attempts + 1
              /\ CastSpells[HistoryWith(spell)[i].spell].cast = 0 => HistoryWith(spell)[i].castTimeMs = 0
         /\ \A i, j \in DOMAIN HistoryWith(spell) : i < j => HistoryWith(spell)[j].id < HistoryWith(spell)[i].id
<1> DEFINE entry == [id |-> attempts + 1, spell |-> spell,
                     castTimeMs |-> CastSpells[spell].cast, castStartTimeMs |-> castNow]
           longer == <<entry>> \o castHistory
           n == Least(Len(castHistory) + 1, Capacity)
<1>1. entry \in CastEntry
  BY TimeFacts DEF TimesTypes, CastEntry
<1>2. castHistory \in Seq(CastEntry) /\ Len(castHistory) \in Nat /\ DOMAIN castHistory = 1..Len(castHistory)
  BY DEF TimesTypes
<1> HIDE DEF entry
<1>3. /\ longer \in Seq(CastEntry) /\ Len(longer) = Len(castHistory) + 1 /\ longer[1] = entry
      /\ \A i \in 2..(Len(castHistory) + 1) : longer[i] = castHistory[i - 1]
  BY <1>1, <1>2
<1>4. n \in 1..(Len(castHistory) + 1)
  BY <1>2, TimeConstants DEF Least
<1>5. HistoryWith(spell) = SubSeq(longer, 1, n)
  BY DEF HistoryWith, entry
<1> HIDE DEF longer, n
<1>6. /\ HistoryWith(spell) \in Seq(CastEntry) /\ Len(HistoryWith(spell)) = n
      /\ DOMAIN HistoryWith(spell) = 1..n
      /\ \A i \in 1..n : HistoryWith(spell)[i] = longer[i]
  BY <1>2, <1>3, <1>4, <1>5
<1> DEFINE hist == HistoryWith(spell)
<1> HIDE DEF hist
<1>7. \A i \in 1..n : hist[i] = IF i = 1 THEN entry ELSE castHistory[i - 1]
  BY <1>2, <1>3, <1>4, <1>6 DEF hist
<1>8. \A i \in 2..n : i - 1 \in DOMAIN castHistory /\ hist[i] = castHistory[i - 1]
  BY <1>2, <1>4, <1>7
<1>9. hist[1] = entry /\ hist[1].id = attempts + 1 /\ hist[1].spell = spell /\ hist[1].castTimeMs = CastSpells[spell].cast
      /\ hist[1].castStartTimeMs = castNow
  BY <1>4, <1>7 DEF entry
<1>10. \A i \in DOMAIN castHistory : castHistory[i].id \in Nat /\ castHistory[i].id <= attempts
  BY EntryItem DEF AttemptsInv
<1>11. attempts \in Nat
  BY DEF TimesTypes
<1>12. \A i \in 1..n : hist[i].id <= attempts + 1 /\ (CastSpells[hist[i].spell].cast = 0 => hist[i].castTimeMs = 0)
  <2> SUFFICES ASSUME NEW i \in 1..n
               PROVE  hist[i].id <= attempts + 1 /\ (CastSpells[hist[i].spell].cast = 0 => hist[i].castTimeMs = 0)
    OBVIOUS
  <2>1. CASE i = 1
    BY <2>1, <1>9, <1>11
  <2>2. CASE i # 1
    <3>1. i \in 2..n
      BY <1>2, <1>4, <2>2
    <3> QED BY <3>1, <1>8, <1>10, <1>11 DEF AttemptsInv
  <2> QED BY <2>1, <2>2
<1>13. ASSUME NEW i \in 1..n, NEW j \in 1..n, i < j
       PROVE  hist[j].id < hist[i].id
  <2>1. j \in 2..n
    BY <1>2, <1>4, <1>13
  <2>2. CASE i = 1
    BY <2>1, <2>2, <1>8, <1>9, <1>10, <1>11
  <2>3. CASE i # 1
    <3>1. i \in 2..n /\ i - 1 < j - 1
      BY <1>2, <1>4, <1>13, <2>3
    <3> QED BY <3>1, <2>1, <1>8 DEF AttemptsInv
  <2> QED BY <2>2, <2>3
<1> QED BY <1>4, <1>6, <1>9, <1>12, <1>13 DEF hist

(* When the client may cast, what it has heard of the server's cast is past. *)
LEMMA ServerKept ==
  ASSUME TimesInv, castEndMs <= castNow, UNCHANGED <<castNow, serverCast, toClient, overdue>>
  PROVE  ServerInv'
<1>1. castEndMs \in Nat /\ castNow \in Nat /\ Latency \in Nat
  BY TimeConstants DEF TimesInv, TimesTypes
<1>2. HeardEnd \in Int
  <2>1. CASE toClient = <<>>
    BY <2>1 DEF TimesInv, TimesTypes, HeardEnd
  <2>2. CASE toClient # <<>>
    <3>1. 1 \in DOMAIN toClient
      BY <2>2 DEF TimesInv, TimesTypes
    <3>2. toClient[1].ends \in Nat /\ toClient[1].time \in Nat
      BY <3>1, PacketItem DEF TimesInv
    <3> QED BY <3>2, <2>2 DEF HeardEnd
  <2> QED BY <2>1, <2>2
<1>3. HeardEnd' = HeardEnd /\ LastEnds' = LastEnds /\ PushedFrom(0)' = PushedFrom(0)
  BY DEF HeardEnd, LastEnds, PushedFrom, Push
<1>4. InTime => InTime'
  <2> SUFFICES ASSUME InTime, ~CastSpells[serverCast.spell].aimed, ~overdue
               PROVE  HeardEnd <= Latency + castNow
    BY <1>3 DEF InTime
  <2> QED BY <1>1, <1>2 DEF InTime
<1>5. \A k \in DOMAIN toClient : StartAt(k)' = StartAt(k)
  BY DEF StartAt, PushedFrom, Push
<1> QED BY <1>3, <1>4, <1>5 DEF TimesInv, ServerInv

(* A cast is sent while nothing is unheard: it alone is counted on.         *)
LEMMA SendInv ==
  ASSUME TimesInv, SentSlow = {}, StartedSlow = {}, castEndMs <= castNow,
         NEW id \in Nat, NEW spell \in DOMAIN CastSpells, NEW runningGcd \in Nat,
         SendCast(id, spell, runningGcd), UNCHANGED <<castNow, serverCast, toClient, overdue>>,
         castHistory' \in Seq(CastEntry), castHistory' # <<>>, castHistory'[1].id = id, castHistory'[1].spell = spell,
         castHistory'[1].castTimeMs = CastSpells[spell].cast,
         CastSpells[spell].aimed \/ castHistory'[1].castStartTimeMs = castNow,
         attempts' = id, aiming' = 0
  PROVE  TimesTypes' /\ DueInv' /\ SlowInv' /\ ServerInv'
<1> DEFINE x == [id |-> id, spell |-> spell, due |-> castNow + Latency]
<1> USE DEF TimesInv
<1>1. /\ castEndMs \in Nat /\ castNow \in Nat /\ Latency \in Nat /\ gcdEndMs \in Nat
      /\ CastSpells[spell].cast \in Nat /\ BufferFor(spell) \in Nat /\ GcdTime(spell) \in Nat
  BY TimeConstants, TimeFacts DEF TimesTypes
<1>2. x \in SentCast /\ x.id = id /\ x.spell = spell /\ x.due = castNow + Latency
  BY <1>1 DEF SentCast
<1>3. toServer' = Append(toServer, x)
  BY DEF SendCast
<1>4. castEndMs' = IF CastSpells[spell].cast = 0 THEN 0 ELSE castNow + CastSpells[spell].cast + BufferFor(spell)
  BY DEF SendCast
<1>5. gcdEndMs' \in Nat
  BY <1>1 DEF SendCast
<1> HIDE DEF x
<1>6. toServer \in Seq(SentCast)
  BY DEF TimesTypes
<1>7. /\ toServer' \in Seq(SentCast) /\ DOMAIN toServer' = 1..(Len(toServer) + 1) /\ Len(toServer) \in Nat
      /\ toServer'[Len(toServer) + 1] = x /\ DOMAIN toServer = 1..Len(toServer)
      /\ \A i \in DOMAIN toServer : toServer'[i] = toServer[i]
  BY <1>2, <1>3, <1>6, Queued
<1>8. \A i \in DOMAIN toServer' : i \in DOMAIN toServer \/ i = Len(toServer) + 1
  BY <1>7
<1>9. TimesTypes'
  <2>1. castEndMs' \in Nat
    BY <1>1, <1>4
  <2>2. attempts' \in Nat /\ aiming' \in Nat
    OBVIOUS
  <2> QED BY <2>1, <2>2, <1>5, <1>7 DEF TimesTypes
<1>10. DueInv'
  <2>1. ASSUME NEW i \in DOMAIN toServer'
        PROVE  toServer'[i].due \in castNow'..castNow' + Latency
    <3>1. x.due \in castNow..castNow + Latency
      BY <1>1, <1>2
    <3> QED BY <3>1, <1>7, <1>8 DEF DueInv
  <2> QED BY <2>1 DEF DueInv
<1>11. SlowInv'
  <2>1. StartedSlow' = {}
    BY DEF StartedSlow
  <2>2. ASSUME NEW i \in SentSlow'
        PROVE  i = Len(toServer) + 1 /\ Slow(spell)
    <3>1. i \in DOMAIN toServer' /\ Slow(toServer'[i].spell)
      BY DEF SentSlow, Slow
    <3>2. i \notin DOMAIN toServer
      BY <3>1, <1>7 DEF SentSlow
    <3> QED BY <3>1, <3>2, <1>2, <1>7, <1>8
  <2>3. ASSUME NEW i \in SentSlow'
        PROVE  CountsOn(toServer[i].id, toServer[i].spell, toServer[i].due - Latency)'
    <3>1. toServer'[i] = x /\ Slow(spell)
      BY <2>2, <1>7
    <3>2. x.due - Latency = castNow
      BY <1>1, <1>2
    <3>3. castEndMs' >= castNow + CastSpells[spell].cast + BufferFor(spell)
      BY <1>1, <1>4, <3>1 DEF Slow
    <3> QED BY <3>1, <3>2, <3>3, <1>2 DEF CountsOn, BufferFor, GcdTime
  <2> QED BY <2>1, <2>2, <2>3 DEF SlowInv
<1>12. ServerInv'
  BY ServerKept
<1> QED BY <1>9, <1>10, <1>11, <1>12

LEMMA SentInv ==
  ASSUME TimesInv, RoundTrips, NEW spell \in DOMAIN CastSpells, Sent(spell)
  PROVE  TimesInv'
<1> USE DEF TimesInv
<1>1. castEndMs <= castNow /\ SentSlow = {} /\ StartedSlow = {}
  BY NoneUnheard DEF Sent, MayAttempt
<1>2. /\ castHistory' = HistoryWith(spell) /\ attempts' = attempts + 1 /\ aiming' = 0
      /\ SendCast(attempts + 1, spell, 0) /\ UNCHANGED <<castNow, serverCast, toClient, overdue>>
  BY DEF Sent
<1>3. attempts + 1 \in Nat /\ 0 \in Nat
  BY DEF TimesTypes
<1>4. /\ castHistory' \in Seq(CastEntry) /\ castHistory' # <<>>
      /\ castHistory'[1].id = attempts + 1 /\ castHistory'[1].spell = spell
      /\ castHistory'[1].castTimeMs = CastSpells[spell].cast /\ castHistory'[1].castStartTimeMs = castNow
  BY <1>2, NewHistory
<1>5. TimesTypes' /\ DueInv' /\ SlowInv' /\ ServerInv'
  BY <1>1, <1>2, <1>3, <1>4, SendInv
<1>6. AttemptsInv'
  BY <1>2, NewHistory DEF AttemptsInv
<1> QED BY <1>5, <1>6

LEMMA NotSentInv ==
  ASSUME TimesInv, RoundTrips, NEW spell \in DOMAIN CastSpells, NotSent(spell)
  PROVE  TimesInv'
<1> USE DEF TimesInv
<1>1. castEndMs <= castNow /\ SentSlow = {} /\ StartedSlow = {}
  BY NoneUnheard DEF NotSent, MayAttempt
<1>2. /\ castHistory' = HistoryWith(spell) /\ attempts' = attempts + 1
      /\ aiming' = (IF CastSpells[spell].aimed THEN attempts + 1 ELSE 0)
      /\ castEndMs' = 0 /\ gcdEndMs' = 0 /\ UNCHANGED <<castNow, serverCast, toClient, overdue, toServer>>
  BY DEF NotSent, network
<1>3. attempts \in Nat
  BY DEF TimesTypes
<1>4. /\ castHistory' \in Seq(CastEntry) /\ castHistory' # <<>>
      /\ castHistory'[1].id = attempts + 1 /\ castHistory'[1].spell = spell
      /\ castHistory'[1].castTimeMs = CastSpells[spell].cast /\ castHistory'[1].castStartTimeMs = castNow
  BY <1>2, NewHistory
<1>5. TimesTypes'
  BY <1>2, <1>3, <1>4 DEF TimesTypes
<1>6. SentSlow' = {} /\ StartedSlow' = {}
  BY <1>1, <1>2 DEF SentSlow, StartedSlow
<1>7. DueInv' /\ SlowInv' /\ ServerInv'
  BY <1>1, <1>2, <1>6, ServerKept DEF DueInv, SlowInv
<1>8. AttemptsInv'
  BY <1>2, <1>3, <1>4, <1>6, NewHistory DEF AttemptsInv
<1> QED BY <1>5, <1>7, <1>8

LEMMA ClickInv ==
  ASSUME TimesInv, RoundTrips, NEW spell \in DOMAIN CastSpells, Click(spell)
  PROVE  TimesInv'
<1> USE DEF TimesInv
<1>1. /\ aiming # 0 /\ CastSpells[spell].aimed /\ aiming' = 0 /\ SendCast(aiming, spell, gcdEndMs)
      /\ UNCHANGED <<castNow, castHistory, attempts, serverCast, toClient, overdue>>
  BY DEF Click
<1>2. /\ castEndMs = 0 /\ SentSlow = {} /\ StartedSlow = {} /\ castHistory # <<>>
      /\ castHistory[1].id = aiming /\ aiming = attempts
      /\ castHistory[1].castTimeMs = CastSpells[castHistory[1].spell].cast
  BY <1>1 DEF AttemptsInv
<1>3. castNow \in Nat /\ aiming \in Nat /\ gcdEndMs \in Nat /\ castHistory \in Seq(CastEntry)
  BY DEF TimesTypes
<1>4. castHistory[1].spell = spell
  <2>1. PICK i \in DOMAIN castHistory : castHistory[i].id = aiming /\ castHistory[i].spell = spell
    BY DEF Click
  <2>2. 1 \in DOMAIN castHistory /\ (i = 1 \/ 1 < i) /\ i \in Nat
    BY <1>2, <1>3
  <2>3. castHistory[i].id \in Nat /\ castHistory[1].id \in Nat
    BY <2>2, EntryItem
  <2>4. ~(1 < i)
    BY <2>1, <2>2, <2>3, <1>2 DEF AttemptsInv
  <2> QED BY <2>1, <2>2, <2>4
<1>5. castEndMs <= castNow
  BY <1>2, <1>3
<1>6. TimesTypes' /\ DueInv' /\ SlowInv' /\ ServerInv'
  BY <1>1, <1>2, <1>3, <1>4, <1>5, SendInv
<1>7. AttemptsInv'
  BY <1>1 DEF AttemptsInv
<1> QED BY <1>6, <1>7

(* The server takes a cast: unless it is refused, its SPELL_START is the    *)
(* last packet on its way.                                                  *)
LEMMA ReceivesInv ==
  ASSUME TimesInv, NEW spell \in DOMAIN Takes, NEW time \in Takes[spell], ServerReceives(time)
  PROVE  TimesInv'
<1> USE DEF TimesInv
<1> DEFINE cast == Head(toServer)
           p == ServerPacket("start", cast, time, castNow + time)
<1>1. /\ toServer # <<>> /\ cast.due = castNow /\ time \in Takes[cast.spell] /\ toServer' = Tail(toServer)
      /\ UNCHANGED <<castNow, castEndMs, gcdEndMs, castHistory, attempts, aiming>>
  BY DEF ServerReceives, castClientVars
<1>2. \/ UNCHANGED <<serverCast, toClient, overdue>>
      \/ /\ serverCast' = IF CastSpells[cast.spell].autoRepeat THEN Idle
                          ELSE [id |-> cast.id, spell |-> cast.spell, ends |-> castNow + time]
         /\ toClient' = Append(toClient, p)
         /\ overdue' = FALSE
  BY DEF ServerReceives
<1>3. /\ toServer \in Seq(SentCast) /\ toClient \in Seq(TimePacket) /\ castNow \in Nat /\ Latency \in Nat
      /\ time \in Nat
  BY TimeConstants, CastConstants DEF TimesTypes
<1>4. /\ toServer' \in Seq(SentCast) /\ Len(toServer) \in Nat /\ cast = toServer[1] /\ 1 \in DOMAIN toServer
      /\ DOMAIN toServer = 1..Len(toServer) /\ DOMAIN toServer' = 1..(Len(toServer) - 1)
      /\ \A i \in DOMAIN toServer' : i + 1 \in DOMAIN toServer /\ toServer'[i] = toServer[i + 1]
  BY <1>1, <1>3, Unqueued
<1>5. cast.id \in Nat /\ cast.spell \in DOMAIN CastSpells
  BY <1>4, SentItem
<1>6. /\ p \in TimePacket /\ p.kind = "start" /\ p.id = cast.id /\ p.spell = cast.spell /\ p.time = time
      /\ p.due = castNow + Latency /\ p.ends = castNow + time
  BY <1>3, <1>5 DEF ServerPacket, TimePacket
<1> HIDE DEF cast, p
<1>7. \A i \in SentSlow' : i + 1 \in SentSlow /\ toServer'[i] = toServer[i + 1] /\ i + 1 # 1
  BY <1>4 DEF SentSlow, Slow
<1>8. ASSUME NEW i \in SentSlow'
      PROVE  CountsOn(toServer[i].id, toServer[i].spell, toServer[i].due - Latency)'
  <2>1. i + 1 \in SentSlow /\ toServer'[i] = toServer[i + 1]
    BY <1>7
  <2>2. CountsOn(toServer[i + 1].id, toServer[i + 1].spell, toServer[i + 1].due - Latency)
    BY <2>1 DEF SlowInv
  <2> QED BY <1>1, <2>1, <2>2 DEF CountsOn, BufferFor, GcdTime
<1>9. ASSUME NEW i \in SentSlow', NEW j \in SentSlow'
      PROVE  i = j
  <2>1. i + 1 = j + 1 /\ i \in Nat /\ j \in Nat
    BY <1>4, <1>7 DEF SlowInv, SentSlow
  <2> QED BY <2>1
<1>10. \A i \in DOMAIN toServer' : toServer'[i].due \in castNow'..castNow' + Latency
  BY <1>1, <1>4 DEF DueInv
<1>11. CASE UNCHANGED <<serverCast, toClient, overdue>>
  <2>1. StartedSlow' = StartedSlow /\ (SentSlow' # {} => SentSlow # {})
    BY <1>7, <1>11 DEF StartedSlow
  <2>2. TimesTypes'
    BY <1>1, <1>4, <1>11 DEF TimesTypes
  <2>3. DueInv'
    BY <1>1, <1>10, <1>11 DEF DueInv
  <2>4. \A i \in StartedSlow' : CountsOn(toClient[i].id, toClient[i].spell, toClient[i].due - 2 * Latency)'
    BY <1>1, <1>11, <2>1 DEF SlowInv, CountsOn, BufferFor, GcdTime
  <2>5. SlowInv'
    BY <1>8, <1>9, <2>1, <2>4 DEF SlowInv
  <2>6. AttemptsInv'
    BY <1>1, <2>1 DEF AttemptsInv
  <2>7. ServerInv'
    BY <1>1, <1>11 DEF ServerInv, LastEnds, StartAt, PushedFrom, Push, InTime, HeardEnd
  <2> QED BY <2>2, <2>3, <2>5, <2>6, <2>7
<1>12. CASE /\ serverCast' = IF CastSpells[cast.spell].autoRepeat THEN Idle
                             ELSE [id |-> cast.id, spell |-> cast.spell, ends |-> castNow + time]
            /\ toClient' = Append(toClient, p)
            /\ overdue' = FALSE
  <2>1. /\ toClient' \in Seq(TimePacket) /\ toClient' # <<>> /\ Len(toClient) \in Nat
        /\ Len(toClient') = Len(toClient) + 1 /\ toClient'[Len(toClient) + 1] = p
        /\ DOMAIN toClient = 1..Len(toClient) /\ DOMAIN toClient' = 1..(Len(toClient) + 1)
        /\ \A i \in DOMAIN toClient : toClient'[i] = toClient[i]
    BY <1>3, <1>6, <1>12, Queued
  <2>2. \A i \in DOMAIN toClient' : i \in DOMAIN toClient \/ i = Len(toClient) + 1
    BY <2>1
  <2>3. TimesTypes'
    <3>1. /\ serverCast' \in [id : Nat, spell : DOMAIN CastSpells \cup {"none"}, ends : Nat]
          /\ serverCast' # Idle => serverCast'.spell \in DOMAIN CastSpells
      BY <1>3, <1>5, <1>12 DEF Idle
    <3> QED BY <1>1, <1>4, <1>12, <2>1, <3>1 DEF TimesTypes
  <2>4. DueInv'
    <3>1. p.due \in castNow..castNow + Latency /\ p.ends = p.due - Latency + p.time /\ p.time \in Takes[p.spell]
      BY <1>1, <1>3, <1>6
    <3>2. ASSUME NEW i \in DOMAIN toClient'
          PROVE  /\ toClient'[i].due \in castNow..castNow + Latency
                 /\ toClient'[i].kind = "start" =>
                      /\ toClient'[i].time \in Takes[toClient'[i].spell]
                      /\ toClient'[i].ends = toClient'[i].due - Latency + toClient'[i].time
      BY <2>1, <2>2, <3>1 DEF DueInv
    <3> QED BY <1>1, <1>10, <3>2 DEF DueInv
  <2>5. \A i \in StartedSlow' : \/ i \in StartedSlow /\ toClient'[i] = toClient[i]
                                \/ i = Len(toClient) + 1 /\ 1 \in SentSlow
    <3> SUFFICES ASSUME NEW i \in StartedSlow', i \notin StartedSlow
                 PROVE  i = Len(toClient) + 1 /\ 1 \in SentSlow
      BY <2>1 DEF StartedSlow
    <3>1. i = Len(toClient) + 1 /\ Slow(p.spell)
      BY <2>1, <2>2 DEF StartedSlow, Slow
    <3> QED BY <3>1, <1>4, <1>6 DEF SentSlow
  <2>6. 1 \in SentSlow => StartedSlow = {} /\ SentSlow' = {}
    BY <1>7 DEF SlowInv
  <2>7. ASSUME NEW i \in StartedSlow'
        PROVE  CountsOn(toClient[i].id, toClient[i].spell, toClient[i].due - 2 * Latency)'
    <3>1. CASE i \in StartedSlow /\ toClient'[i] = toClient[i]
      BY <1>1, <3>1 DEF SlowInv, CountsOn, BufferFor, GcdTime
    <3>2. CASE i = Len(toClient) + 1 /\ 1 \in SentSlow
      <4>1. toClient'[i] = p /\ p.due - 2 * Latency = cast.due - Latency
        BY <1>1, <1>3, <1>6, <2>1, <3>2
      <4>2. CountsOn(p.id, p.spell, p.due - 2 * Latency)
        BY <1>4, <1>6, <3>2, <4>1 DEF SlowInv
      <4> QED BY <1>1, <4>1, <4>2 DEF CountsOn, BufferFor, GcdTime
    <3> QED BY <2>5, <3>1, <3>2
  <2>8. ASSUME NEW i \in StartedSlow', NEW j \in StartedSlow'
        PROVE  i = j
    BY <2>5, <2>6 DEF SlowInv
  <2>9. SentSlow' = {} \/ StartedSlow' = {}
    BY <1>7, <2>5, <2>6 DEF SlowInv
  <2>10. SlowInv'
    BY <1>8, <1>9, <2>7, <2>8, <2>9 DEF SlowInv
  <2>11. AttemptsInv'
    BY <1>1, <1>7, <2>5 DEF AttemptsInv
  <2>12. ServerInv'
    <3>1. CASE CastSpells[cast.spell].autoRepeat
      BY <1>12, <3>1 DEF ServerInv
    <3>2. CASE ~CastSpells[cast.spell].autoRepeat
      <4>1. serverCast'.id = cast.id /\ serverCast'.spell = cast.spell /\ serverCast'.ends = castNow + time
        BY <1>12, <3>2
      <4>2. LastEnds'
        BY <1>6, <2>1, <4>1 DEF LastEnds
      <4>3. PICK k \in DOMAIN toClient' : k = Len(toClient) + 1
        BY <2>1
      <4>4. toClient'[k] = p /\ PushedFrom(k)'
        BY <2>1, <4>3 DEF PushedFrom
      <4>5. StartAt(k)'
        BY <1>6, <4>1, <4>4 DEF StartAt
      <4> QED BY <3>2, <4>1, <4>2, <4>5 DEF ServerInv
    <3> QED BY <3>1, <3>2
  <2> QED BY <2>3, <2>4, <2>10, <2>11, <2>12
<1> QED BY <1>2, <1>11, <1>12

(* The server puts its cast off: its SPELL_DELAYED follows what is on its   *)
(* way about that cast.                                                     *)
LEMMA DelaysInv ==
  ASSUME TimesInv, NEW time \in Pushbacks, ServerDelays(time)
  PROVE  TimesInv'
<1> USE DEF TimesInv
<1> DEFINE p == ServerPacket("delayed", serverCast, time, serverCast.ends + time)
<1>1. /\ serverCast # Idle /\ toClient' = Append(toClient, p)
      /\ serverCast' = [serverCast EXCEPT !.ends = @ + time]
      /\ UNCHANGED <<castNow, castEndMs, gcdEndMs, castHistory, attempts, aiming, toServer, overdue>>
  BY DEF ServerDelays, ServerCasting, castClientVars
<1>2. /\ toClient \in Seq(TimePacket) /\ castNow \in Nat /\ Latency \in Nat /\ castEndMs \in Nat
      /\ time \in Nat /\ serverCast.id \in Nat /\ serverCast.ends \in Nat /\ serverCast.spell \in DOMAIN CastSpells
  BY <1>1, TimeConstants, CastConstants DEF TimesTypes
<1>3. /\ serverCast' \in [id : Nat, spell : DOMAIN CastSpells \cup {"none"}, ends : Nat]
      /\ serverCast'.id = serverCast.id /\ serverCast'.spell = serverCast.spell
      /\ serverCast'.ends = serverCast.ends + time
  <2>1. serverCast \in [id : Nat, spell : DOMAIN CastSpells \cup {"none"}, ends : Nat] /\ serverCast.ends + time \in Nat
    BY <1>2 DEF TimesTypes
  <2> QED BY <1>1, <2>1
<1>4. /\ p \in TimePacket /\ p.kind = "delayed" /\ p.id = serverCast.id /\ p.time = time
      /\ p.due = castNow + Latency /\ p.ends = serverCast.ends + time
  BY <1>2 DEF ServerPacket, TimePacket
<1> HIDE DEF p
<1>5. /\ toClient' \in Seq(TimePacket) /\ toClient' # <<>> /\ Len(toClient) \in Nat
      /\ Len(toClient') = Len(toClient) + 1 /\ toClient'[Len(toClient) + 1] = p
      /\ DOMAIN toClient = 1..Len(toClient) /\ DOMAIN toClient' = 1..(Len(toClient) + 1)
      /\ \A i \in DOMAIN toClient : toClient'[i] = toClient[i]
      /\ toClient = <<>> => Len(toClient) = 0
  BY <1>1, <1>2, <1>4, Queued
<1>6. \A i \in DOMAIN toClient' : i \in DOMAIN toClient \/ i = Len(toClient) + 1
  BY <1>5
<1>7. TimesTypes'
  BY <1>1, <1>2, <1>3, <1>5 DEF TimesTypes
<1>8. DueInv'
  <2>1. p.due \in castNow..castNow + Latency
    BY <1>2, <1>4
  <2>2. ASSUME NEW i \in DOMAIN toClient'
        PROVE  /\ toClient'[i].due \in castNow..castNow + Latency
               /\ toClient'[i].kind = "start" =>
                    /\ toClient'[i].time \in Takes[toClient'[i].spell]
                    /\ toClient'[i].ends = toClient'[i].due - Latency + toClient'[i].time
    BY <1>4, <1>5, <1>6, <2>1 DEF DueInv
  <2> QED BY <1>1, <2>2 DEF DueInv
<1>9. SentSlow' = SentSlow
  BY <1>1 DEF SentSlow
<1>10. StartedSlow' = StartedSlow /\ \A i \in StartedSlow : toClient'[i] = toClient[i]
  BY <1>4, <1>5, <1>6 DEF StartedSlow
<1>11. SlowInv'
  <2>1. \A i \in SentSlow : CountsOn(toServer[i].id, toServer[i].spell, toServer[i].due - Latency)'
    BY <1>1 DEF SlowInv, CountsOn, BufferFor, GcdTime
  <2>2. ASSUME NEW i \in StartedSlow
        PROVE  CountsOn(toClient[i].id, toClient[i].spell, toClient[i].due - 2 * Latency)'
    <3>1. CountsOn(toClient[i].id, toClient[i].spell, toClient[i].due - 2 * Latency) /\ toClient'[i] = toClient[i]
      BY <1>10 DEF SlowInv
    <3> QED BY <1>1, <3>1 DEF CountsOn, BufferFor, GcdTime
  <2> QED BY <1>9, <1>10, <2>1, <2>2 DEF SlowInv
<1>12. AttemptsInv'
  BY <1>1, <1>9, <1>10 DEF AttemptsInv
<1>13. ASSUME NEW k \in Nat, k <= Len(toClient), PushedFrom(k), LastEnds
       PROVE  PushedFrom(k)'
  <2> SUFFICES ASSUME NEW i \in DOMAIN toClient', i > k
               PROVE  /\ toClient'[i].kind = "delayed" /\ toClient'[i].id = serverCast'.id
                      /\ i > 1 => toClient'[i].ends = toClient'[i - 1].ends + toClient'[i].time
    BY DEF PushedFrom, Push
  <2>1. CASE i \in DOMAIN toClient
    <3>1. i > 1 => i - 1 \in DOMAIN toClient
      BY <1>5, <2>1
    <3> QED BY <1>3, <1>5, <1>13, <2>1, <3>1 DEF PushedFrom, Push
  <2>2. CASE i = Len(toClient) + 1
    <3>1. i > 1 => toClient # <<>> /\ i - 1 = Len(toClient) /\ Len(toClient) \in DOMAIN toClient
      BY <1>5, <2>2
    <3>2. i > 1 => toClient'[i - 1].ends = serverCast.ends
      BY <1>5, <1>13, <3>1 DEF LastEnds
    <3> QED BY <1>3, <1>4, <1>5, <2>2, <3>2
  <2> QED BY <1>6, <2>1, <2>2
<1>14. LastEnds'
  BY <1>3, <1>4, <1>5 DEF LastEnds
<1>15. HeardEnd' = HeardEnd
  <2>1. CASE toClient = <<>>
    <3>1. toClient'[1] = p /\ p.ends - p.time = serverCast.ends
      BY <1>2, <1>4, <1>5, <2>1
    <3> QED BY <1>5, <2>1, <3>1 DEF HeardEnd
  <2>2. CASE toClient # <<>>
    <3>1. 1 \in DOMAIN toClient
      BY <1>2, <2>2
    <3> QED BY <1>5, <2>2, <3>1 DEF HeardEnd
  <2> QED BY <2>1, <2>2
<1>16. ServerInv'
  <2>1. ~CastSpells[serverCast'.spell].autoRepeat /\ LastEnds
    BY <1>1, <1>3 DEF ServerInv
  <2>2. ASSUME NEW k \in DOMAIN toClient, StartAt(k)
        PROVE  k \in DOMAIN toClient' /\ StartAt(k)'
    <3>1. k \in Nat /\ k <= Len(toClient) /\ k \in DOMAIN toClient' /\ toClient'[k] = toClient[k]
      BY <1>5
    <3>2. PushedFrom(k)'
      BY <1>13, <2>1, <2>2, <3>1 DEF StartAt
    <3> QED BY <1>3, <2>2, <3>1, <3>2 DEF StartAt
  <2>3. PushedFrom(0) /\ InTime => (PushedFrom(0) /\ InTime)'
    BY <1>1, <1>3, <1>5, <1>13, <1>15, <2>1 DEF InTime
  <2> QED BY <1>1, <1>14, <2>1, <2>2, <2>3 DEF ServerInv
<1> QED BY <1>7, <1>8, <1>11, <1>12, <1>16

LEMMA CastTickInv ==
  ASSUME TimesInv, CastTick
  PROVE  TimesInv'
<1> USE DEF TimesInv
<1>1. /\ castNow' = castNow + 1
      /\ \A i \in DOMAIN toServer : toServer[i].due > castNow
      /\ \A i \in DOMAIN toClient : toClient[i].due > castNow
      /\ serverCast' = serverCast \/ serverCast' = Idle
      /\ UNCHANGED <<castEndMs, gcdEndMs, castHistory, attempts, aiming, toServer, toClient, overdue>>
  BY DEF CastTick, castClientVars
<1>2. castNow \in Nat /\ Latency \in Nat /\ castEndMs \in Nat
  BY TimeConstants DEF TimesTypes
<1>3. TimesTypes'
  BY <1>1, <1>2 DEF TimesTypes, Idle
<1>4. DueInv'
  <2>1. ASSUME NEW i \in DOMAIN toServer
        PROVE  toServer[i].due \in castNow + 1..castNow + 1 + Latency
    BY <1>1, <1>2, SentItem DEF DueInv
  <2>2. ASSUME NEW i \in DOMAIN toClient
        PROVE  toClient[i].due \in castNow + 1..castNow + 1 + Latency
    BY <1>1, <1>2, PacketItem DEF DueInv
  <2> QED BY <1>1, <2>1, <2>2 DEF DueInv
<1>5. SlowInv' /\ AttemptsInv'
  <2>1. SentSlow' = SentSlow /\ StartedSlow' = StartedSlow
    BY <1>1 DEF SentSlow, StartedSlow
  <2>2. AttemptsInv'
    BY <1>1, <2>1 DEF AttemptsInv
  <2>3. SlowInv'
    BY <1>1, <2>1 DEF SlowInv, CountsOn, BufferFor, GcdTime
  <2> QED BY <2>2, <2>3
<1>6. ServerInv'
  <2> SUFFICES ASSUME serverCast' = serverCast, serverCast # Idle
               PROVE  ServerInv'
    BY <1>1 DEF ServerInv
  <2>1. LastEnds' = LastEnds /\ PushedFrom(0)' = PushedFrom(0) /\ HeardEnd' = HeardEnd
    BY <1>1 DEF LastEnds, PushedFrom, Push, HeardEnd
  <2>2. \A k \in DOMAIN toClient : StartAt(k)' = StartAt(k)
    BY <1>1 DEF StartAt, PushedFrom, Push
  <2>3. HeardEnd \in Int
    <3>1. CASE toClient = <<>>
      BY <3>1 DEF TimesTypes, HeardEnd
    <3>2. CASE toClient # <<>>
      <4>1. 1 \in DOMAIN toClient
        BY <3>2 DEF TimesTypes
      <4>2. toClient[1].ends \in Nat /\ toClient[1].time \in Nat
        BY <4>1, PacketItem
      <4> QED BY <4>2, <3>2 DEF HeardEnd
    <3> QED BY <3>1, <3>2
  <2>4. InTime => InTime'
    <3>1. HeardEnd <= Latency + castNow => HeardEnd <= Latency + castNow'
      BY <1>1, <1>2, <2>3
    <3> QED BY <1>1, <2>1, <3>1 DEF InTime
  <2> QED BY <1>1, <2>1, <2>2, <2>4 DEF ServerInv
<1> QED BY <1>3, <1>4, <1>5, <1>6

LEMMA CorrectedTypes ==
  ASSUME castEndMs \in Nat, NEW entry \in CastEntry, NEW time \in Nat
  PROVE  Corrected(entry, time).castTimeMs \in Nat /\ Corrected(entry, time).end \in Nat
<1> DEFINE gcd == GcdTime(entry.spell)
<1>1. /\ entry.castTimeMs \in Nat /\ entry.castStartTimeMs \in Nat /\ entry.spell \in DOMAIN CastSpells
  BY DEF CastEntry
<1>2. gcd \in Nat /\ BufferMs \in Nat
  BY <1>1, TimeFacts, TimeConstants
<1> HIDE DEF gcd
<1>3. \/ Corrected(entry, time) = [castTimeMs |-> entry.castTimeMs, end |-> castEndMs]
      \/ Corrected(entry, time) = [castTimeMs |-> gcd, end |-> entry.castStartTimeMs + gcd]
      \/ Corrected(entry, time) = [castTimeMs |-> time, end |-> entry.castStartTimeMs + time + BufferMs]
  BY DEF Corrected, gcd
<1> HIDE DEF Corrected
<1> QED BY <1>1, <1>2, <1>3

LEMMA CorrectedEnd ==
  ASSUME castEndMs \in Nat, NEW entry \in CastEntry, NEW time \in Nat, ~CastSpells[entry.spell].autoRepeat
  PROVE  \/ time - entry.castTimeMs <= Rounding /\ Corrected(entry, time).end = castEndMs
         \/ GcdTime(entry.spell) > time /\ Corrected(entry, time).end = entry.castStartTimeMs + GcdTime(entry.spell)
         \/ Corrected(entry, time).end = entry.castStartTimeMs + time + BufferMs
<1> DEFINE gcd == GcdTime(entry.spell)
           longer == time - entry.castTimeMs > Rounding
<1>1. ~longer => time - entry.castTimeMs <= Rounding
  BY TimeConstants DEF CastEntry
<1> HIDE DEF longer, gcd
<1>2. \/ ~longer /\ Corrected(entry, time).end = castEndMs
      \/ gcd > time /\ Corrected(entry, time).end = entry.castStartTimeMs + gcd
      \/ Corrected(entry, time).end = entry.castStartTimeMs + time + BufferMs
  BY DEF Corrected, longer, gcd
<1> QED BY <1>1, <1>2 DEF gcd

(* What a SPELL_START does: one of a cast that takes time corrects the      *)
(* newest entry, and then the client's end is late enough; another changes  *)
(* nothing.                                                                 *)
LEMMA StartEffect ==
  ASSUME TimesInv, RoundTrips, RoundingCovered, toClient # <<>>, toClient[1].kind = "start",
         toClient[1].due = castNow, SpellStartHandler(toClient[1])
  PROVE  /\ castHistory' \in Seq(CastEntry) /\ castEndMs' \in Nat
         /\ ~Slow(toClient[1].spell) => UNCHANGED <<castHistory, castEndMs>>
         /\ Slow(toClient[1].spell) =>
              /\ castHistory # <<>> /\ castHistory[1].spell = toClient[1].spell
              /\ DOMAIN castHistory' = DOMAIN castHistory
              /\ \A i \in DOMAIN castHistory :
                   /\ castHistory'[i].id = castHistory[i].id /\ castHistory'[i].spell = castHistory[i].spell
                   /\ i # 1 => castHistory'[i] = castHistory[i]
              /\ CastSpells[toClient[1].spell].aimed \/ toClient[1].ends <= Latency + castEndMs'
         /\ ~CastSpells[toClient[1].spell].autoRepeat /\ ~Slow(toClient[1].spell) =>
              toClient[1].ends <= Latency + castNow
<1> USE DEF TimesInv
<1> DEFINE p == toClient[1]
           n == Newest(p.spell)
<1>1. /\ castHistory \in Seq(CastEntry) /\ castEndMs \in Nat /\ castNow \in Nat /\ 1 \in DOMAIN toClient
      /\ Latency \in Nat /\ Rounding \in Nat /\ BufferMs \in Nat
  BY TimeConstants DEF TimesTypes
<1>2. /\ p.id \in Nat /\ p.kind = "start" /\ p.spell \in DOMAIN CastSpells /\ p.time \in Nat /\ p.due \in Nat
      /\ p.ends \in Nat /\ p.time \in Takes[p.spell] /\ p.ends = p.due - Latency + p.time /\ p.due = castNow
  BY <1>1, PacketItem DEF DueInv
<1>3. /\ CastSpells[p.spell].cast \in Nat /\ BufferFor(p.spell) \in Nat /\ GcdTime(p.spell) \in Nat
      /\ CastSpells[p.spell].autoRepeat \in BOOLEAN
  BY <1>2, TimeFacts
<1>4. n # 0 => n \in DOMAIN castHistory /\ castHistory[n].spell = p.spell
  <2> DEFINE entries == {i \in DOMAIN castHistory : castHistory[i].spell = p.spell}
  <2>1. entries # {} => \E i \in entries : \A j \in entries : i <= j
    <3>1. entries \in SUBSET Nat
      BY <1>1
    <3> QED BY <3>1, LeastNatural
  <2> QED BY <2>1 DEF Newest
<1>5. SpellStartHandler(p)
  OBVIOUS
<1> HIDE DEF n
<1>6. n = 0 => UNCHANGED <<castHistory, castEndMs>>
  BY <1>5 DEF SpellStartHandler, n
<1>7. n # 0 => /\ castEndMs' = Corrected(castHistory[n], p.time).end
               /\ castHistory' = [castHistory EXCEPT ![n].castTimeMs = Corrected(castHistory[n], p.time).castTimeMs]
  BY <1>5 DEF SpellStartHandler, n
<1> HIDE DEF p
<1>8. ASSUME n # 0
      PROVE  /\ castHistory[n] \in CastEntry /\ castHistory[n].castTimeMs \in Nat
             /\ castHistory[n].castStartTimeMs \in Nat /\ castHistory[n].spell = p.spell
             /\ n \in DOMAIN castHistory
  BY <1>4, <1>8, EntryItem
<1>9. ASSUME n # 0, NEW time \in Nat, castHistory' = [castHistory EXCEPT ![n].castTimeMs = time]
      PROVE  /\ castHistory' \in Seq(CastEntry) /\ DOMAIN castHistory' = DOMAIN castHistory
             /\ castHistory'[n].id = castHistory[n].id /\ castHistory'[n].spell = castHistory[n].spell
             /\ \A i \in DOMAIN castHistory : i # n => castHistory'[i] = castHistory[i]
             /\ time = castHistory[n].castTimeMs => castHistory' = castHistory
  <2> DEFINE new == [castHistory[n] EXCEPT !.castTimeMs = time]
  <2>1. new \in CastEntry /\ new.id = castHistory[n].id /\ new.spell = castHistory[n].spell
    BY <1>8, <1>9 DEF CastEntry
  <2>2. time = castHistory[n].castTimeMs => new = castHistory[n]
    BY <1>8, <1>9 DEF CastEntry
  <2>3. castHistory' = [castHistory EXCEPT ![n] = new]
    BY <1>9
  <2> HIDE DEF new
  <2>4. n \in DOMAIN castHistory
    BY <1>8, <1>9
  <2>5. DOMAIN castHistory' = DOMAIN castHistory /\ castHistory'[n] = new
    BY <2>3, <2>4
  <2>6. \A i \in DOMAIN castHistory : i # n => castHistory'[i] = castHistory[i]
    BY <2>3
  <2>7. castHistory' \in Seq(CastEntry)
    BY <1>1, <2>1, <2>3, <2>4
  <2>8. new = castHistory[n] => castHistory' = castHistory
    BY <1>1, <2>3, <2>4
  <2> QED BY <2>1, <2>2, <2>5, <2>6, <2>7, <2>8
<1>10. ASSUME n # 0
       PROVE  /\ Corrected(castHistory[n], p.time).castTimeMs \in Nat
              /\ Corrected(castHistory[n], p.time).end \in Nat
  BY <1>1, <1>2, <1>3, <1>8, <1>10, CorrectedTypes
<1>11. castHistory' \in Seq(CastEntry) /\ castEndMs' \in Nat
  BY <1>1, <1>6, <1>7, <1>9, <1>10
<1>12. ~CastSpells[p.spell].autoRepeat /\ ~Slow(p.spell) => CastSpells[p.spell].cast = 0 /\ p.time = 0
  BY <1>2, <1>3 DEF Slow, RoundTrips
<1>13. ~CastSpells[p.spell].autoRepeat /\ ~Slow(p.spell) => p.ends <= Latency + castNow
  BY <1>1, <1>2, <1>12
<1>14. ASSUME ~Slow(p.spell), n # 0
       PROVE  Corrected(castHistory[n], p.time) = [castTimeMs |-> castHistory[n].castTimeMs, end |-> castEndMs]
  <2>1. CASE CastSpells[p.spell].autoRepeat
    BY <1>8, <1>14, <2>1 DEF Corrected
  <2>2. CASE ~CastSpells[p.spell].autoRepeat
    <3>1. p.time = 0 /\ castHistory[n].castTimeMs = 0
      BY <1>8, <1>12, <1>14, <2>2 DEF AttemptsInv
    <3>2. ~(p.time - castHistory[n].castTimeMs > Rounding) /\ ~(castHistory[n].castTimeMs - p.time > Rounding)
      BY <1>1, <3>1
    <3> QED BY <1>8, <1>14, <2>2, <3>2 DEF Corrected
  <2> QED BY <2>1, <2>2
<1>15. ~Slow(p.spell) => UNCHANGED <<castHistory, castEndMs>>
  BY <1>6, <1>7, <1>8, <1>9, <1>14
<1>16. ASSUME Slow(p.spell)
       PROVE  /\ castHistory # <<>> /\ castHistory[1].spell = p.spell /\ n = 1
              /\ castHistory[1].castTimeMs = CastSpells[p.spell].cast
              /\ castEndMs >= p.due - 2 * Latency + CastSpells[p.spell].cast + BufferFor(p.spell)
              /\ CastSpells[p.spell].aimed \/ castHistory[1].castStartTimeMs = p.due - 2 * Latency
  <2>1. 1 \in StartedSlow
    BY <1>1, <1>2, <1>16 DEF StartedSlow, p
  <2>2. CountsOn(p.id, p.spell, p.due - 2 * Latency)
    BY <2>1 DEF SlowInv, p
  <2>3. 1 \in DOMAIN castHistory /\ DOMAIN castHistory \in SUBSET Nat /\ 0 \notin DOMAIN castHistory
    BY <1>1, <2>2 DEF CountsOn
  <2>4. n = 1
    <3> DEFINE entries == {i \in DOMAIN castHistory : castHistory[i].spell = p.spell}
    <3>1. 1 \in entries /\ \A j \in entries : 1 <= j
      BY <1>1, <2>2, <2>3 DEF CountsOn
    <3>2. \A i \in entries : (\A j \in entries : i <= j) => i = 1
      BY <3>1, <2>3
    <3> HIDE DEF entries
    <3>3. (CHOOSE i \in entries : \A j \in entries : i <= j) = 1
      BY <3>1, <3>2
    <3> QED BY <3>1, <3>3 DEF n, Newest, entries
  <2> QED BY <2>2, <2>4 DEF CountsOn
<1>17. ASSUME Slow(p.spell), ~CastSpells[p.spell].aimed
       PROVE  p.ends <= Latency + castEndMs'
  <2> DEFINE e == castHistory[1]
             c == CastSpells[p.spell].cast
             g == GcdTime(p.spell)
             b == BufferFor(p.spell)
             t == p.time
  <2>1. /\ e.castTimeMs = c /\ e.castStartTimeMs = p.due - 2 * Latency /\ e.spell = p.spell
        /\ castEndMs >= p.due - 2 * Latency + c + b /\ castEndMs' = Corrected(e, t).end
        /\ ~CastSpells[p.spell].autoRepeat
    BY <1>7, <1>16, <1>17 DEF Slow
  <2>2. p.ends = p.due - Latency + t
    BY <1>2
  <2>3. c \in Nat /\ g \in Nat /\ b \in Nat /\ t \in Nat /\ p.due \in Nat
    BY <1>2, <1>3
  <2>4. t - c <= Rounding => t <= c + b
    BY <1>2, <1>17, <2>1 DEF RoundingCovered
  <2>5. \/ t - e.castTimeMs <= Rounding /\ Corrected(e, t).end = castEndMs
        \/ GcdTime(e.spell) > t /\ Corrected(e, t).end = e.castStartTimeMs + GcdTime(e.spell)
        \/ Corrected(e, t).end = e.castStartTimeMs + t + BufferMs
    <3>1. e \in CastEntry
      BY <1>8, <1>16, <1>17
    <3> QED BY <1>1, <2>1, <2>3, <3>1, CorrectedEnd
  <2>6. \/ t - c <= Rounding /\ castEndMs' = castEndMs
        \/ g > t /\ castEndMs' = p.due - 2 * Latency + g
        \/ castEndMs' = p.due - 2 * Latency + t + BufferMs
    BY <2>1, <2>5
  <2> HIDE DEF e, c, g, b, t
  <2>7. CASE t - c <= Rounding /\ castEndMs' = castEndMs
    <3>1. t <= c + b /\ castEndMs' >= p.due - 2 * Latency + c + b
      BY <2>1, <2>4, <2>7
    <3>2. castEndMs' \in Nat
      BY <1>1, <2>7
    <3>3. Latency \in Nat
      BY <1>1
    <3>4. p.ends <= p.due - Latency + (c + b)
      BY <2>2, <2>3, <3>1, <3>3
    <3>5. p.due - Latency + (c + b) <= Latency + castEndMs'
      BY <2>3, <3>1, <3>2, <3>3
    <3> QED BY <1>2, <2>3, <3>2, <3>3, <3>4, <3>5
  <2>8. CASE g > t /\ castEndMs' = p.due - 2 * Latency + g
    BY <1>1, <2>2, <2>3, <2>8
  <2>9. CASE castEndMs' = p.due - 2 * Latency + t + BufferMs
    BY <1>1, <2>2, <2>3, <2>9
  <2> QED BY <2>6, <2>7, <2>8, <2>9
<1>18. Slow(p.spell) =>
          /\ castHistory # <<>> /\ castHistory[1].spell = p.spell
          /\ DOMAIN castHistory' = DOMAIN castHistory
          /\ \A i \in DOMAIN castHistory :
               /\ castHistory'[i].id = castHistory[i].id /\ castHistory'[i].spell = castHistory[i].spell
               /\ i # 1 => castHistory'[i] = castHistory[i]
  <2> SUFFICES ASSUME Slow(p.spell)
               PROVE  /\ castHistory # <<>> /\ castHistory[1].spell = p.spell
                      /\ DOMAIN castHistory' = DOMAIN castHistory
                      /\ \A i \in DOMAIN castHistory :
                           /\ castHistory'[i].id = castHistory[i].id /\ castHistory'[i].spell = castHistory[i].spell
                           /\ i # 1 => castHistory'[i] = castHistory[i]
    OBVIOUS
  <2>1. n = 1 /\ castHistory # <<>> /\ castHistory[1].spell = p.spell
    BY <1>16
  <2>2. n # 0
    BY <2>1
  <2>3. /\ DOMAIN castHistory' = DOMAIN castHistory
        /\ castHistory'[n].id = castHistory[n].id /\ castHistory'[n].spell = castHistory[n].spell
        /\ \A i \in DOMAIN castHistory : i # n => castHistory'[i] = castHistory[i]
    BY <2>2, <1>7, <1>9, <1>10
  <2> QED BY <2>1, <2>3
<1> QED BY <1>11, <1>13, <1>15, <1>17, <1>18 DEF p

(* With a packet read, those after it still follow one another.             *)
LEMMA ReadOn ==
  ASSUME TimesInv, toClient # <<>>, toClient' = Tail(toClient), serverCast' = serverCast, LastEnds
  PROVE  /\ LastEnds'
         /\ \A k \in Nat : PushedFrom(k + 1) => PushedFrom(k)'
         /\ PushedFrom(1) => HeardEnd' = toClient[1].ends
         /\ \A k \in Nat : k + 1 \in DOMAIN toClient /\ k # 0 /\ StartAt(k + 1) => k \in DOMAIN toClient' /\ StartAt(k)'
<1> USE DEF TimesInv
<1>1. /\ toClient \in Seq(TimePacket) /\ toClient' \in Seq(TimePacket) /\ Len(toClient) \in Nat /\ Len(toClient) > 0
      /\ Len(toClient') = Len(toClient) - 1
      /\ DOMAIN toClient = 1..Len(toClient) /\ DOMAIN toClient' = 1..(Len(toClient) - 1)
      /\ \A i \in DOMAIN toClient' : i + 1 \in DOMAIN toClient /\ toClient'[i] = toClient[i + 1]
      /\ toClient' = <<>> => Len(toClient) = 1
  BY Unqueued DEF TimesTypes
<1>2. LastEnds'
  <2> SUFFICES ASSUME toClient' # <<>>
               PROVE  toClient'[Len(toClient')].ends = serverCast.ends
    BY DEF LastEnds
  <2>1. Len(toClient') \in DOMAIN toClient' /\ Len(toClient') + 1 = Len(toClient)
    BY <1>1
  <2> QED BY <1>1, <2>1 DEF LastEnds
<1>3. ASSUME NEW k \in Nat, PushedFrom(k + 1)
      PROVE  PushedFrom(k)'
  <2> SUFFICES ASSUME NEW i \in DOMAIN toClient', i > k
               PROVE  /\ toClient'[i].kind = "delayed" /\ toClient'[i].id = serverCast.id
                      /\ i > 1 => toClient'[i].ends = toClient'[i - 1].ends + toClient'[i].time
    BY DEF PushedFrom, Push
  <2>1. i \in Nat /\ i + 1 \in DOMAIN toClient /\ i + 1 > k + 1 /\ i + 1 > 1 /\ (i + 1) - 1 = i
    BY <1>1
  <2>2. /\ toClient[i + 1].kind = "delayed" /\ toClient[i + 1].id = serverCast.id
        /\ toClient[i + 1].ends = toClient[i].ends + toClient[i + 1].time
    BY <1>3, <2>1 DEF PushedFrom, Push
  <2>3. i > 1 => i - 1 \in DOMAIN toClient' /\ (i - 1) + 1 = i
    BY <1>1, <2>1
  <2>4. i > 1 => toClient'[i - 1] = toClient[i]
    BY <1>1, <2>3
  <2> QED BY <1>1, <2>2, <2>4
<1>4. PushedFrom(1) => HeardEnd' = toClient[1].ends
  <2> SUFFICES ASSUME PushedFrom(1) PROVE HeardEnd' = toClient[1].ends
    OBVIOUS
  <2>1. CASE toClient' = <<>>
    BY <1>1, <2>1 DEF LastEnds, HeardEnd
  <2>2. CASE toClient' # <<>>
    <3>1. 1 \in DOMAIN toClient' /\ 2 \in DOMAIN toClient /\ 1 \in DOMAIN toClient /\ toClient'[1] = toClient[2]
      BY <1>1, <2>2
    <3>2. toClient[2].ends = toClient[1].ends + toClient[2].time
      BY <3>1 DEF PushedFrom
    <3>3. toClient[1].ends \in Nat /\ toClient[2].time \in Nat
      BY <3>1, PacketItem
    <3> QED BY <2>2, <3>1, <3>2, <3>3 DEF HeardEnd
  <2> QED BY <2>1, <2>2
<1>5. ASSUME NEW k \in Nat, k + 1 \in DOMAIN toClient, k # 0, StartAt(k + 1)
      PROVE  k \in DOMAIN toClient' /\ StartAt(k)'
  <2>1. k \in DOMAIN toClient' /\ toClient'[k] = toClient[k + 1]
    BY <1>1, <1>5
  <2>2. PushedFrom(k)'
    BY <1>3, <1>5 DEF StartAt
  <2> QED BY <1>5, <2>1, <2>2 DEF StartAt
<1> QED BY <1>2, <1>3, <1>4, <1>5

LEMMA ReadInv ==
  ASSUME TimesInv, RoundTrips, RoundingCovered, Receives
  PROVE  TimesInv'
<1> USE DEF TimesInv
<1> DEFINE p == toClient[1]
<1>1. /\ toClient # <<>> /\ toClient' = Tail(toClient)
      /\ UNCHANGED <<castNow, gcdEndMs, attempts, aiming, toServer, serverCast>>
  BY DEF Receives
<1>2. /\ toClient' \in Seq(TimePacket) /\ Len(toClient) \in Nat /\ Len(toClient) > 0 /\ Head(toClient) = p
      /\ DOMAIN toClient = 1..Len(toClient) /\ DOMAIN toClient' = 1..(Len(toClient) - 1)
      /\ \A i \in DOMAIN toClient' : i + 1 \in DOMAIN toClient /\ toClient'[i] = toClient[i + 1]
      /\ 1 \in DOMAIN toClient
  BY <1>1, Unqueued DEF TimesTypes
<1>3. /\ castEndMs \in Nat /\ castNow \in Nat /\ Latency \in Nat /\ aiming \in Nat /\ attempts \in Nat
      /\ castHistory \in Seq(CastEntry)
  BY TimeConstants DEF TimesTypes
<1>4. p.time \in Nat /\ p.ends \in Nat /\ p.spell \in DOMAIN CastSpells /\ p.kind \in {"start", "delayed"}
  BY <1>2, PacketItem
<1>5. p.due = castNow
  BY <1>2 DEF Receives
<1>6. DueInv'
  BY <1>1, <1>2 DEF DueInv
<1>7. SentSlow' = SentSlow
  BY <1>1 DEF SentSlow
<1>8. \A i \in StartedSlow' : i + 1 \in StartedSlow /\ toClient'[i] = toClient[i + 1] /\ i \in Nat /\ i # 0
  BY <1>2 DEF StartedSlow
<1>9. ASSUME NEW i \in StartedSlow', NEW j \in StartedSlow'
      PROVE  i = j
  <2>1. i + 1 = j + 1 /\ i \in Nat /\ j \in Nat
    BY <1>8 DEF SlowInv
  <2> QED BY <2>1
<1>10. p.kind = "start" => SpellStartHandler(p) /\ overdue' = overdue
  BY <1>2 DEF Receives
<1>11. p.kind # "start" =>
          /\ castEndMs' = (IF castNow < castEndMs THEN castEndMs + p.time ELSE castEndMs)
          /\ castHistory' = castHistory
          /\ overdue' = (overdue \/ (castNow >= castEndMs /\ p.id = serverCast.id))
  BY <1>2 DEF Receives, SpellDelayed
<1>12. /\ p.kind = "start" /\ Slow(p.spell) => StartedSlow' = {} /\ SentSlow = {} /\ 1 \in StartedSlow
  <2> SUFFICES ASSUME p.kind = "start", Slow(p.spell)
               PROVE  StartedSlow' = {} /\ SentSlow = {} /\ 1 \in StartedSlow
    OBVIOUS
  <2>1. 1 \in StartedSlow
    BY <1>2 DEF StartedSlow
  <2>2. ASSUME NEW i \in StartedSlow' PROVE FALSE
    <3>1. i + 1 = 1 /\ i \in Nat /\ i # 0
      BY <1>8, <2>1 DEF SlowInv
    <3> QED BY <3>1
  <2> QED BY <2>1, <2>2 DEF SlowInv
<1>13. /\ castHistory' \in Seq(CastEntry) /\ castEndMs' \in Nat
       /\ p.kind = "start" /\ ~Slow(p.spell) => UNCHANGED <<castHistory, castEndMs>>
       /\ p.kind = "start" /\ Slow(p.spell) =>
            /\ castHistory # <<>> /\ castHistory[1].spell = p.spell
            /\ DOMAIN castHistory' = DOMAIN castHistory
            /\ \A i \in DOMAIN castHistory :
                 /\ castHistory'[i].id = castHistory[i].id /\ castHistory'[i].spell = castHistory[i].spell
                 /\ i # 1 => castHistory'[i] = castHistory[i]
            /\ CastSpells[p.spell].aimed \/ p.ends <= Latency + castEndMs'
       /\ p.kind = "start" /\ ~CastSpells[p.spell].autoRepeat /\ ~Slow(p.spell) => p.ends <= Latency + castNow
  <2>1. CASE p.kind = "start"
    BY <1>1, <1>5, <1>10, <2>1, StartEffect
  <2>2. CASE p.kind # "start"
    <3>1. castEndMs' \in Nat
      BY <1>3, <1>4, <1>11, <2>2
    <3> QED BY <1>3, <1>11, <2>2, <3>1
  <2> QED BY <2>1, <2>2
<1> HIDE DEF p
<1>14. TimesTypes'
  <2>1. overdue' \in BOOLEAN
    BY <1>10, <1>11 DEF TimesTypes
  <2> QED BY <1>1, <1>2, <1>13, <2>1 DEF TimesTypes
<1>15. SlowInv'
  <2>1. CASE p.kind = "start" /\ Slow(p.spell)
    BY <1>7, <1>12, <2>1 DEF SlowInv
  <2>2. CASE ~(p.kind = "start" /\ Slow(p.spell))
    <3>1. castHistory' = castHistory /\ castEndMs' >= castEndMs
      BY <1>3, <1>4, <1>11, <1>13, <2>2
    <3>2. ASSUME NEW id, NEW spell \in DOMAIN CastSpells, NEW sent \in Int, CountsOn(id, spell, sent)
          PROVE  CountsOn(id, spell, sent)'
      <4>1. CastSpells[spell].cast \in Nat /\ BufferFor(spell) \in Nat /\ BufferFor(spell)' = BufferFor(spell)
        BY TimeFacts DEF BufferFor, GcdTime
      <4>2. castEndMs' >= sent + CastSpells[spell].cast + BufferFor(spell)
        BY <1>3, <1>13, <3>1, <3>2, <4>1 DEF CountsOn
      <4> QED BY <1>1, <3>1, <3>2, <4>1, <4>2 DEF CountsOn
    <3>3. ASSUME NEW i \in SentSlow
          PROVE  CountsOn(toServer[i].id, toServer[i].spell, toServer[i].due - Latency)'
      <4>1. toServer[i].spell \in DOMAIN CastSpells /\ toServer[i].due - Latency \in Int /\ toServer[i].id \in Nat
        BY <1>3, SentItem DEF SentSlow
      <4>2. CountsOn(toServer[i].id, toServer[i].spell, toServer[i].due - Latency)
        BY DEF SlowInv
      <4>3. PICK id \in Nat, spell \in DOMAIN CastSpells, sent \in Int :
              id = toServer[i].id /\ spell = toServer[i].spell /\ sent = toServer[i].due - Latency
        BY <4>1
      <4>4. CountsOn(id, spell, sent)'
        BY <3>2, <4>2, <4>3
      <4> QED BY <1>1, <4>3, <4>4 DEF CountsOn, BufferFor, GcdTime
    <3>4. ASSUME NEW i \in StartedSlow'
          PROVE  CountsOn(toClient[i].id, toClient[i].spell, toClient[i].due - 2 * Latency)'
      <4>1. i + 1 \in StartedSlow /\ toClient'[i] = toClient[i + 1]
        BY <1>8
      <4>2. toClient[i + 1].spell \in DOMAIN CastSpells /\ toClient[i + 1].due - 2 * Latency \in Int
            /\ toClient[i + 1].id \in Nat
        BY <1>3, <4>1, PacketItem DEF StartedSlow
      <4>3. CountsOn(toClient[i + 1].id, toClient[i + 1].spell, toClient[i + 1].due - 2 * Latency)
        BY <4>1 DEF SlowInv
      <4>4. PICK id \in Nat, spell \in DOMAIN CastSpells, sent \in Int :
              id = toClient[i + 1].id /\ spell = toClient[i + 1].spell /\ sent = toClient[i + 1].due - 2 * Latency
        BY <4>2
      <4>5. CountsOn(id, spell, sent)'
        BY <3>2, <4>3, <4>4
      <4> QED BY <1>1, <4>1, <4>4, <4>5 DEF CountsOn, BufferFor, GcdTime
    <3>5. SentSlow' = {} \/ StartedSlow' = {}
      BY <1>7, <1>8 DEF SlowInv
    <3>6. \A i \in SentSlow' : CountsOn(toServer[i].id, toServer[i].spell, toServer[i].due - Latency)'
      BY <1>7, <3>3
    <3>7. \A i, j \in SentSlow' : i = j
      BY <1>7 DEF SlowInv
    <3> QED BY <1>9, <3>4, <3>5, <3>6, <3>7 DEF SlowInv
  <2> QED BY <2>1, <2>2
<1>16. AttemptsInv'
  <2>1. CASE p.kind = "start" /\ Slow(p.spell)
    <3>1. aiming = 0
      BY <1>12, <2>1 DEF SlowInv, CountsOn
    <3>2. \A i \in DOMAIN castHistory : CastSpells[castHistory'[i].spell].cast = 0 => castHistory'[i].castTimeMs = 0
      <4>1. CastSpells[p.spell].cast # 0
        BY <1>4, <2>1, TimeFacts DEF Slow
      <4> QED BY <1>13, <2>1, <4>1 DEF AttemptsInv
    <3>3. /\ \A i \in DOMAIN castHistory' : castHistory'[i].id <= attempts
          /\ \A i, j \in DOMAIN castHistory' : i < j => castHistory'[j].id < castHistory'[i].id
      BY <1>13, <2>1 DEF AttemptsInv
    <3> QED BY <1>1, <1>13, <2>1, <3>1, <3>2, <3>3 DEF AttemptsInv
  <2>2. CASE ~(p.kind = "start" /\ Slow(p.spell))
    <3>1. castHistory' = castHistory /\ (castEndMs = 0 => castEndMs' = 0)
      BY <1>3, <1>11, <1>13, <2>2
    <3>2. StartedSlow = {} => StartedSlow' = {}
      BY <1>8
    <3> QED BY <1>1, <1>7, <3>1, <3>2 DEF AttemptsInv
  <2> QED BY <2>1, <2>2
<1>17. ServerInv'
  <2> SUFFICES ASSUME serverCast # Idle
               PROVE  /\ ~CastSpells[serverCast.spell].autoRepeat /\ LastEnds'
                      /\ (\E k \in DOMAIN toClient' : StartAt(k)') \/ (PushedFrom(0)' /\ InTime')
    BY <1>1 DEF ServerInv
  <2>1. LastEnds /\ ~CastSpells[serverCast.spell].autoRepeat
    BY DEF ServerInv
  <2>2. /\ LastEnds'
        /\ \A k \in Nat : PushedFrom(k + 1) => PushedFrom(k)'
        /\ PushedFrom(1) => HeardEnd' = toClient[1].ends
        /\ \A k \in Nat : k + 1 \in DOMAIN toClient /\ k # 0 /\ StartAt(k + 1) => k \in DOMAIN toClient' /\ StartAt(k)'
    BY <1>1, <2>1, ReadOn
  <2>3. ASSUME NEW k \in DOMAIN toClient, StartAt(k), k # 1
        PROVE  \E l \in DOMAIN toClient' : StartAt(l)'
    <3>1. PICK l \in Nat : l + 1 = k /\ l # 0
      <4>1. k - 1 \in Nat /\ (k - 1) + 1 = k /\ k - 1 # 0
        BY <1>2, <2>3
      <4> QED BY <4>1
    <3> QED BY <2>2, <2>3, <3>1
  <2>4. ASSUME StartAt(1)
        PROVE  PushedFrom(0)' /\ InTime'
    <3>1. p.kind = "start" /\ p.spell = serverCast.spell /\ PushedFrom(1)
      BY <2>4 DEF StartAt, p
    <3>2. PushedFrom(0)' /\ HeardEnd' = p.ends
      BY <2>2, <3>1 DEF p
    <3>3. ~CastSpells[p.spell].aimed => p.ends <= Latency + castEndMs' \/ p.ends <= Latency + castNow
      BY <1>13, <2>1, <3>1
    <3> QED BY <1>1, <3>1, <3>2, <3>3 DEF InTime
  <2>5. ASSUME PushedFrom(0), InTime
        PROVE  PushedFrom(0)' /\ InTime'
    <3>1. p.kind = "delayed" /\ p.id = serverCast.id
      BY <1>2, <2>5 DEF PushedFrom, Push, p
    <3>2. PushedFrom(1)
      BY <1>2, <2>5 DEF PushedFrom
    <3>3. PushedFrom(0)' /\ HeardEnd' = p.ends
      BY <2>2, <3>2 DEF p
    <3>4. HeardEnd = p.ends - p.time
      BY <1>1 DEF HeardEnd, p
    <3>5. /\ castEndMs' = (IF castNow < castEndMs THEN castEndMs + p.time ELSE castEndMs)
          /\ overdue' = (overdue \/ (castNow >= castEndMs /\ p.id = serverCast.id))
      BY <1>11, <3>1
    <3> SUFFICES ASSUME ~CastSpells[serverCast.spell].aimed, ~overdue'
                 PROVE  p.ends <= Latency + castEndMs'
      BY <1>1, <3>3 DEF InTime
    <3>6. castNow < castEndMs /\ ~overdue
      <4>1. ~(castNow >= castEndMs) /\ ~overdue
        BY <3>1, <3>5, Zenon
      <4> QED BY <1>3, <4>1
    <3>7. p.ends - p.time <= Latency + castEndMs \/ p.ends - p.time <= Latency + castNow
      BY <2>5, <3>4, <3>6 DEF InTime
    <3> QED BY <1>3, <1>4, <3>5, <3>6, <3>7
  <2> QED BY <2>1, <2>2, <2>3, <2>4, <2>5 DEF ServerInv
<1> QED BY <1>6, <1>14, <1>15, <1>16, <1>17

LEMMA TimesInitInv == TimesInit => TimesInv
<1> SUFFICES ASSUME TimesInit PROVE TimesInv
  OBVIOUS
<1>1. toServer = <<>> /\ toClient = <<>> /\ castHistory = <<>> /\ serverCast = Idle /\ aiming = 0
  BY DEF TimesInit
<1>2. TimesTypes
  <2>1. /\ castNow = 1 /\ castEndMs = 0 /\ gcdEndMs = 0 /\ attempts = 0 /\ overdue = FALSE
    BY DEF TimesInit
  <2>2. Idle \in [id : Nat, spell : DOMAIN CastSpells \cup {"none"}, ends : Nat]
    BY DEF Idle
  <2>3. <<>> \in Seq(CastEntry) /\ <<>> \in Seq(SentCast) /\ <<>> \in Seq(TimePacket)
    OBVIOUS
  <2>4. castNow \in Nat /\ castEndMs \in Nat /\ gcdEndMs \in Nat /\ attempts \in Nat /\ aiming \in Nat
    BY <1>1, <2>1
  <2> QED BY <1>1, <2>1, <2>2, <2>3, <2>4 DEF TimesTypes
<1>3. DueInv /\ SlowInv /\ AttemptsInv /\ ServerInv
  BY <1>1 DEF DueInv, SlowInv, AttemptsInv, ServerInv, SentSlow, StartedSlow
<1> QED BY <1>2, <1>3 DEF TimesInv

LEMMA TimesStepInv ==
  ASSUME TimesInv, RoundTrips, RoundingCovered, [TimesNext]_castTimeVars
  PROVE  TimesInv'
<1>1. CASE UNCHANGED castTimeVars
  <2>1. UNCHANGED <<castNow, castEndMs, gcdEndMs, castHistory, attempts, aiming, toServer, serverCast, toClient, overdue>>
    BY <1>1 DEF castTimeVars
  <2>2. SentSlow' = SentSlow /\ StartedSlow' = StartedSlow
    BY <2>1 DEF SentSlow, StartedSlow
  <2>4. TimesTypes' /\ DueInv'
    BY <2>1 DEF TimesInv, TimesTypes, DueInv
  <2>5. AttemptsInv'
    BY <2>1, <2>2 DEF TimesInv, AttemptsInv
  <2>6. SlowInv'
    BY <2>1, <2>2 DEF TimesInv, SlowInv, CountsOn, BufferFor, GcdTime
  <2>3. ServerInv'
    BY <2>1 DEF TimesInv, ServerInv, LastEnds, StartAt, PushedFrom, Push, InTime, HeardEnd
  <2> QED BY <2>3, <2>4, <2>5, <2>6 DEF TimesInv
<1>2. CASE TimesNext
  BY <1>2, SentInv, NotSentInv, ClickInv, ReceivesInv, DelaysInv, ReadInv, CastTickInv DEF TimesNext
<1> QED BY <1>1, <1>2

LEMMA FreeStep ==
  ASSUME TimesInv
  PROVE  SendsWhenFree
<1> USE DEF TimesInv
<1> SUFFICES ASSUME NEW spell \in DOMAIN CastSpells, Sent(spell), serverCast # Idle,
                    ~Unheard, ~CastSpells[serverCast.spell].aimed
             PROVE  serverCast.ends <= castNow + Latency
  BY DEF SendsWhenFree
<1>1. ~overdue /\ \A i \in DOMAIN toClient : toClient[i].id # serverCast.id
  BY DEF Unheard
<1>2. PushedFrom(0) /\ InTime
  BY <1>1 DEF ServerInv, StartAt
<1>3. toClient = <<>>
  <2> SUFFICES ASSUME toClient # <<>> PROVE FALSE
    OBVIOUS
  <2>1. 1 \in DOMAIN toClient
    BY DEF TimesTypes
  <2> QED BY <1>1, <1>2, <2>1 DEF PushedFrom, Push
<1>4. serverCast.ends <= Latency + castEndMs \/ serverCast.ends <= Latency + castNow
  BY <1>1, <1>2, <1>3 DEF InTime, HeardEnd
<1>5. castEndMs <= castNow
  BY DEF Sent, MayAttempt
<1>6. castEndMs \in Nat /\ castNow \in Nat /\ serverCast.ends \in Nat /\ Latency \in Nat
  BY TimeConstants DEF TimesTypes
<1> QED BY <1>4, <1>5, <1>6

(* A cast the client sends on reaches the server after the cast running     *)
(* there, but for what it cannot know: however the server's cast times      *)
(* differ from the client's, however often they are put off and however the *)
(* packets of both sides cross.  For any spells, latency and number of      *)
(* casts, when a cast takes longer than a packet there and back, and the    *)
(* buffer covers a rounding error.                                          *)
THEOREM NotTooSoonTheorem ==
  ASSUME RoundTrips, RoundingCovered
  PROVE  TimesSpec => NotTooSoon
<1>1. TimesInv /\ [TimesNext]_castTimeVars => TimesInv'
  BY TimesStepInv
<1>2. TimesInv => [SendsWhenFree]_castTimeVars
  BY FreeStep
<1> QED
  BY <1>1, <1>2, TimesInitInv, PTL DEF TimesSpec, NotTooSoon
------------------------------------------------------------------------------
(* Spells that land.  The packet handled is one the server sent, and what  *)
(* was told is what has been read of it.                                    *)
IsGo(p) == \E caster \in Fighters, spell \in DOMAIN LandingSpells, o \in Outcomes, target \in {NoTarget, Me} :
             p = GoPacket(caster, spell, o, target)

HitCount(p) == Len(p.hits)
MissCount(p) == Len(p.misses)

(* What a go packet holds.                                                  *)
LEMMA GoHolds ==
  ASSUME NEW p, IsGo(p)
  PROVE  /\ p.kind = "go" /\ p.caster \in Fighters /\ p.spell \in DOMAIN LandingSpells
         /\ p.hits \in Seq(Fighters) /\ p.misses \in Seq([unit : Fighters, how : STRING])
         /\ \A i, j \in DOMAIN p.hits : p.hits[i] = p.hits[j] => i = j
         /\ p.target \in {NoTarget, Me}
<1> PICK caster \in Fighters, spell \in DOMAIN LandingSpells, o \in Outcomes, target \in {NoTarget, Me} :
           p = GoPacket(caster, spell, o, target)
  BY DEF IsGo
<1> Outcome(o)
  BY CombatConstants
<1> QED
  BY DEF GoPacket, Outcome

Reflects(p, i) == {j \in 1..(i - 1) : p.misses[j].how = "reflect"}

LEMMA MissPlace ==
  ASSUME NEW p, IsGo(p), NEW i \in Nat, i > 0
  PROVE  /\ IsFiniteSet(Reflects(p, i)) /\ Cardinality(Reflects(p, i)) \in Nat /\ HitCount(p) \in Nat
         /\ MissAt(p, i) \in Nat /\ MissAt(p, i) = 2 + HitCount(p) + 2 * i + Cardinality(Reflects(p, i))
<1>1. Reflects(p, i) \in SUBSET (1..(i - 1)) /\ IsFiniteSet(1..(i - 1))
  BY FS_Interval DEF Reflects
<1>2. IsFiniteSet(Reflects(p, i)) /\ Cardinality(Reflects(p, i)) \in Nat
  BY <1>1, FS_Subset, FS_CardinalityType
<1>3. HitCount(p) \in Nat
  BY GoHolds DEF HitCount
<1>4. MissAt(p, i) = 4 + HitCount(p) + 2 * (i - 1) + Cardinality(Reflects(p, i))
  BY DEF MissAt, Reflects, HitCount
<1> QED
  BY <1>2, <1>3, <1>4

(* Each miss begins behind the one before it; one that was reflected takes  *)
(* a field more.                                                            *)
LEMMA NextMiss ==
  ASSUME NEW p, IsGo(p), NEW i \in Nat, i > 0
  PROVE  /\ MissAt(p, 1) = 4 + HitCount(p)
         /\ p.misses[i].how = "reflect" => MissAt(p, i + 1) = MissAt(p, i) + 3
         /\ p.misses[i].how # "reflect" => MissAt(p, i + 1) = MissAt(p, i) + 2
<1>1. MissAt(p, 1) = 4 + HitCount(p)
  <2>1. Reflects(p, 1) = {}
    BY DEF Reflects
  <2>2. Cardinality(Reflects(p, 1)) = 0
    BY <2>1, FS_EmptySet
  <2>3. MissAt(p, 1) = 2 + HitCount(p) + 2 * 1 + Cardinality(Reflects(p, 1)) /\ HitCount(p) \in Nat
    BY MissPlace
  <2> QED
    BY <2>2, <2>3
<1>2. i + 1 \in Nat /\ i + 1 > 0
  OBVIOUS
<1>3. /\ MissAt(p, i) = 2 + HitCount(p) + 2 * i + Cardinality(Reflects(p, i))
      /\ MissAt(p, i + 1) = 2 + HitCount(p) + 2 * (i + 1) + Cardinality(Reflects(p, i + 1))
      /\ Cardinality(Reflects(p, i)) \in Nat /\ HitCount(p) \in Nat /\ IsFiniteSet(Reflects(p, i))
  BY <1>2, MissPlace
<1>4. ASSUME p.misses[i].how = "reflect" PROVE MissAt(p, i + 1) = MissAt(p, i) + 3
  <2> Reflects(p, i + 1) = Reflects(p, i) \cup {i} /\ i \notin Reflects(p, i)
    BY <1>4 DEF Reflects
  <2> Cardinality(Reflects(p, i + 1)) = Cardinality(Reflects(p, i)) + 1
    BY <1>3, FS_AddElement
  <2> QED
    BY <1>3
<1>5. ASSUME p.misses[i].how # "reflect" PROVE MissAt(p, i + 1) = MissAt(p, i) + 2
  <2> Reflects(p, i + 1) = Reflects(p, i)
    BY <1>5 DEF Reflects
  <2> Cardinality(Reflects(p, i + 1)) = Cardinality(Reflects(p, i))
    OBVIOUS
  <2> QED
    BY <1>3
<1> QED
  BY <1>1, <1>4, <1>5

LEMMA LaterMiss ==
  ASSUME NEW p, IsGo(p), NEW i \in Nat, i > 0, NEW j \in Nat, i <= j
  PROVE  MissAt(p, i) <= MissAt(p, j)
<1>1. /\ HitCount(p) \in Nat
      /\ MissAt(p, i) = 2 + HitCount(p) + 2 * i + Cardinality(Reflects(p, i))
      /\ MissAt(p, j) = 2 + HitCount(p) + 2 * j + Cardinality(Reflects(p, j))
      /\ Cardinality(Reflects(p, i)) \in Nat /\ Cardinality(Reflects(p, j)) \in Nat
      /\ IsFiniteSet(Reflects(p, j))
  BY MissPlace
<1>2. Reflects(p, i) \in SUBSET Reflects(p, j)
  BY DEF Reflects
<1>3. Cardinality(Reflects(p, i)) <= Cardinality(Reflects(p, j))
  BY <1>1, <1>2, FS_Subset
<1> QED
  BY <1>1, <1>3

(* The fields as SpellGoHook reads them, one after the other.               *)
LEMMA GoFields ==
  ASSUME NEW p, IsGo(p)
  PROVE  LET fields == FieldsOf(p)  h == HitCount(p)  m == MissCount(p) IN
         /\ h \in Nat /\ m \in Nat /\ MaskAt(p) \in Nat
         /\ Get(fields, 2, "u8") = h
         /\ \A i \in 1..h : Get(fields, 2 + i, "u64") = p.hits[i]
         /\ Aligned(fields, 3 + h, "u8") /\ fields[3 + h].value = m
         /\ \A i \in 1..m : /\ MissAt(p, i) \in Nat
                            /\ Get(fields, MissAt(p, i), "u64") = p.misses[i].unit
                            /\ Get(fields, MissAt(p, i) + 1, "u8") = p.misses[i].how
         /\ Get(fields, MaskAt(p), "u16") = "unit" <=> p.target # NoTarget
         /\ p.target # NoTarget => Get(fields, MaskAt(p) + 1, "packed") = p.target
<1> DEFINE h == HitCount(p)  m == MissCount(p)
           fields == FieldsOf(p)
           last == MaskAt(p) + IF p.target = NoTarget THEN 0 ELSE 1
<1>1. p.kind = "go" /\ h \in Nat /\ m \in Nat
  BY GoHolds DEF HitCount, MissCount
<1>2. fields = [n \in 1..last |-> GoField(p, n)]
  BY <1>1 DEF FieldsOf
<1>3. /\ MaskAt(p) = MissAt(p, m + 1) /\ MaskAt(p) \in Nat /\ MissAt(p, 1) = 4 + h
      /\ 4 + h <= MaskAt(p)
  <2>1. MaskAt(p) = MissAt(p, m + 1)
    BY DEF MaskAt, MissCount
  <2>2. m + 1 \in Nat /\ m + 1 > 0 /\ 1 <= m + 1
    BY <1>1
  <2>3. MissAt(p, m + 1) \in Nat /\ MissAt(p, 1) = 4 + h
    BY <2>2, MissPlace, NextMiss
  <2>4. MissAt(p, 1) <= MissAt(p, m + 1)
    BY <2>2, LaterMiss
  <2> QED
    BY <1>1, <2>1, <2>3, <2>4
<1>4. \A n \in Nat : \A type, what : (n > 0 /\ n <= MaskAt(p) /\ GoField(p, n) = PacketField(type, what)) =>
        Aligned(fields, n, type) /\ fields[n].value = what /\ Get(fields, n, type) = what
  <2> SUFFICES ASSUME NEW n \in Nat, NEW type, NEW what, n > 0, n <= MaskAt(p),
                      GoField(p, n) = PacketField(type, what)
               PROVE  Aligned(fields, n, type) /\ fields[n].value = what /\ Get(fields, n, type) = what
    OBVIOUS
  <2> n \in DOMAIN fields /\ fields[n] = PacketField(type, what)
    BY <1>2, <1>3
  <2> QED
    BY DEF Aligned, Get, PacketField
<1> HIDE DEF fields
<1>5. Get(fields, 2, "u8") = h
  <2> 2 \in Nat /\ 2 > 0 /\ 2 <= MaskAt(p) /\ 2 # 1
    BY <1>1, <1>3
  <2> GoField(p, 2) = PacketField("u8", h)
    BY <1>1, <1>3 DEF GoField, HitCount, MissCount
  <2> QED
    BY <1>4
<1>6. ASSUME NEW i \in 1..h PROVE Get(fields, 2 + i, "u64") = p.hits[i]
  <2> /\ 2 + i \in Nat /\ 2 + i > 0 /\ 2 + i <= MaskAt(p) /\ 2 + i \in 3..(2 + h) /\ (2 + i) - 2 = i
      /\ 2 + i # 1 /\ 2 + i # 2
    BY <1>1, <1>3
  <2> GoField(p, 2 + i) = PacketField("u64", p.hits[i])
    BY <1>3 DEF GoField, HitCount, MissCount
  <2> QED
    BY <1>4
<1>7. Aligned(fields, 3 + h, "u8") /\ fields[3 + h].value = m
  <2> GoField(p, 3 + h) = PacketField("u8", m)
    BY <1>1, <1>3 DEF GoField, HitCount, MissCount
  <2> QED
    BY <1>1, <1>3, <1>4
<1>8. ASSUME NEW i \in 1..m
      PROVE  /\ MissAt(p, i) \in Nat
             /\ Get(fields, MissAt(p, i), "u64") = p.misses[i].unit
             /\ Get(fields, MissAt(p, i) + 1, "u8") = p.misses[i].how
  <2> DEFINE at == MissAt(p, i)
  <2>1. i \in Nat /\ i > 0 /\ i + 1 \in Nat /\ i + 1 > 0 /\ m + 1 \in Nat /\ 1 <= i /\ i + 1 <= m + 1
    BY <1>1
  <2>2. at \in Nat /\ MissAt(p, i + 1) \in Nat /\ MissAt(p, i + 1) >= at + 2
    <3> at \in Nat /\ MissAt(p, i + 1) \in Nat
      BY <2>1, MissPlace
    <3> MissAt(p, i + 1) = at + 2 \/ MissAt(p, i + 1) = at + 3
      BY <2>1, NextMiss
    <3> QED
      OBVIOUS
  <2>3. MissAt(p, 1) <= at
    <3> MissAt(p, 1) <= at
      BY <2>1, LaterMiss
    <3> QED
      BY <1>1, <1>3, <2>1, <2>2
  <2>4. MissAt(p, i + 1) <= MaskAt(p)
    <3> MissAt(p, i + 1) <= MissAt(p, m + 1)
      BY <2>1, LaterMiss
    <3> QED
      BY <1>1, <1>3, <2>1, <2>2
  <2>5. ASSUME NEW n \in {at, at + 1}
        PROVE  (CHOOSE k \in DOMAIN p.misses : MissAt(p, k) <= n /\ n < MissAt(p, k + 1)) = i
    <3>1. DOMAIN p.misses = 1..m
      BY GoHolds DEF MissCount
    <3>2. MissAt(p, i) <= n /\ n < MissAt(p, i + 1)
      BY <2>2
    <3>3. ASSUME NEW k \in 1..m, MissAt(p, k) <= n, n < MissAt(p, k + 1) PROVE k = i
      <4>1. k \in Nat /\ k > 0 /\ k + 1 \in Nat /\ k + 1 > 0
        BY <1>1
      <4>2. MissAt(p, k) \in Nat /\ MissAt(p, k + 1) \in Nat
        BY <4>1, MissPlace
      <4>3. ASSUME k < i PROVE FALSE
        <5> MissAt(p, k + 1) <= MissAt(p, i)
          BY <2>1, <4>1, <4>3, LaterMiss
        <5> QED
          BY <2>1, <2>2, <3>2, <3>3, <4>1, <4>2, <4>3
      <4>4. ASSUME i < k PROVE FALSE
        <5> MissAt(p, i + 1) <= MissAt(p, k)
          BY <2>1, <4>1, <4>4, LaterMiss
        <5> QED
          BY <2>1, <2>2, <3>2, <3>3, <4>1, <4>2, <4>4
      <4> QED
        BY <2>1, <4>1, <4>3, <4>4
    <3> QED
      BY <3>1, <3>2, <3>3
  <2>6. MissField(p, at) = PacketField("u64", p.misses[i].unit)
    <3> at + 1 # at
      BY <2>2
    <3> (CHOOSE k \in DOMAIN p.misses : MissAt(p, k) <= at /\ at < MissAt(p, k + 1)) = i
      BY <2>5
    <3> QED
      BY DEF MissField
  <2>7. MissField(p, at + 1) = PacketField("u8", p.misses[i].how)
    <3> at + 1 # at
      BY <2>2
    <3> (CHOOSE k \in DOMAIN p.misses : MissAt(p, k) <= at + 1 /\ at + 1 < MissAt(p, k + 1)) = i
      BY <2>5
    <3> QED
      BY DEF MissField
  <2>8. /\ at \in MissAt(p, 1)..(MaskAt(p) - 1) /\ at + 1 \in MissAt(p, 1)..(MaskAt(p) - 1)
        /\ at > 3 + h
    BY <1>1, <1>3, <2>2, <2>3, <2>4
  <2> HIDE DEF at
  <2>9. \A n \in MissAt(p, 1)..(MaskAt(p) - 1) : GoField(p, n) = MissField(p, n) /\ n \in Nat /\ n > 0 /\ n <= MaskAt(p)
    <3> SUFFICES ASSUME NEW n \in MissAt(p, 1)..(MaskAt(p) - 1)
                 PROVE  GoField(p, n) = MissField(p, n) /\ n \in Nat /\ n > 0 /\ n <= MaskAt(p)
      OBVIOUS
    <3> n \in Nat /\ n > 3 + h /\ n < MaskAt(p)
      BY <1>1, <1>3
    <3> n # 1 /\ n # 2 /\ n \notin 3..(2 + h) /\ n # 3 + h /\ n # MaskAt(p)
      BY <1>1, <1>3
    <3> QED
      BY <1>3 DEF GoField, HitCount, MissCount
  <2>10. Get(fields, at, "u64") = p.misses[i].unit
    BY <1>4, <2>6, <2>8, <2>9
  <2>11. Get(fields, at + 1, "u8") = p.misses[i].how
    BY <1>4, <2>7, <2>8, <2>9
  <2> QED
    BY <2>2, <2>10, <2>11 DEF at
<1>9. MaskAt(p) \notin MissAt(p, 1)..(MaskAt(p) - 1) /\ MaskAt(p) > 3 + h
  BY <1>1, <1>3
<1>10. GoField(p, MaskAt(p)) = PacketField("u16", IF p.target = NoTarget THEN "self" ELSE "unit")
  BY <1>1, <1>3, <1>9 DEF GoField, HitCount, MissCount
<1>11. Get(fields, MaskAt(p), "u16") = "unit" <=> p.target # NoTarget
  <2> MaskAt(p) \in Nat /\ MaskAt(p) > 0 /\ MaskAt(p) <= MaskAt(p)
    BY <1>1, <1>3
  <2> Get(fields, MaskAt(p), "u16") = IF p.target = NoTarget THEN "self" ELSE "unit"
    BY <1>4, <1>10
  <2> QED
    OBVIOUS
<1>12. ASSUME p.target # NoTarget PROVE Get(fields, MaskAt(p) + 1, "packed") = p.target
  <2>1. /\ MaskAt(p) + 1 \notin MissAt(p, 1)..(MaskAt(p) - 1) /\ MaskAt(p) + 1 # MaskAt(p)
        /\ MaskAt(p) + 1 # 1 /\ MaskAt(p) + 1 # 2 /\ MaskAt(p) + 1 # 3 + h /\ MaskAt(p) + 1 \notin 3..(2 + h)
    BY <1>1, <1>3, <1>9
  <2>2. GoField(p, MaskAt(p) + 1) = PacketField("packed", p.target)
    BY <2>1 DEF GoField, HitCount, MissCount
  <2>3. MaskAt(p) + 1 \in DOMAIN fields /\ fields[MaskAt(p) + 1] = GoField(p, MaskAt(p) + 1)
    BY <1>2, <1>3, <1>12
  <2> QED
    BY <2>2, <2>3 DEF Get, Aligned, PacketField
<1> QED
  BY <1>1, <1>3, <1>5, <1>6, <1>7, <1>8, <1>11, <1>12 DEF fields

IsList(s) == \E S : s \in Seq(S)

(* What one more event is to the list.                                      *)
LEMMA ToldMore ==
  ASSUME NEW s, IsList(s), NEW r
  PROVE  /\ IsList(s \o <<r>>) /\ Len(s) \in Nat /\ DOMAIN s = 1..Len(s) /\ s \o <<>> = s
         /\ Len(s \o <<r>>) = Len(s) + 1 /\ DOMAIN (s \o <<r>>) = 1..(Len(s) + 1)
         /\ \A i \in 1..Len(s) : (s \o <<r>>)[i] = s[i]
         /\ (s \o <<r>>)[Len(s) + 1] = r
<1>1. PICK S : s \in Seq(S)
  BY DEF IsList
<1>2. s \in Seq(S \cup {r}) /\ <<r>> \in Seq(S \cup {r}) /\ Len(<<r>>) = 1 /\ <<r>>[1] = r
  BY <1>1
<1>3. Len(s) \in Nat /\ DOMAIN s = 1..Len(s) /\ s \o <<>> = s
  BY <1>1, LenProperties, ConcatEmptySeq
<1>4. /\ s \o <<r>> \in Seq(S \cup {r}) /\ Len(s \o <<r>>) = Len(s) + 1
      /\ \A i \in 1 .. Len(s) + 1 : (s \o <<r>>)[i] = IF i <= Len(s) THEN s[i] ELSE <<r>>[i - Len(s)]
  BY <1>2, ConcatProperties
<1>5. (s \o <<r>>)[Len(s) + 1] = r
  <2> Len(s) + 1 \in 1 .. Len(s) + 1 /\ ~(Len(s) + 1 <= Len(s)) /\ Len(s) + 1 - Len(s) = 1
    BY <1>3
  <2> QED
    BY <1>2, <1>4
<1>6. \A i \in 1..Len(s) : (s \o <<r>>)[i] = s[i]
  BY <1>3, <1>4
<1>7. DOMAIN (s \o <<r>>) = 1..(Len(s) + 1)
  BY <1>4, LenProperties
<1> QED
  BY <1>3, <1>4, <1>5, <1>6, <1>7 DEF IsList

(* A landed spell whose units the array holds.                              *)
Fine == packet.kind = "go" /\ HitCount(packet) <= ArraySize
MissReport(i) == [event |-> "SPELL_MISS", self |-> packet.caster = Me, from |-> packet.caster,
                  on |-> packet.misses[i].unit, what |-> packet.misses[i].how]
GoReport == [event |-> "SPELL_GO", self |-> packet.caster = Me, from |-> packet.caster,
             on |-> packet.target, what |-> <<HitCount(packet), MissCount(packet)>>]

InArray == \A i \in 1..HitCount(packet) : targetHitGuids[i] = packet.hits[i]
MissesTold ==
  /\ missed = MissCount(packet) /\ missesRead \in 0..missed
  /\ IsList(told) /\ missesRead <= Len(told)
  /\ \A i \in 1..missesRead : told[i] = MissReport(i)
  /\ \A i \in 1..Len(told) : told[i].event = "SPELL_MISS" => i <= missesRead
AtMisses == doing = "misses" => Len(told) = missesRead /\ readAt = MissAt(packet, missesRead + 1)
GoTold ==
  doing # "misses" =>
    /\ missesRead = missed
    /\ "go" \in eventGates => missed + 1 \in 1..Len(told) /\ told[missed + 1] = GoReport

(* Whom TriggerAuraCastEvent has told of an effect so far.                  *)
Reached(unit, k) ==
  LET e == CastEffects[k] IN
  \E t \in 1..Rounds(e, HitCount(packet)) :
    /\ k < effect \/ (k = effect /\ t < turn)
    /\ ~Spared(e, HitCount(packet), t) /\ Affected(e, HitCount(packet), t) = unit
AurasTold ==
  (doing # "misses" /\ "aura" \in eventGates) =>
    /\ \A k \in DOMAIN CastEffects : \A unit :
         /\ AuraCasts(unit, k) # {} <=> Reached(unit, k)
         /\ \A i, j \in AuraCasts(unit, k) : i = j
AtEffect ==
  /\ doing \in {"misses", "auras", "handled"}
  /\ effect \in 1..(Len(CastEffects) + 1) /\ turn \in Nat \ {0}
  /\ doing = "misses" => effect = 1 /\ turn = 1
  /\ doing = "auras" => "aura" \in eventGates /\ effect <= Len(CastEffects)
  /\ (doing = "handled" /\ "aura" \in eventGates) => effect = Len(CastEffects) + 1

CombatInv ==
  /\ packet.kind = "go" => IsGo(packet)
  /\ Fine => InArray /\ MissesTold /\ AtMisses /\ GoTold /\ AurasTold /\ AtEffect

(* What SpellGoHook starts with.                                            *)
LEMMA SpellGoInv ==
  ASSUME NEW p, IsGo(p), Handle(p)
  PROVE  CombatInv'
<1> USE GoFields
<1> DEFINE h == HitCount(p)  fields == FieldsOf(p)
<1>1. p.kind = "go" /\ packet' = p
  BY GoHolds DEF Handle
<1>2. SpellGo(p)
  BY <1>1 DEF Handle, Logs
<1>3. SUFFICES ASSUME h <= ArraySize
               PROVE  (InArray /\ MissesTold /\ AtMisses /\ GoTold /\ AurasTold /\ AtEffect)'
  BY <1>1 DEF CombatInv, Fine
<1>4. /\ h \in Nat /\ MissCount(p) \in Nat /\ ArraySize \in Nat /\ Get(fields, 2, "u8") = h
      /\ Aligned(fields, 3 + h, "u8") /\ fields[3 + h].value = MissCount(p)
      /\ \A i \in 1..h : Get(fields, 2 + i, "u64") = p.hits[i]
  BY CombatConstants
<1>5. (IF h < ArraySize THEN h ELSE ArraySize) = h
  BY <1>3, <1>4
<1>6. /\ targetHitGuids' = [i \in 1..ArraySize |-> IF i <= h THEN Get(fields, 2 + i, "u64") ELSE targetHitGuids[i]]
      /\ missed' = MissCount(p) /\ readAt' = 3 + h + 1 /\ told' = <<>>
      /\ doing' = "misses" /\ missesRead' = 0 /\ effect' = 1 /\ turn' = 1
  BY <1>2, <1>4, <1>5 DEF SpellGo
<1>7. InArray'
  <2> SUFFICES ASSUME NEW i \in 1..h PROVE targetHitGuids'[i] = p.hits[i]
    BY <1>1 DEF InArray
  <2> i \in 1..ArraySize /\ i <= h
    BY <1>3, <1>4
  <2> QED
    BY <1>4, <1>6
<1>8. Len(told') = 0 /\ IsList(told')
  <2> <<>> \in Seq({})
    OBVIOUS
  <2> QED
    BY <1>6 DEF IsList
<1>9. MissesTold'
  BY <1>1, <1>4, <1>6, <1>8 DEF MissesTold
<1>10. AtMisses'
  <2> MissAt(p, 1) = 4 + h /\ missesRead' + 1 = 1 /\ 3 + h + 1 = 4 + h
    BY <1>4, <1>6, NextMiss
  <2> QED
    BY <1>1, <1>6, <1>8 DEF AtMisses
<1>11. AtEffect'
  <2> Len(CastEffects') \in Nat
    BY <1>1, GoHolds, CombatConstants DEF CastEffects
  <2> QED
    BY <1>6 DEF AtEffect
<1> QED
  BY <1>6, <1>7, <1>9, <1>10, <1>11 DEF GoTold, AurasTold

(* One miss more is told, and the hook reads on where the next one begins.  *)
LEMMA ReadMissInv ==
  ASSUME CombatInv, ReadMiss
  PROVE  CombatInv'
<1>1. /\ doing = "misses" /\ missesRead < missed /\ missesRead' = missesRead + 1
      /\ UNCHANGED <<eventGates, packet, targetHitGuids, doing, missed, effect, turn>>
  BY DEF ReadMiss
<1>2. SUFFICES ASSUME Fine
               PROVE  (InArray /\ MissesTold /\ AtMisses /\ GoTold /\ AurasTold /\ AtEffect)'
  BY <1>1 DEF CombatInv, Fine
<1>3. IsGo(packet) /\ InArray /\ MissesTold /\ AtMisses /\ AtEffect
  BY <1>2 DEF CombatInv, Fine
<1> DEFINE n == missesRead + 1
<1>4. /\ MissCount(packet) \in Nat /\ missed = MissCount(packet) /\ n \in 1..MissCount(packet)
      /\ n \in Nat /\ n > 0 /\ missesRead \in Nat
  BY <1>1, <1>3, GoFields DEF MissesTold
<1>5. /\ readAt = MissAt(packet, n) /\ readAt \in Nat /\ Len(told) = missesRead
      /\ Get(FieldsOf(packet), readAt, "u64") = packet.misses[n].unit
      /\ Get(FieldsOf(packet), readAt + 1, "u8") = packet.misses[n].how
  BY <1>1, <1>3, <1>4, GoFields DEF AtMisses
<1>6. told' = told \o <<MissReport(n)>>
  BY <1>5 DEF ReadMiss, TriggerSpellMissEvent, Event, MissReport
<1>7. readAt' = MissAt(packet, n + 1)
  <2>1. readAt' = Behind(FieldsOf(packet), readAt)
    BY DEF ReadMiss
  <2>2. CASE packet.misses[n].how = "reflect"
    <3> MissAt(packet, n + 1) = readAt + 3
      BY <1>3, <1>4, <1>5, <2>2, NextMiss
    <3> readAt' = readAt + 2 + 1
      BY <1>5, <2>1, <2>2 DEF Behind
    <3> QED
      BY <1>5
  <2>3. CASE packet.misses[n].how # "reflect"
    <3> MissAt(packet, n + 1) = readAt + 2
      BY <1>3, <1>4, <1>5, <2>3, NextMiss
    <3> readAt' = readAt + 2 + 0
      BY <1>5, <2>1, <2>3 DEF Behind
    <3> QED
      BY <1>5
  <2> QED
    BY <2>2, <2>3
<1>8. /\ IsList(told') /\ Len(told') = n /\ told'[n] = MissReport(n)
      /\ \A i \in 1..missesRead : told'[i] = told[i]
  <2> DEFINE longer == told \o <<MissReport(n)>>
  <2>1. IsList(told) /\ Len(told) = missesRead
    BY <1>3, <1>5 DEF MissesTold
  <2>2. /\ IsList(longer) /\ Len(longer) = Len(told) + 1
        /\ \A i \in 1..Len(told) : longer[i] = told[i]
        /\ longer[Len(told) + 1] = MissReport(n)
    BY <2>1, ToldMore
  <2> HIDE DEF longer
  <2>3. told' = longer
    BY <1>6 DEF longer
  <2> QED
    BY <2>1, <2>2, <2>3
<1>9. \A i : MissReport(i)' = MissReport(i)
  BY <1>1 DEF MissReport
<1>10. MissesTold'
  <2>1. missed' = MissCount(packet') /\ missesRead' \in 0..missed' /\ IsList(told') /\ missesRead' <= Len(told')
    BY <1>1, <1>4, <1>8
  <2>2. ASSUME NEW i \in 1..n PROVE told'[i] = MissReport(i)
    <3>1. i = n \/ i \in 1..missesRead
      BY <1>4
    <3> QED
      BY <1>3, <1>8, <3>1 DEF MissesTold
  <2> QED
    BY <1>1, <1>8, <1>9, <2>1, <2>2 DEF MissesTold
<1>11. (InArray /\ AtMisses /\ GoTold /\ AurasTold /\ AtEffect)'
  <2>1. InArray' /\ AtEffect'
    BY <1>1, <1>3 DEF InArray, AtEffect, CastEffects
  <2>2. AtMisses'
    BY <1>1, <1>7, <1>8 DEF AtMisses
  <2> QED
    BY <1>1, <2>1, <2>2 DEF GoTold, AurasTold
<1> QED
  BY <1>10, <1>11

(* No aura is told of before the effects are gone through.                  *)
LEMMA LandedInv ==
  ASSUME CombatInv, Landed
  PROVE  CombatInv'
<1>1. /\ doing = "misses" /\ missesRead = missed
      /\ doing' = IF "aura" \in eventGates THEN "auras" ELSE "handled"
      /\ UNCHANGED <<eventGates, packet, targetHitGuids, missed, missesRead, effect, turn>>
  BY DEF Landed
<1>2. SUFFICES ASSUME Fine
               PROVE  (InArray /\ MissesTold /\ AtMisses /\ GoTold /\ AurasTold /\ AtEffect)'
  BY <1>1 DEF CombatInv, Fine
<1>3. IsGo(packet) /\ InArray /\ MissesTold /\ AtMisses /\ AtEffect
  BY <1>2 DEF CombatInv, Fine
<1> DEFINE m == MissCount(packet)
<1>4. /\ m \in Nat /\ missed = m /\ missesRead = m /\ Len(told) = m /\ readAt = MaskAt(packet)
      /\ Get(FieldsOf(packet), 2, "u8") = HitCount(packet) /\ IsList(told)
      /\ Get(FieldsOf(packet), readAt, "u16") = "unit" <=> packet.target # NoTarget
      /\ packet.target # NoTarget => Get(FieldsOf(packet), readAt + 1, "packed") = packet.target
  BY <1>1, <1>3, GoFields DEF MissesTold, AtMisses, MaskAt, MissCount
<1>5. /\ "go" \in eventGates => told' = told \o <<GoReport>>
      /\ "go" \notin eventGates => told' = told \o <<>>
  BY <1>4 DEF Landed, Event, GoReport
<1>6. DOMAIN told = 1..m /\ told \o <<>> = told
  BY <1>4, ToldMore
<1>7. ASSUME "go" \in eventGates
      PROVE  /\ IsList(told') /\ Len(told') = m + 1 /\ DOMAIN told' = 1..(m + 1)
             /\ \A i \in 1..m : told'[i] = told[i]
             /\ told'[m + 1] = GoReport
  <2>1. told' = told \o <<GoReport>>
    BY <1>5, <1>7
  <2>2. /\ IsList(told') /\ Len(told') = Len(told) + 1 /\ DOMAIN told' = 1..(Len(told) + 1)
        /\ \A i \in 1..Len(told) : told'[i] = told[i]
        /\ told'[Len(told) + 1] = GoReport
    <3> DEFINE longer == told \o <<GoReport>>
    <3> IsList(told)
      BY <1>4
    <3> /\ IsList(longer) /\ Len(longer) = Len(told) + 1 /\ DOMAIN longer = 1..(Len(told) + 1)
        /\ \A i \in 1..Len(told) : longer[i] = told[i]
        /\ longer[Len(told) + 1] = GoReport
      BY ToldMore
    <3> HIDE DEF longer
    <3> told' = longer
      BY <2>1 DEF longer
    <3> QED
      OBVIOUS
  <2> QED
    BY <1>4, <2>2
<1>8. /\ IsList(told') /\ Len(told') \in m..(m + 1) /\ DOMAIN told' = 1..Len(told')
      /\ \A i \in 1..m : told'[i] = told[i]
      /\ \A i \in 1..Len(told') : i \in 1..m \/ told'[i] = GoReport
  <2>1. CASE "go" \in eventGates
    BY <1>4, <1>7, <2>1
  <2>2. CASE "go" \notin eventGates
    BY <1>4, <1>5, <1>6, <2>2
  <2> QED
    BY <2>1, <2>2
<1>9. \A i : MissReport(i)' = MissReport(i) /\ MissReport(i).event = "SPELL_MISS"
  BY <1>1 DEF MissReport
<1>10. GoReport' = GoReport /\ GoReport.event = "SPELL_GO"
  BY <1>1 DEF GoReport
<1>11. MissesTold'
  <2>1. missed' = MissCount(packet') /\ missesRead' \in 0..missed' /\ IsList(told') /\ missesRead' <= Len(told')
    BY <1>1, <1>4, <1>8
  <2>2. \A i \in 1..m : told'[i] = MissReport(i)
    BY <1>3, <1>4, <1>8 DEF MissesTold
  <2>3. \A i \in 1..Len(told') : told'[i].event = "SPELL_MISS" => i <= m
    BY <1>4, <1>8, <1>10
  <2> QED
    BY <1>1, <1>4, <1>9, <2>1, <2>2, <2>3 DEF MissesTold
<1>12. GoTold'
  BY <1>1, <1>4, <1>7, <1>10 DEF GoTold
<1>13. (InArray /\ AtMisses /\ AtEffect)'
  <2>1. Len(CastEffects) \in Nat /\ Len(CastEffects) > 0
    <3> packet.spell \in DOMAIN LandingSpells
      BY <1>3, GoHolds
    <3> LandingSpells[packet.spell] \in Seq([aura : BOOLEAN, aims : AimKinds]) \ {<<>>}
      BY CombatConstants
    <3> QED
      BY DEF CastEffects
  <2>2. effect = 1 /\ turn = 1
    BY <1>1, <1>3 DEF AtEffect
  <2>3. AtEffect'
    BY <1>1, <2>1, <2>2 DEF AtEffect, CastEffects
  <2> QED
    BY <1>1, <1>3, <2>3 DEF InArray, AtMisses
<1>14. AurasTold'
  <2> SUFFICES ASSUME NEW k \in DOMAIN CastEffects, NEW unit
               PROVE  AuraCasts(unit, k)' = {} /\ ~Reached(unit, k)'
    BY <1>1 DEF AurasTold, CastEffects
  <2>1. \A i \in 1..Len(told') : told'[i].event # "AURA_CAST"
    BY <1>3, <1>4, <1>8, <1>9, <1>10 DEF MissesTold
  <2>2. AuraCasts(unit, k)' = {}
    BY <1>8, <2>1 DEF AuraCasts
  <2>3. effect' = 1 /\ turn' = 1
    BY <1>1, <1>3 DEF AtEffect
  <2>4. k \in Nat /\ k > 0
    <3> packet.spell \in DOMAIN LandingSpells
      BY <1>3, GoHolds
    <3> LandingSpells[packet.spell] \in Seq([aura : BOOLEAN, aims : AimKinds])
      BY CombatConstants
    <3> QED
      BY DEF CastEffects
  <2>5. ~Reached(unit, k)'
    BY <2>3, <2>4 DEF Reached
  <2> QED
    BY <2>2, <2>5
<1> QED
  BY <1>11, <1>12, <1>13, <1>14

(* What an effect of a fine packet does: who is looked at for it, never one *)
(* unit twice.                                                              *)
LEMMA EffectOf ==
  ASSUME CombatInv, Fine, NEW k \in DOMAIN CastEffects
  PROVE  LET e == CastEffects[k]  h == HitCount(packet) IN
         /\ h \in Nat /\ Get(FieldsOf(packet), 2, "u8") = h
         /\ Len(CastEffects) \in Nat /\ DOMAIN CastEffects = 1..Len(CastEffects)
         /\ k \in Nat /\ k > 0 /\ e.aura \in BOOLEAN /\ e.aims \in AimKinds
         /\ Rounds(e, h) \in Nat
         /\ \A t \in 1..Rounds(e, h) : Hit(t) = packet.hits[t] \/ h = 0 \/ e.aims \in {"caster", "none"}
         /\ \A s, t \in 1..Rounds(e, h) : Affected(e, h, s) = Affected(e, h, t) => s = t
<1> DEFINE e == CastEffects[k]  h == HitCount(packet)
<1>1. /\ packet.spell \in DOMAIN LandingSpells /\ DOMAIN packet.hits = 1..h /\ IsGo(packet) /\ InArray
      /\ \A i, j \in 1..h : packet.hits[i] = packet.hits[j] => i = j
  BY GoHolds DEF CombatInv, Fine, HitCount
<1>2. CastEffects \in Seq([aura : BOOLEAN, aims : AimKinds])
  BY <1>1, CombatConstants DEF CastEffects
<1>3. /\ Len(CastEffects) \in Nat /\ DOMAIN CastEffects = 1..Len(CastEffects)
      /\ k \in Nat /\ k > 0 /\ e \in [aura : BOOLEAN, aims : AimKinds]
  <2> /\ Len(CastEffects) \in Nat /\ DOMAIN CastEffects = 1..Len(CastEffects)
      /\ CastEffects \in [1..Len(CastEffects) -> [aura : BOOLEAN, aims : AimKinds]]
    BY <1>2, LenProperties
  <2> QED
    OBVIOUS
<1>4. h \in Nat /\ Get(FieldsOf(packet), 2, "u8") = h /\ h <= ArraySize /\ ArraySize \in Nat
  BY <1>1, GoFields, CombatConstants DEF Fine
<1>5. Rounds(e, h) \in Nat
  BY <1>4 DEF Rounds
<1>6. \A i \in 1..h : Hit(i) = packet.hits[i]
  BY <1>1, <1>4 DEF Hit, InArray
<1>7. ASSUME h # 0 /\ e.aims \notin {"caster", "none"} PROVE \A t \in 1..Rounds(e, h) : t \in 1..h
  BY <1>4, <1>7 DEF Rounds
<1>8. ASSUME NEW s \in 1..Rounds(e, h), NEW t \in 1..Rounds(e, h), Affected(e, h, s) = Affected(e, h, t) PROVE s = t
  <2>1. CASE h = 0 \/ e.aims \in {"caster", "none"}
    <3> Rounds(e, h) \in {0, 1}
      BY <2>1 DEF Rounds
    <3> QED
      OBVIOUS
  <2>2. CASE h # 0 /\ e.aims \notin {"caster", "none"}
    <3> s \in 1..h /\ t \in 1..h
      BY <1>7, <2>2
    <3> packet.hits[s] = packet.hits[t]
      BY <1>6, <1>8, <2>2 DEF Affected
    <3> QED
      BY <1>1
  <2> QED
    BY <2>1, <2>2
<1> QED
  BY <1>3, <1>4, <1>5, <1>6, <1>7, <1>8

(* What the rounds of an effect do not touch.                               *)
LEMMA AuraRest ==
  ASSUME CombatInv, Fine, doing = "auras",
         UNCHANGED <<eventGates, packet, targetHitGuids, missed, missesRead>>, doing' \in {"auras", "handled"},
         IsList(told'), Len(told) <= Len(told'), Len(told') \in Nat,
         \A i \in 1..Len(told) : told'[i] = told[i],
         \A i \in 1..Len(told') : i > Len(told) => told'[i].event = "AURA_CAST"
  PROVE  (InArray /\ MissesTold /\ AtMisses /\ GoTold)'
<1>1. IsGo(packet) /\ InArray /\ MissesTold /\ GoTold
  BY DEF CombatInv, Fine
<1>2. /\ missed = MissCount(packet) /\ missed \in Nat /\ missesRead = missed /\ IsList(told)
      /\ missed <= Len(told) /\ Len(told) \in Nat
  BY <1>1, GoFields, ToldMore DEF MissesTold, GoTold
<1>3. /\ InArray' /\ AtMisses'
  BY <1>1 DEF InArray, AtMisses
<1>4. \A i : MissReport(i)' = MissReport(i)
  BY DEF MissReport
<1>5. GoReport' = GoReport
  BY DEF GoReport
<1>6. MissesTold'
  <2>1. \A i \in 1..missed : told'[i] = MissReport(i)
    BY <1>1, <1>2 DEF MissesTold
  <2>2. \A i \in 1..Len(told') : told'[i].event = "SPELL_MISS" => i <= missed
    BY <1>1, <1>2 DEF MissesTold
  <2> QED
    BY <1>2, <1>4, <2>1, <2>2 DEF MissesTold
<1>7. GoTold'
  <2> ASSUME "go" \in eventGates PROVE missed + 1 \in 1..Len(told') /\ told'[missed + 1] = GoReport
    <3> missed + 1 \in 1..Len(told) /\ told[missed + 1] = GoReport
      BY <1>1 DEF GoTold
    <3> QED
      BY <1>2
  <2> QED
    BY <1>2, <1>5 DEF GoTold
<1> QED
  BY <1>3, <1>6, <1>7

(* One unit more is looked at; it was not told of the effect before.        *)
LEMMA AuraCastInv ==
  ASSUME CombatInv, AuraCast
  PROVE  CombatInv'
<1>1. /\ doing = "auras" /\ effect \in DOMAIN CastEffects /\ turn' = turn + 1
      /\ UNCHANGED <<eventGates, packet, targetHitGuids, readAt, doing, missed, missesRead, effect>>
  BY DEF AuraCast
<1>2. SUFFICES ASSUME Fine
               PROVE  (InArray /\ MissesTold /\ AtMisses /\ GoTold /\ AurasTold /\ AtEffect)'
  BY <1>1 DEF CombatInv, Fine
<1>3. IsGo(packet) /\ MissesTold /\ GoTold /\ AurasTold /\ AtEffect
  BY <1>2 DEF CombatInv, Fine
<1> DEFINE h == HitCount(packet)  e == CastEffects[effect]  unit == Affected(e, h, turn)
           n == Len(told)
           r == [event |-> "AURA_CAST", self |-> unit = Me, from |-> packet.caster, on |-> unit, what |-> effect]
<1>4. /\ Get(FieldsOf(packet), 2, "u8") = h /\ turn \in Nat \ {0} /\ IsList(told) /\ n \in Nat
      /\ "aura" \in eventGates /\ DOMAIN told = 1..n /\ told \o <<>> = told
  BY <1>1, <1>2, <1>3, EffectOf, ToldMore DEF AtEffect, MissesTold
<1>5. turn \in 1..Rounds(e, h) /\ Rounds(e, h) \in Nat
  BY <1>1, <1>2, <1>4, EffectOf DEF AuraCast
<1>6. told' = told \o IF Spared(e, h, turn) THEN <<>> ELSE <<r>>
  BY <1>4 DEF AuraCast
<1>7. AtEffect'
  BY <1>1, <1>3 DEF AtEffect, CastEffects
<1>8. \A u, k : CastEffects' = CastEffects /\ (Reached(u, k)' <=> Reached(u, k) \/ (k = effect /\ u = unit /\ ~Spared(e, h, turn)))
  <2> TAKE u, k
  <2>1. CastEffects' = CastEffects
    BY <1>1 DEF CastEffects
  <2> DEFINE ek == CastEffects[k]
             Now(t) == ~Spared(ek, h, t) /\ Affected(ek, h, t) = u
  <2>2. Reached(u, k) <=> \E t \in 1..Rounds(ek, h) : (k < effect \/ (k = effect /\ t < turn)) /\ Now(t)
    BY DEF Reached
  <2>3. Reached(u, k)' <=> \E t \in 1..Rounds(ek, h) : (k < effect \/ (k = effect /\ t < turn + 1)) /\ Now(t)
    BY <1>1, <2>1 DEF Reached, Rounds, Spared, Affected, Hit, HitCount
  <2> QED
    BY <1>4, <1>5, <2>1, <2>2, <2>3
<1>9. CASE Spared(e, h, turn)
  <2>1. told' = told
    BY <1>4, <1>6, <1>9
  <2>2. (InArray /\ MissesTold /\ AtMisses /\ GoTold)'
    BY <1>1, <1>2, <1>4, <2>1, AuraRest
  <2>3. \A u, k : AuraCasts(u, k)' = AuraCasts(u, k)
    BY <2>1 DEF AuraCasts
  <2>4. AurasTold'
    BY <1>1, <1>3, <1>8, <1>9, <2>3 DEF AurasTold
  <2> QED
    BY <1>7, <2>2, <2>4
<1>10. CASE ~Spared(e, h, turn)
  <2> HIDE DEF r
  <2>1. /\ IsList(told') /\ Len(told') = n + 1 /\ DOMAIN told' = 1..(n + 1)
        /\ \A i \in 1..n : told'[i] = told[i]
        /\ told'[n + 1] = r
    BY <1>4, <1>6, <1>10, ToldMore
  <2>2. r.event = "AURA_CAST" /\ r.on = unit /\ r.what = effect
    BY DEF r
  <2>3. (InArray /\ MissesTold /\ AtMisses /\ GoTold)'
    <3> \A i \in 1..Len(told') : i > n => told'[i].event = "AURA_CAST"
      BY <1>4, <2>1, <2>2
    <3> QED
      BY <1>1, <1>2, <1>4, <2>1, AuraRest
  <2>4. ~Reached(unit, effect)
    <3>1. \A s, t \in 1..Rounds(e, h) : Affected(e, h, s) = Affected(e, h, t) => s = t
      BY <1>1, <1>2, EffectOf
    <3>2. effect \in Nat /\ turn \in Nat
      BY <1>1, <1>2, <1>4, EffectOf
    <3>3. ASSUME NEW t \in 1..Rounds(e, h), t < turn, Affected(e, h, t) = unit
          PROVE  FALSE
      <4>1. t = turn
        BY <1>5, <3>1, <3>3
      <4> QED
        BY <3>2, <3>3, <4>1
    <3> QED
      BY <3>2, <3>3 DEF Reached
  <2>5. AuraCasts(unit, effect) = {}
    BY <1>1, <1>3, <1>4, <2>4 DEF AurasTold
  <2>6. ASSUME NEW u, NEW k
        PROVE  AuraCasts(u, k)' = AuraCasts(u, k) \cup (IF u = unit /\ k = effect THEN {n + 1} ELSE {})
    BY <1>4, <2>1, <2>2 DEF AuraCasts
  <2> HIDE DEF unit
  <2>7. AurasTold'
    <3> SUFFICES ASSUME NEW k \in DOMAIN CastEffects, NEW u
                 PROVE  /\ AuraCasts(u, k)' # {} <=> Reached(u, k)'
                        /\ \A i, j \in AuraCasts(u, k)' : i = j
      BY <1>8 DEF AurasTold
    <3>1. /\ AuraCasts(u, k) # {} <=> Reached(u, k)
          /\ \A i, j \in AuraCasts(u, k) : i = j
      BY <1>1, <1>3, <1>4 DEF AurasTold
    <3>2. CASE u = unit /\ k = effect
      BY <1>8, <1>10, <2>5, <2>6, <3>2
    <3>3. CASE ~(u = unit /\ k = effect)
      BY <1>8, <2>6, <3>1, <3>3
    <3> QED
      BY <3>2, <3>3
  <2> QED
    BY <1>7, <2>3, <2>7
<1> QED
  BY <1>9, <1>10

(* The effect is done with: its rounds are all behind.                      *)
LEMMA NextEffectInv ==
  ASSUME CombatInv, NextEffect
  PROVE  CombatInv'
<1>1. /\ doing = "auras" /\ effect \in DOMAIN CastEffects /\ effect' = effect + 1 /\ turn' = 1
      /\ doing' = IF effect = Len(CastEffects) THEN "handled" ELSE "auras"
      /\ UNCHANGED <<eventGates, packet, targetHitGuids, told, readAt, missed, missesRead>>
  BY DEF NextEffect
<1>2. SUFFICES ASSUME Fine
               PROVE  (InArray /\ MissesTold /\ AtMisses /\ GoTold /\ AurasTold /\ AtEffect)'
  BY <1>1 DEF CombatInv, Fine
<1>3. IsGo(packet) /\ MissesTold /\ GoTold /\ AurasTold /\ AtEffect
  BY <1>2 DEF CombatInv, Fine
<1> DEFINE h == HitCount(packet)  e == CastEffects[effect]
<1>4. /\ turn > Rounds(e, h) /\ Rounds(e, h) \in Nat /\ IsList(told) /\ Len(told) \in Nat
      /\ Len(CastEffects) \in Nat /\ DOMAIN CastEffects = 1..Len(CastEffects)
      /\ turn \in Nat /\ "aura" \in eventGates
  BY <1>1, <1>2, <1>3, EffectOf, ToldMore DEF NextEffect, AtEffect, MissesTold
<1>5. (InArray /\ MissesTold /\ AtMisses /\ GoTold)'
  BY <1>1, <1>2, <1>4, AuraRest
<1>6. CastEffects' = CastEffects
  BY <1>1 DEF CastEffects
<1>7. AtEffect'
  BY <1>1, <1>4, <1>6 DEF AtEffect
<1>8. ASSUME NEW u, NEW k \in DOMAIN CastEffects PROVE Reached(u, k)' <=> Reached(u, k)
  <2> DEFINE ek == CastEffects[k]
             Now(t) == ~Spared(ek, h, t) /\ Affected(ek, h, t) = u
  <2>1. Reached(u, k) <=> \E t \in 1..Rounds(ek, h) : (k < effect \/ (k = effect /\ t < turn)) /\ Now(t)
    BY DEF Reached
  <2>2. Reached(u, k)' <=> \E t \in 1..Rounds(ek, h) : (k < effect + 1 \/ (k = effect + 1 /\ t < 1)) /\ Now(t)
    BY <1>1, <1>6 DEF Reached, Rounds, Spared, Affected, Hit, HitCount
  <2>3. Rounds(ek, h) \in Nat
    BY <1>2, EffectOf
  <2>4. CASE k = effect
    BY <1>1, <1>4, <2>1, <2>2, <2>3, <2>4
  <2>5. CASE k # effect
    BY <1>1, <1>4, <2>1, <2>2, <2>3, <2>5
  <2> QED
    BY <2>4, <2>5
<1>9. AurasTold'
  <2> \A u, k : AuraCasts(u, k)' = AuraCasts(u, k)
    BY <1>1 DEF AuraCasts
  <2> QED
    BY <1>1, <1>3, <1>6, <1>8 DEF AurasTold
<1> QED
  BY <1>5, <1>7, <1>9

(* A packet that is none of a landed spell changes nothing of this.         *)
LEMMA OtherKinds ==
  /\ NoPacket.kind # "go" /\ VisualPacket.kind # "go"
  /\ \A p \in LogPackets \cup PeriodicPackets \cup MissPackets : p.kind # "go"
BY DEF NoPacket, VisualPacket, LogPackets, Logs, PeriodicPackets, MissPackets

LEMMA CombatInitInv == CombatInit => CombatInv
BY OtherKinds DEF CombatInit, CombatInv, Fine

LEMMA CombatStepInv == CombatInv /\ [CombatNext]_combatVars => CombatInv'
<1> SUFFICES ASSUME CombatInv, [CombatNext]_combatVars PROVE CombatInv'
  OBVIOUS
<1>1. ASSUME NEW p, p.kind # "go", Handle(p) PROVE CombatInv'
  BY <1>1 DEF Handle, CombatInv, Fine
<1>2. ASSUME NEW caster \in Fighters, NEW spell \in DOMAIN LandingSpells, NEW o \in Outcomes,
             NEW target \in {NoTarget, Me}, Handle(GoPacket(caster, spell, o, target))
      PROVE  CombatInv'
  <2> IsGo(GoPacket(caster, spell, o, target))
    BY DEF IsGo
  <2> QED
    BY <1>2, SpellGoInv
<1>3. CASE PacketDone
  BY <1>3, OtherKinds DEF PacketDone, CombatInv, Fine
<1>4. CASE UNCHANGED combatVars
  <2> UNCHANGED combatVars
    BY <1>4
  <2> UNCHANGED <<eventGates, packet, targetHitGuids, told, readAt, doing, missed, missesRead, effect, turn>>
    BY DEF combatVars, progress
  <2>1. (InArray' <=> InArray) /\ (AtMisses' <=> AtMisses)
    BY DEF InArray, AtMisses
  <2>2. (MissesTold' <=> MissesTold) /\ (GoTold' <=> GoTold)
    BY DEF MissesTold, GoTold, MissReport, GoReport
  <2>3. CastEffects' = CastEffects
    BY DEF CastEffects
  <2>4. \A u, k : AuraCasts(u, k)' = AuraCasts(u, k) /\ (Reached(u, k)' <=> Reached(u, k))
    BY <2>3 DEF AuraCasts, Reached, Rounds, Spared, Affected, Hit
  <2>5. (AurasTold' <=> AurasTold) /\ (AtEffect' <=> AtEffect)
    <3> AtEffect' <=> AtEffect
      BY <2>3 DEF AtEffect
    <3> AurasTold' <=> AurasTold
      BY <2>3, <2>4 DEF AurasTold
    <3> QED
      OBVIOUS
  <2> QED
    BY <2>1, <2>2, <2>5 DEF CombatInv, Fine
<1> QED
  BY <1>1, <1>2, <1>3, <1>4, OtherKinds, ReadMissInv, LandedInv, AuraCastInv, NextEffectInv DEF CombatNext

(* The rounds of an effect reach the units it aims at.                      *)
LEMMA ReachedAims ==
  ASSUME CombatInv, Fine, NEW k \in DOMAIN CastEffects, k < effect, NEW unit
  PROVE  Reached(unit, k) <=> CastEffects[k].aura /\ unit \in Aims(CastEffects[k])
<1> DEFINE e == CastEffects[k]  h == HitCount(packet)
<1>1. /\ h \in Nat /\ e.aura \in BOOLEAN /\ e.aims \in AimKinds /\ Rounds(e, h) \in Nat /\ k \in Nat
      /\ \A t \in 1..Rounds(e, h) : Hit(t) = packet.hits[t] \/ h = 0 \/ e.aims \in {"caster", "none"}
  BY EffectOf
<1>2. Reached(unit, k) <=> \E t \in 1..Rounds(e, h) : ~Spared(e, h, t) /\ Affected(e, h, t) = unit
  BY DEF Reached
<1>3. DOMAIN packet.hits = 1..h /\ (packet.hits = <<>> <=> h = 0)
  <2> IsGo(packet)
    BY DEF CombatInv, Fine
  <2> packet.hits \in Seq(Fighters)
    BY GoHolds
  <2> QED
    BY DEF HitCount
<1>4. CASE ~e.aura
  BY <1>1, <1>2, <1>4 DEF Rounds
<1>5. CASE e.aura /\ (e.aims = "caster" \/ e.aims = "none" \/ h = 0)
  <2>1. Rounds(e, h) = 1
    BY <1>5 DEF Rounds
  <2>2. CASE e.aims = "caster"
    BY <1>2, <1>5, <2>1, <2>2 DEF Spared, Affected, Aims
  <2>3. CASE e.aims # "caster" /\ (e.aims = "none" \/ h = 0)
    <3> Aims(e) = {NoTarget}
      BY <1>1, <1>3, <2>3 DEF Aims, AimKinds
    <3> ~Spared(e, h, 1) /\ Affected(e, h, 1) = NoTarget
      BY <2>3 DEF Spared, Affected
    <3> QED
      BY <1>2, <1>5, <2>1
  <2> QED
    BY <1>5, <2>2, <2>3
<1>6. CASE e.aura /\ e.aims = "one" /\ h # 0
  <2> Rounds(e, h) = 1 /\ Aims(e) = {packet.hits[1]}
    BY <1>3, <1>6 DEF Rounds, Aims
  <2> ~Spared(e, h, 1) /\ Affected(e, h, 1) = packet.hits[1]
    BY <1>1, <1>6 DEF Spared, Affected
  <2> QED
    BY <1>2, <1>6
<1>7. CASE e.aura /\ e.aims \in {"enemies", "all"} /\ h # 0
  <2>1. Rounds(e, h) = h
    BY <1>7 DEF Rounds
  <2>2. Aims(e) = {packet.hits[i] : i \in 1..h} \ (IF e.aims = "enemies" THEN {packet.caster} ELSE {})
    BY <1>3, <1>7 DEF Aims
  <2>3. \A t \in 1..h : Affected(e, h, t) = packet.hits[t]
    BY <1>1, <1>7, <2>1 DEF Affected
  <2>4. \A t \in 1..h : Spared(e, h, t) <=> e.aims = "enemies" /\ packet.hits[t] = packet.caster
    BY <1>7, <2>3 DEF Spared
  <2> QED
    BY <1>2, <1>7, <2>1, <2>2, <2>3, <2>4
<1> QED
  BY <1>1, <1>4, <1>5, <1>6, <1>7 DEF AimKinds

(* When SpellGoHook has returned, addons were told what the server sent.    *)
LEMMA InvLanded == CombatInv => LandedAsSent
<1> SUFFICES ASSUME CombatInv, Fine, doing = "handled" PROVE LandedAsSent
  BY DEF LandedAsSent, Fine, HitCount
<1>1. IsGo(packet) /\ MissesTold /\ GoTold /\ AurasTold /\ AtEffect
  BY DEF CombatInv, Fine
<1> DEFINE m == MissCount(packet)
<1>2. /\ m \in Nat /\ DOMAIN packet.misses = 1..m /\ missed = m /\ missesRead = m
      /\ Len(told) \in Nat /\ DOMAIN told = 1..Len(told) /\ m <= Len(told)
  BY <1>1, GoHolds, ToldMore DEF MissesTold, GoTold, MissCount
<1>3. ASSUME NEW i \in DOMAIN packet.misses
      PROVE  i \in DOMAIN told /\ <<told[i]>> = Event("SPELL_MISS", packet.caster, packet.misses[i].unit, packet.misses[i].how)
  <2> i \in 1..m /\ i \in 1..Len(told)
    BY <1>2
  <2> told[i] = MissReport(i)
    BY <1>1, <1>2 DEF MissesTold
  <2> QED
    BY <1>2 DEF MissReport, Event
<1>4. ASSUME NEW i \in DOMAIN told, told[i].event = "SPELL_MISS" PROVE i \in DOMAIN packet.misses
  BY <1>1, <1>2, <1>4 DEF MissesTold
<1>5. ASSUME "go" \in eventGates
      PROVE  /\ m + 1 \in DOMAIN told
             /\ <<told[m + 1]>> = Event("SPELL_GO", packet.caster, packet.target, <<HitCount(packet), m>>)
  <2> m + 1 \in DOMAIN told /\ told[m + 1] = GoReport
    BY <1>1, <1>2, <1>5 DEF GoTold
  <2> QED
    BY DEF GoReport, Event
<1>6. ASSUME "aura" \in eventGates, NEW unit, NEW k \in DOMAIN CastEffects
      PROVE  Cardinality(AuraCasts(unit, k)) = IF CastEffects[k].aura /\ unit \in Aims(CastEffects[k]) THEN 1 ELSE 0
  <2>1. k < effect
    <3> /\ Len(CastEffects) \in Nat /\ DOMAIN CastEffects = 1..Len(CastEffects)
      BY EffectOf
    <3> effect = Len(CastEffects) + 1
      BY <1>1, <1>6 DEF AtEffect
    <3> QED
      OBVIOUS
  <2>2. /\ AuraCasts(unit, k) # {} <=> CastEffects[k].aura /\ unit \in Aims(CastEffects[k])
        /\ \A i, j \in AuraCasts(unit, k) : i = j
    BY <1>1, <1>6, <2>1, ReachedAims DEF AurasTold
  <2>3. CASE AuraCasts(unit, k) = {}
    BY <2>2, <2>3, FS_EmptySet
  <2>4. CASE AuraCasts(unit, k) # {}
    <3> PICK i : AuraCasts(unit, k) = {i}
      BY <2>2, <2>4
    <3> Cardinality(AuraCasts(unit, k)) = 1
      BY FS_Singleton
    <3> QED
      BY <2>2, <2>4
  <2> QED
    BY <2>3, <2>4
<1> QED
  BY <1>3, <1>4, <1>5, <1>6 DEF LandedAsSent, HitCount, MissCount

(* What addons are told of a spell that landed is what the server sent, for *)
(* every packet that the array holds.                                       *)
THEOREM LandedTheorem == CombatSpec => []LandedAsSent
<1>1. CombatInit => CombatInv
  BY CombatInitInv
<1>2. CombatInv /\ [CombatNext]_combatVars => CombatInv'
  BY CombatStepInv
<1>3. CombatInv => LandedAsSent
  BY InvLanded
<1> QED
  BY <1>1, <1>2, <1>3, PTL DEF CombatSpec
-----------------------------------------------------------------------------
(* The settings: a switch is on or off.                                     *)
SwitchesTyped ==
  /\ cvar \in [CVars -> Values \cup {0, 2}] /\ registered \subseteq Heard
  /\ \A n \in Switches \cup {KeyPress} : setting[n] \in {0, 2}
SettingsTyped == SettingsInv /\ SwitchesTyped

LEMMA SettingsInitTyped ==
  ASSUME SettingsInit
  PROVE  SettingsTyped
<1>1. SwitchesTyped
  BY InitialMeaning DEF SettingsInit, SwitchesTyped, CVars, Fields
<1> QED BY <1>1, SettingsInitInv DEF SettingsTyped

LEMMA SettingsStepTyped ==
  ASSUME SettingsTyped, [SettingsNext]_settingVars
  PROVE  SettingsTyped'
<1>1. SettingsInv' /\ SettingsInv
  BY SettingsStepInv DEF SettingsTyped
<1> SUFFICES SwitchesTyped'
  BY <1>1 DEF SettingsTyped
<1>2. SwitchesTyped
  BY DEF SettingsTyped
<1>3. KeyPress \notin CVars /\ Switches \cup {KeyPress} \subseteq Fields /\ Switches \subseteq CVars
  BY DEF KeyPress, CVars, Switches, Queueing, Casting, UnitEventTokens, GatedEvents, Client, Durations, Distances, Fields
<1>4. ASSUME NEW n \in CVars, NEW v \in Values, SetCVar(n, v)
      PROVE  SwitchesTyped'
  <2>1. n \in Switches => Meaning(n, v) \in {0, 2}
    BY Meanings, SettingsConstants
  <2>2. setting' = [setting EXCEPT ![n] = Meaning(n, v)] /\ cvar' = [cvar EXCEPT ![n] = v] /\ registered' = registered
    BY <1>4 DEF SetCVar
  <2> QED BY <1>1, <1>2, <1>3, <2>1, <2>2 DEF SwitchesTyped, SettingsInv
<1>5. ASSUME NEW n \in Heard, RegisterEvent(n)
      PROVE  SwitchesTyped'
  BY <1>1, <1>2, <1>3, <1>5 DEF RegisterEvent, SwitchesTyped, SettingsInv
<1>6. CASE Restart
  <2>1. ASSUME NEW n \in Switches
        PROVE  setting'[n] \in {0, 2}
    <3>1. setting'[n] = Meaning(n, Whole(cvar[n])) /\ Whole(cvar[n]) \in Nat
      BY <1>1, <1>3, <1>6, AllLoaded, WholeOnce DEF Restart, SettingsInv
    <3> QED BY <3>1, Meanings
  <2>2. KeyPress \notin LoadedCVars \cap RegisteredCVars /\ KeyPress \in Fields
    BY <1>3, AllLoaded
  <2>3. setting'[KeyPress] = Initial(KeyPress)
    BY <1>6, <2>2 DEF Restart
  <2>4. setting'[KeyPress] \in {0, 2}
    BY <2>3, InitialMeaning
  <2>5. cvar' = cvar /\ registered' = {}
    BY <1>6 DEF Restart
  <2> QED BY <1>2, <2>1, <2>4, <2>5 DEF SwitchesTyped
<1>7. CASE UNCHANGED settingVars
  BY <1>2, <1>7 DEF settingVars, SwitchesTyped
<1> QED BY <1>4, <1>5, <1>6, <1>7 DEF SettingsNext

LEMMA SettingsTypes ==
  ASSUME SettingsTyped
  PROVE  SettingsTypeOK
BY DEF SettingsTyped, SwitchesTyped, SettingsInv, SettingsTypeOK

(* The cooldowns: the list and the clock keep their bounds.                 *)
CooldownTyped == CooldownInv /\ now <= MaxNow /\ Len(history) <= MaxEntries

LEMMA NoLonger ==
  ASSUME CooldownInv, NEW e
  PROVE  Len(Without(Key(e))) <= Len(history) /\ Len(Append(Without(Key(e)), e)) = Len(Without(Key(e))) + 1
<1>0. history \in Seq(Entries) /\ DOMAIN history = 1..Len(history) /\ Len(history) \in Nat
  BY DEF CooldownInv, ListTypes
<1>1. PICK rest : rest = Without(Key(e))
  OBVIOUS
<1>2. PICK from : Shortened(rest, from)
  BY <1>1, Others
<1>3. rest \in Seq(Entries)
  BY <1>2 DEF Shortened
<1>4. CASE \E i \in DOMAIN history : Key(history[i]) = Key(e)
  <2> DEFINE gone == CHOOSE i \in DOMAIN history : Key(history[i]) = Key(e)
  <2>1. gone \in 1..Len(history) /\ rest = RemoveAt(history, gone)
    BY <1>0, <1>1, <1>4 DEF Without
  <2> HIDE DEF gone
  <2>2. Len(rest) = Len(history) - 1
    BY <1>0, <2>1, RemoveAtShape
  <2>3. Len(rest) <= Len(history)
    BY <1>0, <2>2
  <2> QED BY <1>1, <1>3, <2>3
<1>5. CASE ~ \E i \in DOMAIN history : Key(history[i]) = Key(e)
  <2>1. rest = history
    BY <1>1, <1>5 DEF Without
  <2> QED BY <1>0, <1>1, <1>3, <2>1
<1> QED BY <1>4, <1>5

LEMMA CooldownInitTyped ==
  ASSUME CooldownInit
  PROVE  CooldownTyped
BY CooldownInitInv, CooldownConstants DEF CooldownInit, CooldownTyped

LEMMA CooldownStepTyped ==
  ASSUME CooldownTyped, [CooldownNext]_cooldownVars
  PROVE  CooldownTyped'
<1>1. CooldownInv' /\ CooldownInv
  BY CooldownStepInv DEF CooldownTyped
<1>2. /\ history \in Seq(Entries) /\ DOMAIN history = 1..Len(history) /\ Len(history) \in Nat
      /\ now \in Nat /\ MaxNow \in Nat /\ MaxEntries \in Nat /\ now <= MaxNow /\ Len(history) <= MaxEntries
  BY CooldownConstants DEF CooldownTyped, CooldownInv, ListTypes
<1> SUFFICES now' <= MaxNow /\ Len(history') <= MaxEntries
  BY <1>1 DEF CooldownTyped
<1>3. ASSUME NEW e, Enter(e), Len(history) < MaxEntries, now' = now
      PROVE  now' <= MaxNow /\ Len(history') <= MaxEntries
  <2>1. Len(history') = Len(Without(Key(e))) + 1 /\ Len(Without(Key(e))) <= Len(history)
    BY <1>1, <1>3, NoLonger DEF Enter
  <2>2. Len(Without(Key(e))) \in Nat
    <3>1. PICK from : Shortened(Without(Key(e)), from)
      BY <1>1, Others
    <3> QED BY <3>1 DEF Shortened
  <2> QED BY <1>2, <1>3, <2>1, <2>2
<1>4. ASSUME NEW spell, NEW item, NEW category, NEW hold, Cast(spell, item, category, hold)
      PROVE  now' <= MaxNow /\ Len(history') <= MaxEntries
  BY <1>3, <1>4 DEF Cast
<1>5. ASSUME NEW spell, NEW time, Lock(spell, time)
      PROVE  now' <= MaxNow /\ Len(history') <= MaxEntries
  BY <1>3, <1>5 DEF Lock
<1>6. ASSUME NEW i \in DOMAIN history, Release(i)
      PROVE  now' <= MaxNow /\ Len(history') <= MaxEntries
  <2>1. DOMAIN history' = DOMAIN history /\ now' = now /\ history' \in Seq(Entries)
    BY <1>1, <1>6 DEF Release, CooldownInv, ListTypes
  <2>2. Len(history') = Len(history)
    BY <1>2, <2>1
  <2> QED BY <1>2, <2>1, <2>2
<1>7. ASSUME NEW i \in DOMAIN history, Drop(i)
      PROVE  now' <= MaxNow /\ Len(history') <= MaxEntries
  <2>1. Len(history') = Len(history) - 1 /\ now' = now
    BY <1>2, <1>7, RemoveAtShape DEF Drop
  <2> QED BY <1>2, <2>1
<1>8. ASSUME NEW item, StatsCome(item)
      PROVE  now' <= MaxNow /\ Len(history') <= MaxEntries
  <2>1. now' = now /\ history' = history
    BY <1>8 DEF StatsCome
  <2> QED BY <1>2, <2>1
<1>9. CASE CooldownTick
  <2>1. now < MaxNow /\ now' = now + 1 /\ history' = history
    BY <1>9 DEF CooldownTick
  <2> QED BY <1>2, <2>1
<1>10. CASE UNCHANGED cooldownVars
  BY <1>2, <1>10 DEF cooldownVars
<1> QED BY <1>4, <1>5, <1>6, <1>7, <1>8, <1>9, <1>10 DEF CooldownNext

LEMMA CooldownTypes ==
  ASSUME CooldownTyped
  PROVE  CooldownTypeOK
<1>1. /\ history \in Seq(Entries) /\ now \in Nat /\ stats \subseteq ItemIds /\ now <= MaxNow /\ MaxNow \in Nat
      /\ \A i \in DOMAIN history : history[i].at <= now
  BY CooldownConstants DEF CooldownTyped, CooldownInv, ListTypes
<1>2. ASSUME NEW i \in DOMAIN history
      PROVE  history[i].spell \in DOMAIN Spells /\ history[i].at \in 0..now
  <2>1. history[i] \in Entries
    BY <1>1
  <2> QED BY <1>1, <2>1 DEF Entries
<1> QED BY <1>1, <1>2 DEF CooldownTypeOK, CooldownTyped

(* The item searches: stats are loaded from rows, and no answer is awaited  *)
(* for an item that has them.                                               *)
SearchTyped ==
  /\ SearchInv
  /\ bags \subseteq BagNumbers /\ bankAtHand \in BOOLEAN /\ loaded \subseteq rows
  /\ pendingItemIds \subseteq Ids \ rows /\ found \in Places \cup {NoPlace}

LEMMA SearchInitTyped ==
  ASSUME SearchInit
  PROVE  SearchTyped
BY SearchInitInv DEF SearchInit, SearchTyped

LEMMA SearchTypedStep ==
  ASSUME SearchTyped, NEW places, places \subseteq Filled, NEW id, NEW name, Search(places, id, name)
  PROVE  /\ bags' \subseteq BagNumbers /\ bankAtHand' \in BOOLEAN /\ loaded' \subseteq rows'
         /\ pendingItemIds' \subseteq Ids \ rows' /\ found' \in Places \cup {NoPlace}
<1> DEFINE matching == {p \in places : DoesItemMatch(carried[p], id, name)}
           passed == {p \in places : matching = {} \/ ~Before(FirstOf(matching), p)}
           seen == {carried[p] : p \in IF id = NoId THEN passed ELSE {}}
<1>1. /\ found' = FirstOf(matching) /\ loaded' = loaded \cup (seen \cap rows)
      /\ pendingItemIds' = pendingItemIds \cup (seen \ (loaded \cup rows)) /\ UNCHANGED belongings
  BY DEF Search
<1>2. seen \subseteq Ids
  BY DEF SearchTyped, SearchInv, Filled
<1> HIDE DEF seen
<1>3. matching \subseteq Places /\ (matching # {} => FirstOf(matching) \in matching)
  BY FirstPlace DEF Filled
<1> HIDE DEF matching
<1>4. found' \in Places \cup {NoPlace}
  <2>1. matching = {} => FirstOf(matching) = NoPlace
    BY DEF FirstOf
  <2>2. CASE matching # {}
    <3>1. FirstOf(matching) \in Places
      BY <1>3, <2>2
    <3> QED BY <1>1, <3>1
  <2> QED BY <1>1, <2>1, <2>2
<1>5. bags' = bags /\ bankAtHand' = bankAtHand /\ rows' = rows
  BY <1>1 DEF belongings
<1>6. loaded' \subseteq rows'
  BY <1>1, <1>5 DEF SearchTyped
<1> QED BY <1>1, <1>2, <1>4, <1>5, <1>6 DEF SearchTyped

LEMMA SearchStepTyped ==
  ASSUME SearchTyped, [SearchNext]_searchVars
  PROVE  SearchTyped'
<1>1. SearchInv'
  BY SearchStepInv DEF SearchTyped
<1> SUFFICES /\ bags' \subseteq BagNumbers /\ bankAtHand' \in BOOLEAN /\ loaded' \subseteq rows'
             /\ pendingItemIds' \subseteq Ids \ rows' /\ found' \in Places \cup {NoPlace}
  BY <1>1 DEF SearchTyped
<1>2. ASSUME NEW p, NEW item, Move(p, item)
      PROVE  /\ bags' \subseteq BagNumbers /\ bankAtHand' \in BOOLEAN /\ loaded' \subseteq rows'
             /\ pendingItemIds' \subseteq Ids \ rows' /\ found' \in Places \cup {NoPlace}
  BY <1>2 DEF Move, SearchTyped
<1>3. ASSUME NEW b \in BagNumbers, ChangeBag(b)
      PROVE  /\ bags' \subseteq BagNumbers /\ bankAtHand' \in BOOLEAN /\ loaded' \subseteq rows'
             /\ pendingItemIds' \subseteq Ids \ rows' /\ found' \in Places \cup {NoPlace}
  BY <1>3 DEF ChangeBag, SearchTyped
<1>4. CASE BankGuidChanges
  BY <1>4 DEF BankGuidChanges, SearchTyped
<1>5. ASSUME NEW id \in Ids, ItemStatsCallback(id)
      PROVE  /\ bags' \subseteq BagNumbers /\ bankAtHand' \in BOOLEAN /\ loaded' \subseteq rows'
             /\ pendingItemIds' \subseteq Ids \ rows' /\ found' \in Places \cup {NoPlace}
  BY <1>5 DEF ItemStatsCallback, SearchTyped
<1>6. ASSUME NEW id \in Ids, FindById(id)
      PROVE  /\ bags' \subseteq BagNumbers /\ bankAtHand' \in BOOLEAN /\ loaded' \subseteq rows'
             /\ pendingItemIds' \subseteq Ids \ rows' /\ found' \in Places \cup {NoPlace}
  BY <1>6, SearchTypedStep DEF FindById
<1>7. ASSUME NEW name \in Names, FindByName(name) \/ UseTrinketByName(name)
      PROVE  /\ bags' \subseteq BagNumbers /\ bankAtHand' \in BOOLEAN /\ loaded' \subseteq rows'
             /\ pendingItemIds' \subseteq Ids \ rows' /\ found' \in Places \cup {NoPlace}
  BY <1>7, SearchTypedStep DEF FindByName, UseTrinketByName
<1>8. CASE UNCHANGED searchVars
  BY <1>8 DEF searchVars, SearchTyped
<1> QED BY <1>2, <1>3, <1>4, <1>5, <1>6, <1>7, <1>8 DEF SearchNext

LEMMA SearchTypes ==
  ASSUME SearchTyped
  PROVE  SearchTypeOK
BY DEF SearchTyped, SearchInv, SearchTypeOK

(* The trinkets: no call finds more of them than there are places.          *)
TrinketTyped ==
  /\ TrinketInv
  /\ bagThere \in BOOLEAN /\ statsThere \subseteq Trinkets \cup OtherItems
  /\ lastCount \in 0..Cardinality(TrinketPlaces)

LEMMA WalkOnce == EachOnce(Walk)
<1> DEFINE S == TrinketPlaces
           slots == Worn \o Pack
           all == slots \o BagSlots
<1>1. Worn \in Seq(S) /\ Pack \in Seq(S) /\ BagSlots \in Seq(S)
  <2>1. ASSUME NEW s \in {Worn, Pack, BagSlots}
        PROVE  s \in Seq(S)
    <3>1. s \in Seq(ToSet(s)) /\ ToSet(s) \subseteq S
      BY TrinketConstants DEF TrinketPlaces
    <3> QED BY <3>1
  <2> QED BY <2>1
<1>2. EachOnce(all)
  BY TrinketConstants
<1>3. slots \in Seq(S) /\ BagSlots \in Seq(S) /\ (Walk = all \/ Walk = slots)
  <2>1. slots \in Seq(S)
    BY <1>1
  <2>2. Walk = slots \o (IF bagThere THEN BagSlots ELSE <<>>)
    BY DEF Walk
  <2>3. slots \o <<>> = slots
    BY <2>1, ConcatEmptySeq
  <2>4. CASE bagThere
    BY <1>1, <2>1, <2>2, <2>4
  <2>5. CASE ~bagThere
    <3>1. Walk = slots \o <<>>
      BY <2>2, <2>5
    <3> QED BY <1>1, <2>1, <2>3, <3>1
  <2> QED BY <2>4, <2>5
<1> HIDE DEF slots, S
<1>4. DOMAIN slots = 1..Len(slots) /\ Len(slots) \in Nat /\ Len(BagSlots) \in Nat
  BY <1>3
<1>5. /\ DOMAIN all = 1..(Len(slots) + Len(BagSlots))
      /\ \A i \in DOMAIN slots : all[i] = slots[i]
  BY <1>3, <1>4, ConcatProperties
<1> HIDE DEF all
<1>6. DOMAIN slots \subseteq DOMAIN all
  BY <1>4, <1>5
<1> QED BY <1>2, <1>3, <1>5, <1>6 DEF EachOnce

LEMMA CountBounded == Count \in 0..Cardinality(TrinketPlaces)
<1> DEFINE met == Met(Len(Walk))
           at == [j \in met |-> Walk[j]]
<1>1. Walk \in Seq(TrinketPlaces) /\ DOMAIN Walk = 1..Len(Walk) /\ \A i \in 1..Len(Walk) : Walk[i] \in TrinketPlaces
  BY WalkTypes
<1>0. met \subseteq 1..Len(Walk)
  BY DEF Met
<1>2. IsFiniteSet(TrinketPlaces)
  BY FinitePlaces
<1> HIDE DEF met
<1>3. at \in [met -> TrinketPlaces]
  BY <1>0, <1>1
<1>7. ASSUME NEW i \in met, NEW j \in met, at[i] = at[j]
      PROVE  i = j
  <2>1. i \in DOMAIN Walk /\ j \in DOMAIN Walk /\ Walk[i] = Walk[j]
    BY <1>0, <1>1, <1>7
  <2> QED BY <2>1, WalkOnce DEF EachOnce
<1> HIDE DEF at
<1>4. at \in Injection(met, TrinketPlaces)
  BY <1>3, <1>7 DEF Injection, IsInjective
<1>5. IsFiniteSet(met) /\ Cardinality(met) <= Cardinality(TrinketPlaces)
  BY <1>2, <1>4, FS_Injection
<1>6. Count = Cardinality(met) /\ Count \in Nat /\ Cardinality(TrinketPlaces) \in Nat
  BY CountType, FinitePlaces DEF Count, met
<1> QED BY <1>5, <1>6

LEMMA TrinketInitTyped ==
  ASSUME TrinketInit
  PROVE  TrinketTyped
BY TrinketInitInv, FinitePlaces DEF TrinketInit, TrinketTyped

LEMMA TrinketStepTyped ==
  ASSUME TrinketTyped, [TrinketNext]_trinketVars
  PROVE  TrinketTyped'
<1>1. TrinketInv'
  BY TrinketStepInv DEF TrinketTyped
<1> SUFFICES /\ bagThere' \in BOOLEAN /\ statsThere' \subseteq Trinkets \cup OtherItems
             /\ lastCount' \in 0..Cardinality(TrinketPlaces)
  BY <1>1 DEF TrinketTyped
<1> USE DEF TrinketTyped, lua, whereabouts
<1>2. ASSUME NEW p, NEW item, Carry(p, item)
      PROVE  bagThere' = bagThere /\ statsThere' = statsThere /\ lastCount' = lastCount
  BY <1>2 DEF Carry
<1>3. ASSUME NEW p, NEW q, SwapItems(p, q)
      PROVE  bagThere' = bagThere /\ statsThere' = statsThere /\ lastCount' = lastCount
  BY <1>3 DEF SwapItems
<1>4. CASE TakeBag
  BY <1>4 DEF TakeBag
<1>5. ASSUME NEW item \in Trinkets \cup OtherItems, TrinketStatsCallback(item)
      PROVE  /\ bagThere' = bagThere /\ lastCount' = lastCount
             /\ statsThere' \subseteq Trinkets \cup OtherItems
  BY <1>5 DEF TrinketStatsCallback
<1>6. CASE GetTrinkets
  BY <1>6, CountBounded DEF GetTrinkets
<1>7. CASE LoadTrinketFunctions
  BY <1>7 DEF LoadTrinketFunctions
<1>8. CASE UNCHANGED trinketVars
  BY <1>8 DEF trinketVars
<1> QED BY <1>2, <1>3, <1>4, <1>5, <1>6, <1>7, <1>8 DEF TrinketNext

LEMMA TrinketTypes ==
  ASSUME TrinketTyped
  PROVE  TrinketTypeOK
BY DEF TrinketTyped, TrinketInv, TrinketTypeOK

(* The combat packets: the array holds units, and nothing is told before a  *)
(* packet comes.                                                            *)
CombatTyped == CombatInv /\ CombatTypeOK /\ (doing # "handled" => packet # NoPacket)

LEMMA CombatInitTyped ==
  ASSUME CombatInit
  PROVE  CombatTyped
BY CombatInitInv, CombatConstants DEF CombatInit, CombatTyped, CombatTypeOK

LEMMA SpellGoTyped ==
  ASSUME CombatTyped, NEW p, IsGo(p), Handle(p)
  PROVE  /\ readAt' \in Nat /\ targetHitGuids' \in [1..ArraySize -> Fighters \cup {NoTarget}]
         /\ packet' # NoPacket
<1> DEFINE fields == FieldsOf(p)  h == HitCount(p)
           atMisses == 3 + (IF h < ArraySize THEN h ELSE ArraySize)
<1>1. p.kind = "go" /\ packet' = p /\ p.hits \in Seq(Fighters)
  BY GoHolds DEF Handle
<1>2. SpellGo(p)
  BY <1>1 DEF Handle, Logs
<1>3. h \in Nat /\ ArraySize \in Nat /\ Get(fields, 2, "u8") = h /\ \A i \in 1..h : Get(fields, 2 + i, "u64") = p.hits[i]
  BY GoFields, CombatConstants
<1>4. /\ targetHitGuids' = [i \in 1..ArraySize |-> IF i <= h THEN Get(fields, 2 + i, "u64") ELSE targetHitGuids[i]]
      /\ readAt' = atMisses + 1
  BY <1>2, <1>3 DEF SpellGo
<1>5. ASSUME NEW i \in 1..ArraySize
      PROVE  (IF i <= h THEN Get(fields, 2 + i, "u64") ELSE targetHitGuids[i]) \in Fighters \cup {NoTarget}
  <2>1. CASE i <= h
    <3>1. i \in 1..h
      BY <1>3, <2>1
    <3>2. \A hits \in Seq(Fighters) : \A j \in 1..Len(hits) : hits[j] \in Fighters
      OBVIOUS
    <3>3. p.hits[i] \in Fighters
      BY <1>1, <3>1, <3>2 DEF HitCount
    <3> QED BY <1>3, <2>1, <3>1, <3>3
  <2>2. CASE ~(i <= h)
    BY <2>2 DEF CombatTyped, CombatTypeOK
  <2> QED BY <2>1, <2>2
<1>6. readAt' \in Nat
  BY <1>3, <1>4
<1>7. p # NoPacket
  BY <1>1 DEF NoPacket
<1> HIDE DEF fields, h
<1> QED BY <1>1, <1>4, <1>5, <1>6, <1>7

LEMMA CombatStepTyped ==
  ASSUME CombatTyped, [CombatNext]_combatVars
  PROVE  CombatTyped'
<1>1. CombatInv'
  BY CombatStepInv DEF CombatTyped
<1> SUFFICES CombatTypeOK' /\ (doing' # "handled" => packet' # NoPacket)
  BY <1>1 DEF CombatTyped
<1> USE DEF CombatTyped, CombatTypeOK
<1>2. ASSUME NEW p, p.kind # "go", p.kind # "none", Handle(p)
      PROVE  CombatTypeOK' /\ doing' = "handled"
  BY <1>2 DEF Handle, NoPacket
<1>3. ASSUME NEW p, IsGo(p), Handle(p)
      PROVE  CombatTypeOK' /\ packet' # NoPacket
  BY <1>3, SpellGoTyped DEF Handle
<1>4. ASSUME NEW caster \in Fighters, NEW spell \in DOMAIN LandingSpells, NEW o \in Outcomes,
             NEW target \in {NoTarget, Me}, Handle(GoPacket(caster, spell, o, target))
      PROVE  CombatTypeOK' /\ packet' # NoPacket
  <2> IsGo(GoPacket(caster, spell, o, target))
    BY DEF IsGo
  <2> QED BY <1>3, <1>4
<1>5. CASE ReadMiss
  <2>1. /\ readAt' = Behind(FieldsOf(packet), readAt) /\ packet' = packet /\ doing' = doing /\ doing = "misses"
        /\ eventGates' = eventGates /\ targetHitGuids' = targetHitGuids
    BY <1>5 DEF ReadMiss
  <2>2. readAt' \in Nat
    BY <2>1 DEF Behind
  <2> QED BY <2>1, <2>2
<1>6. CASE Landed
  BY <1>6 DEF Landed
<1>7. CASE AuraCast
  BY <1>7 DEF AuraCast
<1>8. CASE NextEffect
  BY <1>8 DEF NextEffect
<1>9. CASE PacketDone
  BY <1>9 DEF PacketDone
<1>10. CASE UNCHANGED combatVars
  BY <1>10 DEF combatVars, progress
<1>11. /\ VisualPacket.kind # "none" /\ VisualPacket.kind # "go"
       /\ \A p \in LogPackets \cup PeriodicPackets \cup MissPackets : p.kind # "none" /\ p.kind # "go"
  BY DEF VisualPacket, LogPackets, Logs, PeriodicPackets, MissPackets
<1> QED BY <1>2, <1>4, <1>5, <1>6, <1>7, <1>8, <1>9, <1>10, <1>11 DEF CombatNext

(* The cast times: the history keeps its capacity, and nothing is said of   *)
(* an attempt that was not made.                                            *)
TimesTyped ==
  /\ TimesTypes
  /\ castNow \in 1..LastMoment /\ Len(castHistory) <= Capacity /\ attempts <= MaxAttempts
  /\ aiming <= attempts /\ serverCast.id <= attempts
  /\ \A i \in DOMAIN toServer : toServer[i].id <= attempts

LEMMA TimeBounds == LastMoment \in Nat /\ LastMoment > 0 /\ MaxAttempts \in Nat
<1>1. \A n \in {Rounding, GcdCap, NearGcd, BufferMs, Latency, MaxAttempts, LastMoment} : n \in Nat
  BY CastConstants
<1>2. LastMoment \in Nat /\ MaxAttempts \in Nat
  BY <1>1, Zenon
<1>3. LastMoment > 0
  BY CastConstants
<1> QED BY <1>2, <1>3

LEMMA TimesInitTyped ==
  ASSUME TimesInit
  PROVE  TimesTyped
<1>1. TimesTypes
  BY TimesInitInv DEF TimesInv
<1>2. castNow = 1 /\ castHistory = <<>> /\ attempts = 0 /\ aiming = 0 /\ serverCast = Idle /\ toServer = <<>>
  BY DEF TimesInit
<1>3. Idle.id = 0
  BY DEF Idle
<1> QED BY <1>1, <1>2, <1>3, TimeBounds, TimeConstants DEF TimesTyped

LEMMA HistoryKept ==
  ASSUME TimesTypes, NEW spell \in DOMAIN CastSpells
  PROVE  HistoryWith(spell) \in Seq(CastEntry) /\ Len(HistoryWith(spell)) <= Capacity
<1> DEFINE entry == [id |-> attempts + 1, spell |-> spell,
                     castTimeMs |-> CastSpells[spell].cast, castStartTimeMs |-> castNow]
           longer == <<entry>> \o castHistory
           n == Least(Len(castHistory) + 1, Capacity)
<1>1. entry \in CastEntry
  BY TimeFacts DEF TimesTypes, CastEntry
<1>2. castHistory \in Seq(CastEntry) /\ Len(castHistory) \in Nat
  BY DEF TimesTypes
<1> HIDE DEF entry
<1>3. longer \in Seq(CastEntry) /\ Len(longer) = Len(castHistory) + 1
  BY <1>1, <1>2
<1>4. n \in 1..(Len(castHistory) + 1) /\ n <= Capacity
  BY <1>2, TimeConstants DEF Least
<1>5. HistoryWith(spell) = SubSeq(longer, 1, n)
  BY DEF HistoryWith, entry
<1> HIDE DEF longer, n
<1>6. SubSeq(longer, 1, n) \in Seq(CastEntry) /\ Len(SubSeq(longer, 1, n)) = n
  BY <1>2, <1>3, <1>4
<1> QED BY <1>4, <1>5, <1>6

LEMMA SendTyped ==
  ASSUME TimesTyped, NEW id \in Nat, NEW spell \in DOMAIN CastSpells, NEW runningGcd \in Nat,
         SendCast(id, spell, runningGcd)
  PROVE  /\ castEndMs' \in Nat /\ gcdEndMs' \in Nat /\ toServer' \in Seq(SentCast)
         /\ \A i \in DOMAIN toServer' : toServer'[i].id <= attempts \/ toServer'[i].id = id
<1> DEFINE x == [id |-> id, spell |-> spell, due |-> castNow + Latency]
<1>1. /\ CastSpells[spell].cast \in Nat /\ BufferFor(spell) \in Nat /\ GcdTime(spell) \in Nat
      /\ castNow \in Nat /\ Latency \in Nat /\ toServer \in Seq(SentCast)
  BY TimeFacts, TimeConstants DEF TimesTyped, TimesTypes
<1>2. x \in SentCast /\ x.id = id
  BY <1>1 DEF SentCast
<1>3. /\ castEndMs' = IF CastSpells[spell].cast = 0 THEN 0 ELSE castNow + CastSpells[spell].cast + BufferFor(spell)
      /\ gcdEndMs' = IF CastSpells[spell].gcd = 0 THEN runningGcd ELSE castNow + GcdTime(spell) + BufferFor(spell)
      /\ toServer' = Append(toServer, x)
  BY DEF SendCast
<1>4. castEndMs' \in Nat /\ gcdEndMs' \in Nat
  BY <1>1, <1>3
<1> HIDE DEF x
<1>5. /\ toServer' \in Seq(SentCast) /\ Len(toServer) \in Nat
      /\ DOMAIN toServer = 1..Len(toServer) /\ DOMAIN toServer' = 1..(Len(toServer) + 1)
      /\ toServer'[Len(toServer) + 1] = x
      /\ \A i \in DOMAIN toServer : toServer'[i] = toServer[i]
  BY <1>1, <1>2, <1>3, Queued
<1>6. ASSUME NEW i \in DOMAIN toServer'
      PROVE  toServer'[i].id <= attempts \/ toServer'[i].id = id
  <2>1. i \in DOMAIN toServer \/ i = Len(toServer) + 1
    BY <1>5
  <2> QED BY <1>2, <1>5, <2>1 DEF TimesTyped
<1> QED BY <1>4, <1>5, <1>6

LEMMA NewestEntry ==
  ASSUME castHistory \in Seq(CastEntry), NEW spell, Newest(spell) # 0
  PROVE  Newest(spell) \in DOMAIN castHistory
<1> DEFINE entries == {i \in DOMAIN castHistory : castHistory[i].spell = spell}
<1>1. entries # {} => \E i \in entries : \A j \in entries : i <= j
  <2>1. entries \in SUBSET Nat
    OBVIOUS
  <2> QED BY <2>1, LeastNatural
<1> QED BY <1>1 DEF Newest

LEMMA TimesStepTyped ==
  ASSUME TimesTyped, [TimesNext]_castTimeVars
  PROVE  TimesTyped'
<1>1. /\ castNow \in Nat /\ castEndMs \in Nat /\ gcdEndMs \in Nat /\ attempts \in Nat /\ aiming \in Nat
      /\ Latency \in Nat /\ castHistory \in Seq(CastEntry) /\ toServer \in Seq(SentCast)
      /\ toClient \in Seq(TimePacket)
  BY TimeConstants DEF TimesTyped, TimesTypes
<1>2. ASSUME NEW spell \in DOMAIN CastSpells, Sent(spell)
      PROVE  TimesTyped'
  <2>1. /\ attempts < MaxAttempts /\ attempts' = attempts + 1 /\ castHistory' = HistoryWith(spell) /\ aiming' = 0
        /\ SendCast(attempts + 1, spell, 0) /\ UNCHANGED <<castNow, serverCast, toClient, overdue>>
    BY <1>2 DEF Sent, MayAttempt
  <2>6. attempts + 1 \in Nat /\ 0 \in Nat
    BY <1>1
  <2>2. /\ castEndMs' \in Nat /\ gcdEndMs' \in Nat /\ toServer' \in Seq(SentCast)
        /\ \A i \in DOMAIN toServer' : toServer'[i].id <= attempts \/ toServer'[i].id = attempts + 1
    BY <2>1, <2>6, SendTyped
  <2>3. TimesTypes'
    BY <1>1, <2>1, <2>2, HistoryKept DEF TimesTyped, TimesTypes
  <2>4. \A i \in DOMAIN toServer' : toServer'[i].id <= attempts'
    <3> SUFFICES ASSUME NEW i \in DOMAIN toServer' PROVE toServer'[i].id <= attempts'
      OBVIOUS
    <3>1. \A queue \in Seq(SentCast) : \A j \in DOMAIN queue : queue[j] \in SentCast
      OBVIOUS
    <3>3. toServer'[i] \in SentCast
      BY <2>2, <3>1
    <3>2. toServer'[i].id \in Nat
      BY <3>3 DEF SentCast
    <3>4. toServer'[i].id <= attempts \/ toServer'[i].id = attempts + 1
      BY <2>2
    <3>5. attempts' = attempts + 1 /\ attempts \in Nat
      BY <1>1, <2>1
    <3> QED BY <3>2, <3>4, <3>5
  <2>5. serverCast' = serverCast /\ serverCast.id \in Nat
    BY <2>1 DEF TimesTyped, TimesTypes
  <2> QED BY <1>1, <2>1, <2>3, <2>4, <2>5, HistoryKept, TimeBounds DEF TimesTyped
<1>3. ASSUME NEW spell \in DOMAIN CastSpells, NotSent(spell)
      PROVE  TimesTyped'
  <2>1. /\ attempts < MaxAttempts /\ attempts' = attempts + 1 /\ castHistory' = HistoryWith(spell)
        /\ aiming' \in {0, attempts + 1} /\ castEndMs' = 0 /\ gcdEndMs' = 0
        /\ UNCHANGED <<castNow, toServer, serverCast, toClient, overdue>>
    BY <1>3 DEF NotSent, MayAttempt, network
  <2>2. TimesTypes'
    BY <1>1, <2>1, HistoryKept DEF TimesTyped, TimesTypes
  <2>3. \A i \in DOMAIN toServer' : toServer'[i].id <= attempts'
    BY <1>1, <2>1, SentItem DEF TimesTyped
  <2>4. serverCast' = serverCast /\ serverCast.id \in Nat
    BY <2>1 DEF TimesTyped, TimesTypes
  <2> QED BY <1>1, <2>1, <2>2, <2>3, <2>4, HistoryKept, TimeBounds DEF TimesTyped
<1>4. ASSUME NEW spell \in DOMAIN CastSpells, Click(spell)
      PROVE  TimesTyped'
  <2>1. /\ aiming' = 0 /\ SendCast(aiming, spell, gcdEndMs)
        /\ UNCHANGED <<castNow, castHistory, attempts, serverCast, toClient, overdue>>
    BY <1>4 DEF Click
  <2>2. /\ castEndMs' \in Nat /\ gcdEndMs' \in Nat /\ toServer' \in Seq(SentCast)
        /\ \A i \in DOMAIN toServer' : toServer'[i].id <= attempts \/ toServer'[i].id = aiming
    BY <1>1, <2>1, SendTyped
  <2>3. TimesTypes'
    BY <1>1, <2>1, <2>2 DEF TimesTyped, TimesTypes
  <2> QED BY <1>1, <2>1, <2>2, <2>3 DEF TimesTyped
<1>5. ASSUME NEW spell \in DOMAIN Takes, NEW time \in Takes[spell], ServerReceives(time)
      PROVE  TimesTyped'
  <2> DEFINE cast == Head(toServer)
             p == ServerPacket("start", cast, time, castNow + time)
  <2>1. /\ toServer # <<>> /\ toServer' = Tail(toServer)
        /\ UNCHANGED <<castNow, castEndMs, gcdEndMs, castHistory, attempts, aiming>>
    BY <1>5 DEF ServerReceives, castClientVars
  <2>2. \/ UNCHANGED <<serverCast, toClient, overdue>>
        \/ /\ \/ serverCast' = Idle
              \/ serverCast' = [id |-> cast.id, spell |-> cast.spell, ends |-> castNow + time]
           /\ toClient' = Append(toClient, p) /\ overdue' = FALSE
    BY <1>5 DEF ServerReceives
  <2>3. time \in Nat
    BY CastConstants
  <2>4. /\ toServer' \in Seq(SentCast) /\ cast = toServer[1] /\ 1 \in DOMAIN toServer
        /\ \A i \in DOMAIN toServer' : i + 1 \in DOMAIN toServer /\ toServer'[i] = toServer[i + 1]
    BY <1>1, <2>1, Unqueued
  <2>5. cast.id \in Nat /\ cast.id <= attempts /\ cast.spell \in DOMAIN CastSpells
    BY <2>4, SentItem DEF TimesTyped
  <2>6. p \in TimePacket
    BY <1>1, <2>3, <2>5 DEF ServerPacket, TimePacket
  <2> HIDE DEF cast, p
  <2>7. toClient' \in Seq(TimePacket)
    BY <1>1, <2>2, <2>6, Queued
  <2>8. /\ serverCast' \in [id : Nat, spell : DOMAIN CastSpells \cup {"none"}, ends : Nat]
        /\ serverCast' # Idle => serverCast'.spell \in DOMAIN CastSpells
        /\ serverCast'.id <= attempts
    <3>1. CASE serverCast' = serverCast
      BY <3>1 DEF TimesTyped, TimesTypes
    <3>2. CASE serverCast' = Idle
      BY <1>1, <3>2 DEF Idle
    <3>3. CASE serverCast' = [id |-> cast.id, spell |-> cast.spell, ends |-> castNow + time]
      BY <1>1, <2>3, <2>5, <3>3
    <3> QED BY <2>2, <3>1, <3>2, <3>3
  <2>9. overdue' \in BOOLEAN
    BY <2>2 DEF TimesTyped, TimesTypes
  <2>10. TimesTypes'
    BY <1>1, <2>1, <2>4, <2>7, <2>8, <2>9 DEF TimesTypes
  <2>11. \A i \in DOMAIN toServer' : toServer'[i].id <= attempts
    BY <2>4 DEF TimesTyped
  <2> QED BY <2>1, <2>8, <2>10, <2>11 DEF TimesTyped
<1>6. ASSUME NEW time \in Pushbacks, ServerDelays(time)
      PROVE  TimesTyped'
  <2> DEFINE p == ServerPacket("delayed", serverCast, time, serverCast.ends + time)
  <2>1. /\ serverCast # Idle /\ serverCast' = [serverCast EXCEPT !.ends = @ + time]
        /\ toClient' = Append(toClient, p)
        /\ UNCHANGED <<castNow, castEndMs, gcdEndMs, castHistory, attempts, aiming, toServer, overdue>>
    BY <1>6 DEF ServerDelays, ServerCasting, castClientVars
  <2>2. time \in Nat
    BY CastConstants
  <2>3. /\ serverCast \in [id : Nat, spell : DOMAIN CastSpells \cup {"none"}, ends : Nat]
        /\ serverCast.spell \in DOMAIN CastSpells /\ serverCast.id <= attempts
    BY <2>1 DEF TimesTyped, TimesTypes
  <2>4. serverCast.id \in Nat /\ serverCast.ends \in Nat
    BY <2>3
  <2>5. p \in TimePacket
    BY <1>1, <2>2, <2>3, <2>4 DEF ServerPacket, TimePacket
  <2> HIDE DEF p
  <2>6. toClient' \in Seq(TimePacket)
    BY <1>1, <2>1, <2>5, Queued
  <2>7. /\ serverCast' \in [id : Nat, spell : DOMAIN CastSpells \cup {"none"}, ends : Nat]
        /\ serverCast'.spell = serverCast.spell /\ serverCast'.id = serverCast.id
    BY <2>1, <2>2, <2>3, <2>4
  <2>8. TimesTypes'
    BY <1>1, <2>1, <2>3, <2>6, <2>7 DEF TimesTyped, TimesTypes
  <2> QED BY <2>1, <2>3, <2>7, <2>8 DEF TimesTyped
<1>7. CASE Receives
  <2> DEFINE p == Head(toClient)
  <2>1. /\ toClient # <<>> /\ toClient' = Tail(toClient)
        /\ UNCHANGED <<castNow, gcdEndMs, attempts, aiming, toServer, serverCast>>
    BY <1>7 DEF Receives
  <2>2. \/ SpellStartHandler(p) /\ overdue' = overdue
        \/ SpellDelayed(p) /\ overdue' = (overdue \/ (castNow >= castEndMs /\ p.id = serverCast.id))
    BY <1>7 DEF Receives
  <2>3. toClient' \in Seq(TimePacket) /\ p \in TimePacket
    BY <1>1, <2>1, Unqueued
  <2>4. p.time \in Nat
    BY <2>3 DEF TimePacket
  <2> HIDE DEF p
  <2>5. overdue' \in BOOLEAN
    BY <2>2, Zenon DEF TimesTyped, TimesTypes
  <2>6. castEndMs' \in Nat /\ castHistory' \in Seq(CastEntry) /\ Len(castHistory') = Len(castHistory)
    <3>1. CASE SpellDelayed(p)
      BY <1>1, <2>4, <3>1 DEF SpellDelayed
    <3>2. CASE SpellStartHandler(p)
      <4> DEFINE n == Newest(p.spell)
      <4>1. CASE n = 0
        BY <1>1, <3>2, <4>1 DEF SpellStartHandler
      <4>2. CASE n # 0
        <5>1. n \in DOMAIN castHistory
          BY <1>1, <4>2, NewestEntry
        <5>2. PICK entry : entry = castHistory[n]
          OBVIOUS
        <5>3. entry \in CastEntry
          BY <1>1, <5>1, <5>2
        <5>4. /\ castEndMs' = Corrected(entry, p.time).end
              /\ castHistory' = [castHistory EXCEPT ![n].castTimeMs = Corrected(entry, p.time).castTimeMs]
          BY <3>2, <4>2, <5>2 DEF SpellStartHandler
        <5>5. Corrected(entry, p.time).castTimeMs \in Nat /\ Corrected(entry, p.time).end \in Nat
          BY <1>1, <2>4, <5>3, CorrectedTypes
        <5> HIDE DEF n
        <5>6. PICK ms \in Nat : castHistory' = [castHistory EXCEPT ![n].castTimeMs = ms]
          BY <5>4, <5>5
        <5>7. [entry EXCEPT !.castTimeMs = ms] \in CastEntry
          BY <5>3, <5>6 DEF CastEntry
        <5>8. castHistory' = [castHistory EXCEPT ![n] = [entry EXCEPT !.castTimeMs = ms]]
          BY <5>2, <5>6
        <5>9. castHistory' \in Seq(CastEntry) /\ Len(castHistory') = Len(castHistory)
          BY <1>1, <5>1, <5>7, <5>8
        <5> QED BY <5>4, <5>5, <5>9
      <4> QED BY <4>1, <4>2
    <3> QED BY <2>2, <3>1, <3>2
  <2>7. TimesTypes'
    BY <1>1, <2>1, <2>3, <2>5, <2>6 DEF TimesTyped, TimesTypes
  <2> QED BY <2>1, <2>6, <2>7 DEF TimesTyped
<1>8. CASE CastTick
  <2>1. /\ castNow < LastMoment /\ castNow' = castNow + 1 /\ serverCast' \in {serverCast, Idle}
        /\ UNCHANGED <<castEndMs, gcdEndMs, castHistory, attempts, aiming, toServer, toClient, overdue>>
    BY <1>8 DEF CastTick, castClientVars
  <2>2. /\ serverCast' \in [id : Nat, spell : DOMAIN CastSpells \cup {"none"}, ends : Nat]
        /\ serverCast' # Idle => serverCast'.spell \in DOMAIN CastSpells
        /\ serverCast'.id <= attempts
    BY <1>1, <2>1 DEF TimesTyped, TimesTypes, Idle
  <2>3. castNow' \in 1..LastMoment /\ castNow' \in Nat
    BY <1>1, <2>1, TimeBounds
  <2>4. TimesTypes'
    BY <1>1, <2>1, <2>2, <2>3 DEF TimesTyped, TimesTypes
  <2> QED BY <2>1, <2>2, <2>3, <2>4 DEF TimesTyped
<1>9. CASE UNCHANGED castTimeVars
  BY <1>9 DEF castTimeVars, TimesTyped, TimesTypes
<1> QED BY <1>2, <1>3, <1>4, <1>5, <1>6, <1>7, <1>8, <1>9 DEF TimesNext

LEMMA TimesTypesOK ==
  ASSUME TimesTyped
  PROVE  CastTimeTypeOK
<1>1. /\ castNow \in 1..LastMoment /\ castEndMs \in Nat /\ gcdEndMs \in Nat /\ attempts \in Nat /\ aiming \in Nat
      /\ serverCast.id \in Nat /\ overdue \in BOOLEAN
  BY DEF TimesTyped, TimesTypes
<1>2. attempts \in 0..MaxAttempts /\ aiming \in 0..attempts /\ serverCast.id \in 0..attempts
  BY <1>1, TimeBounds DEF TimesTyped
<1> QED BY <1>1, <1>2 DEF CastTimeTypeOK, TimesTyped

(* Only one part takes steps, and what its invariant says of its variables  *)
(* is all that is known: the other parts' variables stay as they were.      *)
PartNames ==
  {"pet", "buffer", "auras", "units", "settings", "bags", "outfit", "trinkets", "search", "cooldowns", "combat", "times"}

PartsInv ==
  /\ part \in PartNames
  /\ part = "pet" => PetInv
  /\ part = "buffer" => BufferInv
  /\ part = "auras" => AuraInv
  /\ part = "units" => UnitInv
  /\ part = "settings" => SettingsTyped
  /\ part \in {"bags", "outfit"} => BagInv
  /\ part = "trinkets" => TrinketTyped
  /\ part = "search" => SearchTyped
  /\ part = "cooldowns" => CooldownTyped
  /\ part = "combat" => CombatTyped
  /\ part = "times" => TimesTyped

LEMMA PartsInitInv ==
  ASSUME PartsInit
  PROVE  PartsInv
<1> USE DEF PartsInv, PartNames
<1>1. CASE part = "pet" /\ PetInit
  BY <1>1, PetInitInv
<1>2. CASE part = "buffer" /\ BufferInit
  BY <1>2, BufferInitInv
<1>3. CASE part = "auras" /\ AuraInit
  BY <1>3, AuraInitInv
<1>4. CASE part = "units" /\ UnitInit
  BY <1>4, UnitInitInv
<1>5. CASE part = "settings" /\ SettingsInit
  BY <1>5, SettingsInitTyped
<1>6. CASE part \in {"bags", "outfit"} /\ Init
  BY <1>6, BagInitInv
<1>7. CASE part = "trinkets" /\ TrinketInit
  BY <1>7, TrinketInitTyped
<1>8. CASE part = "search" /\ SearchInit
  BY <1>8, SearchInitTyped
<1>9. CASE part = "cooldowns" /\ CooldownInit
  BY <1>9, CooldownInitTyped
<1>10. CASE part = "combat" /\ CombatInit
  BY <1>10, CombatInitTyped
<1>11. CASE part = "times" /\ TimesInit
  BY <1>11, TimesInitTyped
<1> QED
  BY <1>1, <1>2, <1>3, <1>4, <1>5, <1>6, <1>7, <1>8, <1>9, <1>10, <1>11 DEF PartsInit, NoBags

(* A part's invariant outlives a step of the part and one that leaves its   *)
(* variables alone.                                                         *)
LEMMA PartsStepInv ==
  ASSUME PartsInv, [PartsNext]_allVars
  PROVE  PartsInv'
<1> USE DEF PartsInv, PartNames
<1>1. part' = part /\ part \in PartNames
  BY DEF PartsNext, allVars, PetPart, BufferPart, AurasPart, UnitsPart, SettingsPart, BagsPart, OutfitPart,
         TrinketsPart, SearchPart, CooldownsPart, CombatPart, TimesPart
<1>2. /\ part = "pet" => [PetNext]_petVars
      /\ part = "buffer" => [BufferNext]_bufferVars
      /\ part = "auras" => [AuraNext]_auraVars
      /\ part = "units" => [UnitNext]_unitVars
      /\ part = "settings" => [SettingsNext]_settingVars
      /\ part \in {"bags", "outfit"} => [Next]_bagVars
      /\ part = "trinkets" => [TrinketNext]_trinketVars
      /\ part = "search" => [SearchNext]_searchVars
      /\ part = "cooldowns" => [CooldownNext]_cooldownVars
      /\ part = "combat" => [CombatNext]_combatVars
      /\ part = "times" => [TimesNext]_castTimeVars
  <2>1. CASE UNCHANGED allVars
    BY <2>1 DEF allVars, clientVars, tableVars, spellVars
  <2>2. CASE PartsNext
    BY <2>2 DEF PartsNext, PetPart, BufferPart, AurasPart, UnitsPart, SettingsPart, BagsPart, OutfitPart,
                TrinketsPart, SearchPart, CooldownsPart, CombatPart, TimesPart
  <2> QED
    BY <2>1, <2>2
<1>3. CASE part = "pet"
  BY <1>1, <1>2, <1>3, PetStepInv
<1>4. CASE part = "buffer"
  BY <1>1, <1>2, <1>4, BufferStepInv
<1>5. CASE part = "auras"
  BY <1>1, <1>2, <1>5, AuraStepInv
<1>6. CASE part = "units"
  BY <1>1, <1>2, <1>6, UnitStepInv
<1>7. CASE part = "settings"
  BY <1>1, <1>2, <1>7, SettingsStepTyped
<1>8. CASE part \in {"bags", "outfit"}
  BY <1>1, <1>2, <1>8, BagStepInv
<1>9. CASE part = "trinkets"
  BY <1>1, <1>2, <1>9, TrinketStepTyped
<1>10. CASE part = "search"
  BY <1>1, <1>2, <1>10, SearchStepTyped
<1>11. CASE part = "cooldowns"
  BY <1>1, <1>2, <1>11, CooldownStepTyped
<1>12. CASE part = "combat"
  BY <1>1, <1>2, <1>12, CombatStepTyped
<1>13. CASE part = "times"
  BY <1>1, <1>2, <1>13, TimesStepTyped
<1> QED
  BY <1>1, <1>3, <1>4, <1>5, <1>6, <1>7, <1>8, <1>9, <1>10, <1>11, <1>12, <1>13

LEMMA PartsTypes ==
  ASSUME PartsInv
  PROVE  TypesOK
<1>1. part \in PartNames
  BY DEF PartsInv
<1>2. /\ part = "pet" => PetTypeOK
      /\ part = "buffer" => BufferTypeOK
      /\ part = "auras" => AuraTypeOK
      /\ part = "units" => UnitTypeOK
      /\ part \in {"bags", "outfit"} => BagTypeOK
  BY DEF PartsInv, PetInv, BufferInv, AuraInv, AuraFields, AuraTypeOK, UnitInv, UnitTypes, UnitTypeOK, BagInv
<1>3. /\ part = "settings" => SettingsTypeOK
      /\ part = "trinkets" => TrinketTypeOK
      /\ part = "search" => SearchTypeOK
      /\ part = "cooldowns" => CooldownTypeOK
      /\ part = "combat" => CombatTypeOK
      /\ part = "times" => CastTimeTypeOK
  BY SettingsTypes, TrinketTypes, SearchTypes, CooldownTypes, TimesTypesOK DEF PartsInv, CombatTyped
<1>4. CASE part = "pet"
  BY <1>2, <1>4 DEF TypesOK
<1>5. CASE part = "buffer"
  BY <1>2, <1>5 DEF TypesOK
<1>6. CASE part = "auras"
  BY <1>2, <1>6 DEF TypesOK
<1>7. CASE part = "units"
  BY <1>2, <1>7 DEF TypesOK
<1>8. CASE part = "settings"
  BY <1>3, <1>8 DEF TypesOK
<1>9. CASE part \in {"bags", "outfit"}
  BY <1>2, <1>9 DEF TypesOK
<1>10. CASE part = "trinkets"
  BY <1>3, <1>10 DEF TypesOK
<1>11. CASE part = "search"
  BY <1>3, <1>11 DEF TypesOK
<1>12. CASE part = "cooldowns"
  BY <1>3, <1>12 DEF TypesOK
<1>13. CASE part = "combat"
  BY <1>3, <1>13 DEF TypesOK
<1>14. CASE part = "times"
  BY <1>3, <1>14 DEF TypesOK
<1> QED
  BY <1>1, <1>4, <1>5, <1>6, <1>7, <1>8, <1>9, <1>10, <1>11, <1>12, <1>13, <1>14 DEF PartNames

(* Whichever part runs, its variables keep their types.                     *)
THEOREM TypesTheorem == PartsSpec => []TypesOK
<1>1. PartsInit => PartsInv
  BY PartsInitInv
<1>2. PartsInv /\ [PartsNext]_allVars => PartsInv'
  BY PartsStepInv
<1>3. PartsInv => TypesOK
  BY PartsTypes
<1> QED
  BY <1>1, <1>2, <1>3, PTL DEF PartsSpec
=============================================================================

------------------------------ MODULE ItemBag ------------------------------
(***************************************************************************)
(* A role's bag of items (item_bag.cpp, item.cpp), the requests of         *)
(* item_servlet.cpp that change it, the money they move, and the rows of   *)
(* the items and roles tables they write.                                  *)
(*                                                                         *)
(* The bag holds an item in two places: m_itemMap, by database id, and     *)
(* m_items, by cell.  An item also carries its own idea of its cell, and   *)
(* its row has a third.  A request is one step (one worker runs it to the  *)
(* end); the requests that write two tables can also be cut between the    *)
(* two writes by the death of the process.                                 *)
(***************************************************************************)
EXTENDS Integers, FiniteSets, SequencesExt, FiniteSetsExt, Functions

CONSTANTS
  Settings,      \* what a role and its client may be like: see below
  NoTemplate,
  IntMax,        \* 2^31 - 1 in the code
  ShortMax       \* 2^15 - 1 in the code

VARIABLES
  set,      \* the setting, which never changes
  odd,      \* history: something was bought that makes no stack, or wraps the money
  item,     \* the Item objects, by id
  inMap,    \* m_itemMap: the ids of the items the role has
  slot,     \* m_items: slot[i] is an id, or 0 for an empty cell
  recent,   \* less than three seconds since m_lastSyncTime
  money,    \* Role::money()
  loaded,   \* the role is in memory
  row,      \* the items table
  dbMoney   \* roles.money

db   == <<row, dbMoney>>
vars == <<set, odd, item, inMap, slot, recent, money, loaded, row, dbMoney>>

ItemType      == set.type      \* [Templates -> Nat]: ItemTemplate::itemType
StackNum      == set.stack     \* [Templates -> Nat]: ItemTemplate::stackNum
Price         == set.price     \* ItemTemplate::price, which init never sets: each
                               \* template has whatever the heap held, for good
StrengthNext  == set.next      \* [Templates -> Templates \union {NoTemplate}]
Templates     == DOMAIN set.type
StrengthMoney == set.strength  \* StrengthMoney[q][l + 1]: the rows of equip_strength.csv
RoleLevel     == set.level     \* level of the role
StartMoney    == set.money     \* the money of the role when it is first loaded
Cells         == set.cells     \* DEFAULT_BAG_CELL, 25 in the code
Counts        == set.counts    \* the counts a client asks for, any int
MaxItems      == set.maxItems  \* bound on the rows ever inserted
MaxCell       == set.maxCell   \* bound on the cell addItem may open
MaxMoney      == set.maxMoney  \* bound on the money a sale or a purchase may leave (none at IntMax)
FirstVisit    == set.visit     \* the first visit of a role, with the server's client

ASSUME BagAssumption ==
  /\ IntMax \in Nat /\ ShortMax \in Nat
  /\ \A s \in Settings :
       /\ s.cells \in Nat \ {0, 1} /\ s.maxItems \in Nat /\ s.maxCell \in Nat /\ s.level \in Nat
       /\ s.money \in 0..s.maxMoney /\ s.maxMoney <= IntMax
       /\ s.counts \subseteq -(IntMax + 1)..IntMax
       /\ {s.type, s.stack} \subseteq [DOMAIN s.type -> Nat] /\ s.price \in [DOMAIN s.type -> Int]
       /\ s.next \in [DOMAIN s.type -> DOMAIN s.type \union {NoTemplate}] /\ s.visit \in BOOLEAN
       /\ s.strength \in Seq(Seq(Nat))
       \* items.csv: what is strengthened does not stack, nor what it becomes.
       /\ \A t \in DOMAIN s.type : s.next[t] # NoTemplate => s.stack[t] = 0 /\ s.stack[s.next[t]] = 0

Init ==
  /\ set \in Settings /\ odd = FALSE
  /\ item = <<>> /\ row = <<>> /\ inMap = {}
  /\ slot = [i \in 0..Cells-1 |-> 0]
  /\ recent = FALSE /\ loaded = TRUE
  /\ money = StartMoney /\ dbMoney = StartMoney

-----------------------------------------------------------------------------
(* Item and ItemBag.                                                       *)

\* Item::flushToDB of the items in S: an empty stack is marked deleted;
\* item_id and is_equip are not among the columns written.
Flushed(items, S) ==
  [i \in DOMAIN items |->
     IF i \in S THEN [items[i] EXCEPT !.dead = @ \/ items[i].num = 0] ELSE items[i]]
Rows(items, S) ==
  [i \in DOMAIN row |->
     IF i \in S THEN [row[i] EXCEPT !.num = items[i].num, !.idx = items[i].idx,
                                    !.dead = Flushed(items, S)[i].dead]
     ELSE row[i]]
Save(items, S) == item' = Flushed(items, S) /\ row' = Rows(items, S)

\* addItem: the first free cell after cell 0, or one more cell.
FreeCell(cells) ==
  Min({i \in 1..Cardinality(DOMAIN cells) : i \in DOMAIN cells => cells[i] = 0})
PutAt(cells, c, id) == [i \in DOMAIN cells \union {c} |-> IF i = c THEN id ELSE cells[i]]
\* Mutant of Put: a cell is skipped.
PutBeyond(cells, id) == PutAt(cells, FreeCell(cells) + 1, id)
Put(cells, id) == PutAt(cells, FreeCell(cells), id)

\* removeItem: clears the cell the item believes it is in, whatever it holds.
Cleared(cells, idx) ==
  IF idx >= 1 /\ idx \in DOMAIN cells THEN [cells EXCEPT ![idx] = 0] ELSE cells

\* loadFromDB: the rows that are not deleted, a later one over an earlier one
\* with the same item_idx; level, quality and is_equip do not come back.
LoadedIds == {i \in DOMAIN row : ~row[i].dead}
LoadedItem(i) ==
  [tpl |-> row[i].tpl, num |-> row[i].num, idx |-> row[i].idx,
   equip |-> FALSE, dead |-> FALSE, level |-> 0, quality |-> 0]
LoadedCells ==
  LET idxs == {row[i].idx : i \in LoadedIds}
  IN  [c \in 0..Max(idxs \union {Cells - 1}) |->
         Max({i \in LoadedIds : row[i].idx = c} \union {0})]

\* ItemCompare, and the order of the filled cells it makes; of the two cells of an
\* item that is in two, either may be first.
Before(i, j) ==
  LET ti == ItemType[item[i].tpl]  tj == ItemType[item[j].tpl]
  IN  ti < tj \/ (ti = tj /\ i < j)
Precedes(c, d) == Before(slot[c], slot[d]) \/ (slot[c] = slot[d] /\ c < d)
Filled == {c \in DOMAIN slot \ {0} : slot[c] # 0}
Orders ==
  {o \in [1..Cardinality(Filled) -> Filled] :
     Range(o) = Filled /\ \A i, j \in DOMAIN o : i < j => Precedes(o[i], o[j])}

\* The merge loop of sortItems over the items in order.
MergeStep(s, id) ==
  LET it    == s.items[id]
      stack == StackNum[it.tpl]
      back  == s.out[Len(s.out)]
      room  == stack - s.items[back].num
      push  == [s EXCEPT !.out = Append(@, id)]
  IN  IF s.crashed \/ it.num <= 0 THEN s
      ELSE IF stack <= 1 \/ it.num >= stack THEN push
      ELSE IF s.out = <<>> THEN [s EXCEPT !.crashed = TRUE]
      ELSE IF s.items[back].tpl # it.tpl \/ room <= 0 THEN push
      ELSE IF it.num <= room
        THEN [s EXCEPT !.items[back].num = @ + it.num, !.items[id].num = 0]
        ELSE [push EXCEPT !.items[id].num = @ - room, !.items[back].num = stack]

Merged(o) ==
  LET m[k \in 0..Cardinality(Filled)] ==
        IF k = 0 THEN [items |-> item, out |-> <<>>, crashed |-> FALSE]
        ELSE MergeStep(m[k - 1], slot[o[k]])
  IN  m[Cardinality(Filled)]
Merges == {Merged(o) : o \in Orders}

-----------------------------------------------------------------------------
(* The requests.                                                           *)

\* The arithmetic of ints, and an int that is passed as a short.
Wrapped(n, max) == ((n + max + 1) % (2 * (max + 1))) - (max + 1)
Cost(t, c)      == Wrapped(Price[t] * c, IntMax)
Short(c)        == Wrapped(c, ShortMax)
Change(t, c)    == Wrapped(money - Cost(t, c), IntMax)

NewRow(t, c) == [tpl |-> t, num |-> Short(c), idx |-> 0, dead |-> FALSE]

\* The count of the client is not looked at; isFull() is FALSE.
CanBuy(t, c) ==
  /\ loaded /\ money >= Cost(t, c)
  /\ Len(row) < MaxItems /\ FreeCell(slot) <= MaxCell /\ Change(t, c) <= MaxMoney

\* Mutant of BuyItem: the count is not multiplied into the price.
BuyItemAtUnitPrice(t, c) ==
  LET id == Len(row) + 1 IN
  /\ CanBuy(t, c)
  /\ money' = money - Price[t] /\ dbMoney' = money'
  /\ row'  = Append(row, NewRow(t, c))
  /\ item' = Append(item, [tpl |-> t, num |-> Short(c), idx |-> FreeCell(slot), equip |-> FALSE,
                           dead |-> FALSE, level |-> 0, quality |-> 0])
  /\ slot' = Put(slot, id) /\ inMap' = inMap \union {id}
  /\ UNCHANGED <<recent, loaded>>

\* doBuyItem: the row is inserted before addItem gives the item its cell.
BuyItem(t, c) ==
  LET id == Len(row) + 1 IN
  /\ CanBuy(t, c)
  /\ money' = Change(t, c) /\ dbMoney' = money'
  /\ row'  = Append(row, NewRow(t, c))
  /\ item' = Append(item, [tpl |-> t, num |-> Short(c), idx |-> FreeCell(slot), equip |-> FALSE,
                           dead |-> FALSE, level |-> 0, quality |-> 0])
  /\ slot' = Put(slot, id) /\ inMap' = inMap \union {id}
  /\ UNCHANGED <<recent, loaded>>

\* addMoney: never below zero, to which an overflow falls.
MoneyAfterSale(id) ==
  Max({0, Wrapped(money + Wrapped(Price[item[id].tpl] * item[id].num, IntMax), IntMax)})

\* The item leaves the bag and its row is marked deleted.
Drop(id) ==
  /\ Save([item EXCEPT ![id].dead = TRUE], {id})
  /\ slot' = Cleared(slot, item[id].idx) /\ inMap' = inMap \ {id}
  /\ UNCHANGED <<recent, loaded>>

\* doSellItem: the money of the role is saved first.
SellItem(id) ==
  /\ loaded /\ MoneyAfterSale(id) <= MaxMoney
  /\ money' = MoneyAfterSale(id) /\ dbMoney' = money'
  /\ Drop(id)

\* doAbandonItem
AbandonItem(id) == loaded /\ Drop(id) /\ UNCHANGED <<money, dbMoney>>

\* moveItem to an empty cell or one with another item: the two cells swap.
Stackable(id, to) ==
  slot[to] # 0 /\ item[slot[to]].tpl = item[id].tpl /\ StackNum[item[id].tpl] # 0

\* Mutants of SwapCells: the cell the item leaves still shows it; the other item
\* is not told its new cell.
SwapCellsCopied(id, to) ==
  LET moved == [item EXCEPT ![id].idx = to] IN
  /\ slot' = [slot EXCEPT ![to] = id] /\ Save(moved, {id}) /\ UNCHANGED inMap
SwapCellsUntold(id, to) ==
  LET from == item[id].idx IN
  /\ slot' = [slot EXCEPT ![from] = slot[to], ![to] = slot[from]]
  /\ Save([item EXCEPT ![id].idx = to], {id}) /\ UNCHANGED inMap

SwapCells(id, to) ==
  LET from  == item[id].idx
      other == slot[to]
      moved == [item EXCEPT ![id].idx = to]
  IN  /\ slot' = [slot EXCEPT ![from] = slot[to], ![to] = slot[from]]
      /\ IF other = 0 THEN Save(moved, {id})
         ELSE Save([moved EXCEPT ![other].idx = from], {id, other})
      /\ UNCHANGED inMap

\* Mutant of Stacked: what does not fit is gone.
StackedCut(id, other) ==
  [item EXCEPT ![other].num = Min({@ + item[id].num, StackNum[item[id].tpl]}), ![id].num = 0]

\* moveItem onto a stack of the same item: as many as fit go over.
Stacked(id, other) ==
  LET stack == StackNum[item[id].tpl]
      sum   == item[other].num + item[id].num
  IN  IF sum <= stack THEN [item EXCEPT ![other].num = sum, ![id].num = 0]
      ELSE [item EXCEPT ![id].num = sum - stack, ![other].num = stack]

\* Mutant of StackCells: only the stack that moved is flushed.
StackCellsHalfSaved(id, to) ==
  LET items == Stacked(id, slot[to]) IN
  /\ item' = Flushed(items, {id}) /\ row' = Rows(items, {id})
  /\ IF item[slot[to]].num + item[id].num <= StackNum[item[id].tpl]
     THEN slot' = Cleared(slot, item[id].idx) /\ inMap' = inMap \ {id}
     ELSE UNCHANGED <<slot, inMap>>

StackCells(id, to) ==
  /\ Save(Stacked(id, slot[to]), {id, slot[to]})
  /\ IF item[slot[to]].num + item[id].num <= StackNum[item[id].tpl]
     THEN slot' = Cleared(slot, item[id].idx) /\ inMap' = inMap \ {id}
     ELSE UNCHANGED <<slot, inMap>>

MoveItem(id, to) ==
  /\ loaded /\ to \in DOMAIN slot \ {0}
  /\ \/ Stackable(id, to) /\ StackCells(id, to)
     \/ ~Stackable(id, to) /\ item[id].idx \in DOMAIN slot /\ SwapCells(id, to)
  /\ UNCHANGED <<recent, money, loaded, dbMoney>>

\* doSortItems: sortItems does nothing within three seconds of the last time;
\* the items that are in a cell afterwards are flushed in any case.
InCells(cells) == {cells[i] : i \in DOMAIN cells} \ {0}

SortedItems(m) ==
  [i \in DOMAIN item |->
     IF i \in ToSet(m.out)
     THEN [m.items[i] EXCEPT !.idx = Max({c \in DOMAIN m.out : m.out[c] = i})]
     ELSE m.items[i]]
SortedCells(m) ==
  [i \in 0..Cells-1 |-> IF i \in DOMAIN m.out THEN m.out[i] ELSE 0]

SortItems ==
  /\ loaded
  /\ \/ recent /\ Save(item, InCells(slot)) /\ UNCHANGED slot
     \/ \E m \in Merges :
          /\ ~recent /\ ~m.crashed
          /\ slot' = SortedCells(m)
          /\ Save(SortedItems(m), InCells(SortedCells(m)))
  /\ recent' = TRUE
  /\ UNCHANGED <<inMap, money, loaded, dbMoney>>

\* Three seconds pass.
Tick ==
  /\ recent /\ recent' = FALSE
  /\ UNCHANGED <<item, inMap, slot, money, loaded, row, dbMoney>>

\* doEquipItem: the item leaves its cell and stays in the map.
EquipItem(id) ==
  /\ loaded
  /\ Save([item EXCEPT ![id].equip = TRUE], {id})
  /\ slot' = Cleared(slot, item[id].idx)
  /\ UNCHANGED <<inMap, recent, money, loaded, dbMoney>>

\* doUnEquipItem: nothing asks whether the item was equipped, and the row is
\* written before addItem gives the item its new cell.
UnEquipItem(id) ==
  LET off == [item EXCEPT ![id].equip = FALSE] IN
  /\ loaded /\ FreeCell(slot) <= MaxCell
  /\ row'  = Rows(off, {id})
  /\ item' = [Flushed(off, {id}) EXCEPT ![id].idx = FreeCell(slot)]
  /\ slot' = Put(slot, id)
  /\ UNCHANGED <<inMap, recent, money, loaded, dbMoney>>

-----------------------------------------------------------------------------
(* Strengthening.                                                          *)

\* getStrengthEquipMoney: the level and the quality after one strengthening,
\* and what it costs (-1 past the last quality).
Level(q, l, cost) == [quality |-> q, level |-> l, cost |-> cost]
NextLevel(q, l) ==
  LET q0 == IF q = 0 THEN 1 ELSE q
      l0 == IF q = 0 THEN 1 ELSE l
  IN  IF q0 \notin DOMAIN StrengthMoney THEN Level(q0, l0, -1)
      ELSE IF l0 + 1 < Len(StrengthMoney[q0])
        THEN Level(q0, l0 + 1, StrengthMoney[q0][l0 + 2])
      ELSE IF q0 + 1 \in DOMAIN StrengthMoney /\ Len(StrengthMoney[q0 + 1]) > 1
        THEN Level(q0 + 1, 1, StrengthMoney[q0 + 1][2])
      ELSE Level(q0 + 1, 1, -1)

\* The loop of doStrengthItem: what n strengthenings make of the item.
StrengthStep(s) ==
  LET up == NextLevel(s.quality, s.level)
      next == IF s.tpl = NoTemplate THEN NoTemplate ELSE StrengthNext[s.tpl]
  IN  [quality |-> up.quality, level |-> up.level, need |-> s.need + up.cost, tpl |-> next,
       ok |-> /\ s.ok /\ up.cost # -1 /\ up.level <= RoleLevel
              /\ money >= s.need + up.cost /\ next # NoTemplate]
Strengthened(id, n) ==
  LET s[k \in 0..n] ==
        IF k = 0 THEN [quality |-> item[id].quality, level |-> item[id].level, need |-> 0,
                       tpl |-> item[id].tpl, ok |-> TRUE]
        ELSE StrengthStep(s[k - 1])
  IN  s[n]

\* doStrengthItem: all or nothing; the role is not flushed.
StrengthItem(id, n) ==
  LET s == Strengthened(id, n) IN
  /\ loaded /\ n >= 1 /\ s.ok
  /\ money' = money - s.need
  /\ Save([item EXCEPT ![id].tpl = s.tpl, ![id].level = s.level, ![id].quality = s.quality],
          {id})
  /\ UNCHANGED <<inMap, slot, recent, loaded, dbMoney>>

-----------------------------------------------------------------------------
(* The role leaves memory and comes back.                                  *)

Gone ==
  /\ loaded' = FALSE /\ item' = <<>> /\ inMap' = {} /\ slot' = [i \in 0..Cells-1 |-> 0]
  /\ recent' = FALSE /\ money' = 0

\* PlayerSession::playerOffline, or the process dies: nothing is saved.
Leave == loaded /\ Gone /\ UNCHANGED db

\* sortItems looks at the empty cell 0 when the first item in order is an
\* incomplete stack.
SortCrash == loaded /\ ~recent /\ (\E m \in Merges : m.crashed) /\ Gone /\ UNCHANGED db

\* Without a round of its loop doStrengthItem has no new template to look at.
StrengthCrash(n) == loaded /\ n < 1 /\ Gone /\ UNCHANGED db

\* moveItem reads past the end of m_items: the item left a cell that a sort has
\* cut off since.
MoveCrash(id, to) ==
  /\ loaded /\ to \in DOMAIN slot \ {0}
  /\ ~Stackable(id, to) /\ item[id].idx \notin DOMAIN slot
  /\ Gone /\ UNCHANGED db

\* The process dies between the two writes of a request.
BuyCut(t, c)  == CanBuy(t, c) /\ dbMoney' = Change(t, c) /\ Gone /\ UNCHANGED row
SellCut(id) ==
  /\ loaded /\ MoneyAfterSale(id) <= MaxMoney
  /\ dbMoney' = MoneyAfterSale(id) /\ Gone /\ UNCHANGED row
MoveCut(id, to) ==
  /\ loaded /\ to \in DOMAIN slot \ {0}
  /\ \/ Stackable(id, to) /\ row' = Rows(Stacked(id, slot[to]), {id})
     \/ /\ ~Stackable(id, to) /\ slot[to] # 0
        /\ row' = Rows([item EXCEPT ![slot[to]].idx = item[id].idx], {slot[to]})
  /\ Gone /\ UNCHANGED dbMoney
SortCut ==
  /\ loaded /\ ~recent
  /\ \E m \in Merges : \E last \in 1..Cells-1 :
       /\ ~m.crashed
       /\ row' = Rows(SortedItems(m), {SortedCells(m)[i] : i \in 0..last} \ {0})
  /\ Gone /\ UNCHANGED dbMoney

\* Role::loadFromDB and ItemBag::loadFromDB.
Load ==
  /\ ~loaded /\ loaded' = TRUE
  /\ item' = [i \in DOMAIN row |-> LoadedItem(i)]
  /\ inMap' = LoadedIds /\ slot' = LoadedCells
  /\ money' = dbMoney
  /\ UNCHANGED <<recent, row, dbMoney>>

-----------------------------------------------------------------------------
\* The items a client can name: those its bag shows, and those it wears.
InBag == {id \in inMap : id \in InCells(slot)}
Worn  == {id \in inMap : item[id].equip}

\* A client may name every item of m_itemMap, those no cell shows among them.
AnyRequest ==
  \/ \E t \in Templates, c \in Counts : BuyItem(t, c) \/ BuyCut(t, c)
  \/ \E id \in inMap :
       \/ SellItem(id) \/ SellCut(id) \/ AbandonItem(id)
       \/ EquipItem(id) \/ UnEquipItem(id)
       \/ \E to \in DOMAIN slot : MoveItem(id, to) \/ MoveCrash(id, to) \/ MoveCut(id, to)
       \/ \E n \in Counts : StrengthItem(id, n) \/ StrengthCrash(n)
  \/ SortItems \/ SortCrash \/ SortCut \/ Tick \/ Leave \/ Load

\* The first visit of a role, by a client that does with an item of its bag
\* and with an item it wears what its screens offer for it.
Visit ==
  \/ \E t \in Templates, c \in Counts : BuyItem(t, c) \/ BuyCut(t, c)
  \/ \E id \in InBag :
       \/ SellItem(id) \/ SellCut(id) \/ AbandonItem(id) \/ EquipItem(id)
       \/ \E to \in DOMAIN slot : MoveItem(id, to) \/ MoveCut(id, to)
  \/ \E id \in InBag \union Worn, n \in Counts : StrengthItem(id, n) \/ StrengthCrash(n)
  \/ \E id \in Worn : UnEquipItem(id)
  \/ SortItems \/ SortCrash \/ SortCut \/ Tick \/ Leave

\* What makes a purchase odd: nothing in its stack, or more money than an int holds.
Odd(t, c) == c < 1 \/ Short(c) < 1 \/ money - Cost(t, c) > IntMax

Next ==
  /\ \/ FirstVisit /\ Visit
     \/ ~FirstVisit /\ AnyRequest
  /\ odd' = (odd \/ \E t \in Templates, c \in Counts : Odd(t, c) /\ (BuyItem(t, c) \/ BuyCut(t, c)))
  /\ UNCHANGED set

Spec == Init /\ [][Next]_vars

-----------------------------------------------------------------------------
(* Properties.                                                             *)

ItemRecord ==
  [tpl : Templates, num : Int, idx : Nat, equip : BOOLEAN, dead : BOOLEAN,
   level : Nat, quality : Nat]
RowRecord == [tpl : Templates, num : Int, idx : Nat, dead : BOOLEAN]

\* The type of every variable; the table has a row for every item object, and the
\* bag at least its first cells.
TypeOK ==
  /\ item \in Seq(ItemRecord) /\ row \in Seq(RowRecord) /\ Len(item) = (IF loaded THEN Len(row) ELSE 0)
  /\ inMap \subseteq DOMAIN item
  /\ IsFiniteSet(DOMAIN slot) /\ 0..Cells-1 \subseteq DOMAIN slot
  /\ slot \in [0..Cardinality(DOMAIN slot)-1 -> {0} \union DOMAIN item]
  /\ recent \in BOOLEAN /\ loaded \in BOOLEAN /\ odd \in BOOLEAN
  /\ money \in Int /\ dbMoney \in Int

Units(t) ==
  SumFunction([i \in DOMAIN row |-> IF i \in inMap /\ row[i].tpl = t THEN item[i].num ELSE 0])
SavedUnits(t) ==
  SumFunction([i \in DOMAIN row |-> IF i \in LoadedIds /\ row[i].tpl = t THEN row[i].num ELSE 0])

\* What a cell of the bag shows is what the table holds, whatever sequence of
\* moves, merges, sorts, equips and reloads led there (moveItem, doSortItems,
\* doUnEquipItem).  A logout or a crash moreover never loses money (the table
\* holds more after strengthening) nor, in a first visit, goods: for every
\* template the rows that would be loaded hold at least what the bag holds (more
\* after a sort: a stack merged into another keeps its row), until an odd purchase.
TableKeepsUp ==
  loaded =>
    /\ \A id \in InCells(slot) : row[id].num = item[id].num /\ row[id].dead = item[id].dead
    /\ dbMoney >= money
    /\ FirstVisit /\ ~odd => \A t \in Templates : SavedUnits(t) >= Units(t)

OneCellEach == \A i, j \in DOMAIN slot : slot[i] = slot[j] /\ slot[i] # 0 => i = j

\* In a first visit, while the role is in memory, it has another number of units
\* of a template only after a purchase, a sale, an item thrown away, or a move of
\* a stack onto its own cell: no other move, and no sort (moveItem, sortItems).
GoodsConserved ==
  [][FirstVisit /\ loaded /\ loaded' /\ (\E t \in Templates : Units(t)' # Units(t)) =>
       \/ \E t \in Templates, c \in Counts : BuyItem(t, c)
       \/ \E id \in InBag :
            \/ SellItem(id) \/ AbandonItem(id)
            \/ \E to \in DOMAIN slot \ {0} : slot[to] = id /\ MoveItem(id, to)]_vars

\* Only taking off an item that is in the bag puts an item in two cells.
DoubledByUnEquip ==
  [][OneCellEach /\ ~OneCellEach' =>
       \E id \in InCells(slot) : UnEquipItem(id)]_vars

Worth(i) == IF i \in LoadedIds THEN Price[row[i].tpl] * Max({0, row[i].num}) ELSE 0
Wealth   == dbMoney + SumFunction([i \in DOMAIN row |-> Worth(i)])

\* In a first visit, when no price happens to be negative, and until an odd purchase
\* (see Odd), the wealth in the tables grows only in one of these
\* steps: a purchase of a negative count, or one whose price is past what an int
\* holds; a sale cut before its item is marked deleted, the sale of an item
\* strengthened since it was loaded, the merge of a sort, a move of a stack onto
\* its own cell, and a move onto a stack that was bought above its limit and is
\* cut before that one is saved.
WealthSources ==
  [][FirstVisit /\ ~odd /\ (\A t \in Templates : Price[t] >= 0) /\ Wealth' > Wealth =>
       \/ SortItems \/ SortCut
       \/ \E t \in Templates, c \in Counts :
            (c < 0 \/ Price[t] * c > IntMax) /\ (BuyItem(t, c) \/ BuyCut(t, c))
       \/ \E id \in InBag \union Worn :
            \/ SellCut(id)
            \/ SellItem(id) /\ item[id].tpl # row[id].tpl
            \/ \E to \in DOMAIN slot \ {0} :
                 \/ slot[to] = id /\ (MoveItem(id, to) \/ MoveCut(id, to))
                 \/ slot[to] # 0 /\ item[slot[to]].num > StackNum[item[id].tpl] /\ MoveCut(id, to)]_vars

\* In a first visit, the three records of where an item is agree: an item in a
\* cell is in the map and believes it is in that cell, and an item of the map
\* that is neither empty nor worn is in the cell it believes it is in, as long as
\* the role bought no more than a bag shows: a sort cuts off what is beyond.
CellsAgree ==
  FirstVisit =>
    /\ \A c \in DOMAIN slot :
         slot[c] # 0 => slot[c] \in inMap /\ item[slot[c]].idx = c
    /\ Len(row) < Cells =>
         \A id \in inMap :
           item[id].num > 0 /\ ~item[id].equip =>
             item[id].idx \in DOMAIN slot /\ slot[item[id].idx] = id
=============================================================================

-------------------------------- MODULE Gems --------------------------------
(***************************************************************************)
(* The gems of gem_servlet.cpp in the items of one role, and their way     *)
(* into the items table and out of it (item.cpp, item_bag.cpp).            *)
(*                                                                         *)
(* A gem that is put into an item stops being an item itself: its row is   *)
(* marked deleted and its four numbers are written into the column gems of *)
(* the other row.  The column is a sequence of gems (each stands for its   *)
(* four numbers and the commas between them) and semicolons.  Of the items *)
(* the model keeps that they are in the map of the bag and whether their   *)
(* number is zero, for a flush marks the row of such an item deleted; what *)
(* else buying, moving and sorting do to them is the matter of ItemBag.    *)
(***************************************************************************)
EXTENDS Integers, Sequences, SequencesExt, FiniteSets

CONSTANTS
  Items,        \* ids of rows of items
  Fragments,    \* the rows whose template is GEM_FRAGMENT_ID
  Templates,    \* the ids of rows that are ids of templates as well
  Heaps,        \* the items of one template whose stackNum is not 0, for each
  BoughtEmpty,  \* the rows that were inserted with a number of 0
  Positions,    \* what clients send as Index, which is kept as a char
  Counts,       \* what clients send as Count
  FragmentExp,  \* correspondingExp of the template of a fragment
  NoGem,        \* a NULL in m_gems
  Semicolon,    \* the separator of the column
  MaxExp        \* bound on the experience of a gem, either way

ASSUME GemsAssumption ==
  /\ Items \subseteq Nat /\ Fragments \subseteq Items /\ Templates \subseteq Items
  /\ Heaps \subseteq SUBSET Items /\ BoughtEmpty \subseteq Items
  /\ Positions \subseteq Int /\ Counts \subseteq Int /\ FragmentExp \in Nat /\ MaxExp \in Nat
  /\ {NoGem, Semicolon} \cap [id : Items, pos : Nat, exp : Int] = {}

VARIABLES
  row,     \* the items table: whether the row is good (not marked deleted; for
           \* an item of the bag also its state in memory), its number, its gems
  bag,     \* the ids in m_itemMap
  empty,   \* those of them whose number is 0
  gems,    \* m_gems of each item of the bag: position p at p + 1
  loaded   \* the role is in memory

vars == <<row, bag, empty, gems, loaded>>

NoItems == [i \in {} |-> <<>>]

Init ==
  /\ row = [i \in Items |-> [good |-> TRUE, empty |-> i \in BoughtEmpty, text |-> <<>>]]
  /\ bag = {} /\ empty = {} /\ gems = NoItems /\ loaded = FALSE

-----------------------------------------------------------------------------
(* The vector and the column.                                              *)

\* addGem: a taken position is refused; a position past the end leaves NULLs
\* before it.
Taken(v, p)  == p + 1 \in DOMAIN v /\ v[p + 1] # NoGem
Put(v, g, p) ==
  [k \in 1..IF p >= Len(v) THEN p + 1 ELSE Len(v) |->
     CASE k = p + 1 -> [id |-> g, pos |-> p, exp |-> 0]
       [] k # p + 1 /\ k \in DOMAIN v -> v[k]
       [] OTHER -> NoGem]
Gapped(v) == NoGem \in Range(v)

\* flushToDB: the gems follow each other without a semicolon, and the last
\* character of the last one is cut off.
CutDigit(n) == IF n < 0 THEN -((-n) \div 10) ELSE n \div 10
Written(v)  == [k \in DOMAIN v |-> IF k = Len(v) THEN [v[k] EXCEPT !.exp = CutDigit(@)] ELSE v[k]]

\* split: what comes after the last separator is dropped.
SplitStep(s, token) ==
  IF token = Semicolon THEN [done |-> Append(s.done, s.open), open |-> <<>>]
  ELSE [s EXCEPT !.open = Append(@, token)]
Split(text) == FoldLeft(SplitStep, [done |-> <<>>, open |-> <<>>], text).done

\* ItemBag::loadFromDB: a piece without four fields is passed over.
Read(text) ==
  LET pieces == Split(text)
  IN  FlattenSeq([k \in DOMAIN pieces |-> IF Len(pieces[k]) = 1 THEN pieces[k] ELSE <<>>])

-----------------------------------------------------------------------------
(* The role comes into memory and leaves it.                               *)

Good == {i \in Items : row[i].good}

Load ==
  /\ ~loaded /\ loaded' = TRUE
  /\ bag' = Good /\ empty' = {i \in Good : row[i].empty}
  /\ gems' = [i \in Good |-> Read(row[i].text)]
  /\ UNCHANGED row

\* The role, or the process, is gone; nothing is saved.
Gone  == loaded' = FALSE /\ bag' = {} /\ empty' = {} /\ gems' = NoItems
Leave == loaded /\ Gone /\ UNCHANGED row

-----------------------------------------------------------------------------
(* The requests.                                                           *)

\* Mutant of CanEquip: a taken position is not refused.
CanEquipTaken(e, g, p) == loaded /\ e \in bag /\ g \in bag

\* The items a request names are in the bag, and the position is free.
CanEquip(e, g, p) == loaded /\ e \in bag /\ g \in bag /\ ~Taken(gems[e], p)

\* The vectors after addGem.
Filled(e, g, p) == [gems EXCEPT ![e] = Put(@, g, p)]

\* The table after the items in S are flushed, when the items in E have a number
\* of 0: such an item is marked deleted, in memory as in the table, for good.
Marked(rows, i) == [rows EXCEPT ![i].good = FALSE]
Saved(rows, E, vectors, S) ==
  [i \in Items |->
     IF i \in S THEN [good |-> rows[i].good /\ i \notin E, empty |-> i \in E, text |-> Written(vectors[i])]
     ELSE rows[i]]

\* The item i is no more in the map.
Without(i, vectors) ==
  bag' = bag \ {i} /\ empty' = empty \ {i} /\ gems' = [j \in bag \ {i} |-> vectors[j]]

\* Mutants of EquipGem: the gem stays in the map; the item is not flushed.
EquipGemKept(e, g, p) ==
  /\ CanEquip(e, g, p) /\ p >= 0 /\ ~Gapped(Put(gems[e], g, p))
  /\ gems' = Filled(e, g, p)
  /\ row'  = Saved(Marked(row, g), empty, gems', {g, e})
  /\ UNCHANGED <<bag, empty, loaded>>
EquipGemUnsaved(e, g, p) ==
  /\ CanEquip(e, g, p) /\ p >= 0
  /\ Without(g, Filled(e, g, p))
  /\ row' = Saved(Marked(row, g), empty, Filled(e, g, p), {g})
  /\ UNCHANGED loaded

\* doEquipGem: nothing asks whether the one is a gem, and whether it is the other
\* itself.  The row of the gem is flushed first.
EquipGem(e, g, p) ==
  /\ CanEquip(e, g, p) /\ p >= 0 /\ ~Gapped(Put(gems[e], g, p))
  /\ Without(g, Filled(e, g, p))
  /\ row' = Saved(Marked(row, g), empty, Filled(e, g, p), {g, e})
  /\ UNCHANGED loaded

\* A position before the vector: addGem overwrites what the allocator keeps
\* there and releases it as a counter.  That ends the process where the vector
\* has no storage, and next to its storage, where the size of the block is; from
\* further away the request may as well go on, with the gem in no vector.
EquipBefore(e, g, p) ==
  /\ CanEquip(e, g, p) /\ p < 0
  /\ \/ Gone /\ UNCHANGED row
     \/ /\ p < -1 /\ gems[e] # <<>>
        /\ Without(g, gems)
        /\ row' = Saved(Marked(row, g), empty, gems, {g, e})
        /\ UNCHANGED loaded

\* The process dies between the two flushes: of itself at any time, and by the
\* flush that reads a NULL of the vector.  An item put into itself with a NULL
\* before it dies in the first flush.
EquipCut(e, g, p) ==
  /\ CanEquip(e, g, p)
  /\ \/ p >= 0 /\ row' = IF Gapped(Filled(e, g, p)[g]) THEN row
                          ELSE Saved(Marked(row, g), empty, Filled(e, g, p), {g})
     \/ p < -1 /\ gems[e] # <<>> /\ row' = Saved(Marked(row, g), empty, gems, {g})
  /\ Gone

\* getGemById
FoundAt(e, g) == {k \in DOMAIN gems[e] : gems[e][k] # NoGem /\ gems[e][k].id = g}

\* doStrengthGem: the row id of the gem is taken for a template, the stacks of
\* fragments in the bag are counted, and no fragment is taken
\* (decItemCountByTemplateId is empty).  Nothing is flushed.
StrengthGem(e, g, n) ==
  /\ loaded /\ e \in bag /\ g \in Templates
  /\ n <= Cardinality(bag \cap Fragments)
  /\ \E k \in FoundAt(e, g) :
       /\ \A j \in FoundAt(e, g) : k <= j
       /\ gems[e][k].exp + FragmentExp * n \in -MaxExp..MaxExp
       /\ gems' = [gems EXCEPT ![e][k].exp = @ + FragmentExp * n]
  /\ UNCHANGED <<row, bag, empty, loaded>>

\* doSellItem and doAbandonItem: the item goes with the gems in it.
Drop(i) ==
  /\ loaded /\ i \in bag
  /\ Without(i, gems)
  /\ row' = Saved(Marked(row, i), empty, gems, {i})
  /\ UNCHANGED loaded

\* moveItem onto a stack of the same template, which may be the item itself (a
\* stack that left the map but not its cell does as much).  Either all of the
\* item goes over, and the other has a number of 0 when both had, when one number
\* is the negative of the other, or when it is the same item ...
Alike(f, t) == f \in bag /\ t \in bag /\ \E h \in Heaps : f \in h /\ t \in h
Emptied(f, t) ==
  {E \in {empty \union {f, t}, (empty \union {f}) \ {t}} :
     f \in E /\ ({f, t} \cap empty # {} => (t \in E <=> {f, t} \subseteq empty))}
\* ... or the other takes as much as a stack may hold.
Shared(f, t) == IF {f, t} \subseteq empty THEN {} ELSE {empty \ {f, t}}

\* The item leaves the map with the gems in it, and is flushed first.
StackAll(f, t) ==
  /\ loaded /\ Alike(f, t)
  /\ \E E \in Emptied(f, t) : empty' = E \ {f} /\ row' = Saved(row, E, gems, {f, t})
  /\ bag' = bag \ {f} /\ gems' = [i \in bag \ {f} |-> gems[i]]
  /\ UNCHANGED loaded
StackSome(f, t) ==
  /\ loaded /\ Alike(f, t)
  /\ empty' \in Shared(f, t) /\ row' = Saved(row, empty', gems, {f, t})
  /\ UNCHANGED <<bag, gems, loaded>>
\* The process dies between the two flushes.
StackCut(f, t) ==
  /\ loaded /\ Alike(f, t)
  /\ \E E \in Emptied(f, t) \union Shared(f, t) : row' = Saved(row, E, gems, {f})
  /\ Gone

\* Any other request that flushes items: one that is worn or strengthened, two
\* that change their cells, or all that a sort leaves in a cell.  The sort has
\* merged some stacks into others of their template, or into themselves when they
\* were in two cells; they stay in the map with a number of 0.
Flush(F, S) ==
  /\ loaded /\ S \subseteq bag /\ F \subseteq bag \ empty
  /\ \A f \in F : \E t \in bag \ empty : Alike(f, t)
  /\ empty' = empty \union F /\ row' = Saved(row, empty', gems, S)
  /\ UNCHANGED <<bag, gems, loaded>>
\* The process dies when it has flushed the items in S.
FlushCut(F, S) ==
  /\ loaded /\ S \subseteq bag /\ F \subseteq bag \ empty
  /\ \A f \in F : \E t \in bag \ empty : Alike(f, t)
  /\ row' = Saved(row, empty \union F, gems, S)
  /\ Gone

Next ==
  \/ \E e, g \in Items :
       \/ \E p \in Positions : EquipGem(e, g, p) \/ EquipBefore(e, g, p) \/ EquipCut(e, g, p)
       \/ \E n \in Counts : StrengthGem(e, g, n)
       \/ StackAll(e, g) \/ StackSome(e, g) \/ StackCut(e, g)
  \/ \E i \in Items : Drop(i)
  \/ \E F, S \in SUBSET Items : Flush(F, S) \/ FlushCut(F, S)
  \/ Load \/ Leave

Spec == Init /\ [][Next]_vars

-----------------------------------------------------------------------------
(* Properties.                                                             *)

Gem == [id : Items, pos : Nat, exp : Int]

\* The type of every variable.  No vector of an item has a NULL: addGem leaves
\* some, but the flush of the same request ends the process, so that GetEquipGem
\* and the flushes of other requests, which read without asking, meet none.
TypeOK ==
  /\ row \in [Items -> [good : BOOLEAN, empty : BOOLEAN, text : Seq(Gem)]]
  /\ loaded \in BOOLEAN /\ bag \subseteq Items /\ empty \subseteq bag
  /\ gems \in [bag -> Seq(Gem)]

Carried(e) == {gems[e][k].id : k \in DOMAIN gems[e]}

\* A gem is an item or it is in an item, never both, and it is in one item and
\* at one position only, whatever items are put into each other (doEquipGem).
\* Also in the table, wherever the process died between its flushes: a gem
\* written into the row of an item is no item any more, so no start doubles it.
NoGemTwice ==
  /\ \A e \in bag : Carried(e) \cap bag = {}
  /\ \A e, f \in bag : \A j \in DOMAIN gems[e], k \in DOMAIN gems[f] :
       gems[e][j].id = gems[f][k].id => e = f /\ j = k
  /\ \A e \in Good : \A k \in DOMAIN row[e].text : ~row[row[e].text[k].id].good

Owned == bag \union UNION {Carried(e) : e \in bag}

\* In a session an item leaves its owner with a request that says so, and in four
\* ways nobody asked for: it is put into itself; it is in an item that is put
\* into another (doEquipGem drops the object of the gem and what it carries); it
\* is, or is in, a stack that goes over to another one whole (moveItem); or it is
\* put at a position before the vector and the process lives on (addGem).
VanishBySteps ==
  [][loaded /\ loaded' /\ Owned' # Owned =>
       \/ \E i \in bag : Drop(i)
       \/ \E e, g \in bag : (e = g \/ gems[g] # <<>>) /\ \E p \in Positions : EquipGem(e, g, p)
       \/ \E e, g \in bag : \E p \in Positions : EquipBefore(e, g, p)
       \/ \E f, t \in bag : StackAll(f, t)]_vars
=============================================================================

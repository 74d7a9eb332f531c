------------------------------ MODULE SoulsBag ------------------------------
(***************************************************************************)
(* A role's souls (souls_bag.cpp), the requests of soul_item_servlet.cpp   *)
(* that change them, the purse they are hunted with, the tables of         *)
(* soul_item_template.cpp, and the rows of the souls and roles tables.     *)
(*                                                                         *)
(* A soul is in one of three maps (hunted, in the bag, equipped); a soul   *)
(* of the bag is also in a cell of m_soulsVect.  A request is one step;    *)
(* the requests that write two rows can be cut between the writes by the   *)
(* death of the process.                                                   *)
(***************************************************************************)
EXTENDS Integers, FiniteSets, SequencesExt, FiniteSetsExt, Functions

CONSTANT
  Settings     \* the tables, the sizes and the bounds: see below

VARIABLES
  set,       \* the setting, which never changes
  soul,      \* the SoulItem objects, by id
  hunted,    \* m_huntedSouls
  bag,       \* m_soulsBag
  equipped,  \* m_equippedSouls
  vect,      \* m_soulsVect: vect[i] is an id, or 0 for a NULL
  purse,     \* money, souls index and souls value of the role
  loaded,    \* the role is in memory
  row,       \* the souls table
  dbPurse    \* the same columns of the roles table

db   == <<row, dbPurse>>
vars == <<set, soul, hunted, bag, equipped, vect, purse, loaded, row, dbPurse>>

HuntInfo   == set.hunts      \* rows of souls_hunt.csv: [money, value, levelNeed, rises, weights]
LevelExp   == set.exps       \* LevelExp[q][l]: rows of souls_exp.csv, ascending in l
SwallowExp == set.gifts      \* SwallowExp[q][l]: what a soul gives besides its own exp
TopLevel   == set.tops       \* TopLevel[q]: the last template of the chain of strengthNextLevelId
RoleLevel  == set.level      \* level of the role
StartMoney == set.money      \* the money of the role when it is first loaded
Cells      == set.cells      \* SOULS_COUNT_PER_PAGE * PAGE_COUNT, 48 in the code
MaxHunt    == set.maxHunt    \* MAX_HUNT_SOULS_COUNT, 18 in the code
MoveCells  == set.moves      \* the cells a client moves a soul to; the code refuses none
EquipCells == set.places     \* the places a client equips a soul at
StaleExp   == set.stale      \* what the exp of a deleted soul may read as
MaxSouls   == set.maxSouls   \* bound on the rows ever inserted
MaxExp     == set.maxExp     \* bound on the exp a soul may reach
Qualities  == DOMAIN LevelExp

Hunts == [money : Nat, value : Nat, levelNeed : Nat, rises : BOOLEAN, weights : Seq(Nat)]

ASSUME SoulsAssumption ==
  \A s \in Settings :
    /\ {s.cells, s.maxHunt} \subseteq Nat \ {0} /\ {s.maxSouls, s.maxExp, s.money, s.level} \subseteq Nat
    /\ s.moves \union s.places \union s.stale \subseteq Nat
    /\ s.hunts \in Seq(Hunts) /\ {s.exps, s.gifts} \subseteq Seq(Seq(Nat)) /\ s.tops \in Seq(Nat \ {0})
    /\ DOMAIN s.gifts = DOMAIN s.exps /\ DOMAIN s.tops = DOMAIN s.exps
    /\ \A q \in DOMAIN s.exps : s.exps[q][1] = 0 /\ DOMAIN s.gifts[q] = DOMAIN s.exps[q]

HUNTED == 0  IN_BAG == 1  EQUIPPED == 2  DELETED == 100
NoCells == [i \in 0..Cells-1 |-> 0]
Start   == [money |-> StartMoney, index |-> 0, value |-> 0]

Init ==
  /\ set \in Settings
  /\ soul = <<>> /\ row = <<>> /\ hunted = {} /\ bag = {} /\ equipped = {}
  /\ vect = NoCells /\ purse = Start /\ dbPurse = Start /\ loaded = TRUE

-----------------------------------------------------------------------------
(* The tables.                                                             *)

\* getLevelByExp is a lower_bound: the first level whose exp is not below e.
LevelByExp(q, e) ==
  LET above == {l \in DOMAIN LevelExp[q] : LevelExp[q][l] >= e}
  IN  IF above = {} THEN -1 ELSE Min(above)

\* randQuality is keyed by the running sum of the weights, so a quality
\* replaces the ones before it that have the same sum.
Sum(weights, q) == FoldLeft(+, 0, SubSeq(weights, 1, q))
Rolled(weights) ==
  LET sums == {Sum(weights, q) : q \in DOMAIN weights} \ {0}
  IN  {Max({q \in DOMAIN weights : Sum(weights, q) = s}) : s \in sums}

-----------------------------------------------------------------------------
(* Hunting.                                                                *)

Indexes(S) == {soul[id].idx : id \in S}

\* nextHuntSoulIndex: the first index below the number of souls that no soul
\* has, or that number.
NextHuntIndex ==
  LET size == Cardinality(hunted)
      free == (0..size-1) \ Indexes(hunted)
  IN  IF free = {} THEN size ELSE Min(free)

\* The hunt a client asks for by its index is the one after it, if any; the
\* souls index of the role is not consulted.
InfoOf(i) == HuntInfo[IF i + 1 \in DOMAIN HuntInfo THEN i + 1 ELSE i]
CanHunt(i) ==
  /\ loaded /\ purse.money >= InfoOf(i).money /\ Cardinality(hunted) < MaxHunt
  /\ Len(row) < MaxSouls
Paid(i, rise) ==
  [money |-> Max({0, purse.money - InfoOf(i).money}),
   index |-> purse.index + rise, value |-> purse.value + InfoOf(i).value]
Rise(i) == IF RoleLevel >= InfoOf(i).levelNeed /\ InfoOf(i).rises THEN {0, 1} ELSE {0}

\* doHuntSoulItem: the role is saved, then the new soul.
HuntSoul(i, q, rise) ==
  LET s == [q |-> q, lvl |-> 1, exp |-> 0, idx |-> NextHuntIndex, type |-> HUNTED] IN
  /\ CanHunt(i) /\ q \in Rolled(InfoOf(i).weights)
  /\ purse' = Paid(i, rise) /\ dbPurse' = purse'
  /\ row' = Append(row, s) /\ soul' = Append(soul, s) /\ hunted' = hunted \union {Len(row) + 1}
  /\ UNCHANGED <<bag, equipped, vect, loaded>>

-----------------------------------------------------------------------------
(* The bag.                                                                *)

Save(souls, ids) ==
  /\ soul' = souls
  /\ row' = [id \in DOMAIN row |-> IF id \in ids THEN souls[id] ELSE row[id]]

\* remove: the cell the soul believes it is in is set to NULL.
Emptied(id) == IF soul[id].idx \in DOMAIN vect THEN [vect EXCEPT ![soul[id].idx] = 0] ELSE vect

NullCells == {i \in DOMAIN vect : vect[i] = 0}

\* storeSoulItem into the first NULL cell, if there is one.
Stored(souls, id) ==
  [souls EXCEPT ![id].type = IN_BAG, ![id].idx = Min(NullCells)]
IntoCell(id) ==
  /\ vect' = [vect EXCEPT ![Min(NullCells)] = id] /\ bag' = bag \union {id}

\* doStoreSoulItem
StoreSoul(id) ==
  /\ loaded /\ id \in hunted /\ NullCells # {}
  /\ IntoCell(id) /\ hunted' = hunted \ {id} /\ Save(Stored(soul, id), {id})
  /\ UNCHANGED <<equipped, purse, loaded, dbPurse>>

\* doMoveSoulItem: neither asks whether the cell is NULL nor moves the pointer.
MoveSoul(id, to) ==
  /\ loaded /\ id \in bag
  /\ Save([soul EXCEPT ![id].idx = to], {id})
  /\ UNCHANGED <<hunted, bag, equipped, vect, purse, loaded, dbPurse>>

\* Mutants of EquipSoul: addEquipSoul or the flush is forgotten.
EquipSoulUnlisted(id, to) ==
  /\ loaded /\ id \in bag
  /\ vect' = Emptied(id) /\ bag' = bag \ {id}
  /\ Save([soul EXCEPT ![id].idx = to, ![id].type = EQUIPPED], {id})
  /\ UNCHANGED <<hunted, equipped, purse, loaded, dbPurse>>
EquipSoulUnsaved(id, to) ==
  /\ loaded /\ id \in bag
  /\ vect' = Emptied(id) /\ bag' = bag \ {id} /\ equipped' = equipped \union {id}
  /\ Save([soul EXCEPT ![id].idx = to, ![id].type = EQUIPPED], {})
  /\ UNCHANGED <<hunted, purse, loaded, dbPurse>>

\* doEquipSoulItem
EquipSoul(id, to) ==
  /\ loaded /\ id \in bag
  /\ vect' = Emptied(id) /\ bag' = bag \ {id} /\ equipped' = equipped \union {id}
  /\ Save([soul EXCEPT ![id].idx = to, ![id].type = EQUIPPED], {id})
  /\ UNCHANGED <<hunted, purse, loaded, dbPurse>>

-----------------------------------------------------------------------------
(* Swallowing.                                                             *)

Level(s) == LevelByExp(s.q, s.exp)
Gift(s)  == SwallowExp[s.q][Level(s)]
AddExp(s, e) == [s EXCEPT !.exp = Max({0, @ + e})]

\* Mutant of Risen: it rises by the level, not the difference.
RisenByLevel(old, s) ==
  [s EXCEPT !.lvl = IF Level(s) = Level(old) THEN @ ELSE @ + Max({0, Level(s)})]

\* The template follows the level, as many steps as the level rose.
Risen(old, s) == [s EXCEPT !.lvl = @ + Max({0, Level(s) - Level(old)})]
NoTemplateFor(old, s) == Risen(old, s).lvl > TopLevel[s.q]

Fed(a, b) == AddExp(soul[a], Gift(soul[b]) + soul[b].exp)
CanSwallow(a, b) ==
  loaded /\ {a, b} \subseteq bag /\ Level(soul[b]) # -1 /\ Fed(a, b).exp <= MaxExp

\* doSwallowSoulItem: a swallows b (a and b may be the same soul).
SwallowSoul(a, b) ==
  LET fed == [soul EXCEPT ![a] = Risen(soul[a], Fed(a, b))] IN
  /\ CanSwallow(a, b) /\ ~NoTemplateFor(soul[a], Fed(a, b))
  /\ Save([fed EXCEPT ![b].type = DELETED], {a, b})
  /\ vect' = Emptied(b) /\ bag' = bag \ {b}
  /\ UNCHANGED <<hunted, equipped, purse, loaded, dbPurse>>

\* doSwallowAll: the first of the hunted souls of the highest quality swallows
\* the others in the order of their ids, up to the first one without a level.
Swallower ==
  LET best == Max({soul[id].q : id \in hunted})
  IN  Min({id \in hunted : soul[id].q = best})
Fodder ==
  LET others  == hunted \ {Swallower}
      lacking == {id \in others : Level(soul[id]) = -1}
  IN  {id \in others : \A x \in lacking : id < x}
Finished == Fodder = hunted \ {Swallower}

\* The exp of a soul is read after the soul is deleted: read[id].
FedAll(read) ==
  AddExp(soul[Swallower], SumFunction([id \in Fodder |-> Gift(soul[id]) + read[id]]))
Reads == {r \in [Fodder -> StaleExp \union {soul[id].exp : id \in Fodder}] :
            \A id \in Fodder : r[id] \in StaleExp \union {soul[id].exp}}
Bounded(read) == FedAll(read).exp <= MaxExp
Eaten(souls) == [id \in DOMAIN souls |->
                   IF id \in Fodder THEN [souls[id] EXCEPT !.type = DELETED] ELSE souls[id]]

\* The request runs to its end: the swallower leaves the hunted souls, whether
\* or not there is a cell for it.
SwallowAll(read) ==
  LET a   == Swallower
      fed == Eaten([soul EXCEPT ![a] = Risen(@, FedAll(read))])
  IN  /\ Finished /\ ~NoTemplateFor(soul[a], FedAll(read))
      /\ hunted' = {}
      /\ \/ NullCells # {} /\ IntoCell(a) /\ Save(Stored(fed, a), Fodder \union {a})
         \/ NullCells = {} /\ UNCHANGED <<vect, bag>> /\ Save(fed, Fodder \union {a})
      /\ UNCHANGED <<equipped, purse, loaded, dbPurse>>

\* It returns early: the souls before the bad one are gone, and what they gave
\* is neither saved nor followed by the template.
SwallowSome(read) ==
  /\ ~Finished
  /\ Save(Eaten([soul EXCEPT ![Swallower] = FedAll(read)]), Fodder)
  /\ hunted' = hunted \ Fodder
  /\ UNCHANGED <<bag, equipped, vect, purse, loaded, dbPurse>>

-----------------------------------------------------------------------------
(* The role leaves memory and comes back.                                  *)

\* Mutant of Gone: the equipped souls stay.
GoneButEquipped ==
  /\ loaded' = FALSE /\ soul' = <<>> /\ hunted' = {} /\ bag' = {} /\ equipped' = equipped
  /\ vect' = NoCells /\ purse' = Start

Gone ==
  /\ loaded' = FALSE /\ soul' = <<>> /\ hunted' = {} /\ bag' = {} /\ equipped' = {}
  /\ vect' = NoCells /\ purse' = Start

\* PlayerSession::playerOffline, or the process dies: nothing is saved.
Leave == loaded /\ Gone /\ UNCHANGED db

\* The process dies between two writes of a request.
HuntCut(i, rise) == CanHunt(i) /\ dbPurse' = Paid(i, rise) /\ Gone /\ UNCHANGED row
SwallowCut(a, b) ==
  /\ CanSwallow(a, b) /\ ~NoTemplateFor(soul[a], Fed(a, b))
  /\ row' = [row EXCEPT ![a] = Risen(soul[a], Fed(a, b))]
  /\ Gone /\ UNCHANGED dbPurse
SwallowAllCut(last) ==
  /\ row' = [id \in DOMAIN row |->
               IF id \in Fodder /\ id <= last THEN [soul[id] EXCEPT !.type = DELETED]
               ELSE row[id]]
  /\ Gone /\ UNCHANGED dbPurse

\* The next template does not exist, and the message that says so reads it.
SwallowCrash(a, b) ==
  CanSwallow(a, b) /\ NoTemplateFor(soul[a], Fed(a, b)) /\ Gone /\ UNCHANGED db
SwallowAllCrash(read) ==
  /\ Finished /\ NoTemplateFor(soul[Swallower], FedAll(read))
  /\ row' = [id \in DOMAIN row |->
               IF id \in Fodder THEN [soul[id] EXCEPT !.type = DELETED] ELSE row[id]]
  /\ Gone /\ UNCHANGED dbPurse

\* Role::loadFromDB and SoulsBag::loadFromDB: a later row takes the cell of an
\* earlier one with the same index; an index past the last cell gets none.
Load ==
  LET of(t) == {id \in DOMAIN row : row[id].type = t} IN
  /\ ~loaded /\ loaded' = TRUE
  /\ soul' = row /\ purse' = dbPurse
  /\ hunted' = of(HUNTED) /\ bag' = of(IN_BAG) /\ equipped' = of(EQUIPPED)
  /\ vect' = [i \in 0..Cells-1 |-> Max({id \in of(IN_BAG) : row[id].idx = i} \union {0})]
  /\ UNCHANGED db

-----------------------------------------------------------------------------
Hunt ==
  \E i \in DOMAIN HuntInfo : \E rise \in Rise(i) :
    \/ \E q \in Qualities : HuntSoul(i, q, rise)
    \/ HuntCut(i, rise)
Swallow ==
  \E a, b \in bag : SwallowSoul(a, b) \/ SwallowCut(a, b) \/ SwallowCrash(a, b)
SwallowHunted ==
  /\ loaded /\ hunted # {}
  /\ \/ \E read \in Reads :
          Bounded(read) /\ (SwallowAll(read) \/ SwallowSome(read) \/ SwallowAllCrash(read))
     \/ \E last \in Fodder : SwallowAllCut(last)
Equip == \E id \in bag, to \in EquipCells : EquipSoul(id, to)
Move == \E id \in bag, to \in MoveCells : MoveSoul(id, to)

Next ==
  /\ \/ Hunt \/ Swallow \/ SwallowHunted \/ Equip \/ Move
     \/ \E id \in hunted : StoreSoul(id)
     \/ Leave \/ Load
  /\ UNCHANGED set

Spec == Init /\ [][Next]_vars

-----------------------------------------------------------------------------
(* Properties.                                                             *)

SoulRecord ==
  [q : Qualities, lvl : Nat \ {0}, exp : Nat, idx : Nat,
   type : {HUNTED, IN_BAG, EQUIPPED, DELETED}]
Purse == [money : Nat, index : Nat, value : Nat]

\* The type of every variable.
TypeOK ==
  /\ soul \in Seq(SoulRecord) /\ row \in Seq(SoulRecord)
  /\ \A id \in DOMAIN row : row[id].lvl <= TopLevel[row[id].q]
  /\ hunted \subseteq DOMAIN soul /\ bag \subseteq DOMAIN soul /\ equipped \subseteq DOMAIN soul
  /\ vect \in [0..Cells-1 -> {0} \union DOMAIN soul]
  /\ purse \in Purse /\ dbPurse \in Purse /\ loaded \in BOOLEAN

Shown == hunted \union bag \union equipped
OfType == [t \in {HUNTED, IN_BAG, EQUIPPED} |->
             CASE t = HUNTED -> hunted [] t = IN_BAG -> bag [] OTHER -> equipped]

\* The kind, the place and the template of every soul shown are what its row
\* says, so that a restart brings it back where it was; only its exp may run
\* ahead, and only after a SwallowAll that returned early.  And the index a new
\* hunted soul gets (nextHuntSoulIndex, marked "TODO") is one no hunted soul has,
\* on the screen of MAX_HUNT_SOULS_COUNT places.
PlaceIsSaved ==
  /\ \A id \in Shown :
      /\ row[id].type = soul[id].type /\ row[id].idx = soul[id].idx /\ row[id].lvl = soul[id].lvl
      /\ \A t \in DOMAIN OfType : id \in OfType[t] <=> soul[id].type = t
  /\ loaded => NextHuntIndex \notin Indexes(hunted) /\ \A i \in Indexes(hunted) : i < MaxHunt

\* Every soul a restart would load is shown now.
NoneHidden == loaded => \A id \in DOMAIN row : row[id].type # DELETED => id \in Shown

\* The cells and the souls of the bag agree, in memory and in the table.
CellsAgree ==
  /\ \A i \in DOMAIN vect : vect[i] # 0 => vect[i] \in bag /\ soul[vect[i]].idx = i
  /\ \A id \in bag : soul[id].idx \in DOMAIN vect /\ vect[soul[id].idx] = id
  /\ \A i, j \in DOMAIN row :
       row[i].type = IN_BAG /\ row[j].type = IN_BAG =>
         row[i].idx < Cells /\ (row[i].idx = row[j].idx => i = j)

\* The template of a soul is the one of its level.
Follows == \A id \in DOMAIN row :
  row[id].type # DELETED /\ Level(row[id]) # -1 => row[id].lvl = Level(row[id])

\* A soul of a quality with a template for every level never runs off the end
\* of its chain of templates by a swallow, whatever cuts, early returns and
\* restarts went before.
Complete(s) == Len(LevelExp[s.q]) <= TopLevel[s.q]
ChainNeverEnds ==
  /\ \A a, b \in bag :
       CanSwallow(a, b) /\ Complete(soul[a]) => ~NoTemplateFor(soul[a], Fed(a, b))
  /\ hunted # {} /\ Finished /\ Complete(soul[Swallower]) =>
       \A read \in Reads : ~NoTemplateFor(soul[Swallower], FedAll(read))

\* Of all the requests, crashes and restarts, three only set a bag at odds: a
\* soul is in no list after a SwallowAll with no NULL cell left; cells and souls
\* disagree after a move; and the saved template falls behind the saved level
\* through a soul whose exp a SwallowAll that returned early has left unsaved
\* (for good: later swallows add the difference of two levels).
OddsBySteps ==
  [][/\ NoneHidden /\ ~NoneHidden' => hunted # {} /\ NullCells = {} /\ \E read \in Reads : SwallowAll(read)
     /\ CellsAgree /\ ~CellsAgree' => Move
     /\ Follows /\ ~Follows' => \E id \in Shown : soul[id].exp # row[id].exp]_vars
=============================================================================

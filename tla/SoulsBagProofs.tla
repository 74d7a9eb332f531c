--------------------------- MODULE SoulsBagProofs ---------------------------
(***************************************************************************)
(* Proofs about SoulsBag, for any tables and sizes: what a restart loads   *)
(* is what memory shows, the screen of hunted souls keeps within its       *)
(* places, and the chain of templates has no end a swallow could run off.  *)
(***************************************************************************)
EXTENDS SoulsBag, CommonLemmas

-----------------------------------------------------------------------------
(* The tables and the rows of a setting c.                                 *)

\* getLevelByExp in the table t.
LevelIn(t, e) ==
  LET above == {l \in DOMAIN t : t[l] >= e} IN IF above = {} THEN -1 ELSE Min(above)

Record(c) ==
  [q : DOMAIN c.exps, lvl : Nat \ {0}, exp : Nat, idx : Nat, type : {HUNTED, IN_BAG, EQUIPPED, DELETED}]

\* The template exists and is not ahead of the level.
Climbs(c, r) ==
  /\ r.lvl <= c.tops[r.q]
  /\ LevelIn(c.exps[r.q], r.exp) # -1 => r.lvl <= LevelIn(c.exps[r.q], r.exp)

\* The template follows the level.
RisenIn(c, old, s) ==
  [s EXCEPT !.lvl = @ + Max({0, LevelIn(c.exps[s.q], s.exp) - LevelIn(c.exps[old.q], old.exp)})]

\* A hunted soul is at a place of the screen.
RowOk(c, r) ==
  r \in Record(c) /\ Climbs(c, r) /\ (r.type = HUNTED => r.idx < c.maxHunt)

\* Only the exp may differ.
Alike(r, s) == r.q = s.q /\ r.lvl = s.lvl /\ r.idx = s.idx /\ r.type = s.type

-----------------------------------------------------------------------------
(* The inductive invariant.                                                *)

Typed ==
  /\ set \in Settings /\ loaded \in BOOLEAN /\ purse \in Purse /\ dbPurse \in Purse
  /\ row \in Seq(Record(set)) /\ vect \in [0..Cells-1 -> {0} \union DOMAIN soul]

RowsOk == \A id \in DOMAIN row : RowOk(set, row[id])

\* In memory every row has its soul, and the lists are by its type; a soul that
\* found no cell keeps the type of the hunted ones.
Present ==
  /\ soul \in Seq(Record(set)) /\ Len(soul) = Len(row)
  /\ \A id \in DOMAIN row : RowOk(set, soul[id]) /\ Alike(row[id], soul[id])
  /\ hunted \subseteq {id \in DOMAIN row : row[id].type = HUNTED}
  /\ bag = {id \in DOMAIN row : row[id].type = IN_BAG}
  /\ equipped = {id \in DOMAIN row : row[id].type = EQUIPPED}

Absent == soul = <<>> /\ hunted = {} /\ bag = {} /\ equipped = {}

SoulsInv ==
  /\ Typed /\ RowsOk
  /\ loaded => Present
  /\ ~loaded => Absent

-----------------------------------------------------------------------------
(* Levels and templates.                                                   *)

\* The shape of the tables of a setting.
LEMMA SettingIsOk ==
  ASSUME NEW c \in Settings
  PROVE  /\ c.exps \in Seq(Seq(Nat)) /\ c.gifts \in Seq(Seq(Nat)) /\ c.tops \in Seq(Nat \ {0})
         /\ c.hunts \in Seq(Hunts)
         /\ DOMAIN c.gifts = DOMAIN c.exps /\ DOMAIN c.tops = DOMAIN c.exps
         /\ c.cells \in Nat \ {0} /\ c.maxHunt \in Nat \ {0} /\ c.money \in Nat /\ c.level \in Nat
         /\ c.maxSouls \in Nat /\ c.maxExp \in Nat
         /\ c.moves \subseteq Nat /\ c.places \subseteq Nat /\ c.stale \subseteq Nat
         /\ \A q \in DOMAIN c.exps :
              /\ c.exps[q] \in Seq(Nat) /\ c.gifts[q] \in Seq(Nat) /\ c.tops[q] \in Nat \ {0}
              /\ c.exps[q][1] = 0 /\ DOMAIN c.gifts[q] = DOMAIN c.exps[q]
<1>1. /\ {c.cells, c.maxHunt} \subseteq Nat \ {0} /\ {c.maxSouls, c.maxExp, c.money, c.level} \subseteq Nat
      /\ c.moves \union c.places \union c.stale \subseteq Nat
      /\ c.hunts \in Seq(Hunts) /\ {c.exps, c.gifts} \subseteq Seq(Seq(Nat)) /\ c.tops \in Seq(Nat \ {0})
      /\ DOMAIN c.gifts = DOMAIN c.exps /\ DOMAIN c.tops = DOMAIN c.exps
      /\ \A q \in DOMAIN c.exps : c.exps[q][1] = 0 /\ DOMAIN c.gifts[q] = DOMAIN c.exps[q]
  BY SoulsAssumption
<1>2. c.exps \in Seq(Seq(Nat)) /\ c.gifts \in Seq(Seq(Nat))
  BY <1>1
<1>3. \A q \in DOMAIN c.exps : c.exps[q] \in Seq(Nat)
  BY <1>2
<1>4. \A q \in DOMAIN c.gifts : c.gifts[q] \in Seq(Nat)
  BY <1>2
<1>5. \A q \in DOMAIN c.tops : c.tops[q] \in Nat \ {0}
  BY <1>1
<1>6. /\ c.cells \in Nat \ {0} /\ c.maxHunt \in Nat \ {0} /\ c.money \in Nat /\ c.level \in Nat
      /\ c.maxSouls \in Nat /\ c.maxExp \in Nat
      /\ c.moves \subseteq Nat /\ c.places \subseteq Nat /\ c.stale \subseteq Nat
  BY <1>1
<1> QED
  BY <1>1, <1>2, <1>3, <1>4, <1>5, <1>6

\* A level is -1 or one of the table.
LEMMA LevelRange ==
  ASSUME NEW t \in Seq(Nat), NEW e \in Nat
  PROVE  LevelIn(t, e) \in {-1} \union DOMAIN t /\ LevelIn(t, e) \in Int /\ DOMAIN t = 1..Len(t)
<1> DEFINE above == {l \in DOMAIN t : t[l] >= e}
<1>1. DOMAIN t = 1..Len(t) /\ above \subseteq Nat
  OBVIOUS
<1>2. above # {} => Min(above) \in above
  BY <1>1, MinIsLeast
<1> QED
  BY <1>1, <1>2 DEF LevelIn

\* With more exp a soul has no level or none below the one it had.
LEMMA LevelRises ==
  ASSUME NEW t \in Seq(Nat), NEW e \in Nat, NEW f \in Nat, e <= f
  PROVE  LevelIn(t, f) # -1 => LevelIn(t, e) # -1 /\ LevelIn(t, e) <= LevelIn(t, f)
<1> DEFINE A(x) == {l \in DOMAIN t : t[l] >= x}
<1>1. DOMAIN t = 1..Len(t) /\ A(e) \subseteq Nat /\ A(f) \subseteq Nat /\ A(f) \subseteq A(e)
  OBVIOUS
<1>2. A(f) # {} => Min(A(f)) \in A(f) /\ A(e) # {} /\ Min(A(e)) \in A(e) /\ \A l \in A(e) : Min(A(e)) <= l
  BY <1>1, MinIsLeast
<1>3. LevelIn(t, e) = IF A(e) = {} THEN -1 ELSE Min(A(e))
  BY DEF LevelIn
<1>4. LevelIn(t, f) = IF A(f) = {} THEN -1 ELSE Min(A(f))
  BY DEF LevelIn
<1> HIDE DEF A
<1> QED
  BY <1>1, <1>2, <1>3, <1>4

\* A soul that was not ahead of its level is not when it has risen with it, and
\* the template it has then exists if the chain is complete.
LEMMA RisenClimbs ==
  ASSUME NEW c \in Settings, NEW old, RowOk(c, old),
         NEW s \in Record(c), Alike(old, s), old.exp <= s.exp, NEW r, r = RisenIn(c, old, s)
  PROVE  /\ r \in Record(c) /\ r.q = old.q /\ r.idx = old.idx /\ r.type = old.type /\ r.exp = s.exp
         /\ LevelIn(c.exps[r.q], r.exp) # -1 => r.lvl <= LevelIn(c.exps[r.q], r.exp)
         /\ Len(c.exps[old.q]) <= c.tops[old.q] => r.lvl <= c.tops[old.q]
<1> DEFINE t == c.exps[old.q]
           d == LevelIn(t, s.exp) - LevelIn(t, old.exp)
<1>1. old \in Record(c) /\ old.q \in DOMAIN c.exps /\ old.exp \in Nat /\ s.exp \in Nat /\ old.lvl \in Nat \ {0}
  BY DEF RowOk, Record
<1>2. t \in Seq(Nat) /\ c.tops[old.q] \in Nat \ {0} /\ DOMAIN t = 1..Len(t) /\ Len(t) \in Nat
  BY <1>1, SettingIsOk
<1>3. s.q = old.q /\ s.lvl = old.lvl /\ s.idx = old.idx /\ s.type = old.type
  BY DEF Alike
<1>4. /\ LevelIn(t, s.exp) \in {-1} \union 1..Len(t) /\ LevelIn(t, old.exp) \in {-1} \union 1..Len(t)
      /\ LevelIn(t, s.exp) # -1 => LevelIn(t, old.exp) # -1 /\ LevelIn(t, old.exp) <= LevelIn(t, s.exp)
  BY <1>1, <1>2, LevelRange, LevelRises
<1>5. old.lvl <= c.tops[old.q] /\ (LevelIn(t, old.exp) # -1 => old.lvl <= LevelIn(t, old.exp))
  BY DEF RowOk, Climbs
<1> HIDE DEF t
<1>6. d \in Int /\ Max({0, d}) = IF 0 <= d THEN d ELSE 0
  <2>1. d \in Int
    BY <1>2, <1>4
  <2> HIDE DEF d
  <2> QED
    BY <2>1, MaxOfTwo
<1>7. r = [s EXCEPT !.lvl = s.lvl + Max({0, d})]
  BY <1>3 DEF t, RisenIn
<1>8. Max({0, d}) \in Nat /\ old.lvl + Max({0, d}) \in Nat \ {0}
  BY <1>1, <1>6
<1>9. /\ LevelIn(t, s.exp) # -1 => old.lvl + Max({0, d}) <= LevelIn(t, s.exp)
      /\ Len(t) <= c.tops[old.q] => old.lvl + Max({0, d}) <= c.tops[old.q]
  <2> DEFINE u == LevelIn(t, s.exp)
             v == LevelIn(t, old.exp)
             top == c.tops[old.q]
             l == old.lvl
             m == Max({0, d})
  <2>1. /\ u \in Int /\ v \in Int /\ top \in Int /\ l \in Int /\ Len(t) \in Int /\ d = u - v
        /\ m = IF 0 <= d THEN d ELSE 0
    BY <1>1, <1>2, <1>4, <1>6
  <2>2. (u # -1 => v # -1 /\ v <= u) /\ u <= Len(t) /\ (v = -1 \/ v >= 1)
    BY <1>2, <1>4
  <2>3. l <= top /\ (v # -1 => l <= v)
    BY <1>5
  <2> HIDE DEF u, v, top, l, m, d
  <2>4. (u # -1 => l + m <= u) /\ (Len(t) <= top => l + m <= top)
    BY ONLY <2>1, <2>2, <2>3
  <2> QED
    BY <2>4 DEF u, v, top, l, m
<1> HIDE DEF d
<1>10. /\ r \in Record(c) /\ r.q = old.q /\ r.idx = old.idx /\ r.type = old.type /\ r.exp = s.exp
       /\ r.lvl = old.lvl + Max({0, d})
  BY <1>3, <1>7, <1>8 DEF Record
<1> QED
  BY <1>9, <1>10 DEF t

-----------------------------------------------------------------------------
(* The invariant.                                                          *)

\* What the invariant says of a role in memory, and of the setting.
LEMMA InMemory ==
  ASSUME SoulsInv, loaded = TRUE
  PROVE  /\ set \in Settings /\ soul \in Seq(Record(set)) /\ row \in Seq(Record(set))
         /\ Len(soul) \in Nat /\ Len(soul) = Len(row) /\ DOMAIN soul = 1..Len(row) /\ DOMAIN row = 1..Len(row)
         /\ \A id \in DOMAIN row :
              /\ soul[id] \in Record(set) /\ row[id] \in Record(set)
              /\ RowOk(set, soul[id]) /\ RowOk(set, row[id]) /\ Alike(row[id], soul[id])
         /\ hunted \subseteq {id \in DOMAIN row : soul[id].type = HUNTED}
         /\ bag = {id \in DOMAIN row : soul[id].type = IN_BAG}
         /\ equipped = {id \in DOMAIN row : soul[id].type = EQUIPPED}
         /\ vect \in [0..Cells-1 -> {0} \union DOMAIN row] /\ Cells \in Nat \ {0}
         /\ purse \in Purse /\ dbPurse \in Purse
<1>1. Typed /\ RowsOk /\ Present
  BY DEF SoulsInv
<1>2. /\ set \in Settings /\ row \in Seq(Record(set)) /\ vect \in [0..Cells-1 -> {0} \union DOMAIN soul]
      /\ purse \in Purse /\ dbPurse \in Purse
  BY <1>1 DEF Typed
<1>3. /\ soul \in Seq(Record(set)) /\ Len(soul) = Len(row)
      /\ \A id \in DOMAIN row : RowOk(set, soul[id]) /\ Alike(row[id], soul[id])
      /\ hunted \subseteq {id \in DOMAIN row : row[id].type = HUNTED}
      /\ bag = {id \in DOMAIN row : row[id].type = IN_BAG}
      /\ equipped = {id \in DOMAIN row : row[id].type = EQUIPPED}
  BY <1>1 DEF Present
<1>4. DOMAIN soul = 1..Len(row) /\ DOMAIN row = 1..Len(row) /\ Len(soul) \in Nat
  BY <1>2, <1>3
<1>5. \A id \in DOMAIN row : soul[id] \in Record(set) /\ row[id] \in Record(set)
  BY <1>2, <1>3, <1>4
<1>6. \A id \in DOMAIN row : RowOk(set, row[id])
  BY <1>1 DEF RowsOk
<1>7. \A id \in DOMAIN row : row[id].type = soul[id].type
  BY <1>3 DEF Alike
<1>8. Cells \in Nat \ {0}
  BY <1>2, SettingIsOk DEF Cells
<1> HIDE <1>1
<1>9. /\ hunted \subseteq {id \in DOMAIN row : soul[id].type = HUNTED}
      /\ bag = {id \in DOMAIN row : soul[id].type = IN_BAG}
      /\ equipped = {id \in DOMAIN row : soul[id].type = EQUIPPED}
  BY <1>3, <1>7
<1>10. DOMAIN soul = DOMAIN row
  BY <1>4
<1> QED
  BY <1>2, <1>3, <1>4, <1>5, <1>6, <1>8, <1>9, <1>10

\* A function on the domain of a sequence is a sequence as long.
LEMMA SameLength ==
  ASSUME NEW S, NEW R, NEW q \in Seq(R), NEW f, f = [i \in DOMAIN q |-> f[i]],
         \A i \in DOMAIN q : f[i] \in S
  PROVE  f \in Seq(S) /\ Len(f) = Len(q) /\ DOMAIN f = DOMAIN q
<1>1. DOMAIN q = 1..Len(q) /\ Len(q) \in Nat
  OBVIOUS
<1>2. f \in [1..Len(q) -> S]
  BY <1>1
<1> QED
  BY <1>1, <1>2

\* The invariant after a write of rows in memory: each row is the soul, or it
\* is what it was and the soul has not changed but for its exp.
LEMMA KeptBySave ==
  ASSUME SoulsInv, loaded = TRUE, loaded' = TRUE, set' = set,
         row' = [id \in DOMAIN row |-> row'[id]],
         soul' \in Seq(Record(set)), Len(soul') = Len(soul),
         \A id \in DOMAIN row :
           /\ RowOk(set, soul'[id])
           /\ row'[id] = soul'[id] \/ (row'[id] = row[id] /\ Alike(soul[id], soul'[id])),
         hunted' \subseteq {id \in DOMAIN row : soul'[id].type = HUNTED},
         bag' = {id \in DOMAIN row : soul'[id].type = IN_BAG},
         equipped' = {id \in DOMAIN row : soul'[id].type = EQUIPPED},
         vect' \in [0..Cells-1 -> {0} \union DOMAIN row], purse' \in Purse, dbPurse' \in Purse
  PROVE  SoulsInv'
<1>1. /\ row \in Seq(Record(set)) /\ DOMAIN row = 1..Len(row) /\ Len(row) \in Nat /\ Len(soul) = Len(row)
      /\ \A id \in DOMAIN row : RowOk(set, row[id]) /\ Alike(row[id], soul[id])
      /\ set \in Settings
  BY InMemory
<1>2. \A id \in DOMAIN row : RowOk(set, row'[id]) /\ Alike(row'[id], soul'[id])
  <2> SUFFICES ASSUME NEW id \in DOMAIN row PROVE RowOk(set, row'[id]) /\ Alike(row'[id], soul'[id])
    OBVIOUS
  <2>1. RowOk(set, soul'[id]) /\ RowOk(set, row[id]) /\ Alike(row[id], soul[id])
    BY <1>1
  <2>2. row'[id] = soul'[id] \/ (row'[id] = row[id] /\ Alike(soul[id], soul'[id]))
    OBVIOUS
  <2> QED
    BY ONLY <2>1, <2>2 DEF Alike
<1>3. \A id \in DOMAIN row : row'[id] \in Record(set) /\ row'[id].type = soul'[id].type
  BY <1>2 DEF RowOk, Alike
<1>4. row' \in Seq(Record(set)) /\ Len(row') = Len(row) /\ DOMAIN row' = DOMAIN row
  BY <1>1, <1>3, SameLength, SMTT(30)
<1>5. DOMAIN soul' = DOMAIN row
  BY <1>1
<1>6. Typed'
  <2>1. set' \in Settings /\ loaded' \in BOOLEAN /\ row' \in Seq(Record(set'))
    BY <1>1, <1>4
  <2>2. vect' \in [0..Cells'-1 -> {0} \union DOMAIN soul']
    BY <1>5 DEF Cells
  <2> QED
    BY <2>1, <2>2 DEF Typed
<1>7. RowsOk'
  BY <1>2, <1>4 DEF RowsOk
<1>8. Present'
  <2>1. soul' \in Seq(Record(set')) /\ Len(soul') = Len(row')
    BY <1>1, <1>4
  <2>2. \A id \in DOMAIN row' : RowOk(set', soul'[id]) /\ Alike(row'[id], soul'[id])
    BY <1>2, <1>4
  <2>3. /\ hunted' \subseteq {id \in DOMAIN row' : row'[id].type = HUNTED}
        /\ bag' = {id \in DOMAIN row' : row'[id].type = IN_BAG}
        /\ equipped' = {id \in DOMAIN row' : row'[id].type = EQUIPPED}
    BY <1>3, <1>4
  <2> QED
    BY <2>1, <2>2, <2>3 DEF Present
<1> QED
  BY <1>6, <1>7, <1>8 DEF SoulsInv

\* The invariant after the role has gone: only the rows matter.
LEMMA KeptByGone ==
  ASSUME SoulsInv, Gone, set' = set, dbPurse' \in Purse,
         row' = [id \in DOMAIN row |-> row'[id]], \A id \in DOMAIN row : RowOk(set, row'[id])
  PROVE  SoulsInv'
<1>1. set \in Settings /\ row \in Seq(Record(set))
  BY DEF SoulsInv, Typed
<1>2. \A id \in DOMAIN row : row'[id] \in Record(set)
  BY DEF RowOk
<1>3. row' \in Seq(Record(set)) /\ DOMAIN row' = DOMAIN row
  BY <1>1, <1>2, SameLength
<1>4. Typed'
  <2>1. set' \in Settings /\ row' \in Seq(Record(set'))
    BY <1>1, <1>3
  <2>2. purse' \in Purse
    BY <1>1, SettingIsOk DEF Gone, Start, StartMoney, Purse
  <2>3. vect' \in [0..Cells'-1 -> {0} \union DOMAIN soul']
    BY DEF Gone, NoCells, Cells
  <2>4. loaded' \in BOOLEAN
    BY DEF Gone
  <2> QED
    BY <2>1, <2>2, <2>3, <2>4 DEF Typed
<1>5. RowsOk'
  BY <1>3 DEF RowsOk
<1>6. Absent' /\ loaded' = FALSE
  BY DEF Gone, Absent
<1> QED
  BY <1>4, <1>5, <1>6 DEF SoulsInv

\* The initial states.
LEMMA FirstState == Init => SoulsInv
<1> SUFFICES ASSUME Init PROVE SoulsInv
  OBVIOUS
<1>1. set \in Settings /\ purse \in Purse /\ dbPurse \in Purse /\ loaded = TRUE
  BY SettingIsOk DEF Init, Start, StartMoney, Purse
<1>2. soul = <<>> /\ row = <<>> /\ hunted = {} /\ bag = {} /\ equipped = {}
  BY DEF Init
<1>3. vect \in [0..Cells-1 -> {0} \union DOMAIN soul]
  BY DEF Init, NoCells
<1>4. Typed
  BY <1>1, <1>2, <1>3 DEF Typed
<1>5. RowsOk
  BY <1>2 DEF RowsOk
<1>6. Present
  BY <1>2 DEF Present
<1> QED
  BY <1>1, <1>4, <1>5, <1>6 DEF SoulsInv

-----------------------------------------------------------------------------
(* Places and cells.                                                       *)

\* nextHuntSoulIndex gives a place that no hunted soul has, and none past the
\* number of the hunted souls.
LEMMA NextPlace ==
  ASSUME SoulsInv, loaded = TRUE
  PROVE  /\ NextHuntIndex \in Nat /\ Cardinality(hunted) \in Nat
         /\ NextHuntIndex <= Cardinality(hunted) /\ NextHuntIndex \notin Indexes(hunted)
<1> DEFINE n == Cardinality(hunted)
           free == (0..n-1) \ Indexes(hunted)
           f == [id \in hunted |-> soul[id].idx]
<1>1. hunted \subseteq 1..Len(row) /\ Len(row) \in Nat
  BY InMemory
<1>2. IsFiniteSet(hunted) /\ n \in Nat
  <2>1. IsFiniteSet(1..Len(row))
    BY <1>1, FS_Interval
  <2>2. IsFiniteSet(hunted)
    BY <1>1, <2>1, FS_Subset
  <2> QED
    BY <2>2, FS_CardinalityType
<1>3. f \in Surjection(hunted, Indexes(hunted))
  BY DEF Surjection, Indexes
<1>4. IsFiniteSet(Indexes(hunted)) /\ Cardinality(Indexes(hunted)) <= n
  BY <1>2, <1>3, FS_Surjection
<1> HIDE DEF n, f
<1>5. free # {} => Min(free) \in free
  BY <1>2, MinIsLeast
<1>6. ASSUME free = {} PROVE n \notin Indexes(hunted)
  <2>1. 0..n-1 \in SUBSET Indexes(hunted) /\ n \notin 0..n-1
    BY <1>2, <1>6
  <2>2. Cardinality(0..n-1) = n
    BY <1>2, FS_Interval
  <2>3. Cardinality(0..n-1) <= Cardinality(Indexes(hunted))
    BY <1>4, <2>1, FS_Subset
  <2>4. Cardinality(Indexes(hunted)) \in Nat
    BY <1>4, FS_CardinalityType
  <2>5. 0..n-1 = Indexes(hunted)
    BY <1>2, <1>4, <2>1, <2>2, <2>3, <2>4, FS_Subset
  <2> QED
    BY <2>1, <2>5
<1>7. NextHuntIndex = IF free = {} THEN n ELSE Min(free)
  BY DEF NextHuntIndex, n
<1> QED
  BY <1>2, <1>5, <1>6, <1>7 DEF n

\* The first NULL cell is a cell with a NULL.
LEMMA FirstNull ==
  ASSUME SoulsInv, loaded = TRUE, NullCells # {}
  PROVE  Min(NullCells) \in 0..Cells-1 /\ Min(NullCells) \in Nat /\ vect[Min(NullCells)] = 0
<1>1. NullCells \subseteq Nat /\ NullCells \subseteq 0..Cells-1 /\ \A i \in NullCells : vect[i] = 0
  BY InMemory DEF NullCells
<1> QED
  BY <1>1, MinIsLeast

\* A cell emptied.
LEMMA EmptiedCells ==
  ASSUME SoulsInv, loaded = TRUE, NEW id
  PROVE  Emptied(id) \in [0..Cells-1 -> {0} \union DOMAIN row]
<1>1. vect \in [0..Cells-1 -> {0} \union DOMAIN row]
  BY InMemory
<1> QED
  BY <1>1 DEF Emptied

\* A soul with another kind and place is none the worse.
LEMMA Placed ==
  ASSUME NEW c, NEW r, RowOk(c, r), NEW s \in Record(c),
         s.q = r.q, s.lvl = r.lvl, s.exp = r.exp, s.type # HUNTED
  PROVE  RowOk(c, s)
BY DEF RowOk, Climbs

-----------------------------------------------------------------------------
(* Every action keeps the invariant.                                       *)

\* What a hunt costs leaves a purse.
LEMMA PurseLeft ==
  ASSUME SoulsInv, NEW i \in DOMAIN HuntInfo, NEW rise \in Rise(i)
  PROVE  Paid(i, rise) \in Purse
<1>1. set \in Settings /\ purse \in Purse
  BY DEF SoulsInv, Typed
<1>2. HuntInfo \in Seq(Hunts)
  BY <1>1, SettingIsOk DEF HuntInfo
<1>3. InfoOf(i) \in Hunts
  BY <1>2 DEF InfoOf
<1>4. InfoOf(i).money \in Nat /\ InfoOf(i).value \in Nat
  BY <1>3 DEF Hunts
<1>5. rise \in {0, 1}
  BY DEF Rise
<1>6. purse.money \in Nat /\ purse.index \in Nat /\ purse.value \in Nat
  BY <1>1 DEF Purse
<1> DEFINE d == purse.money - InfoOf(i).money
<1>7. d \in Int
  BY <1>4, <1>6
<1>8. Max({0, d}) \in Nat
  <2> HIDE DEF d
  <2> QED
    BY <1>7, MaxOfTwo
<1> QED
  BY <1>4, <1>5, <1>6, <1>8 DEF Paid, Purse

\* doHuntSoulItem.
LEMMA HuntSoulKeeps ==
  ASSUME SoulsInv, set' = set, NEW i \in DOMAIN HuntInfo, NEW rise \in Rise(i), NEW q \in Qualities,
         HuntSoul(i, q, rise)
  PROVE  SoulsInv'
<1> DEFINE s == [q |-> q, lvl |-> 1, exp |-> 0, idx |-> NextHuntIndex, type |-> HUNTED]
           n == Len(row) + 1
<1>1. /\ loaded = TRUE /\ Cardinality(hunted) < MaxHunt /\ loaded' = TRUE
      /\ row' = Append(row, s) /\ soul' = Append(soul, s) /\ hunted' = hunted \union {n}
      /\ bag' = bag /\ equipped' = equipped /\ vect' = vect /\ purse' = Paid(i, rise) /\ dbPurse' = purse'
  BY DEF HuntSoul, CanHunt, SoulsInv, Typed
<1>2. /\ set \in Settings /\ soul \in Seq(Record(set)) /\ row \in Seq(Record(set)) /\ Len(soul) = Len(row)
      /\ DOMAIN row = 1..Len(row) /\ Len(row) \in Nat
      /\ \A id \in DOMAIN row : RowOk(set, soul[id]) /\ RowOk(set, row[id]) /\ Alike(row[id], soul[id])
      /\ hunted \subseteq {id \in DOMAIN row : soul[id].type = HUNTED}
      /\ bag = {id \in DOMAIN row : soul[id].type = IN_BAG}
      /\ equipped = {id \in DOMAIN row : soul[id].type = EQUIPPED}
      /\ vect \in [0..Cells-1 -> {0} \union DOMAIN row]
  BY <1>1, InMemory
<1>3. NextHuntIndex \in Nat /\ NextHuntIndex < set.maxHunt
  <2>1. NextHuntIndex \in Nat /\ Cardinality(hunted) \in Nat /\ NextHuntIndex <= Cardinality(hunted)
    BY <1>1, NextPlace
  <2>2. set.maxHunt \in Nat
    BY <1>2, SettingIsOk
  <2> QED
    BY <1>1, <2>1, <2>2 DEF MaxHunt
<1>4. s \in Record(set) /\ s.q = q /\ s.lvl = 1 /\ s.exp = 0 /\ s.type = HUNTED /\ s.idx < set.maxHunt
  BY <1>3 DEF Record, Qualities, LevelExp
<1>5. Climbs(set, s)
  <2>1. set.exps[q] \in Seq(Nat) /\ set.tops[q] \in Nat \ {0}
    BY <1>2, SettingIsOk DEF Qualities, LevelExp
  <2>2. LevelIn(set.exps[q], 0) \in {-1} \union 1..Len(set.exps[q]) /\ Len(set.exps[q]) \in Nat
    BY <2>1, LevelRange
  <2>3. LevelIn(set.exps[q], 0) # -1 => 1 <= LevelIn(set.exps[q], 0)
    BY <2>2
  <2> QED
    BY <1>4, <2>1, <2>3 DEF Climbs
<1>6. RowOk(set, s) /\ Alike(s, s)
  BY <1>4, <1>5 DEF RowOk, Alike
<1>7. Paid(i, rise) \in Purse
  BY PurseLeft
<1> HIDE DEF s
<1>8. /\ row' \in Seq(Record(set)) /\ soul' \in Seq(Record(set)) /\ Len(soul') = Len(row')
      /\ DOMAIN row' = DOMAIN row \union {n} /\ DOMAIN soul' = DOMAIN row \union {n} /\ n \notin DOMAIN row
      /\ \A id \in DOMAIN row : row'[id] = row[id] /\ soul'[id] = soul[id]
      /\ row'[n] = s /\ soul'[n] = s
  BY <1>1, <1>2, <1>4
<1> HIDE DEF n
<1>9. Typed'
  <2>1. set' \in Settings /\ loaded' \in BOOLEAN /\ row' \in Seq(Record(set')) /\ purse' \in Purse /\ dbPurse' \in Purse
    BY <1>1, <1>2, <1>7, <1>8
  <2>2. vect' \in [0..Cells'-1 -> {0} \union DOMAIN soul']
    BY <1>1, <1>2, <1>8 DEF Cells
  <2> QED
    BY <2>1, <2>2 DEF Typed
<1>10. RowsOk'
  BY <1>2, <1>6, <1>8 DEF RowsOk
<1>11. \A id \in DOMAIN row' : row'[id].type = soul'[id].type
  BY <1>2, <1>8 DEF Alike
<1>12. \A id \in DOMAIN row' : RowOk(set, soul'[id]) /\ Alike(row'[id], soul'[id])
  BY <1>2, <1>6, <1>8
<1>13. /\ hunted' \subseteq {id \in DOMAIN row' : row'[id].type = HUNTED}
       /\ bag' = {id \in DOMAIN row' : row'[id].type = IN_BAG}
       /\ equipped' = {id \in DOMAIN row' : row'[id].type = EQUIPPED}
  <2>1. \A id \in DOMAIN row : row'[id].type = soul[id].type
    BY <1>2, <1>8 DEF Alike
  <2>2. row'[n].type = HUNTED /\ HUNTED # IN_BAG /\ HUNTED # EQUIPPED
    BY <1>4, <1>8 DEF HUNTED, IN_BAG, EQUIPPED
  <2> QED
    BY <1>1, <1>2, <1>8, <2>1, <2>2
<1>14. Present'
  BY <1>8, <1>12, <1>13 DEF Present
<1> QED
  BY <1>1, <1>9, <1>10, <1>14 DEF SoulsInv


\* A hunt cut off after the purse was saved.
LEMMA HuntCutKeeps ==
  ASSUME SoulsInv, set' = set, NEW i \in DOMAIN HuntInfo, NEW rise \in Rise(i), HuntCut(i, rise)
  PROVE  SoulsInv'
<1>1. Gone /\ row' = row /\ dbPurse' \in Purse
  BY PurseLeft DEF HuntCut
<1>2. row' = [id \in DOMAIN row |-> row'[id]] /\ \A id \in DOMAIN row : RowOk(set, row'[id])
  BY <1>1 DEF SoulsInv, RowsOk, Typed
<1> QED
  BY <1>1, <1>2, KeptByGone

\* The soul id is saved with another kind or place; nothing else of it changes,
\* and no other soul.
Replaced(id) ==
  /\ soul' \in Seq(Record(set)) /\ Len(soul') = Len(soul) /\ id \in DOMAIN row
  /\ row' = [x \in DOMAIN row |-> IF x \in {id} THEN soul'[x] ELSE row[x]]
  /\ \A x \in DOMAIN row : x # id => soul'[x] = soul[x]
  /\ RowOk(set, soul'[id])
  /\ soul'[id].q = soul[id].q /\ soul'[id].lvl = soul[id].lvl /\ soul'[id].exp = soul[id].exp

\* What doStoreSoulItem does.
LEMMA StoreSoulDoes ==
  ASSUME SoulsInv, NEW id \in hunted, StoreSoul(id)
  PROVE  /\ loaded = TRUE /\ loaded' = TRUE /\ NullCells # {}
         /\ vect' = [vect EXCEPT ![Min(NullCells)] = id] /\ bag' = bag \union {id} /\ hunted' = hunted \ {id}
         /\ equipped' = equipped /\ purse' = purse /\ dbPurse' = dbPurse
         /\ Replaced(id) /\ soul'[id].type = IN_BAG /\ soul'[id].idx = Min(NullCells)
<1> DEFINE m == Min(NullCells)
           s == [soul[id] EXCEPT !.type = IN_BAG, !.idx = m]
<1>1. loaded = TRUE /\ soul' = Stored(soul, id)
  BY DEF StoreSoul, Save, SoulsInv, Typed
<1>2. /\ soul \in Seq(Record(set)) /\ DOMAIN soul = DOMAIN row /\ id \in DOMAIN row
      /\ RowOk(set, soul[id]) /\ soul[id] \in Record(set)
  BY <1>1, InMemory
<1>3. soul' = [soul EXCEPT ![id] = s]
  BY <1>1, <1>2 DEF Stored
<1>4. /\ loaded' = TRUE /\ NullCells # {}
      /\ vect' = [vect EXCEPT ![m] = id] /\ bag' = bag \union {id} /\ hunted' = hunted \ {id}
      /\ row' = [x \in DOMAIN row |-> IF x \in {id} THEN soul'[x] ELSE row[x]]
      /\ equipped' = equipped /\ purse' = purse /\ dbPurse' = dbPurse
  BY <1>1 DEF StoreSoul, IntoCell, Save
<1>5. m \in Nat
  BY <1>1, <1>4, FirstNull
<1> HIDE DEF m
<1>6. /\ s \in Record(set) /\ s.q = soul[id].q /\ s.lvl = soul[id].lvl /\ s.exp = soul[id].exp
      /\ s.type = IN_BAG /\ s.idx = m
  BY <1>2, <1>5 DEF Record
<1> HIDE DEF s
<1>7. RowOk(set, s)
  BY <1>2, <1>6, Placed DEF IN_BAG, HUNTED
<1>8. Replaced(id) /\ soul'[id] = s
  BY <1>2, <1>3, <1>4, <1>6, <1>7 DEF Replaced
<1> QED
  BY <1>1, <1>4, <1>6, <1>8 DEF m

\* What doMoveSoulItem does.
LEMMA MoveSoulDoes ==
  ASSUME SoulsInv, NEW id \in bag, NEW to \in MoveCells, MoveSoul(id, to)
  PROVE  /\ loaded = TRUE /\ loaded' = TRUE
         /\ hunted' = hunted /\ bag' = bag /\ vect' = vect
         /\ equipped' = equipped /\ purse' = purse /\ dbPurse' = dbPurse
         /\ Replaced(id) /\ soul'[id].type = IN_BAG
<1> DEFINE s == [soul[id] EXCEPT !.idx = to]
<1>1. /\ loaded = TRUE /\ loaded' = TRUE /\ soul' = [soul EXCEPT ![id] = s]
      /\ row' = [x \in DOMAIN row |-> IF x \in {id} THEN soul'[x] ELSE row[x]]
      /\ hunted' = hunted /\ bag' = bag /\ vect' = vect
      /\ equipped' = equipped /\ purse' = purse /\ dbPurse' = dbPurse
  BY DEF MoveSoul, Save, SoulsInv, Typed
<1>2. /\ soul \in Seq(Record(set)) /\ DOMAIN soul = DOMAIN row /\ id \in DOMAIN row
      /\ RowOk(set, soul[id]) /\ soul[id] \in Record(set) /\ soul[id].type = IN_BAG /\ set \in Settings
  BY <1>1, InMemory
<1>3. to \in Nat
  BY <1>2, SettingIsOk DEF MoveCells
<1>4. /\ s \in Record(set) /\ s.q = soul[id].q /\ s.lvl = soul[id].lvl /\ s.exp = soul[id].exp
      /\ s.type = IN_BAG
  BY <1>2, <1>3 DEF Record
<1> HIDE DEF s
<1>5. RowOk(set, s)
  BY <1>2, <1>4, Placed DEF IN_BAG, HUNTED
<1>6. Replaced(id) /\ soul'[id] = s
  BY <1>1, <1>2, <1>4, <1>5 DEF Replaced
<1> QED
  BY <1>1, <1>4, <1>6

\* What doEquipSoulItem does.
LEMMA EquipSoulDoes ==
  ASSUME SoulsInv, NEW id \in bag, NEW to \in EquipCells, EquipSoul(id, to)
  PROVE  /\ loaded = TRUE /\ loaded' = TRUE
         /\ hunted' = hunted /\ bag' = bag \ {id} /\ vect' = Emptied(id)
         /\ equipped' = equipped \union {id} /\ purse' = purse /\ dbPurse' = dbPurse
         /\ Replaced(id) /\ soul'[id].type = EQUIPPED
<1> DEFINE s == [soul[id] EXCEPT !.idx = to, !.type = EQUIPPED]
<1>1. /\ loaded = TRUE /\ loaded' = TRUE /\ soul' = [soul EXCEPT ![id].idx = to, ![id].type = EQUIPPED]
      /\ row' = [x \in DOMAIN row |-> IF x \in {id} THEN soul'[x] ELSE row[x]]
      /\ hunted' = hunted /\ bag' = bag \ {id} /\ vect' = Emptied(id)
      /\ equipped' = equipped \union {id} /\ purse' = purse /\ dbPurse' = dbPurse
  BY DEF EquipSoul, Save, SoulsInv, Typed
<1>2. /\ soul \in Seq(Record(set)) /\ DOMAIN soul = DOMAIN row /\ id \in DOMAIN row
      /\ RowOk(set, soul[id]) /\ soul[id] \in Record(set) /\ set \in Settings
  BY <1>1, InMemory
<1>3. to \in Nat
  BY <1>2, SettingIsOk DEF EquipCells
<1>4. soul' = [soul EXCEPT ![id] = s]
  BY <1>1, <1>2
<1>5. /\ s \in Record(set) /\ s.q = soul[id].q /\ s.lvl = soul[id].lvl /\ s.exp = soul[id].exp
      /\ s.type = EQUIPPED
  BY <1>2, <1>3 DEF Record
<1> HIDE DEF s
<1>6. RowOk(set, s)
  BY <1>2, <1>5, Placed DEF EQUIPPED, HUNTED
<1>7. Replaced(id) /\ soul'[id] = s
  <2>1. row' = [x \in DOMAIN row |-> IF x \in {id} THEN soul'[x] ELSE row[x]]
    BY <1>1
  <2> QED
    BY <2>1, <1>2, <1>4, <1>5, <1>6 DEF Replaced
<1> QED
  BY <1>1, <1>5, <1>7

\* The invariant after a soul was saved with another kind or place.
LEMMA KeptByReplacing ==
  ASSUME SoulsInv, set' = set, NEW id, Replaced(id), loaded = TRUE, loaded' = TRUE,
         hunted' \subseteq {x \in DOMAIN row : soul'[x].type = HUNTED},
         bag' = {x \in DOMAIN row : soul'[x].type = IN_BAG},
         equipped' = {x \in DOMAIN row : soul'[x].type = EQUIPPED},
         vect' \in [0..Cells-1 -> {0} \union DOMAIN row], purse' = purse, dbPurse' = dbPurse
  PROVE  SoulsInv'
<1>1. /\ \A x \in DOMAIN row : RowOk(set, soul[x])
      /\ purse \in Purse /\ dbPurse \in Purse
  BY InMemory
<1>2. /\ row' = [x \in DOMAIN row |-> row'[x]]
      /\ soul' \in Seq(Record(set)) /\ Len(soul') = Len(soul)
  BY DEF Replaced
<1>3. \A x \in DOMAIN row :
        /\ RowOk(set, soul'[x])
        /\ row'[x] = soul'[x] \/ (row'[x] = row[x] /\ Alike(soul[x], soul'[x]))
  BY <1>1 DEF Replaced, Alike
<1> QED
  BY <1>1, <1>2, <1>3, KeptBySave

\* doStoreSoulItem, doMoveSoulItem and doEquipSoulItem.
LEMMA ReplacingKeeps ==
  ASSUME SoulsInv, set' = set,
         \/ \E id \in hunted : StoreSoul(id)
         \/ \E id \in bag, to \in MoveCells : MoveSoul(id, to)
         \/ \E id \in bag, to \in EquipCells : EquipSoul(id, to)
  PROVE  SoulsInv'
<1>1. HUNTED # IN_BAG /\ HUNTED # EQUIPPED /\ IN_BAG # EQUIPPED
  BY DEF HUNTED, IN_BAG, EQUIPPED
<1>2. ASSUME NEW id \in hunted, StoreSoul(id) PROVE SoulsInv'
  <2>1. /\ loaded = TRUE /\ loaded' = TRUE /\ NullCells # {}
        /\ vect' = [vect EXCEPT ![Min(NullCells)] = id] /\ bag' = bag \union {id} /\ hunted' = hunted \ {id}
        /\ equipped' = equipped /\ purse' = purse /\ dbPurse' = dbPurse
        /\ Replaced(id) /\ soul'[id].type = IN_BAG
    BY <1>2, StoreSoulDoes
  <2>2. /\ hunted \subseteq {x \in DOMAIN row : soul[x].type = HUNTED}
        /\ bag = {x \in DOMAIN row : soul[x].type = IN_BAG}
        /\ equipped = {x \in DOMAIN row : soul[x].type = EQUIPPED}
        /\ vect \in [0..Cells-1 -> {0} \union DOMAIN row]
    BY <2>1, InMemory
  <2>3. id \in DOMAIN row /\ \A x \in DOMAIN row : x # id => soul'[x] = soul[x]
    BY <2>1 DEF Replaced
  <2>4. /\ hunted' \subseteq {x \in DOMAIN row : soul'[x].type = HUNTED}
        /\ bag' = {x \in DOMAIN row : soul'[x].type = IN_BAG}
        /\ equipped' = {x \in DOMAIN row : soul'[x].type = EQUIPPED}
    BY <1>1, <2>1, <2>2, <2>3
  <2>5. Min(NullCells) \in 0..Cells-1
    BY <2>1, FirstNull
  <2>6. vect' \in [0..Cells-1 -> {0} \union DOMAIN row]
    BY <2>1, <2>2, <2>3, <2>5
  <2> QED
    BY <2>1, <2>4, <2>6, KeptByReplacing
<1>3. ASSUME NEW id \in bag, NEW to \in MoveCells, MoveSoul(id, to) PROVE SoulsInv'
  <2>1. /\ loaded = TRUE /\ loaded' = TRUE
        /\ hunted' = hunted /\ bag' = bag /\ vect' = vect
        /\ equipped' = equipped /\ purse' = purse /\ dbPurse' = dbPurse
        /\ Replaced(id) /\ soul'[id].type = IN_BAG
    BY <1>3, MoveSoulDoes
  <2>2. /\ hunted \subseteq {x \in DOMAIN row : soul[x].type = HUNTED}
        /\ bag = {x \in DOMAIN row : soul[x].type = IN_BAG}
        /\ equipped = {x \in DOMAIN row : soul[x].type = EQUIPPED}
        /\ vect \in [0..Cells-1 -> {0} \union DOMAIN row]
    BY <2>1, InMemory
  <2>3. id \in DOMAIN row /\ \A x \in DOMAIN row : x # id => soul'[x] = soul[x]
    BY <2>1 DEF Replaced
  <2>4. /\ hunted' \subseteq {x \in DOMAIN row : soul'[x].type = HUNTED}
        /\ bag' = {x \in DOMAIN row : soul'[x].type = IN_BAG}
        /\ equipped' = {x \in DOMAIN row : soul'[x].type = EQUIPPED}
    BY <1>1, <2>1, <2>2, <2>3
  <2> QED
    BY <2>1, <2>2, <2>4, KeptByReplacing
<1>4. ASSUME NEW id \in bag, NEW to \in EquipCells, EquipSoul(id, to) PROVE SoulsInv'
  <2>1. /\ loaded = TRUE /\ loaded' = TRUE
        /\ hunted' = hunted /\ bag' = bag \ {id} /\ vect' = Emptied(id)
        /\ equipped' = equipped \union {id} /\ purse' = purse /\ dbPurse' = dbPurse
        /\ Replaced(id) /\ soul'[id].type = EQUIPPED
    BY <1>4, EquipSoulDoes
  <2>2. /\ hunted \subseteq {x \in DOMAIN row : soul[x].type = HUNTED}
        /\ bag = {x \in DOMAIN row : soul[x].type = IN_BAG}
        /\ equipped = {x \in DOMAIN row : soul[x].type = EQUIPPED}
    BY <2>1, InMemory
  <2>3. id \in DOMAIN row /\ \A x \in DOMAIN row : x # id => soul'[x] = soul[x]
    BY <2>1 DEF Replaced
  <2>4. /\ hunted' \subseteq {x \in DOMAIN row : soul'[x].type = HUNTED}
        /\ bag' = {x \in DOMAIN row : soul'[x].type = IN_BAG}
        /\ equipped' = {x \in DOMAIN row : soul'[x].type = EQUIPPED}
    BY <1>1, <2>1, <2>2, <2>3
  <2>5. vect' \in [0..Cells-1 -> {0} \union DOMAIN row]
    BY <2>1, EmptiedCells
  <2> QED
    BY <2>1, <2>4, <2>5, KeptByReplacing
<1> QED
  BY <1>2, <1>3, <1>4

-----------------------------------------------------------------------------
(* Swallowing.                                                             *)

\* A soul that was fed is the soul with more exp, and one whose template exists
\* when it has risen is a good one.
LEMMA FedClimbs ==
  ASSUME NEW c \in Settings, NEW old, RowOk(c, old), NEW e \in Nat, NEW s, s = AddExp(old, e),
         NEW r, r = RisenIn(c, old, s)
  PROVE  /\ s \in Record(c) /\ Alike(old, s) /\ s.exp = old.exp + e
         /\ s.lvl <= c.tops[s.q] => RowOk(c, s)
         /\ r \in Record(c) /\ r.q = old.q /\ r.idx = old.idx /\ r.type = old.type /\ r.exp = s.exp
         /\ r.lvl <= c.tops[old.q] => RowOk(c, r)
         /\ Len(c.exps[old.q]) <= c.tops[old.q] => r.lvl <= c.tops[old.q]
<1>1. old \in Record(c) /\ old.exp \in Nat /\ old.q \in DOMAIN c.exps
  BY DEF RowOk, Record
<1>2. Max({0, old.exp + e}) = old.exp + e /\ old.exp + e \in Nat /\ old.exp <= old.exp + e
  BY <1>1, MaxOfTwo
<1>3. s \in Record(c) /\ Alike(old, s) /\ s.exp = old.exp + e
  BY <1>1, <1>2 DEF AddExp, Record, Alike
<1>4. /\ r \in Record(c) /\ r.q = old.q /\ r.idx = old.idx /\ r.type = old.type /\ r.exp = s.exp
      /\ LevelIn(c.exps[r.q], r.exp) # -1 => r.lvl <= LevelIn(c.exps[r.q], r.exp)
      /\ Len(c.exps[old.q]) <= c.tops[old.q] => r.lvl <= c.tops[old.q]
  BY <1>2, <1>3, RisenClimbs
<1>5. r.lvl <= c.tops[old.q] => RowOk(c, r)
  BY <1>4 DEF RowOk, Climbs
<1>6. s.lvl <= c.tops[s.q] => RowOk(c, s)
  <2>1. s.q = old.q /\ s.lvl = old.lvl /\ s.idx = old.idx /\ s.type = old.type
    BY <1>3 DEF Alike
  <2>2. c.exps[old.q] \in Seq(Nat)
    BY <1>1, SettingIsOk
  <2>3. LevelIn(c.exps[old.q], s.exp) # -1 =>
          LevelIn(c.exps[old.q], old.exp) # -1 /\ LevelIn(c.exps[old.q], old.exp) <= LevelIn(c.exps[old.q], s.exp)
    BY <1>1, <1>2, <1>3, <2>2, LevelRises
  <2>4. LevelIn(c.exps[old.q], s.exp) \in Int /\ LevelIn(c.exps[old.q], old.exp) \in Int /\ old.lvl \in Int
    <3>1. s.exp \in Nat /\ old.exp \in Nat
      BY <1>1, <1>2, <1>3
    <3>2. old.lvl \in Int
      BY <1>1 DEF Record
    <3> QED
      BY <2>2, <3>1, <3>2, LevelRange
  <2>5. LevelIn(c.exps[old.q], old.exp) # -1 => old.lvl <= LevelIn(c.exps[old.q], old.exp)
    BY DEF RowOk, Climbs
  <2>6. LevelIn(c.exps[s.q], s.exp) # -1 => s.lvl <= LevelIn(c.exps[s.q], s.exp)
    BY <2>1, <2>3, <2>4, <2>5
  <2> QED
    BY <1>3, <2>1, <2>6 DEF RowOk, Climbs
<1> QED
  BY <1>3, <1>4, <1>5, <1>6

\* What a soul with a level gives is a number.
LEMMA GiftIsANumber ==
  ASSUME SoulsInv, loaded = TRUE, NEW b \in DOMAIN row, Level(soul[b]) # -1
  PROVE  Gift(soul[b]) \in Nat /\ soul[b].exp \in Nat
<1>1. set \in Settings /\ soul[b] \in Record(set)
  BY InMemory
<1>2. soul[b].q \in DOMAIN set.exps /\ soul[b].exp \in Nat
  BY <1>1 DEF Record
<1>3. /\ set.exps[soul[b].q] \in Seq(Nat) /\ set.gifts[soul[b].q] \in Seq(Nat)
      /\ DOMAIN set.gifts[soul[b].q] = DOMAIN set.exps[soul[b].q]
  BY <1>1, <1>2, SettingIsOk
<1>4. Level(soul[b]) = LevelIn(set.exps[soul[b].q], soul[b].exp)
  BY DEF Level, LevelByExp, LevelExp, LevelIn
<1>5. Level(soul[b]) \in DOMAIN set.gifts[soul[b].q]
  BY <1>2, <1>3, <1>4, LevelRange
<1>6. set.gifts[soul[b].q][Level(soul[b])] \in Nat
  BY <1>3, <1>5
<1> QED
  BY <1>2, <1>6 DEF Gift, SwallowExp

\* What a swallow of one soul makes of the swallower.
LEMMA SwallowerIsFed ==
  ASSUME SoulsInv, loaded = TRUE, NEW a \in bag, NEW b \in bag, Level(soul[b]) # -1
  PROVE  LET s == Fed(a, b)
             r == Risen(soul[a], s)
         IN  /\ r \in Record(set) /\ r.q = soul[a].q /\ r.idx = soul[a].idx /\ r.type = soul[a].type
             /\ r.exp = s.exp /\ s.exp >= soul[a].exp
             /\ s.q = soul[a].q
             /\ ~NoTemplateFor(soul[a], s) => RowOk(set, r)
             /\ Complete(soul[a]) => ~NoTemplateFor(soul[a], s)
<1> DEFINE e == Gift(soul[b]) + soul[b].exp
           s == Fed(a, b)
           r == Risen(soul[a], s)
<1>1. set \in Settings /\ a \in DOMAIN row /\ b \in DOMAIN row /\ RowOk(set, soul[a]) /\ soul[a] \in Record(set)
  BY InMemory
<1>2. e \in Nat
  BY <1>1, GiftIsANumber
<1>3. s = AddExp(soul[a], e)
  BY DEF Fed
<1>4. r = RisenIn(set, soul[a], s)
  BY DEF Risen, RisenIn, Level, LevelByExp, LevelExp, LevelIn
<1>5. NoTemplateFor(soul[a], s) <=> r.lvl > set.tops[s.q]
  BY DEF NoTemplateFor, TopLevel
<1>6. Complete(soul[a]) <=> Len(set.exps[soul[a].q]) <= set.tops[soul[a].q]
  BY DEF Complete, LevelExp, TopLevel
<1> HIDE DEF e, s, r
<1>7. /\ s \in Record(set) /\ Alike(soul[a], s) /\ s.exp = soul[a].exp + e
      /\ r \in Record(set) /\ r.q = soul[a].q /\ r.idx = soul[a].idx /\ r.type = soul[a].type /\ r.exp = s.exp
      /\ r.lvl <= set.tops[soul[a].q] => RowOk(set, r)
      /\ Len(set.exps[soul[a].q]) <= set.tops[soul[a].q] => r.lvl <= set.tops[soul[a].q]
  BY <1>1, <1>2, <1>3, <1>4, FedClimbs
<1>8. s.q = soul[a].q /\ soul[a].exp \in Nat /\ r.lvl \in Nat /\ set.tops[soul[a].q] \in Nat
  <2>1. s.q = soul[a].q /\ soul[a].exp \in Nat /\ r.lvl \in Nat /\ soul[a].q \in DOMAIN set.exps
    BY <1>1, <1>7 DEF Alike, Record
  <2> QED
    BY <1>1, <2>1, SettingIsOk
<1>9. ~NoTemplateFor(soul[a], s) => RowOk(set, r)
  BY <1>5, <1>7, <1>8
<1>10. Complete(soul[a]) => ~NoTemplateFor(soul[a], s)
  BY <1>5, <1>6, <1>7, <1>8
<1>11. s.exp >= soul[a].exp
  BY <1>2, <1>7, <1>8
<1> QED
  BY <1>7, <1>8, <1>9, <1>10, <1>11 DEF s, r


\* What doSwallowSoulItem does.
LEMMA SwallowSoulDoes ==
  ASSUME SoulsInv, NEW a \in bag, NEW b \in bag, SwallowSoul(a, b)
  PROVE  /\ loaded = TRUE /\ loaded' = TRUE /\ a \in DOMAIN row /\ b \in DOMAIN row /\ Level(soul[b]) # -1
         /\ row' = [x \in DOMAIN row |-> IF x \in {a, b} THEN soul'[x] ELSE row[x]]
         /\ hunted' = hunted /\ bag' = bag \ {b} /\ vect' = Emptied(b)
         /\ equipped' = equipped /\ purse' = purse /\ dbPurse' = dbPurse
         /\ soul' \in Seq(Record(set)) /\ Len(soul') = Len(soul)
         /\ \A x \in DOMAIN row : RowOk(set, soul'[x])
         /\ \A x \in DOMAIN row \ {a, b} : soul'[x] = soul[x]
         /\ soul'[b].type = DELETED
         /\ a # b => soul'[a] = Risen(soul[a], Fed(a, b))
         /\ a # b => soul'[a].type = soul[a].type /\ soul'[a].idx = soul[a].idx
<1> DEFINE r == Risen(soul[a], Fed(a, b))
           fed == [soul EXCEPT ![a] = r]
           s == [fed[b] EXCEPT !.type = DELETED]
<1>1. /\ loaded = TRUE /\ loaded' = TRUE /\ Level(soul[b]) # -1 /\ ~NoTemplateFor(soul[a], Fed(a, b))
      /\ row' = [x \in DOMAIN row |-> IF x \in {a, b} THEN soul'[x] ELSE row[x]]
      /\ soul' = [fed EXCEPT ![b] = s]
      /\ hunted' = hunted /\ bag' = bag \ {b} /\ vect' = Emptied(b)
      /\ equipped' = equipped /\ purse' = purse /\ dbPurse' = dbPurse
  BY DEF SwallowSoul, CanSwallow, Save, SoulsInv, Typed
<1>2. /\ set \in Settings /\ soul \in Seq(Record(set)) /\ DOMAIN soul = DOMAIN row
      /\ \A x \in DOMAIN row : RowOk(set, soul[x])
      /\ a \in DOMAIN row /\ b \in DOMAIN row
  BY <1>1, InMemory
<1>3. RowOk(set, r) /\ r \in Record(set) /\ r.type = soul[a].type /\ r.idx = soul[a].idx
  BY <1>1, SwallowerIsFed
<1> HIDE DEF r
<1>4. /\ fed \in Seq(Record(set)) /\ Len(fed) = Len(soul) /\ DOMAIN fed = DOMAIN row /\ fed[a] = r
      /\ \A x \in DOMAIN row : RowOk(set, fed[x]) /\ (x # a => fed[x] = soul[x])
  BY <1>2, <1>3
<1> HIDE DEF fed
<1>5. RowOk(set, s) /\ s \in Record(set) /\ s.type = DELETED
  <2>1. RowOk(set, fed[b]) /\ fed[b] \in Record(set)
    BY <1>2, <1>4 DEF RowOk
  <2>2. s \in Record(set) /\ s.q = fed[b].q /\ s.lvl = fed[b].lvl /\ s.exp = fed[b].exp /\ s.type = DELETED
    BY <2>1 DEF Record
  <2>3. DELETED # HUNTED
    BY DEF DELETED, HUNTED
  <2> HIDE DEF s
  <2> QED
    BY <2>1, <2>2, <2>3, Placed
<1> HIDE DEF s
<1>6. /\ soul' \in Seq(Record(set)) /\ Len(soul') = Len(soul) /\ soul'[b] = s
      /\ \A x \in DOMAIN row : x # b => soul'[x] = fed[x]
  BY <1>1, <1>2, <1>4, <1>5
<1>7. /\ \A x \in DOMAIN row : RowOk(set, soul'[x])
      /\ \A x \in DOMAIN row \ {a, b} : soul'[x] = soul[x]
      /\ soul'[b].type = DELETED
      /\ a # b => soul'[a] = r
  BY <1>2, <1>4, <1>5, <1>6
<1>8. a # b => soul'[a].type = soul[a].type /\ soul'[a].idx = soul[a].idx
  BY <1>3, <1>7
<1> QED
  BY <1>1, <1>2, <1>6, <1>7, <1>8 DEF r

\* doSwallowSoulItem.
LEMMA SwallowSoulKeeps ==
  ASSUME SoulsInv, set' = set, NEW a \in bag, NEW b \in bag, SwallowSoul(a, b)
  PROVE  SoulsInv'
<1>1. /\ loaded = TRUE /\ loaded' = TRUE /\ a \in DOMAIN row /\ b \in DOMAIN row
      /\ row' = [x \in DOMAIN row |-> IF x \in {a, b} THEN soul'[x] ELSE row[x]]
      /\ hunted' = hunted /\ bag' = bag \ {b} /\ vect' = Emptied(b)
      /\ equipped' = equipped /\ purse' = purse /\ dbPurse' = dbPurse
      /\ soul' \in Seq(Record(set)) /\ Len(soul') = Len(soul)
      /\ \A x \in DOMAIN row : RowOk(set, soul'[x])
      /\ \A x \in DOMAIN row \ {a, b} : soul'[x] = soul[x]
      /\ soul'[b].type = DELETED
      /\ a # b => soul'[a].type = soul[a].type
  BY SwallowSoulDoes
<1>2. /\ hunted \subseteq {x \in DOMAIN row : soul[x].type = HUNTED}
      /\ bag = {x \in DOMAIN row : soul[x].type = IN_BAG}
      /\ equipped = {x \in DOMAIN row : soul[x].type = EQUIPPED}
      /\ purse \in Purse /\ dbPurse \in Purse
  BY <1>1, InMemory
<1>3. row' = [x \in DOMAIN row |-> row'[x]]
  BY <1>1
<1>4. \A x \in DOMAIN row :
        /\ RowOk(set, soul'[x])
        /\ row'[x] = soul'[x] \/ (row'[x] = row[x] /\ Alike(soul[x], soul'[x]))
  BY <1>1 DEF Alike
<1>5. /\ hunted' \subseteq {x \in DOMAIN row : soul'[x].type = HUNTED}
      /\ bag' = {x \in DOMAIN row : soul'[x].type = IN_BAG}
      /\ equipped' = {x \in DOMAIN row : soul'[x].type = EQUIPPED}
  <2>1. HUNTED # IN_BAG /\ HUNTED # EQUIPPED /\ IN_BAG # EQUIPPED /\ DELETED \notin {HUNTED, IN_BAG, EQUIPPED}
    BY DEF HUNTED, IN_BAG, EQUIPPED, DELETED
  <2>2. \A x \in DOMAIN row : x # b => soul'[x].type = soul[x].type
    BY <1>1
  <2> QED
    BY <1>1, <1>2, <2>1, <2>2
<1>6. vect' \in [0..Cells-1 -> {0} \union DOMAIN row]
  BY <1>1, EmptiedCells
<1> QED
  BY <1>1, <1>2, <1>3, <1>4, <1>5, <1>6, KeptBySave

\* A swallow cut off after the swallower was saved.
LEMMA SwallowCutKeeps ==
  ASSUME SoulsInv, set' = set, NEW a \in bag, NEW b \in bag, SwallowCut(a, b)
  PROVE  SoulsInv'
<1> DEFINE r == Risen(soul[a], Fed(a, b))
<1>1. /\ loaded = TRUE /\ Level(soul[b]) # -1 /\ ~NoTemplateFor(soul[a], Fed(a, b))
      /\ row' = [row EXCEPT ![a] = r] /\ Gone /\ dbPurse' = dbPurse
  BY DEF SwallowCut, CanSwallow, SoulsInv, Typed
<1>2. /\ row \in Seq(Record(set)) /\ a \in DOMAIN row /\ \A x \in DOMAIN row : RowOk(set, row[x])
      /\ dbPurse \in Purse
  BY <1>1, InMemory
<1>3. RowOk(set, r)
  BY <1>1, SwallowerIsFed
<1> HIDE DEF r
<1>4. row' = [x \in DOMAIN row |-> row'[x]] /\ \A x \in DOMAIN row : RowOk(set, row'[x])
  BY <1>1, <1>2, <1>3
<1> QED
  BY <1>1, <1>2, <1>4, KeptByGone

\* The role is gone and no row was written.
LEMMA GoneKeeps ==
  ASSUME SoulsInv, set' = set, Gone, row' = row, dbPurse' = dbPurse
  PROVE  SoulsInv'
<1>1. row \in Seq(Record(set)) /\ dbPurse' \in Purse /\ \A x \in DOMAIN row : RowOk(set, row[x])
  BY DEF SoulsInv, Typed, RowsOk
<1>2. row' = [x \in DOMAIN row |-> row'[x]] /\ \A x \in DOMAIN row : RowOk(set, row'[x])
  BY <1>1
<1> QED
  BY <1>1, <1>2, KeptByGone

\* The role comes back: a soul for every row, and the lists by the types.
LEMMA LoadKeeps ==
  ASSUME SoulsInv, set' = set, Load
  PROVE  SoulsInv'
<1>1. /\ loaded' = TRUE /\ soul' = row /\ purse' = dbPurse /\ dbPurse' = dbPurse /\ row' = row
      /\ hunted' = {id \in DOMAIN row : row[id].type = HUNTED}
      /\ bag' = {id \in DOMAIN row : row[id].type = IN_BAG}
      /\ equipped' = {id \in DOMAIN row : row[id].type = EQUIPPED}
      /\ vect' = [i \in 0..Cells-1 |->
                    Max({id \in {x \in DOMAIN row : row[x].type = IN_BAG} : row[id].idx = i} \union {0})]
  BY DEF Load, db
<1>2. row \in Seq(Record(set)) /\ set \in Settings /\ dbPurse \in Purse /\ RowsOk
  BY DEF SoulsInv, Typed
<1>3. vect' \in [0..Cells-1 -> {0} \union DOMAIN row]
  <2>1. ASSUME NEW i \in 0..Cells-1
        PROVE  Max({id \in {x \in DOMAIN row : row[x].type = IN_BAG} : row[id].idx = i} \union {0})
                 \in {0} \union DOMAIN row
    <3> DEFINE S == {id \in {x \in DOMAIN row : row[x].type = IN_BAG} : row[id].idx = i} \union {0}
    <3>1. DOMAIN row = 1..Len(row) /\ Len(row) \in Nat
      BY <1>2
    <3>2. S \subseteq Nat /\ S # {} /\ S \subseteq {0} \union DOMAIN row /\ \A x \in S : x <= Len(row)
      BY <3>1
    <3> HIDE DEF S
    <3>3. Max(S) \in S
      BY <3>1, <3>2, MaxIsGreatest
    <3>4. Max(S) \in {0} \union DOMAIN row
      BY <3>2, <3>3
    <3> QED
      BY <3>4 DEF S
  <2> QED
    BY <1>1, <2>1
<1>4. Typed'
  <2>1. vect' \in [0..Cells'-1 -> {0} \union DOMAIN soul']
    BY <1>1, <1>3 DEF Cells
  <2> QED
    BY <1>1, <1>2, <2>1 DEF Typed
<1>5. RowsOk'
  BY <1>1, <1>2 DEF RowsOk
<1>6. Present'
  BY <1>1, <1>2, <1>5 DEF Present, RowsOk, Alike
<1> QED
  BY <1>1, <1>4, <1>5, <1>6 DEF SoulsInv


-----------------------------------------------------------------------------
(* Swallowing the hunted souls.                                            *)

\* The swallower is a hunted soul, and every soul it swallows another one, with
\* a level.
LEMMA SwallowerAndFodder ==
  ASSUME SoulsInv, loaded = TRUE, hunted # {}
  PROVE  /\ Swallower \in hunted /\ Fodder \subseteq hunted \ {Swallower} /\ IsFiniteSet(Fodder)
         /\ \A id \in Fodder : Level(soul[id]) # -1
         /\ \A id \in Fodder \union {Swallower} : id \in DOMAIN row
<1> DEFINE Q == {soul[id].q : id \in hunted}
           B == {id \in hunted : soul[id].q = Max(Q)}
<1>1. /\ set \in Settings /\ hunted \subseteq DOMAIN row /\ DOMAIN row = 1..Len(row) /\ Len(row) \in Nat
      /\ \A id \in DOMAIN row : soul[id] \in Record(set)
  BY InMemory
<1>2. \A id \in hunted : soul[id].q \in DOMAIN set.exps
  BY <1>1 DEF Record
<1>3. DOMAIN set.exps = 1..Len(set.exps) /\ Len(set.exps) \in Nat
  BY <1>1, SettingIsOk
<1>4. Q \subseteq Nat /\ Q # {} /\ \A x \in Q : x <= Len(set.exps)
  BY <1>2, <1>3
<1>5. Max(Q) \in Q
  <2> HIDE DEF Q
  <2> QED
    BY <1>3, <1>4, MaxIsGreatest
<1>6. B # {} /\ B \subseteq hunted
  BY <1>5
<1> HIDE DEF B
<1>7. Min(B) \in B
  BY <1>1, <1>6, MinIsLeast
<1>8. Swallower = Min(B)
  BY DEF Swallower, B
<1>9. Fodder \subseteq hunted \ {Swallower}
  BY DEF Fodder
<1>10. ASSUME NEW id \in Fodder PROVE Level(soul[id]) # -1
  <2>1. id \in Nat
    BY <1>1, <1>9
  <2>2. \A x \in {y \in hunted \ {Swallower} : Level(soul[y]) = -1} : id < x
    BY DEF Fodder
  <2> QED
    BY <1>9, <2>1, <2>2
<1>11. IsFiniteSet(1..Len(row)) /\ Fodder \in SUBSET (1..Len(row))
  BY <1>1, <1>9, FS_Interval
<1>12. IsFiniteSet(Fodder)
  BY <1>11, FS_Subset
<1> QED
  BY <1>1, <1>6, <1>7, <1>8, <1>9, <1>10, <1>12

\* What a swallow of the hunted souls makes of the swallower.
LEMMA SwallowerOfAllIsFed ==
  ASSUME SoulsInv, loaded = TRUE, hunted # {}, NEW read \in Reads
  PROVE  LET s == FedAll(read)
             r == Risen(soul[Swallower], s)
         IN  /\ RowOk(set, s) /\ Alike(soul[Swallower], s)
             /\ r.q = soul[Swallower].q /\ r.idx = soul[Swallower].idx /\ r.type = soul[Swallower].type
             /\ r.exp = s.exp /\ s.q = soul[Swallower].q
             /\ s.exp >= soul[Swallower].exp
             /\ r \in Record(set)
             /\ ~NoTemplateFor(soul[Swallower], s) => RowOk(set, r)
             /\ Complete(soul[Swallower]) => ~NoTemplateFor(soul[Swallower], s)
<1> DEFINE old == soul[Swallower]
           f == [id \in Fodder |-> Gift(soul[id]) + read[id]]
           e == SumFunction(f)
           s == FedAll(read)
           r == Risen(old, s)
<1>1. /\ Swallower \in DOMAIN row /\ IsFiniteSet(Fodder)
      /\ \A id \in Fodder : id \in DOMAIN row /\ Level(soul[id]) # -1
  BY SwallowerAndFodder
<1>2. set \in Settings /\ RowOk(set, old) /\ old \in Record(set)
  BY <1>1, InMemory
<1>3. set.stale \subseteq Nat
  BY <1>2, SettingIsOk
<1>4. ASSUME NEW id \in Fodder PROVE Gift(soul[id]) + read[id] \in Nat
  <2>1. Gift(soul[id]) \in Nat /\ soul[id].exp \in Nat
    BY <1>1, GiftIsANumber
  <2>2. read[id] \in StaleExp \union {soul[id].exp}
    BY DEF Reads
  <2>3. read[id] \in Nat
    BY <1>3, <2>1, <2>2 DEF StaleExp
  <2> QED
    BY <2>1, <2>3
<1>5. f \in [Fodder -> Nat]
  BY <1>4
<1>6. e \in Nat
  <2> HIDE DEF f
  <2> QED
    BY <1>1, <1>5, SumOfNaturals
<1>7. s = AddExp(old, e)
  BY DEF FedAll
<1>8. r = RisenIn(set, old, s)
  BY DEF Risen, RisenIn, Level, LevelByExp, LevelExp, LevelIn
<1>9. NoTemplateFor(old, s) <=> r.lvl > set.tops[s.q]
  BY DEF NoTemplateFor, TopLevel
<1>10. Complete(old) <=> Len(set.exps[old.q]) <= set.tops[old.q]
  BY DEF Complete, LevelExp, TopLevel
<1> HIDE DEF f, e, s, r, old
<1>11. /\ s \in Record(set) /\ Alike(old, s) /\ s.exp = old.exp + e
       /\ s.lvl <= set.tops[s.q] => RowOk(set, s)
       /\ r \in Record(set) /\ r.q = old.q /\ r.idx = old.idx /\ r.type = old.type /\ r.exp = s.exp
       /\ r.lvl <= set.tops[old.q] => RowOk(set, r)
       /\ Len(set.exps[old.q]) <= set.tops[old.q] => r.lvl <= set.tops[old.q]
  BY <1>2, <1>6, <1>7, <1>8, FedClimbs
<1>12. s.q = old.q /\ s.lvl = old.lvl /\ old.exp \in Nat /\ r.lvl \in Nat /\ set.tops[old.q] \in Nat
  <2>1. s.q = old.q /\ s.lvl = old.lvl /\ old.exp \in Nat /\ r.lvl \in Nat /\ old.q \in DOMAIN set.exps
    BY <1>2, <1>11 DEF Alike, Record
  <2> QED
    BY <1>2, <2>1, SettingIsOk
<1>13. RowOk(set, s)
  BY <1>2, <1>11, <1>12 DEF RowOk, Climbs
<1>14. ~NoTemplateFor(old, s) => RowOk(set, r)
  BY <1>9, <1>11, <1>12
<1>15. Complete(old) => ~NoTemplateFor(old, s)
  BY <1>9, <1>10, <1>11, <1>12
<1>16. s.exp >= old.exp
  BY <1>6, <1>11, <1>12
<1> QED
  BY <1>11, <1>12, <1>13, <1>14, <1>15, <1>16 DEF s, r, old

\* The souls q when those of F are deleted.
Deleted(q, F) == [x \in DOMAIN q |-> IF x \in F THEN [q[x] EXCEPT !.type = DELETED] ELSE q[x]]

\* The souls that were swallowed are deleted, and good rows as such.
LEMMA EatenAreOk ==
  ASSUME NEW c, NEW q \in Seq(Record(c)), \A x \in DOMAIN q : RowOk(c, q[x]), NEW F, NEW p, p = Deleted(q, F)
  PROVE  /\ p \in Seq(Record(c)) /\ Len(p) = Len(q) /\ DOMAIN p = DOMAIN q
         /\ \A x \in DOMAIN q : RowOk(c, p[x])
         /\ \A x \in DOMAIN q : x \in F => p[x].type = DELETED
         /\ \A x \in DOMAIN q : x \notin F => p[x] = q[x]
<1>1. ASSUME NEW x \in DOMAIN q
      PROVE  /\ [q[x] EXCEPT !.type = DELETED] \in Record(c) /\ RowOk(c, [q[x] EXCEPT !.type = DELETED])
             /\ [q[x] EXCEPT !.type = DELETED].type = DELETED
  <2> DEFINE s == [q[x] EXCEPT !.type = DELETED]
  <2>1. RowOk(c, q[x]) /\ q[x] \in Record(c)
    OBVIOUS
  <2>2. s \in Record(c) /\ s.q = q[x].q /\ s.lvl = q[x].lvl /\ s.exp = q[x].exp /\ s.type = DELETED
    BY <2>1 DEF Record
  <2>3. DELETED # HUNTED
    BY DEF DELETED, HUNTED
  <2> HIDE DEF s
  <2>4. RowOk(c, s)
    BY <2>1, <2>2, <2>3, Placed
  <2> QED
    BY <2>2, <2>4 DEF s
<1>2. \A x \in DOMAIN q : p[x] \in Record(c) /\ RowOk(c, p[x])
  BY <1>1 DEF Deleted
<1>3. p = [x \in DOMAIN q |-> p[x]]
  BY DEF Deleted
<1>4. p \in Seq(Record(c)) /\ Len(p) = Len(q) /\ DOMAIN p = DOMAIN q
  <2> HIDE <1>1
  <2> QED
    BY <1>2, <1>3, SameLength
<1> QED
  BY <1>1, <1>2, <1>4 DEF Deleted


\* The souls after a swallow of all: what was swallowed is deleted, the swallower
\* is at one with its template, the others are as they were.
LEMMA SoulsAfterAll ==
  ASSUME SoulsInv, loaded = TRUE, hunted # {}, NEW read \in Reads, ~NoTemplateFor(soul[Swallower], FedAll(read))
  PROVE  LET fed == Eaten([soul EXCEPT ![Swallower] = Risen(@, FedAll(read))])
         IN  /\ fed \in Seq(Record(set)) /\ Len(fed) = Len(soul) /\ DOMAIN fed = DOMAIN row
             /\ \A x \in DOMAIN row : RowOk(set, fed[x])
             /\ \A x \in Fodder : fed[x].type = DELETED
             /\ \A x \in DOMAIN row \ (Fodder \union {Swallower}) : fed[x] = soul[x]
             /\ fed[Swallower] = Risen(soul[Swallower], FedAll(read))
             /\ fed[Swallower].type = soul[Swallower].type
<1> DEFINE r == Risen(soul[Swallower], FedAll(read))
           p == [soul EXCEPT ![Swallower] = r]
           fed == Eaten(p)
<1>1. /\ Swallower \in DOMAIN row /\ Fodder \subseteq DOMAIN row \ {Swallower}
  BY SwallowerAndFodder
<1>2. soul \in Seq(Record(set)) /\ DOMAIN soul = DOMAIN row /\ \A x \in DOMAIN row : RowOk(set, soul[x])
  BY InMemory
<1>3. RowOk(set, r) /\ r \in Record(set) /\ r.type = soul[Swallower].type
  BY SwallowerOfAllIsFed
<1>4. /\ p \in Seq(Record(set)) /\ Len(p) = Len(soul) /\ DOMAIN p = DOMAIN row /\ p[Swallower] = r
      /\ \A x \in DOMAIN row : RowOk(set, p[x]) /\ (x # Swallower => p[x] = soul[x])
  <2> HIDE DEF r
  <2> QED
    BY <1>1, <1>2, <1>3
<1> HIDE DEF p
<1>5. fed = Deleted(p, Fodder)
  BY DEF Eaten, Deleted
<1> HIDE DEF fed
<1>6. /\ fed \in Seq(Record(set)) /\ Len(fed) = Len(p) /\ DOMAIN fed = DOMAIN p
      /\ \A x \in DOMAIN p : RowOk(set, fed[x])
      /\ \A x \in DOMAIN p : x \in Fodder => fed[x].type = DELETED
      /\ \A x \in DOMAIN p : x \notin Fodder => fed[x] = p[x]
  BY <1>4, <1>5, EatenAreOk
<1>7. fed[Swallower] = r
  BY <1>1, <1>4, <1>6
<1>8. /\ fed \in Seq(Record(set)) /\ Len(fed) = Len(soul) /\ DOMAIN fed = DOMAIN row
      /\ \A x \in DOMAIN row : RowOk(set, fed[x])
      /\ \A x \in Fodder : fed[x].type = DELETED
      /\ \A x \in DOMAIN row \ (Fodder \union {Swallower}) : fed[x] = soul[x]
      /\ fed[Swallower].type = soul[Swallower].type
  <2> HIDE DEF r
  <2> QED
    BY <1>1, <1>3, <1>4, <1>6, <1>7
<1> QED
  BY <1>7, <1>8 DEF fed, p, r

\* What doSwallowAll does when it runs to its end.
LEMMA SwallowAllDoes ==
  ASSUME SoulsInv, loaded = TRUE, hunted # {}, NEW read \in Reads, SwallowAll(read)
  PROVE  LET r == Risen(soul[Swallower], FedAll(read)) IN
         /\ loaded' = TRUE /\ Finished /\ hunted' = {}
         /\ equipped' = equipped /\ purse' = purse /\ dbPurse' = dbPurse
         /\ Swallower \in hunted /\ Swallower \in DOMAIN row /\ Fodder \subseteq hunted \ {Swallower}
         /\ Fodder \subseteq DOMAIN row
         /\ row' = [x \in DOMAIN row |-> IF x \in Fodder \union {Swallower} THEN soul'[x] ELSE row[x]]
         /\ soul' \in Seq(Record(set)) /\ Len(soul') = Len(soul)
         /\ \A x \in DOMAIN row : RowOk(set, soul'[x])
         /\ \A x \in DOMAIN row \ (Fodder \union {Swallower}) : soul'[x] = soul[x]
         /\ \A x \in Fodder : soul'[x].type = DELETED
         /\ soul'[Swallower].q = r.q /\ soul'[Swallower].lvl = r.lvl /\ soul'[Swallower].exp = r.exp
         /\ \/ /\ NullCells # {} /\ vect' = [vect EXCEPT ![Min(NullCells)] = Swallower]
               /\ bag' = bag \union {Swallower}
               /\ soul'[Swallower].type = IN_BAG /\ soul'[Swallower].idx = Min(NullCells)
            \/ NullCells = {} /\ vect' = vect /\ bag' = bag /\ soul'[Swallower].type = HUNTED
<1> DEFINE r == Risen(soul[Swallower], FedAll(read))
           fed == Eaten([soul EXCEPT ![Swallower] = Risen(@, FedAll(read))])
           m == Min(NullCells)
           s == [fed[Swallower] EXCEPT !.type = IN_BAG, !.idx = m]
<1>1. /\ loaded' = TRUE /\ Finished /\ ~NoTemplateFor(soul[Swallower], FedAll(read)) /\ hunted' = {}
      /\ equipped' = equipped /\ purse' = purse /\ dbPurse' = dbPurse
  BY DEF SwallowAll
<1>2. /\ soul \in Seq(Record(set)) /\ DOMAIN soul = DOMAIN row
      /\ hunted \subseteq {x \in DOMAIN row : soul[x].type = HUNTED}
  BY InMemory
<1>3. /\ Swallower \in hunted /\ Fodder \subseteq hunted \ {Swallower} /\ Swallower \in DOMAIN row
      /\ Fodder \subseteq DOMAIN row /\ soul[Swallower].type = HUNTED
  BY <1>2, SwallowerAndFodder
<1>4. /\ fed \in Seq(Record(set)) /\ Len(fed) = Len(soul) /\ DOMAIN fed = DOMAIN row
      /\ \A x \in DOMAIN row : RowOk(set, fed[x])
      /\ \A x \in Fodder : fed[x].type = DELETED
      /\ \A x \in DOMAIN row \ (Fodder \union {Swallower}) : fed[x] = soul[x]
      /\ fed[Swallower] = r /\ fed[Swallower].type = HUNTED
  BY <1>1, <1>3, SoulsAfterAll
<1>5. \/ /\ NullCells # {} /\ vect' = [vect EXCEPT ![m] = Swallower] /\ bag' = bag \union {Swallower}
         /\ soul' = Stored(fed, Swallower)
         /\ row' = [x \in DOMAIN row |-> IF x \in Fodder \union {Swallower} THEN soul'[x] ELSE row[x]]
      \/ /\ NullCells = {} /\ vect' = vect /\ bag' = bag /\ soul' = fed
         /\ row' = [x \in DOMAIN row |-> IF x \in Fodder \union {Swallower} THEN soul'[x] ELSE row[x]]
  BY DEF SwallowAll, IntoCell, Save
<1>6. Stored(fed, Swallower) = [fed EXCEPT ![Swallower] = s]
  <2> HIDE DEF fed
  <2> QED
    BY <1>3, <1>4 DEF Stored
<1> HIDE DEF fed, r
<1>7. CASE NullCells # {} /\ soul' = Stored(fed, Swallower)
           /\ vect' = [vect EXCEPT ![m] = Swallower] /\ bag' = bag \union {Swallower}
  <2>1. m \in Nat
    BY <1>7, FirstNull
  <2>2. fed[Swallower] \in Record(set) /\ RowOk(set, fed[Swallower])
    BY <1>3, <1>4
  <2> HIDE DEF m
  <2>3. /\ s \in Record(set) /\ s.q = fed[Swallower].q /\ s.lvl = fed[Swallower].lvl
        /\ s.exp = fed[Swallower].exp /\ s.type = IN_BAG /\ s.idx = m
    BY <2>1, <2>2 DEF Record
  <2> HIDE DEF s
  <2>4. RowOk(set, s)
    BY <2>2, <2>3, Placed DEF IN_BAG, HUNTED
  <2>5. /\ soul' \in Seq(Record(set)) /\ Len(soul') = Len(soul) /\ soul'[Swallower] = s
        /\ \A x \in DOMAIN row : x # Swallower => soul'[x] = fed[x]
    BY <1>3, <1>4, <1>6, <1>7, <2>3
  <2>6. /\ \A x \in DOMAIN row : RowOk(set, soul'[x])
        /\ \A x \in DOMAIN row \ (Fodder \union {Swallower}) : soul'[x] = soul[x]
        /\ \A x \in Fodder : soul'[x].type = DELETED
        /\ soul'[Swallower].q = r.q /\ soul'[Swallower].lvl = r.lvl /\ soul'[Swallower].exp = r.exp
        /\ soul'[Swallower].type = IN_BAG /\ soul'[Swallower].idx = m
    BY <1>3, <1>4, <2>3, <2>4, <2>5
  <2> QED
    BY <1>1, <1>3, <1>5, <1>7, <2>5, <2>6 DEF m, r
<1>8. CASE NullCells = {} /\ vect' = vect /\ bag' = bag /\ soul' = fed
  <2>1. /\ \A x \in DOMAIN row : RowOk(set, soul'[x])
        /\ \A x \in DOMAIN row \ (Fodder \union {Swallower}) : soul'[x] = soul[x]
        /\ \A x \in Fodder : soul'[x].type = DELETED
        /\ soul'[Swallower].q = r.q /\ soul'[Swallower].lvl = r.lvl /\ soul'[Swallower].exp = r.exp
        /\ soul'[Swallower].type = HUNTED
        /\ soul' \in Seq(Record(set)) /\ Len(soul') = Len(soul)
    BY <1>3, <1>4, <1>8
  <2> QED
    BY <1>1, <1>3, <1>5, <1>8, <2>1 DEF r
<1> QED
  BY <1>5, <1>7, <1>8

\* doSwallowAll to its end.
LEMMA SwallowAllKeeps ==
  ASSUME SoulsInv, set' = set, loaded = TRUE, hunted # {}, NEW read \in Reads, SwallowAll(read)
  PROVE  SoulsInv'
<1>1. /\ loaded' = TRUE /\ hunted' = {} /\ equipped' = equipped /\ purse' = purse /\ dbPurse' = dbPurse
      /\ Swallower \in hunted /\ Swallower \in DOMAIN row /\ Fodder \subseteq hunted \ {Swallower}
      /\ row' = [x \in DOMAIN row |-> IF x \in Fodder \union {Swallower} THEN soul'[x] ELSE row[x]]
      /\ soul' \in Seq(Record(set)) /\ Len(soul') = Len(soul)
      /\ \A x \in DOMAIN row : RowOk(set, soul'[x])
      /\ \A x \in DOMAIN row \ (Fodder \union {Swallower}) : soul'[x] = soul[x]
      /\ \A x \in Fodder : soul'[x].type = DELETED
      /\ \/ /\ NullCells # {} /\ vect' = [vect EXCEPT ![Min(NullCells)] = Swallower]
            /\ bag' = bag \union {Swallower} /\ soul'[Swallower].type = IN_BAG
         \/ vect' = vect /\ bag' = bag /\ soul'[Swallower].type = HUNTED
  BY SwallowAllDoes
<1>2. /\ hunted \subseteq {x \in DOMAIN row : soul[x].type = HUNTED}
      /\ bag = {x \in DOMAIN row : soul[x].type = IN_BAG}
      /\ equipped = {x \in DOMAIN row : soul[x].type = EQUIPPED}
      /\ vect \in [0..Cells-1 -> {0} \union DOMAIN row] /\ purse \in Purse /\ dbPurse \in Purse
  BY InMemory
<1>3. row' = [x \in DOMAIN row |-> row'[x]]
  BY <1>1
<1>4. \A x \in DOMAIN row :
        /\ RowOk(set, soul'[x])
        /\ row'[x] = soul'[x] \/ (row'[x] = row[x] /\ Alike(soul[x], soul'[x]))
  BY <1>1 DEF Alike
<1>5. /\ hunted' \subseteq {x \in DOMAIN row : soul'[x].type = HUNTED}
      /\ bag' = {x \in DOMAIN row : soul'[x].type = IN_BAG}
      /\ equipped' = {x \in DOMAIN row : soul'[x].type = EQUIPPED}
  <2>1. HUNTED # IN_BAG /\ HUNTED # EQUIPPED /\ IN_BAG # EQUIPPED /\ DELETED \notin {HUNTED, IN_BAG, EQUIPPED}
    BY DEF HUNTED, IN_BAG, EQUIPPED, DELETED
  <2>2. \A x \in DOMAIN row \ (Fodder \union {Swallower}) : soul'[x].type = soul[x].type
    BY <1>1
  <2> QED
    BY <1>1, <1>2, <2>1, <2>2
<1>6. vect' \in [0..Cells-1 -> {0} \union DOMAIN row]
  <2>1. NullCells # {} => Min(NullCells) \in 0..Cells-1
    BY FirstNull
  <2> QED
    BY <1>1, <1>2, <2>1
<1> QED
  BY <1>1, <1>2, <1>3, <1>4, <1>5, <1>6, KeptBySave

\* What doSwallowAll does up to the soul without a level.
LEMMA SwallowSomeDoes ==
  ASSUME SoulsInv, loaded = TRUE, hunted # {}, NEW read \in Reads, SwallowSome(read)
  PROVE  /\ loaded' = TRUE /\ hunted' = hunted \ Fodder /\ bag' = bag /\ vect' = vect
         /\ row' = [x \in DOMAIN row |-> IF x \in Fodder THEN soul'[x] ELSE row[x]]
         /\ equipped' = equipped /\ purse' = purse /\ dbPurse' = dbPurse
         /\ Fodder \subseteq hunted \ {Swallower} /\ Fodder \subseteq DOMAIN row
         /\ soul' \in Seq(Record(set)) /\ Len(soul') = Len(soul)
         /\ \A x \in DOMAIN row : RowOk(set, soul'[x])
         /\ \A x \in Fodder : soul'[x].type = DELETED
         /\ \A x \in DOMAIN row \ Fodder : Alike(soul[x], soul'[x])
<1> DEFINE s == FedAll(read)
           p == [soul EXCEPT ![Swallower] = s]
<1>1. /\ loaded' = TRUE /\ hunted' = hunted \ Fodder /\ bag' = bag /\ vect' = vect /\ soul' = Eaten(p)
      /\ row' = [x \in DOMAIN row |-> IF x \in Fodder THEN soul'[x] ELSE row[x]]
      /\ equipped' = equipped /\ purse' = purse /\ dbPurse' = dbPurse
  BY DEF SwallowSome, Save
<1>2. /\ set \in Settings /\ soul \in Seq(Record(set)) /\ DOMAIN soul = DOMAIN row
      /\ \A x \in DOMAIN row : RowOk(set, soul[x])
      /\ hunted \subseteq {x \in DOMAIN row : soul[x].type = HUNTED}
      /\ bag = {x \in DOMAIN row : soul[x].type = IN_BAG}
      /\ equipped = {x \in DOMAIN row : soul[x].type = EQUIPPED}
      /\ vect \in [0..Cells-1 -> {0} \union DOMAIN row] /\ purse \in Purse /\ dbPurse \in Purse
  BY InMemory
<1>3. /\ Swallower \in hunted /\ Fodder \subseteq hunted \ {Swallower} /\ Swallower \in DOMAIN row
      /\ Fodder \subseteq DOMAIN row /\ \A x \in Fodder : soul[x].type = HUNTED
  BY <1>2, SwallowerAndFodder
<1>4. RowOk(set, s) /\ Alike(soul[Swallower], s)
  BY SwallowerOfAllIsFed
<1>5. s \in Record(set) /\ s.type = soul[Swallower].type
  BY <1>4 DEF RowOk, Alike
<1> HIDE DEF s
<1>6. /\ p \in Seq(Record(set)) /\ Len(p) = Len(soul) /\ DOMAIN p = DOMAIN row /\ p[Swallower] = s
      /\ \A x \in DOMAIN row : RowOk(set, p[x]) /\ (x # Swallower => p[x] = soul[x])
  BY <1>2, <1>3, <1>4, <1>5
<1> HIDE DEF p
<1>7. soul' = Deleted(p, Fodder)
  BY <1>1 DEF Eaten, Deleted
<1>8. \A q : q = Deleted(p, Fodder) =>
        /\ q \in Seq(Record(set)) /\ Len(q) = Len(p)
        /\ \A x \in DOMAIN p : RowOk(set, q[x])
        /\ \A x \in DOMAIN p : x \in Fodder => q[x].type = DELETED
        /\ \A x \in DOMAIN p : x \notin Fodder => q[x] = p[x]
  BY <1>6, EatenAreOk
<1>9. /\ soul' \in Seq(Record(set)) /\ Len(soul') = Len(soul)
      /\ \A x \in DOMAIN row : RowOk(set, soul'[x])
      /\ \A x \in Fodder : soul'[x].type = DELETED
      /\ \A x \in DOMAIN row \ Fodder : Alike(soul[x], soul'[x])
  <2>1. \A x \in DOMAIN row \ Fodder : soul'[x] = p[x]
    BY <1>6, <1>7, <1>8
  <2>2. \A x \in DOMAIN row \ Fodder : Alike(soul[x], p[x])
    BY <1>4, <1>6 DEF Alike
  <2> QED
    BY <1>3, <1>6, <1>7, <1>8, <2>1, <2>2
<1> QED
  BY <1>1, <1>3, <1>9

\* doSwallowAll up to the soul without a level.
LEMMA SwallowSomeKeeps ==
  ASSUME SoulsInv, set' = set, loaded = TRUE, hunted # {}, NEW read \in Reads, SwallowSome(read)
  PROVE  SoulsInv'
<1>1. /\ loaded' = TRUE /\ hunted' = hunted \ Fodder /\ bag' = bag /\ vect' = vect
      /\ row' = [x \in DOMAIN row |-> IF x \in Fodder THEN soul'[x] ELSE row[x]]
      /\ equipped' = equipped /\ purse' = purse /\ dbPurse' = dbPurse
      /\ Fodder \subseteq hunted \ {Swallower}
      /\ soul' \in Seq(Record(set)) /\ Len(soul') = Len(soul)
      /\ \A x \in DOMAIN row : RowOk(set, soul'[x])
      /\ \A x \in Fodder : soul'[x].type = DELETED
      /\ \A x \in DOMAIN row \ Fodder : Alike(soul[x], soul'[x])
  BY SwallowSomeDoes
<1>2. /\ hunted \subseteq {x \in DOMAIN row : soul[x].type = HUNTED}
      /\ bag = {x \in DOMAIN row : soul[x].type = IN_BAG}
      /\ equipped = {x \in DOMAIN row : soul[x].type = EQUIPPED}
      /\ vect \in [0..Cells-1 -> {0} \union DOMAIN row] /\ purse \in Purse /\ dbPurse \in Purse
  BY InMemory
<1>3. row' = [x \in DOMAIN row |-> row'[x]]
  BY <1>1
<1>4. \A x \in DOMAIN row :
        /\ RowOk(set, soul'[x])
        /\ row'[x] = soul'[x] \/ (row'[x] = row[x] /\ Alike(soul[x], soul'[x]))
  BY <1>1
<1>5. /\ hunted' \subseteq {x \in DOMAIN row : soul'[x].type = HUNTED}
      /\ bag' = {x \in DOMAIN row : soul'[x].type = IN_BAG}
      /\ equipped' = {x \in DOMAIN row : soul'[x].type = EQUIPPED}
  <2>1. HUNTED # IN_BAG /\ HUNTED # EQUIPPED /\ DELETED \notin {HUNTED, IN_BAG, EQUIPPED}
    BY DEF HUNTED, IN_BAG, EQUIPPED, DELETED
  <2>2. \A x \in DOMAIN row \ Fodder : soul'[x].type = soul[x].type
    BY <1>1 DEF Alike
  <2> QED
    BY <1>1, <1>2, <2>1, <2>2
<1> QED
  BY <1>1, <1>2, <1>3, <1>4, <1>5, KeptBySave

\* Some of the souls that are swallowed are deleted in the table, and the role
\* is gone.
LEMMA FodderGone ==
  ASSUME SoulsInv, set' = set, loaded = TRUE, hunted # {}, Gone, dbPurse' = dbPurse,
         row' = [x \in DOMAIN row |-> row'[x]],
         \A x \in DOMAIN row : row'[x] = row[x] \/ row'[x] = [soul[x] EXCEPT !.type = DELETED]
  PROVE  SoulsInv'
<1>1. /\ \A x \in DOMAIN row : RowOk(set, row[x]) /\ RowOk(set, soul[x]) /\ soul[x] \in Record(set)
      /\ dbPurse \in Purse
  BY InMemory
<1>2. ASSUME NEW x \in DOMAIN row PROVE RowOk(set, [soul[x] EXCEPT !.type = DELETED])
  <2> DEFINE s == [soul[x] EXCEPT !.type = DELETED]
  <2>1. RowOk(set, soul[x]) /\ soul[x] \in Record(set)
    BY <1>1
  <2>2. /\ s \in Record(set) /\ s.q = soul[x].q /\ s.lvl = soul[x].lvl /\ s.exp = soul[x].exp
        /\ s.type = DELETED
    BY <2>1 DEF Record
  <2>3. DELETED # HUNTED
    BY DEF DELETED, HUNTED
  <2> HIDE DEF s
  <2>4. RowOk(set, s)
    BY <2>1, <2>2, <2>3, Placed
  <2> QED
    BY <2>4 DEF s
<1>3. \A x \in DOMAIN row : RowOk(set, row'[x])
  BY <1>1, <1>2
<1> QED
  BY <1>1, <1>3, KeptByGone

\* doSwallowAll cut off among its deletions, or by the template that is missing.
LEMMA SwallowAllCutKeeps ==
  ASSUME SoulsInv, set' = set, loaded = TRUE, hunted # {},
         (\E last \in Fodder : SwallowAllCut(last)) \/ (\E read \in Reads : SwallowAllCrash(read))
  PROVE  SoulsInv'
<1>1. Gone /\ dbPurse' = dbPurse
  BY DEF SwallowAllCut, SwallowAllCrash
<1>2. /\ row' = [x \in DOMAIN row |-> row'[x]]
      /\ \A x \in DOMAIN row : row'[x] = row[x] \/ row'[x] = [soul[x] EXCEPT !.type = DELETED]
  BY DEF SwallowAllCut, SwallowAllCrash
<1> QED
  BY <1>1, <1>2, FodderGone

-----------------------------------------------------------------------------
(* The invariant holds.                                                    *)

\* Every step keeps the invariant.
LEMMA NextKeeps ==
  ASSUME SoulsInv, [Next]_vars
  PROVE  SoulsInv'
<1>1. CASE UNCHANGED vars
  BY <1>1 DEF vars, SoulsInv, Typed, RowsOk, Present, Absent, Cells
<1>2. CASE Next
  <2>1. set' = set
    BY <1>2 DEF Next
  <2>2. CASE Hunt
    BY <2>1, <2>2, HuntSoulKeeps, HuntCutKeeps DEF Hunt
  <2>3. CASE Swallow
    <3>1. PICK a \in bag, b \in bag : SwallowSoul(a, b) \/ SwallowCut(a, b) \/ SwallowCrash(a, b)
      BY <2>3 DEF Swallow
    <3>2. CASE SwallowCrash(a, b)
      BY <2>1, <3>2, GoneKeeps DEF SwallowCrash, db
    <3> QED
      BY <2>1, <3>1, <3>2, SwallowSoulKeeps, SwallowCutKeeps
  <2>4. CASE SwallowHunted
    <3>1. loaded = TRUE /\ hunted # {}
      BY <2>4 DEF SwallowHunted, SoulsInv, Typed
    <3>2. CASE \E read \in Reads : SwallowAll(read)
      BY <2>1, <3>1, <3>2, SwallowAllKeeps
    <3>3. CASE \E read \in Reads : SwallowSome(read)
      BY <2>1, <3>1, <3>3, SwallowSomeKeeps
    <3>4. CASE (\E last \in Fodder : SwallowAllCut(last)) \/ (\E read \in Reads : SwallowAllCrash(read))
      BY <2>1, <3>1, <3>4, SwallowAllCutKeeps
    <3> QED
      BY <2>4, <3>2, <3>3, <3>4 DEF SwallowHunted
  <2>5. CASE Equip
    BY <2>1, <2>5, ReplacingKeeps DEF Equip
  <2>6. CASE Move
    BY <2>1, <2>6, ReplacingKeeps DEF Move
  <2>7. CASE \E id \in hunted : StoreSoul(id)
    BY <2>1, <2>7, ReplacingKeeps
  <2>8. CASE Leave
    BY <2>1, <2>8, GoneKeeps DEF Leave, db
  <2>9. CASE Load
    BY <2>1, <2>9, LoadKeeps
  <2> QED
    BY <1>2, <2>2, <2>3, <2>4, <2>5, <2>6, <2>7, <2>8, <2>9 DEF Next
<1> QED
  BY <1>1, <1>2

\* The invariant of every behaviour.
LEMMA Invariant == Spec => []SoulsInv
<1>1. Init => SoulsInv
  BY FirstState
<1>2. SoulsInv /\ [Next]_vars => SoulsInv'
  BY NextKeeps
<1> QED
  BY <1>1, <1>2, PTL DEF Spec

\* Every variable keeps its type, and no row a template past the end.
THEOREM TypeCorrect == Spec => []TypeOK
<1>1. SoulsInv => TypeOK
  <2> SUFFICES ASSUME SoulsInv PROVE TypeOK
    OBVIOUS
  <2>1. Typed /\ RowsOk /\ (loaded = TRUE \/ loaded = FALSE)
    BY DEF SoulsInv, Typed
  <2>2. Record(set) = SoulRecord
    BY DEF Record, SoulRecord, Qualities, LevelExp
  <2>3. \A id \in DOMAIN row : row[id].lvl <= TopLevel[row[id].q]
    BY <2>1 DEF RowsOk, RowOk, Climbs, TopLevel
  <2>4. CASE loaded = TRUE
    <3>1. soul \in Seq(SoulRecord) /\ hunted \subseteq DOMAIN soul /\ bag \subseteq DOMAIN soul /\ equipped \subseteq DOMAIN soul
      BY <2>2, <2>4, InMemory
    <3> QED
      BY <2>1, <2>2, <2>3, <3>1 DEF TypeOK, Typed
  <2>5. CASE loaded = FALSE
    <3>1. soul \in Seq(SoulRecord) /\ hunted = {} /\ bag = {} /\ equipped = {}
      BY <2>5 DEF SoulsInv, Absent
    <3> QED
      BY <2>1, <2>2, <2>3, <3>1 DEF TypeOK, Typed
  <2> QED
    BY <2>1, <2>4, <2>5
<1> QED
  BY <1>1, Invariant, PTL

\* A restart brings every soul back where memory shows it, and the place a new
\* hunted soul gets is free and on the screen.
THEOREM PlacesAreSaved == Spec => []PlaceIsSaved
<1>1. SoulsInv => PlaceIsSaved
  <2> SUFFICES ASSUME SoulsInv PROVE PlaceIsSaved
    OBVIOUS
  <2>1. loaded = TRUE \/ loaded = FALSE
    BY DEF SoulsInv, Typed
  <2>2. CASE loaded = FALSE
    BY <2>2 DEF SoulsInv, Absent, PlaceIsSaved, Shown
  <2>3. CASE loaded = TRUE
    <3>1. /\ \A id \in DOMAIN row : RowOk(set, soul[id]) /\ Alike(row[id], soul[id])
          /\ hunted \subseteq {id \in DOMAIN row : soul[id].type = HUNTED}
          /\ bag = {id \in DOMAIN row : soul[id].type = IN_BAG}
          /\ equipped = {id \in DOMAIN row : soul[id].type = EQUIPPED}
      BY <2>3, InMemory
    <3>2. HUNTED # IN_BAG /\ HUNTED # EQUIPPED /\ IN_BAG # EQUIPPED
      BY DEF HUNTED, IN_BAG, EQUIPPED
    <3>3. ASSUME NEW id \in Shown
          PROVE  /\ row[id].type = soul[id].type /\ row[id].idx = soul[id].idx /\ row[id].lvl = soul[id].lvl
                 /\ id \in hunted <=> soul[id].type = HUNTED
                 /\ id \in bag <=> soul[id].type = IN_BAG
                 /\ id \in equipped <=> soul[id].type = EQUIPPED
      BY <3>1, <3>2 DEF Shown, Alike
    <3>4. OfType[HUNTED] = hunted /\ OfType[IN_BAG] = bag /\ OfType[EQUIPPED] = equipped
      BY <3>2 DEF OfType
    <3>5. DOMAIN OfType = {HUNTED, IN_BAG, EQUIPPED}
      BY DEF OfType
    <3>6. \A id \in Shown : \A t \in DOMAIN OfType : id \in OfType[t] <=> soul[id].type = t
      BY <3>3, <3>4, <3>5
    <3>7. NextHuntIndex \notin Indexes(hunted)
      BY <2>3, NextPlace
    <3>8. \A i \in Indexes(hunted) : i < MaxHunt
      BY <3>1 DEF Indexes, RowOk, MaxHunt
    <3> QED
      BY <3>3, <3>6, <3>7, <3>8 DEF PlaceIsSaved
  <2> QED
    BY <2>1, <2>2, <2>3
<1> QED
  BY <1>1, Invariant, PTL

\* No swallow runs off the end of a complete chain of templates, however the
\* souls were fed, saved and lost before.
THEOREM ChainsNeverEnd == Spec => []ChainNeverEnds
<1>1. SoulsInv => ChainNeverEnds
  <2> SUFFICES ASSUME SoulsInv PROVE ChainNeverEnds
    OBVIOUS
  <2>1. loaded = TRUE \/ (loaded = FALSE /\ hunted = {} /\ bag = {})
    BY DEF SoulsInv, Typed, Absent
  <2>2. ASSUME NEW a \in bag, NEW b \in bag, CanSwallow(a, b), Complete(soul[a])
        PROVE  ~NoTemplateFor(soul[a], Fed(a, b))
    BY <2>1, <2>2, SwallowerIsFed DEF CanSwallow
  <2>3. ASSUME hunted # {}, Complete(soul[Swallower]), NEW read \in Reads
        PROVE  ~NoTemplateFor(soul[Swallower], FedAll(read))
    BY <2>1, <2>3, SwallowerOfAllIsFed
  <2> QED
    BY <2>2, <2>3 DEF ChainNeverEnds
<1> QED
  BY <1>1, Invariant, PTL


-----------------------------------------------------------------------------
(* What sets a bag at odds: a soul that is in no list.                     *)

\* Every soul of the kind of the hunted ones is among them.
AllShown == loaded => \A id \in DOMAIN row : row[id].type = HUNTED => id \in hunted

\* Only a hunted soul can be in no list.
LEMMA HiddenIsHunted == SoulsInv => (NoneHidden <=> AllShown)
<1> SUFFICES ASSUME SoulsInv PROVE NoneHidden <=> AllShown
  OBVIOUS
<1>1. CASE loaded = TRUE
  <2>1. /\ row \in Seq(Record(set))
        /\ \A id \in DOMAIN row : row[id] \in Record(set)
        /\ hunted \subseteq {id \in DOMAIN row : row[id].type = HUNTED}
        /\ bag = {id \in DOMAIN row : row[id].type = IN_BAG}
        /\ equipped = {id \in DOMAIN row : row[id].type = EQUIPPED}
    BY <1>1, InMemory DEF SoulsInv, Present
  <2>2. \A id \in DOMAIN row : row[id].type \in {HUNTED, IN_BAG, EQUIPPED, DELETED}
    BY <2>1 DEF Record
  <2>3. HUNTED # IN_BAG /\ HUNTED # EQUIPPED /\ HUNTED # DELETED
    BY DEF HUNTED, IN_BAG, EQUIPPED, DELETED
  <2> QED
    BY <1>1, <2>1, <2>2, <2>3 DEF NoneHidden, AllShown, Shown
<1>2. CASE loaded = FALSE
  BY <1>2 DEF NoneHidden, AllShown
<1> QED
  BY <1>1, <1>2 DEF SoulsInv, Typed

\* A soul goes out of every list by no step but a SwallowAll without a NULL cell.
LEMMA HiddenBySwallowAll ==
  ASSUME SoulsInv, Next, AllShown, ~AllShown'
  PROVE  hunted # {} /\ NullCells = {} /\ \E read \in Reads : SwallowAll(read)
<1>1. HUNTED # IN_BAG /\ HUNTED # EQUIPPED /\ HUNTED # DELETED
  BY DEF HUNTED, IN_BAG, EQUIPPED, DELETED
<1>2. loaded' # FALSE
  BY DEF AllShown
<1>3. ASSUME Hunt PROVE FALSE
  <2>1. PICK i \in DOMAIN HuntInfo : \E rise \in Rise(i) : (\E q \in Qualities : HuntSoul(i, q, rise)) \/ HuntCut(i, rise)
    BY <1>3 DEF Hunt
  <2>2. PICK rise \in Rise(i) : (\E q \in Qualities : HuntSoul(i, q, rise)) \/ HuntCut(i, rise)
    BY <2>1
  <2>3. PICK q \in Qualities : HuntSoul(i, q, rise)
    BY <1>2, <2>2 DEF HuntCut, Gone
  <2> DEFINE s == [q |-> q, lvl |-> 1, exp |-> 0, idx |-> NextHuntIndex, type |-> HUNTED]
  <2>4. loaded = TRUE /\ row' = Append(row, s) /\ hunted' = hunted \union {Len(row) + 1}
    BY <2>3 DEF HuntSoul, CanHunt, SoulsInv, Typed
  <2>5. row \in Seq(Record(set))
    BY DEF SoulsInv, Typed
  <2> HIDE DEF s
  <2>6. DOMAIN row' = DOMAIN row \union {Len(row) + 1} /\ \A id \in DOMAIN row : row'[id] = row[id]
    BY <2>4, <2>5
  <2> QED
    BY <2>4, <2>6 DEF AllShown
<1>4. ASSUME NEW id, Replaced(id), hunted \ {id} \subseteq hunted', soul'[id].type # HUNTED, loaded = TRUE PROVE FALSE
  <2>1. DOMAIN row' = DOMAIN row /\ \A x \in DOMAIN row : row'[x] = IF x = id THEN soul'[x] ELSE row[x]
    BY <1>4 DEF Replaced
  <2> QED
    BY <1>4, <2>1 DEF AllShown
<1>5. ASSUME NEW id \in hunted, StoreSoul(id) PROVE FALSE
  BY <1>1, <1>4, <1>5, StoreSoulDoes
<1>6. ASSUME Move PROVE FALSE
  <2>1. PICK id \in bag, to \in MoveCells : MoveSoul(id, to)
    BY <1>6 DEF Move
  <2> QED
    BY <1>1, <1>4, <2>1, MoveSoulDoes
<1>7. ASSUME Equip PROVE FALSE
  <2>1. PICK id \in bag, to \in EquipCells : EquipSoul(id, to)
    BY <1>7 DEF Equip
  <2> QED
    BY <1>1, <1>4, <2>1, EquipSoulDoes
<1>8. ASSUME Swallow PROVE FALSE
  <2>1. PICK a \in bag, b \in bag : SwallowSoul(a, b)
    BY <1>2, <1>8 DEF Swallow, SwallowCut, SwallowCrash, Gone
  <2>2. /\ loaded = TRUE /\ a \in DOMAIN row /\ hunted' = hunted
        /\ row' = [x \in DOMAIN row |-> IF x \in {a, b} THEN soul'[x] ELSE row[x]]
        /\ soul'[b].type = DELETED
        /\ a # b => soul'[a].type = soul[a].type
    BY <2>1, SwallowSoulDoes
  <2>3. soul[a].type = IN_BAG
    BY <2>2, InMemory
  <2>4. DOMAIN row' = DOMAIN row
        /\ \A x \in DOMAIN row : row'[x].type # HUNTED \/ row'[x] = row[x]
    BY <1>1, <2>2, <2>3
  <2> QED
    BY <2>2, <2>4 DEF AllShown
<1>9. ASSUME SwallowHunted PROVE hunted # {} /\ NullCells = {} /\ \E read \in Reads : SwallowAll(read)
  <2>1. loaded = TRUE /\ hunted # {}
    BY <1>9 DEF SwallowHunted, SoulsInv, Typed
  <2>2. PICK read \in Reads : SwallowAll(read) \/ SwallowSome(read)
    BY <1>2, <1>9 DEF SwallowHunted, SwallowAllCrash, SwallowAllCut, Gone
  <2>3. CASE SwallowSome(read)
    <3>1. /\ hunted' = hunted \ Fodder /\ Fodder \subseteq DOMAIN row
          /\ row' = [x \in DOMAIN row |-> IF x \in Fodder THEN soul'[x] ELSE row[x]]
          /\ \A x \in Fodder : soul'[x].type = DELETED
      BY <2>1, <2>3, SwallowSomeDoes
    <3>2. DOMAIN row' = DOMAIN row /\ (\A x \in Fodder : row'[x].type # HUNTED)
          /\ \A x \in DOMAIN row \ Fodder : row'[x] = row[x]
      BY <1>1, <3>1
    <3> QED
      BY <2>1, <3>1, <3>2 DEF AllShown
  <2>4. CASE SwallowAll(read) /\ NullCells # {}
    <3>1. /\ Finished /\ hunted' = {} /\ Fodder \subseteq DOMAIN row /\ Swallower \in DOMAIN row
          /\ row' = [x \in DOMAIN row |-> IF x \in Fodder \union {Swallower} THEN soul'[x] ELSE row[x]]
          /\ \A x \in Fodder : soul'[x].type = DELETED
          /\ soul'[Swallower].type = IN_BAG
      BY <2>1, <2>4, SwallowAllDoes
    <3>2. hunted \subseteq Fodder \union {Swallower}
      BY <3>1 DEF Finished
    <3>3. DOMAIN row' = DOMAIN row /\ (\A x \in Fodder \union {Swallower} : row'[x].type # HUNTED)
          /\ \A x \in DOMAIN row \ (Fodder \union {Swallower}) : row'[x] = row[x]
      BY <1>1, <3>1
    <3> QED
      BY <2>1, <3>2, <3>3 DEF AllShown
  <2> QED
    BY <2>1, <2>2, <2>3, <2>4
<1>10. ASSUME Load PROVE FALSE
  BY <1>10 DEF Load, db, AllShown
<1>11. ~Leave
  BY <1>2 DEF Leave, Gone
<1> QED
  BY <1>3, <1>5, <1>6, <1>7, <1>8, <1>9, <1>10, <1>11 DEF Next


-----------------------------------------------------------------------------
(* What sets a bag at odds: cells and souls that disagree.                 *)

\* The cells and the souls of the bag agree in memory; in the table no two souls
\* of the bag have one cell.
MemoryAgrees ==
  /\ \A i \in 0..Cells-1 : vect[i] # 0 => vect[i] \in bag /\ soul[vect[i]].idx = i
  /\ \A id \in bag : soul[id].idx \in 0..Cells-1 /\ vect[soul[id].idx] = id
TableAgrees ==
  \A i, j \in DOMAIN row :
    row[i].type = IN_BAG /\ row[j].type = IN_BAG => row[i].idx < Cells /\ (row[i].idx = row[j].idx => i = j)

\* With a role in memory the table follows memory, and without one there is
\* nothing but the table.
LEMMA CellsAgreeWhere ==
  SoulsInv => (CellsAgree <=> IF loaded THEN MemoryAgrees ELSE TableAgrees /\ \A i \in 0..Cells-1 : vect[i] = 0)
<1> SUFFICES ASSUME SoulsInv
             PROVE CellsAgree <=> IF loaded THEN MemoryAgrees ELSE TableAgrees /\ \A i \in 0..Cells-1 : vect[i] = 0
  OBVIOUS
<1>1. vect \in [0..Cells-1 -> {0} \union DOMAIN soul] /\ set \in Settings /\ loaded \in BOOLEAN
  BY DEF SoulsInv, Typed
<1>2. CellsAgree <=> MemoryAgrees /\ TableAgrees
  <2>1. DOMAIN vect = 0..Cells-1
    BY <1>1
  <2> QED
    BY <2>1 DEF CellsAgree, MemoryAgrees, TableAgrees
<1>3. CASE loaded = TRUE
  <2>1. /\ \A id \in DOMAIN row : Alike(row[id], soul[id])
        /\ bag = {id \in DOMAIN row : soul[id].type = IN_BAG} /\ Cells \in Nat
    BY <1>3, InMemory
  <2>2. \A id \in DOMAIN row : row[id].type = IN_BAG => id \in bag /\ row[id].idx = soul[id].idx
    BY <2>1 DEF Alike
  <2>3. ASSUME MemoryAgrees PROVE TableAgrees
    <3>1. \A id \in bag : soul[id].idx \in 0..Cells-1 /\ vect[soul[id].idx] = id
      BY <2>3 DEF MemoryAgrees
    <3>2. \A id \in bag : soul[id].idx < Cells
      BY <2>1, <3>1
    <3> QED
      BY <2>2, <3>1, <3>2 DEF TableAgrees
  <2> QED
    BY <1>2, <1>3, <2>3
<1>4. CASE loaded = FALSE
  <2>1. soul = <<>> /\ bag = {}
    BY <1>4 DEF SoulsInv, Absent
  <2>2. MemoryAgrees <=> \A i \in 0..Cells-1 : vect[i] = 0
    BY <1>1, <2>1 DEF MemoryAgrees
  <2> QED
    BY <1>2, <1>4, <2>2
<1> QED
  BY <1>1, <1>3, <1>4

\* The cells stay in agreement when they are left alone,
LEMMA CellsAlone ==
  ASSUME MemoryAgrees, set' = set, vect' = vect, bag' = bag, \A id \in bag : soul'[id].idx = soul[id].idx
  PROVE  MemoryAgrees'
BY DEF MemoryAgrees, Cells

\* when a soul goes into the first NULL cell,
LEMMA CellFilled ==
  ASSUME SoulsInv, loaded = TRUE, MemoryAgrees, set' = set, NullCells # {}, NEW id, id \in hunted,
         vect' = [vect EXCEPT ![Min(NullCells)] = id], bag' = bag \union {id},
         soul'[id].idx = Min(NullCells), \A x \in bag : soul'[x].idx = soul[x].idx
  PROVE  MemoryAgrees'
<1> DEFINE m == Min(NullCells)
<1>1. m \in 0..Cells-1 /\ vect[m] = 0
  BY FirstNull
<1>2. /\ hunted \subseteq {x \in DOMAIN row : soul[x].type = HUNTED}
      /\ bag = {x \in DOMAIN row : soul[x].type = IN_BAG} /\ DOMAIN row = 1..Len(row)
      /\ vect \in [0..Cells-1 -> {0} \union DOMAIN row]
  BY InMemory
<1>3. id \notin bag /\ 0 \notin bag
  BY <1>2 DEF HUNTED, IN_BAG
<1> HIDE DEF m
<1>4. vect'[m] = id /\ \A i \in 0..Cells-1 : i # m => vect'[i] = vect[i]
  BY <1>1, <1>2 DEF m
<1>5. ASSUME NEW i \in 0..Cells-1, vect'[i] # 0 PROVE vect'[i] \in bag' /\ soul'[vect'[i]].idx = i
  <2>1. CASE i = m
    BY <1>4, <2>1 DEF m
  <2>2. CASE i # m
    BY <1>4, <1>5, <2>2 DEF MemoryAgrees
  <2> QED
    BY <2>1, <2>2
<1>6. ASSUME NEW x \in bag' PROVE soul'[x].idx \in 0..Cells-1 /\ vect'[soul'[x].idx] = x
  <2>1. CASE x = id
    BY <1>1, <1>4, <2>1 DEF m
  <2>2. CASE x \in bag
    <3>1. soul[x].idx \in 0..Cells-1 /\ vect[soul[x].idx] = x /\ x # 0
      BY <1>3, <2>2 DEF MemoryAgrees
    <3>2. soul[x].idx # m
      BY <1>1, <3>1
    <3> QED
      BY <1>4, <2>2, <3>1, <3>2
  <2> QED
    BY <2>1, <2>2
<1> QED
  BY <1>5, <1>6 DEF MemoryAgrees, Cells

\* and when a soul of the bag leaves its cell.
LEMMA CellEmptied ==
  ASSUME SoulsInv, loaded = TRUE, MemoryAgrees, set' = set, NEW id \in bag,
         vect' = Emptied(id), bag' = bag \ {id}, \A x \in bag \ {id} : soul'[x].idx = soul[x].idx
  PROVE  MemoryAgrees'
<1> DEFINE m == soul[id].idx
<1>1. vect \in [0..Cells-1 -> {0} \union DOMAIN row]
  BY InMemory
<1>2. m \in 0..Cells-1 /\ vect[m] = id
  BY DEF MemoryAgrees
<1>3. vect' = [vect EXCEPT ![m] = 0]
  BY <1>1, <1>2 DEF Emptied
<1> HIDE DEF m
<1>4. vect'[m] = 0 /\ \A i \in 0..Cells-1 : i # m => vect'[i] = vect[i]
  BY <1>1, <1>2, <1>3
<1>5. ASSUME NEW i \in 0..Cells-1, vect'[i] # 0 PROVE vect'[i] \in bag' /\ soul'[vect'[i]].idx = i
  <2>1. i # m /\ vect'[i] = vect[i]
    BY <1>4, <1>5
  <2>2. vect[i] \in bag /\ soul[vect[i]].idx = i
    BY <1>5, <2>1 DEF MemoryAgrees
  <2>3. vect[i] # id
    BY <2>1, <2>2 DEF m
  <2> QED
    BY <2>1, <2>2, <2>3
<1>6. ASSUME NEW x \in bag' PROVE soul'[x].idx \in 0..Cells-1 /\ vect'[soul'[x].idx] = x
  <2>1. x \in bag /\ x # id
    OBVIOUS
  <2>2. soul[x].idx \in 0..Cells-1 /\ vect[soul[x].idx] = x
    BY <2>1 DEF MemoryAgrees
  <2>3. soul[x].idx # m
    BY <1>2, <2>1, <2>2
  <2> QED
    BY <1>4, <2>1, <2>2, <2>3
<1> QED
  BY <1>5, <1>6 DEF MemoryAgrees, Cells

\* The table stays in agreement when the role goes, if no row has come into the
\* bag and none in it has moved.
LEMMA TableAlone ==
  ASSUME SoulsInv, CellsAgree, Gone, set' = set, DOMAIN row' = DOMAIN row,
         \A x \in DOMAIN row : row'[x].type = IN_BAG => row[x].type = IN_BAG /\ row'[x].idx = row[x].idx
  PROVE  TableAgrees' /\ \A i \in 0..Cells'-1 : vect'[i] = 0
<1>1. TableAgrees
  BY DEF CellsAgree, TableAgrees
<1>2. TableAgrees'
  BY <1>1 DEF TableAgrees, Cells
<1>3. \A i \in 0..Cells'-1 : vect'[i] = 0
  BY DEF Gone, NoCells, Cells
<1> QED
  BY <1>2, <1>3

\* The cells of a role that comes back agree with its souls, if the table does.
LEMMA CellsLoaded ==
  ASSUME SoulsInv, TableAgrees, set' = set, Load
  PROVE  MemoryAgrees'
<1> DEFINE B == {x \in DOMAIN row : row[x].type = IN_BAG}
           S(i) == {id \in B : row[id].idx = i} \union {0}
<1>1. /\ soul' = row /\ row' = row /\ bag' = B
      /\ vect' = [i \in 0..Cells-1 |-> Max(S(i))]
  BY DEF Load, db
<1>2. /\ row \in Seq(Record(set)) /\ DOMAIN row = 1..Len(row) /\ Len(row) \in Nat
      /\ \A id \in DOMAIN row : row[id].idx \in Nat
      /\ Cells \in Nat
  <2>1. row \in Seq(Record(set)) /\ set \in Settings
    BY DEF SoulsInv, Typed
  <2>2. \A id \in DOMAIN row : row[id] \in Record(set)
    BY <2>1
  <2>3. \A id \in DOMAIN row : row[id].idx \in Nat
    BY <2>2 DEF Record
  <2> QED
    BY <2>1, <2>3, SettingIsOk DEF Cells
<1>3. \A i, j \in B : row[i].idx < Cells /\ (row[i].idx = row[j].idx => i = j)
  BY DEF TableAgrees
<1>4. \A i \in 0..Cells-1 : Max(S(i)) \in S(i) /\ \A x \in S(i) : x <= Max(S(i))
  <2> TAKE i \in 0..Cells-1
  <2>1. S(i) \subseteq Nat /\ S(i) # {} /\ \A x \in S(i) : x <= Len(row)
    BY <1>2
  <2> HIDE DEF S
  <2> QED
    BY <1>2, <2>1, MaxIsGreatest
<1>5. ASSUME NEW i \in 0..Cells-1, vect'[i] # 0 PROVE vect'[i] \in bag' /\ soul'[vect'[i]].idx = i
  <2>1. vect'[i] \in S(i)
    BY <1>1, <1>4
  <2> QED
    BY <1>1, <1>5, <2>1
<1>6. ASSUME NEW x \in B PROVE row[x].idx \in 0..Cells-1 /\ Max(S(row[x].idx)) = x
  <2>1. row[x].idx \in 0..Cells-1
    BY <1>2, <1>3
  <2>2. x \in S(row[x].idx) /\ x # 0 /\ x > 0 /\ x \in Nat
    BY <1>2
  <2>3. Max(S(row[x].idx)) \in S(row[x].idx) /\ x <= Max(S(row[x].idx))
    BY <1>4, <2>1, <2>2
  <2>4. Max(S(row[x].idx)) # 0
    BY <2>2, <2>3
  <2>5. Max(S(row[x].idx)) \in B /\ row[Max(S(row[x].idx))].idx = row[x].idx
    BY <2>3, <2>4
  <2> QED
    BY <1>3, <2>1, <2>5
<1> HIDE DEF S
<1>7. \A x \in bag' : soul'[x].idx \in 0..Cells-1 /\ vect'[soul'[x].idx] = x
  BY <1>1, <1>6
<1> QED
  BY <1>5, <1>7 DEF MemoryAgrees, Cells


\* Cells and souls come to disagree by no step but a move.
LEMMA OddsByMove ==
  ASSUME SoulsInv, Next, CellsAgree, ~Move
  PROVE  IF loaded' THEN MemoryAgrees' ELSE TableAgrees' /\ \A i \in 0..Cells'-1 : vect'[i] = 0
<1>1. set' = set
  BY DEF Next
<1>2. loaded = TRUE => MemoryAgrees
  BY CellsAgreeWhere
<1>3. loaded = FALSE => TableAgrees
  BY CellsAgreeWhere
<1>4. HUNTED # IN_BAG /\ EQUIPPED # IN_BAG /\ DELETED # IN_BAG
  BY DEF HUNTED, IN_BAG, EQUIPPED, DELETED
<1> DEFINE Goal == IF loaded' THEN MemoryAgrees' ELSE TableAgrees' /\ \A i \in 0..Cells'-1 : vect'[i] = 0
<1>5. ASSUME Gone, DOMAIN row' = DOMAIN row,
             \A x \in DOMAIN row : row'[x].type = IN_BAG => row[x].type = IN_BAG /\ row'[x].idx = row[x].idx
      PROVE  Goal
  BY <1>1, <1>5, TableAlone DEF Gone
<1>6. ASSUME Gone, row' = row PROVE Goal
  BY <1>5, <1>6
<1>7. ASSUME Hunt PROVE Goal
  <2>1. PICK i \in DOMAIN HuntInfo : \E rise \in Rise(i) : (\E q \in Qualities : HuntSoul(i, q, rise)) \/ HuntCut(i, rise)
    BY <1>7 DEF Hunt
  <2>2. PICK rise \in Rise(i) : (\E q \in Qualities : HuntSoul(i, q, rise)) \/ HuntCut(i, rise)
    BY <2>1
  <2>3. CASE HuntCut(i, rise)
    BY <1>6, <2>3 DEF HuntCut
  <2>4. CASE \E q \in Qualities : HuntSoul(i, q, rise)
    <3>1. PICK q \in Qualities : HuntSoul(i, q, rise)
      BY <2>4
    <3> DEFINE s == [q |-> q, lvl |-> 1, exp |-> 0, idx |-> NextHuntIndex, type |-> HUNTED]
    <3>2. loaded = TRUE /\ loaded' = TRUE /\ soul' = Append(soul, s) /\ bag' = bag /\ vect' = vect
      BY <3>1 DEF HuntSoul, CanHunt, SoulsInv, Typed
    <3>3. soul \in Seq(Record(set)) /\ DOMAIN soul = DOMAIN row /\ bag \subseteq DOMAIN row
      BY <3>2, InMemory
    <3> HIDE DEF s
    <3>4. \A x \in bag : soul'[x] = soul[x]
      BY <3>2, <3>3
    <3> QED
      BY <1>1, <1>2, <3>2, <3>4, CellsAlone
  <2> QED
    BY <2>2, <2>3, <2>4
<1>8. ASSUME NEW id \in hunted, StoreSoul(id) PROVE Goal
  <2>1. /\ loaded = TRUE /\ loaded' = TRUE /\ NullCells # {}
        /\ vect' = [vect EXCEPT ![Min(NullCells)] = id] /\ bag' = bag \union {id}
        /\ Replaced(id) /\ soul'[id].idx = Min(NullCells)
    BY <1>8, StoreSoulDoes
  <2>2. /\ hunted \subseteq {x \in DOMAIN row : soul[x].type = HUNTED}
        /\ bag = {x \in DOMAIN row : soul[x].type = IN_BAG}
    BY <2>1, InMemory
  <2>3. \A x \in bag : soul'[x].idx = soul[x].idx
    BY <1>4, <2>1, <2>2 DEF Replaced
  <2> QED
    BY <1>1, <1>2, <2>1, <2>3, CellFilled
<1>9. ASSUME Equip PROVE Goal
  <2>1. PICK id \in bag, to \in EquipCells : EquipSoul(id, to)
    BY <1>9 DEF Equip
  <2>2. loaded = TRUE /\ loaded' = TRUE /\ bag' = bag \ {id} /\ vect' = Emptied(id) /\ Replaced(id)
    BY <2>1, EquipSoulDoes
  <2>3. bag \subseteq DOMAIN row
    BY <2>2, InMemory
  <2>4. \A x \in bag \ {id} : soul'[x].idx = soul[x].idx
    BY <2>2, <2>3 DEF Replaced
  <2> QED
    BY <1>1, <1>2, <2>2, <2>4, CellEmptied
<1>10. ASSUME Swallow PROVE Goal
  <2>1. PICK a \in bag, b \in bag : SwallowSoul(a, b) \/ SwallowCut(a, b) \/ SwallowCrash(a, b)
    BY <1>10 DEF Swallow
  <2>2. CASE SwallowSoul(a, b)
    <3>1. /\ loaded = TRUE /\ loaded' = TRUE /\ bag' = bag \ {b} /\ vect' = Emptied(b)
          /\ \A x \in DOMAIN row \ {a, b} : soul'[x] = soul[x]
          /\ a # b => soul'[a].idx = soul[a].idx
      BY <2>2, SwallowSoulDoes
    <3>2. bag \subseteq DOMAIN row
      BY <3>1, InMemory
    <3>3. \A x \in bag \ {b} : soul'[x].idx = soul[x].idx
      BY <3>1, <3>2
    <3> QED
      BY <1>1, <1>2, <3>1, <3>3, CellEmptied
  <2>3. CASE SwallowCut(a, b)
    <3> DEFINE r == Risen(soul[a], Fed(a, b))
    <3>1. loaded = TRUE /\ Level(soul[b]) # -1 /\ row' = [row EXCEPT ![a] = r] /\ Gone
      BY <2>3 DEF SwallowCut, CanSwallow, SoulsInv, Typed
    <3>2. a \in DOMAIN row /\ Alike(row[a], soul[a]) /\ row \in Seq(Record(set))
      BY <3>1, InMemory
    <3>3. r.idx = soul[a].idx /\ r.type = soul[a].type
      BY <3>1, SwallowerIsFed
    <3> HIDE DEF r
    <3>4. DOMAIN row' = DOMAIN row /\ \A x \in DOMAIN row : row'[x].type = row[x].type /\ row'[x].idx = row[x].idx
      BY <3>1, <3>2, <3>3 DEF Alike
    <3> QED
      BY <1>5, <3>1, <3>4
  <2>4. CASE SwallowCrash(a, b)
    BY <1>6, <2>4 DEF SwallowCrash, db
  <2> QED
    BY <2>1, <2>2, <2>3, <2>4
<1>11. ASSUME SwallowHunted PROVE Goal
  <2>1. loaded = TRUE /\ hunted # {}
    BY <1>11 DEF SwallowHunted, SoulsInv, Typed
  <2>2. /\ hunted \subseteq {x \in DOMAIN row : soul[x].type = HUNTED}
        /\ bag = {x \in DOMAIN row : soul[x].type = IN_BAG}
    BY <2>1, InMemory
  <2>3. bag \intersect hunted = {} /\ bag \subseteq DOMAIN row
    BY <1>4, <2>2
  <2>4. Fodder \subseteq hunted \ {Swallower} /\ Swallower \in hunted
    BY <2>1, SwallowerAndFodder
  <2>5. ASSUME NEW read \in Reads, SwallowAll(read) PROVE Goal
    <3>1. /\ loaded' = TRUE
          /\ \A x \in DOMAIN row \ (Fodder \union {Swallower}) : soul'[x] = soul[x]
          /\ \/ /\ NullCells # {} /\ vect' = [vect EXCEPT ![Min(NullCells)] = Swallower]
                /\ bag' = bag \union {Swallower} /\ soul'[Swallower].idx = Min(NullCells)
             \/ vect' = vect /\ bag' = bag
      BY <2>1, <2>5, SwallowAllDoes
    <3>2. \A x \in bag : soul'[x].idx = soul[x].idx
      BY <2>3, <2>4, <3>1
    <3>3. CASE NullCells # {} /\ vect' = [vect EXCEPT ![Min(NullCells)] = Swallower]
               /\ bag' = bag \union {Swallower} /\ soul'[Swallower].idx = Min(NullCells)
      <4>1. \A id : id = Swallower => MemoryAgrees'
        BY <1>1, <1>2, <2>1, <2>4, <3>2, <3>3, CellFilled
      <4> QED
        BY <3>1, <4>1
    <3>4. CASE vect' = vect /\ bag' = bag
      BY <1>1, <1>2, <2>1, <3>1, <3>2, <3>4, CellsAlone
    <3> QED
      BY <3>1, <3>3, <3>4
  <2>6. ASSUME NEW read \in Reads, SwallowSome(read) PROVE Goal
    <3>1. /\ loaded' = TRUE /\ vect' = vect /\ bag' = bag
          /\ \A x \in DOMAIN row \ Fodder : Alike(soul[x], soul'[x])
      BY <2>1, <2>6, SwallowSomeDoes
    <3>2. \A x \in bag : soul'[x].idx = soul[x].idx
      BY <2>3, <2>4, <3>1 DEF Alike
    <3> QED
      BY <1>1, <1>2, <2>1, <3>1, <3>2, CellsAlone
  <2>7. ASSUME Gone, row' = [x \in DOMAIN row |-> row'[x]],
               \A x \in DOMAIN row : row'[x] = row[x] \/ row'[x] = [soul[x] EXCEPT !.type = DELETED]
        PROVE  Goal
    <3>1. \A x \in DOMAIN row : soul[x] \in Record(set)
      BY <2>1, InMemory
    <3>2. \A x \in DOMAIN row : [soul[x] EXCEPT !.type = DELETED].type = DELETED
      BY <3>1 DEF Record
    <3>3. DOMAIN row' = DOMAIN row
      BY <2>7
    <3>4. \A x \in DOMAIN row : row'[x].type = IN_BAG => row'[x] = row[x]
      BY <1>4, <2>7, <3>2
    <3> QED
      BY <1>5, <2>7, <3>3, <3>4
  <2>8. ASSUME NEW read \in Reads, SwallowAllCrash(read) PROVE Goal
    <3>1. /\ Gone /\ row' = [x \in DOMAIN row |-> row'[x]]
          /\ \A x \in DOMAIN row : row'[x] = row[x] \/ row'[x] = [soul[x] EXCEPT !.type = DELETED]
      BY <2>8 DEF SwallowAllCrash
    <3> QED
      BY <2>7, <3>1
  <2>9. ASSUME NEW last \in Fodder, SwallowAllCut(last) PROVE Goal
    <3>1. /\ Gone /\ row' = [x \in DOMAIN row |-> row'[x]]
          /\ \A x \in DOMAIN row : row'[x] = row[x] \/ row'[x] = [soul[x] EXCEPT !.type = DELETED]
      BY <2>9 DEF SwallowAllCut
    <3> QED
      BY <2>7, <3>1
  <2> QED
    BY <1>11, <2>5, <2>6, <2>8, <2>9 DEF SwallowHunted
<1>12. ASSUME Leave PROVE Goal
  BY <1>6, <1>12 DEF Leave, db
<1>13. ASSUME Load PROVE Goal
  <2>1. loaded = FALSE /\ loaded' = TRUE
    BY <1>13 DEF Load, SoulsInv, Typed
  <2> QED
    BY <1>1, <1>3, <1>13, <2>1, CellsLoaded
<1> QED
  BY <1>7, <1>8, <1>9, <1>10, <1>11, <1>12, <1>13 DEF Next


-----------------------------------------------------------------------------
(* What sets a bag at odds: a template that is not the one of the level.   *)

\* The template is the one of the level, if the soul has a level.
FollowsIn(c, r) ==
  r.type # DELETED /\ LevelIn(c.exps[r.q], r.exp) # -1 => r.lvl = LevelIn(c.exps[r.q], r.exp)

\* Follows says this of every row.
LEMMA FollowsWhere == Follows <=> \A id \in DOMAIN row : FollowsIn(set, row[id])
BY DEF Follows, FollowsIn, Level, LevelByExp, LevelExp, LevelIn

\* A soul whose template was the one of its level has such a one when it has
\* risen, whatever its kind and place.
LEMMA RisenFollows ==
  ASSUME NEW c \in Settings, NEW old, RowOk(c, old), old.type # DELETED, FollowsIn(c, old),
         NEW s, s.q = old.q, s.lvl = old.lvl, s.exp \in Nat, old.exp <= s.exp, s \in Record(c),
         NEW r, r = RisenIn(c, old, s),
         NEW p, p.q = r.q, p.lvl = r.lvl, p.exp = r.exp
  PROVE  FollowsIn(c, p)
<1> DEFINE t == c.exps[old.q]
           d == LevelIn(t, s.exp) - LevelIn(t, old.exp)
<1>1. old.q \in DOMAIN c.exps /\ old.exp \in Nat /\ old.lvl \in Nat
  BY DEF RowOk, Record
<1>2. t \in Seq(Nat)
  BY <1>1, SettingIsOk
<1>3. /\ LevelIn(t, s.exp) \in Int /\ LevelIn(t, old.exp) \in Int
      /\ LevelIn(t, s.exp) # -1 => LevelIn(t, old.exp) # -1 /\ LevelIn(t, old.exp) <= LevelIn(t, s.exp)
  BY <1>1, <1>2, LevelRange, LevelRises
<1>4. LevelIn(t, old.exp) # -1 => old.lvl = LevelIn(t, old.exp)
  BY DEF FollowsIn
<1>5. r = [s EXCEPT !.lvl = s.lvl + Max({0, d})]
  BY DEF RisenIn
<1> HIDE DEF t
<1>6. d \in Int
  BY <1>3
<1>7. LevelIn(t, s.exp) # -1 => d >= 0
  BY <1>3
<1>8. LevelIn(t, s.exp) # -1 => old.lvl + d = LevelIn(t, s.exp)
  BY <1>1, <1>3, <1>4
<1> HIDE DEF d
<1>9. d >= 0 => Max({0, d}) = d
  BY <1>6, MaxOfTwo
<1>10. r.q = old.q /\ r.exp = s.exp /\ r.lvl = old.lvl + Max({0, d})
  BY <1>5 DEF Record
<1>11. LevelIn(t, s.exp) # -1 => p.lvl = LevelIn(t, s.exp)
  BY <1>7, <1>8, <1>9, <1>10
<1> QED
  BY <1>10, <1>11 DEF FollowsIn, t

\* A new soul is at the first level, and has its template.
LEMMA NewFollows ==
  ASSUME NEW c \in Settings, NEW s, s.q \in DOMAIN c.exps, s.lvl = 1, s.exp = 0
  PROVE  FollowsIn(c, s)
<1> DEFINE t == c.exps[s.q]
           above == {l \in DOMAIN t : t[l] >= 0}
<1>1. t \in Seq(Nat) /\ t[1] = 0
  BY SettingIsOk
<1>2. DOMAIN t = 1..Len(t) /\ Len(t) \in Nat /\ \A l \in DOMAIN t : t[l] \in Nat
  BY <1>1
<1> HIDE DEF t
<1>3. above \subseteq Nat /\ (above # {} => 1 \in above) /\ \A l \in above : l >= 1
  BY <1>1, <1>2
<1>4. LevelIn(t, 0) = IF above = {} THEN -1 ELSE Min(above)
  BY DEF LevelIn
<1> HIDE DEF above
<1>5. above # {} => Min(above) \in above /\ \A l \in above : Min(above) <= l
  BY <1>3, MinIsLeast
<1> DEFINE m == Min(above)
<1>6. ASSUME above # {} PROVE m = 1
  <2>1. 1 \in above /\ m \in above /\ \A l \in above : m <= l
    BY <1>3, <1>5, <1>6
  <2> HIDE DEF m
  <2>2. m \in Nat /\ m <= 1 /\ m >= 1
    BY <1>3, <2>1
  <2> QED
    BY <2>2
<1>7. LevelIn(t, 0) = IF above = {} THEN -1 ELSE 1
  BY <1>4, <1>6
<1> QED
  BY <1>7 DEF FollowsIn, t

\* The template of a saved soul falls behind by no step that finds every soul
\* shown saved with its exp.
LEMMA BehindByUnsavedExp ==
  ASSUME SoulsInv, Next, Follows, \A id \in Shown : soul[id].exp = row[id].exp
  PROVE  \A id \in DOMAIN row' : FollowsIn(set', row'[id])
<1> DEFINE Goal == \A id \in DOMAIN row' : FollowsIn(set', row'[id])
<1>1. set' = set /\ set \in Settings /\ row \in Seq(Record(set))
  BY DEF Next, SoulsInv, Typed
<1>2. \A id \in DOMAIN row : FollowsIn(set, row[id])
  BY FollowsWhere
<1>3. ASSUME loaded = TRUE, NEW id \in Shown
      PROVE  /\ id \in DOMAIN row /\ soul[id].type # DELETED /\ FollowsIn(set, soul[id])
             /\ soul[id] \in Record(set) /\ RowOk(set, soul[id])
  <2>1. /\ \A x \in DOMAIN row : soul[x] \in Record(set) /\ RowOk(set, soul[x]) /\ Alike(row[x], soul[x])
        /\ hunted \subseteq {x \in DOMAIN row : soul[x].type = HUNTED}
        /\ bag = {x \in DOMAIN row : soul[x].type = IN_BAG}
        /\ equipped = {x \in DOMAIN row : soul[x].type = EQUIPPED}
    BY <1>3, InMemory
  <2>2. id \in DOMAIN row /\ soul[id].type # DELETED
    BY <2>1 DEF Shown, HUNTED, IN_BAG, EQUIPPED, DELETED
  <2>3. row[id].exp = soul[id].exp /\ row[id].q = soul[id].q /\ row[id].lvl = soul[id].lvl
        /\ row[id].type = soul[id].type
    BY <2>1, <2>2 DEF Alike
  <2>4. FollowsIn(set, row[id])
    BY <1>2, <2>2
  <2>5. FollowsIn(set, soul[id])
    BY <2>3, <2>4 DEF FollowsIn
  <2> QED
    BY <2>1, <2>2, <2>5
<1>4. ASSUME DOMAIN row' = DOMAIN row,
             \A id \in DOMAIN row : row'[id] = row[id] \/ FollowsIn(set, row'[id])
      PROVE  Goal
  BY <1>1, <1>2, <1>4
<1>5. ASSUME row' = row PROVE Goal
  BY <1>4, <1>5
<1>6. \A r : r.type = DELETED => FollowsIn(set, r)
  BY DEF FollowsIn
<1>7. ASSUME NEW id \in Shown, loaded = TRUE, Replaced(id) PROVE Goal
  <2>1. FollowsIn(set, soul[id]) /\ soul[id].type # DELETED
    BY <1>3, <1>7
  <2>2. soul'[id].q = soul[id].q /\ soul'[id].lvl = soul[id].lvl /\ soul'[id].exp = soul[id].exp
    BY <1>7 DEF Replaced
  <2>3. FollowsIn(set, soul'[id])
    BY <2>1, <2>2 DEF FollowsIn
  <2>4. DOMAIN row' = DOMAIN row /\ \A x \in DOMAIN row : row'[x] = IF x = id THEN soul'[x] ELSE row[x]
    BY <1>7 DEF Replaced
  <2> QED
    BY <1>4, <2>3, <2>4
<1>8. ASSUME Hunt PROVE Goal
  <2>1. PICK i \in DOMAIN HuntInfo : \E rise \in Rise(i) : (\E q \in Qualities : HuntSoul(i, q, rise)) \/ HuntCut(i, rise)
    BY <1>8 DEF Hunt
  <2>2. PICK rise \in Rise(i) : (\E q \in Qualities : HuntSoul(i, q, rise)) \/ HuntCut(i, rise)
    BY <2>1
  <2>3. CASE HuntCut(i, rise)
    BY <1>5, <2>3 DEF HuntCut
  <2>4. CASE \E q \in Qualities : HuntSoul(i, q, rise)
    <3>1. PICK q \in Qualities : HuntSoul(i, q, rise)
      BY <2>4
    <3> DEFINE s == [q |-> q, lvl |-> 1, exp |-> 0, idx |-> NextHuntIndex, type |-> HUNTED]
    <3>2. row' = Append(row, s)
      BY <3>1 DEF HuntSoul
    <3>3. s.q \in DOMAIN set.exps /\ s.lvl = 1 /\ s.exp = 0
      BY DEF Qualities, LevelExp
    <3> HIDE DEF s
    <3>4. FollowsIn(set, s)
      BY <1>1, <3>3, NewFollows
    <3>5. /\ DOMAIN row' = DOMAIN row \union {Len(row) + 1} /\ row'[Len(row) + 1] = s
          /\ \A id \in DOMAIN row : row'[id] = row[id]
      BY <1>1, <3>2
    <3> QED
      BY <1>1, <1>2, <3>4, <3>5
  <2> QED
    BY <2>2, <2>3, <2>4
<1>9. ASSUME NEW id \in hunted, StoreSoul(id) PROVE Goal
  BY <1>7, <1>9, StoreSoulDoes DEF Shown
<1>10. ASSUME Move PROVE Goal
  <2>1. PICK id \in bag, to \in MoveCells : MoveSoul(id, to)
    BY <1>10 DEF Move
  <2> QED
    BY <1>7, <2>1, MoveSoulDoes DEF Shown
<1>11. ASSUME Equip PROVE Goal
  <2>1. PICK id \in bag, to \in EquipCells : EquipSoul(id, to)
    BY <1>11 DEF Equip
  <2> QED
    BY <1>7, <2>1, EquipSoulDoes DEF Shown
<1>12. ASSUME Swallow PROVE Goal
  <2>1. PICK a \in bag, b \in bag : SwallowSoul(a, b) \/ SwallowCut(a, b) \/ SwallowCrash(a, b)
    BY <1>12 DEF Swallow
  <2>2. CASE SwallowCrash(a, b)
    BY <1>5, <2>2 DEF SwallowCrash, db
  <2>3. CASE SwallowSoul(a, b) \/ SwallowCut(a, b)
    <3> DEFINE s == Fed(a, b)
               r == Risen(soul[a], s)
    <3>1. loaded = TRUE /\ Level(soul[b]) # -1
      BY <2>3 DEF SwallowSoul, SwallowCut, CanSwallow, SoulsInv, Typed
    <3>2. /\ a \in DOMAIN row /\ soul[a].type # DELETED /\ FollowsIn(set, soul[a])
          /\ soul[a] \in Record(set) /\ RowOk(set, soul[a])
      BY <1>3, <3>1 DEF Shown
    <3>3. s.q = soul[a].q /\ s.exp >= soul[a].exp
      BY <3>1, SwallowerIsFed
    <3>4. s.lvl = soul[a].lvl /\ s \in Record(set) /\ s.exp \in Nat
      <4>1. b \in DOMAIN row
        BY <3>1, InMemory
      <4>2. Gift(soul[b]) + soul[b].exp \in Nat
        BY <3>1, <4>1, GiftIsANumber
      <4>3. s = AddExp(soul[a], Gift(soul[b]) + soul[b].exp)
        BY DEF Fed
      <4>4. \A e \in Nat : \A x : x = AddExp(soul[a], e) => x \in Record(set) /\ Alike(soul[a], x)
        BY <1>1, <3>2, FedClimbs
      <4>5. s \in Record(set) /\ Alike(soul[a], s)
        BY <4>2, <4>3, <4>4
      <4> QED
        BY <4>5 DEF Record, Alike
    <3>5. r = RisenIn(set, soul[a], s)
      BY DEF Risen, RisenIn, Level, LevelByExp, LevelExp, LevelIn
    <3> HIDE DEF s, r
    <3>6. soul[a].exp <= s.exp
      BY <3>2, <3>3, <3>4 DEF Record
    <3>7. FollowsIn(set, r)
      BY <1>1, <3>2, <3>3, <3>4, <3>5, <3>6, RisenFollows
    <3>8. CASE SwallowSoul(a, b)
      <4>1. /\ b \in DOMAIN row /\ row' = [x \in DOMAIN row |-> IF x \in {a, b} THEN soul'[x] ELSE row[x]]
            /\ soul'[b].type = DELETED /\ (a # b => soul'[a] = r)
        BY <3>8, SwallowSoulDoes DEF r, s
      <4>2. DOMAIN row' = DOMAIN row /\ \A x \in DOMAIN row : row'[x] = row[x] \/ FollowsIn(set, row'[x])
        BY <1>6, <3>2, <3>7, <4>1
      <4> QED
        BY <1>4, <4>2
    <3>9. CASE SwallowCut(a, b)
      <4>1. row' = [row EXCEPT ![a] = r]
        BY <3>9 DEF SwallowCut, r, s
      <4>2. DOMAIN row' = DOMAIN row /\ \A x \in DOMAIN row : row'[x] = row[x] \/ FollowsIn(set, row'[x])
        BY <1>1, <3>2, <3>7, <4>1
      <4> QED
        BY <1>4, <4>2
    <3> QED
      BY <2>3, <3>8, <3>9
  <2> QED
    BY <2>1, <2>2, <2>3
<1>13. ASSUME SwallowHunted PROVE Goal
  <2>1. loaded = TRUE /\ hunted # {}
    BY <1>13 DEF SwallowHunted, SoulsInv, Typed
  <2>2. ASSUME NEW read \in Reads, SwallowAll(read) PROVE Goal
    <3> DEFINE s == FedAll(read)
               r == Risen(soul[Swallower], s)
    <3>1. /\ Swallower \in hunted /\ Swallower \in DOMAIN row /\ Fodder \subseteq DOMAIN row
          /\ row' = [x \in DOMAIN row |-> IF x \in Fodder \union {Swallower} THEN soul'[x] ELSE row[x]]
          /\ \A x \in Fodder : soul'[x].type = DELETED
          /\ soul'[Swallower].q = r.q /\ soul'[Swallower].lvl = r.lvl /\ soul'[Swallower].exp = r.exp
      BY <2>1, <2>2, SwallowAllDoes
    <3>2. /\ soul[Swallower].type # DELETED /\ FollowsIn(set, soul[Swallower])
          /\ soul[Swallower] \in Record(set) /\ RowOk(set, soul[Swallower])
      BY <1>3, <2>1, <3>1 DEF Shown
    <3>3. /\ RowOk(set, s) /\ Alike(soul[Swallower], s) /\ s.exp >= soul[Swallower].exp
      BY <2>1, SwallowerOfAllIsFed
    <3>4. r = RisenIn(set, soul[Swallower], s)
      BY DEF Risen, RisenIn, Level, LevelByExp, LevelExp, LevelIn
    <3> HIDE DEF s, r
    <3>5. /\ s.q = soul[Swallower].q /\ s.lvl = soul[Swallower].lvl /\ s \in Record(set) /\ s.exp \in Nat
          /\ soul[Swallower].exp <= s.exp
      BY <3>2, <3>3 DEF RowOk, Alike, Record
    <3>6. FollowsIn(set, soul'[Swallower])
      BY <1>1, <3>1, <3>2, <3>4, <3>5, RisenFollows
    <3>7. DOMAIN row' = DOMAIN row /\ \A x \in DOMAIN row : row'[x] = row[x] \/ FollowsIn(set, row'[x])
      BY <1>6, <3>1, <3>6
    <3> QED
      BY <1>4, <3>7
  <2>3. ASSUME NEW read \in Reads, SwallowSome(read) PROVE Goal
    <3>1. /\ Fodder \subseteq DOMAIN row /\ row' = [x \in DOMAIN row |-> IF x \in Fodder THEN soul'[x] ELSE row[x]]
          /\ \A x \in Fodder : soul'[x].type = DELETED
      BY <2>1, <2>3, SwallowSomeDoes
    <3>2. DOMAIN row' = DOMAIN row /\ \A x \in DOMAIN row : row'[x] = row[x] \/ FollowsIn(set, row'[x])
      BY <1>6, <3>1
    <3> QED
      BY <1>4, <3>2
  <2>4. ASSUME row' = [x \in DOMAIN row |-> row'[x]],
               \A x \in DOMAIN row : row'[x] = row[x] \/ row'[x] = [soul[x] EXCEPT !.type = DELETED]
        PROVE  Goal
    <3>1. \A x \in DOMAIN row : soul[x] \in Record(set)
      BY <2>1, InMemory
    <3>2. \A x \in DOMAIN row : [soul[x] EXCEPT !.type = DELETED].type = DELETED
      BY <3>1 DEF Record
    <3>3. DOMAIN row' = DOMAIN row /\ \A x \in DOMAIN row : row'[x] = row[x] \/ FollowsIn(set, row'[x])
      BY <1>6, <2>4, <3>2
    <3> QED
      BY <1>4, <3>3
  <2>5. ASSUME NEW read \in Reads, SwallowAllCrash(read) PROVE Goal
    <3>1. /\ row' = [x \in DOMAIN row |-> row'[x]]
          /\ \A x \in DOMAIN row : row'[x] = row[x] \/ row'[x] = [soul[x] EXCEPT !.type = DELETED]
      BY <2>5 DEF SwallowAllCrash
    <3> QED
      BY <2>4, <3>1
  <2>6. ASSUME NEW last \in Fodder, SwallowAllCut(last) PROVE Goal
    <3>1. /\ row' = [x \in DOMAIN row |-> row'[x]]
          /\ \A x \in DOMAIN row : row'[x] = row[x] \/ row'[x] = [soul[x] EXCEPT !.type = DELETED]
      BY <2>6 DEF SwallowAllCut
    <3> QED
      BY <2>4, <3>1
  <2> QED
    BY <1>13, <2>2, <2>3, <2>5, <2>6 DEF SwallowHunted
<1>14. ASSUME Leave PROVE Goal
  BY <1>5, <1>14 DEF Leave, db
<1>15. ASSUME Load PROVE Goal
  BY <1>5, <1>15 DEF Load, db
<1> QED
  BY <1>8, <1>9, <1>10, <1>11, <1>12, <1>13, <1>14, <1>15 DEF Next

\* Of all the requests, crashes and restarts, three only set a bag at odds.
THEOREM OddsComeByThreeSteps == Spec => OddsBySteps
<1> DEFINE A == /\ NoneHidden /\ ~NoneHidden' => hunted # {} /\ NullCells = {} /\ \E read \in Reads : SwallowAll(read)
                /\ CellsAgree /\ ~CellsAgree' => Move
                /\ Follows /\ ~Follows' => \E id \in Shown : soul[id].exp # row[id].exp
           Where == /\ NoneHidden <=> AllShown
                    /\ CellsAgree <=> IF loaded THEN MemoryAgrees ELSE TableAgrees /\ \A i \in 0..Cells-1 : vect[i] = 0
                    /\ Follows <=> \A id \in DOMAIN row : FollowsIn(set, row[id])
<1>1. SoulsInv => Where
  BY HiddenIsHunted, CellsAgreeWhere, FollowsWhere
<1>2. SoulsInv' => Where'
  BY <1>1, PTL
<1>3. ASSUME SoulsInv, SoulsInv', Next PROVE A
  <2>1. Where /\ Where'
    BY <1>1, <1>2, <1>3
  <2>2. NoneHidden /\ ~NoneHidden' => hunted # {} /\ NullCells = {} /\ \E read \in Reads : SwallowAll(read)
    BY <1>3, <2>1, HiddenBySwallowAll
  <2>3. CellsAgree /\ ~CellsAgree' => Move
    BY <1>3, <2>1, OddsByMove
  <2>4. Follows /\ ~Follows' => \E id \in Shown : soul[id].exp # row[id].exp
    BY <1>3, <2>1, BehindByUnsavedExp
  <2> QED
    BY <2>2, <2>3, <2>4
<1> HIDE DEF A
<1>4. SoulsInv /\ SoulsInv' /\ [Next]_vars => [A]_vars
  BY <1>3
<1>5. Spec => [][A]_vars
  BY <1>4, Invariant, PTL DEF Spec
<1> QED
  BY <1>5 DEF OddsBySteps, A
=============================================================================

------------------------------ MODULE GemsProofs ------------------------------
(***************************************************************************)
(* Theorems about Gems, for every set of items, templates, positions and   *)
(* counts, and every bound.                                                *)
(***************************************************************************)
EXTENDS Gems, CommonLemmas

\* What the table is, and that what is written into the row of an item is no item
\* any more.
RowRecord == [good : BOOLEAN, empty : BOOLEAN, text : Seq(Gem)]
TableOK(rows) ==
  /\ rows \in [Items -> RowRecord]
  /\ \A e \in Items : rows[e].good =>
       \A k \in DOMAIN rows[e].text : rows[e].text[k].id \in Items /\ ~rows[rows[e].text[k].id].good

\* What is in an item is no item any more, in the table and in the bag.
NoneGood == \A e \in bag : \A k \in DOMAIN gems[e] : gems[e][k].id \in Items /\ ~row[gems[e][k].id].good
Apart    == \A e \in bag : \A k \in DOMAIN gems[e] : gems[e][k].id \notin bag

\* It is in one item and at one place.
Once ==
  \A e, f \in bag : \A j \in DOMAIN gems[e], k \in DOMAIN gems[f] :
     gems[e][j].id = gems[f][k].id => e = f /\ j = k

GemsInv == TypeOK /\ TableOK(row) /\ NoneGood /\ Apart /\ Once

-----------------------------------------------------------------------------
(* The column and the vector.                                              *)

\* The pieces split finds in a column without a semicolon.
Splitting == [done : {<<>>}, open : Seq(Gem)]

\* Nothing the server wrote is read back: the column holds no semicolon, so
\* that split finishes no piece.
LEMMA NothingRead ==
  ASSUME NEW text \in Seq(Gem)
  PROVE  Read(text) = <<>>
<1> DEFINE T == DOMAIN text
           start == [done |-> <<>>, open |-> <<>>]
           iter[s \in SUBSET T] == IF s = {} THEN start ELSE LET x == Max(s) IN SplitStep(iter[s \ {x}], text[x])
           pick == [s \in SUBSET T |-> Max(s)]
           step == [x \in T |-> [v \in Splitting |-> [done |-> v.done, open |-> Append(v.open, text[x])]]]
<1>1. Split(text) = iter[T].done
  BY DEF Split, FoldLeft, MapThenFoldSet
<1>2. T = 1..Len(text) /\ Len(text) \in Nat /\ IsFiniteSet(T) /\ T \subseteq Nat
  BY FS_Interval
<1>3. \A s \in SUBSET T : s # {} => Max(s) \in s
  <2> TAKE s \in SUBSET T
  <2> HAVE s # {}
  <2>1. s \subseteq Nat /\ \A x \in s : x <= Len(text)
    BY <1>2
  <2> QED
    BY <1>2, <2>1, MaxIsGreatest
<1>4. \A x \in T : \A v \in Splitting :
         /\ SplitStep(v, text[x]) = [done |-> v.done, open |-> Append(v.open, text[x])]
         /\ SplitStep(v, text[x]) \in Splitting
  <2> TAKE x \in T
  <2> TAKE v \in Splitting
  <2>1. text[x] \in Gem
    BY <1>2
  <2>2. text[x] # Semicolon
    BY <2>1, GemsAssumption DEF Gem
  <2>3. Append(v.open, text[x]) \in Seq(Gem)
    BY <2>1 DEF Splitting
  <2>4. [v EXCEPT !.open = Append(@, text[x])] = [done |-> v.done, open |-> Append(v.open, text[x])]
    <3> DEFINE y == Append(v.open, text[x])
    <3> HIDE DEF y
    <3>1. [v EXCEPT !.open = y] = [done |-> v.done, open |-> y]
      BY DEF Splitting
    <3> QED
      BY <3>1 DEF y
  <2> QED
    BY <2>2, <2>3, <2>4 DEF SplitStep, Splitting
<1>5. start \in Splitting
  BY DEF Splitting
<1>6. PICK h : IsFold(h, T, Splitting, start, pick, step)
  <2>1. Picks(pick, T)
    BY <1>3 DEF Picks
  <2>2. step \in [T -> [Splitting -> Splitting]]
    BY <1>4
  <2>3. IsFiniteSet(T)
    BY <1>2
  <2> HIDE DEF T, pick, step, start
  <2> QED
    BY <1>5, <2>1, <2>2, <2>3, FoldExists
<1>7. h \in [SUBSET T -> Splitting] /\ \A s \in SUBSET T :
           h[s] = IF s = {} THEN start ELSE step[pick[s]][h[s \ {pick[s]}]]
  BY <1>6 DEF IsFold
<1>8. h = [s \in SUBSET T |-> IF s = {} THEN start ELSE LET x == Max(s) IN SplitStep(h[s \ {x}], text[x])]
  <2>1. ASSUME NEW s \in SUBSET T, s # {}
        PROVE  h[s] = LET x == Max(s) IN SplitStep(h[s \ {x}], text[x])
    <3> DEFINE x == Max(s)
    <3>1. pick[s] = x /\ x \in s
      BY <1>3, <2>1
    <3> HIDE DEF x
    <3>2. x \in T /\ h[s \ {x}] \in Splitting
      BY <3>1, <1>7
    <3>3. step[x][h[s \ {x}]] = SplitStep(h[s \ {x}], text[x])
      BY <1>4, <3>2
    <3>4. h[s] = SplitStep(h[s \ {x}], text[x])
      BY <1>7, <2>1, <3>1, <3>3
    <3> QED
      BY <3>4 DEF x
  <2> QED
    BY <1>7, <2>1
<1>9. iter = [s \in SUBSET T |-> IF s = {} THEN start ELSE LET x == Max(s) IN SplitStep(iter[s \ {x}], text[x])]
  BY <1>8
<1>10. \A s \in SUBSET T : iter[s] = IF s = {} THEN start ELSE LET x == Max(s) IN SplitStep(iter[s \ {x}], text[x])
  <2> HIDE DEF iter
  <2> QED
    BY <1>9
<1> HIDE DEF iter
<1> DEFINE C == {s \in SUBSET T : iter[s] \in Splitting}
<1>11. {} \in C
  <2>1. iter[{}] = start
    BY ONLY <1>10
  <2> QED
    BY <1>5, <2>1
<1>12. \A s \in SUBSET T : s # {} /\ (\A x \in s : s \ {x} \in C) => s \in C
  <2> SUFFICES ASSUME NEW s \in SUBSET T, s # {}, \A x \in s : s \ {x} \in C PROVE s \in C
    OBVIOUS
  <2> DEFINE x == Max(s)
  <2>1. x \in s /\ x \in T
    BY <1>3
  <2>2. iter[s] = SplitStep(iter[s \ {x}], text[x])
    BY <1>10
  <2> HIDE DEF x
  <2>3. iter[s \ {x}] \in Splitting
    BY <2>1
  <2>4. iter[s] \in Splitting
    BY <1>4, <2>1, <2>2, <2>3
  <2> QED
    BY <2>4
<1>13. SUBSET T \subseteq C
  <2>1. IsFiniteSet(T)
    BY <1>2
  <2> HIDE DEF C
  <2> QED
    BY ONLY <1>11, <1>12, <2>1, SubsetInduction
<1>14. iter[T].done = <<>>
  BY <1>13 DEF Splitting
<1>15. Split(text) = <<>>
  BY <1>1, <1>14
<1>16. [k \in DOMAIN <<>> |-> IF Len(<<>>[k]) = 1 THEN <<>>[k] ELSE <<>>] = <<>>
  OBVIOUS
<1>17. FlattenSeq(<<>>) = <<>>
  BY DEF FlattenSeq
<1> QED
  BY <1>15, <1>16, <1>17 DEF Read

\* The digit that is cut off leaves a number.
LEMMA CutIsANumber == \A n \in Int : CutDigit(n) \in Int
BY DEF CutDigit

\* What is written of a vector are its gems, each in its place.
LEMMA WrittenKeeps ==
  ASSUME NEW v \in Seq(Gem)
  PROVE  /\ Written(v) \in Seq(Gem) /\ DOMAIN Written(v) = DOMAIN v
         /\ \A k \in DOMAIN v : Written(v)[k].id = v[k].id
<1> DEFINE w(k) == IF k = Len(v) THEN [v[k] EXCEPT !.exp = CutDigit(@)] ELSE v[k]
<1>1. DOMAIN v = 1..Len(v) /\ Len(v) \in Nat
  OBVIOUS
<1>2. ASSUME NEW k \in DOMAIN v PROVE w(k) \in Gem /\ w(k).id = v[k].id
  <2> DEFINE g == v[k]
             c == CutDigit(g.exp)
  <2>1. g \in Gem
    OBVIOUS
  <2> HIDE DEF g
  <2>2. c \in Int
    BY <2>1, CutIsANumber DEF Gem
  <2> HIDE DEF c
  <2>3. [g EXCEPT !.exp = c] \in Gem /\ [g EXCEPT !.exp = c].id = g.id
    BY <2>1, <2>2 DEF Gem
  <2> QED
    BY <2>1, <2>3 DEF g, c
<1>3. Written(v) = [k \in 1..Len(v) |-> w(k)]
  BY <1>1 DEF Written
<1> HIDE DEF w
<1>4. \A k \in 1..Len(v) : w(k) \in Gem /\ w(k).id = v[k].id
  BY <1>1, <1>2
<1> QED
  BY <1>1, <1>3, <1>4

\* The vector w is v, and the gem after it.
Appended(w, v, g, p) ==
  /\ w \in Seq(Gem) /\ DOMAIN w = DOMAIN v \union {p + 1} /\ p + 1 \notin DOMAIN v
  /\ \A k \in DOMAIN v : w[k] = v[k]
  /\ w[p + 1].id = g

\* A gem that is put at a free position without leaving a NULL is appended.
LEMMA PutAppends ==
  ASSUME NEW v \in Seq(Gem), NEW g \in Items, NEW p \in Nat, ~Taken(v, p), ~Gapped(Put(v, g, p))
  PROVE  Appended(Put(v, g, p), v, g, p)
<1> DEFINE new == [id |-> g, pos |-> p, exp |-> 0]
           n == IF p >= Len(v) THEN p + 1 ELSE Len(v)
           w(k) == CASE k = p + 1 -> new
                     [] k # p + 1 /\ k \in DOMAIN v -> v[k]
                     [] OTHER -> NoGem
<1>1. DOMAIN v = 1..Len(v) /\ Len(v) \in Nat /\ \A k \in DOMAIN v : v[k] \in Gem
  OBVIOUS
<1>2. NoGem \notin Gem
  BY GemsAssumption DEF Gem
<1>3. p + 1 \notin DOMAIN v
  BY <1>1, <1>2 DEF Taken
<1>4. p >= Len(v) /\ n = p + 1
  BY <1>1, <1>3
<1>5. new \in Gem /\ new.id = g
  BY DEF Gem
<1>6. Put(v, g, p) = [k \in 1..p + 1 |-> w(k)]
  BY <1>4 DEF Put
<1> HIDE DEF new
<1>7. ~(p > Len(v))
  <2> SUFFICES ASSUME p > Len(v) PROVE FALSE
    OBVIOUS
  <2>1. Len(v) + 1 \in 1..p + 1 /\ Len(v) + 1 # p + 1 /\ Len(v) + 1 \notin DOMAIN v
    BY <1>1
  <2>2. w(Len(v) + 1) = NoGem
    BY <2>1
  <2>3. Put(v, g, p)[Len(v) + 1] = NoGem /\ Len(v) + 1 \in DOMAIN Put(v, g, p)
    BY <1>6, <2>1, <2>2
  <2> QED
    BY <2>3 DEF Gapped, Range
<1>10. w(p + 1) = new /\ \A k \in DOMAIN v : w(k) = v[k]
  BY <1>3
<1> HIDE DEF w, n
<1>8. p = Len(v) /\ 1..p + 1 = DOMAIN v \union {p + 1}
  <2>1. p = Len(v)
    <3> DEFINE m == Len(v)
    <3>1. m \in Nat /\ p >= m /\ ~(p > m)
      BY <1>1, <1>4, <1>7
    <3> HIDE DEF m
    <3>2. p = m
      BY <3>1
    <3> QED
      BY <3>2 DEF m
  <2>2. 1..p + 1 = (1..p) \union {p + 1}
    OBVIOUS
  <2> QED
    BY <1>1, <2>1, <2>2
<1>9. \A k \in 1..p + 1 : w(k) \in Gem
  BY <1>1, <1>5, <1>8, <1>10
<1> QED
  BY <1>3, <1>5, <1>6, <1>8, <1>9, <1>10 DEF Appended

-----------------------------------------------------------------------------
(* The table.                                                              *)

\* To mark a row takes one from the good ones.
LEMMA MarkedKeeps ==
  ASSUME NEW rows, TableOK(rows), NEW g \in Items
  PROVE  /\ TableOK(Marked(rows, g)) /\ Marked(rows, g)[g].good = FALSE
         /\ \A i \in Items : Marked(rows, g)[i].good => rows[i].good
<1> DEFINE r == Marked(rows, g)
<1>1. rows \in [Items -> RowRecord]
  BY DEF TableOK
<1>2. r = [rows EXCEPT ![g] = [rows[g] EXCEPT !.good = FALSE]]
  BY DEF Marked
<1>3. LET x == [rows[g] EXCEPT !.good = FALSE] IN x \in RowRecord /\ x.good = FALSE /\ x.text = rows[g].text
  BY <1>1 DEF RowRecord
<1>4. /\ r \in [Items -> RowRecord] /\ r[g].good = FALSE
      /\ \A i \in Items \ {g} : r[i] = rows[i]
  BY <1>1, <1>2, <1>3
<1> HIDE DEF r
<1>5. \A i \in Items : r[i].good => rows[i].good /\ r[i] = rows[i]
  BY <1>4
<1>6. \A e \in Items : r[e].good =>
        \A k \in DOMAIN r[e].text : r[e].text[k].id \in Items /\ ~r[r[e].text[k].id].good
  BY <1>5 DEF TableOK
<1> QED
  BY <1>4, <1>5, <1>6 DEF r, TableOK

\* To flush items whose gems are no items any more makes no row good.
LEMMA SavedKeeps ==
  ASSUME NEW rows, TableOK(rows), NEW E, NEW V, NEW S,
         \A i \in S \cap Items : V[i] \in Seq(Gem) /\ (rows[i].good =>
           \A k \in DOMAIN V[i] : V[i][k].id \in Items /\ ~rows[V[i][k].id].good)
  PROVE  /\ TableOK(Saved(rows, E, V, S))
         /\ \A i \in Items : Saved(rows, E, V, S)[i].good => rows[i].good
<1> DEFINE new(i) == [good |-> rows[i].good /\ i \notin E, empty |-> i \in E, text |-> Written(V[i])]
           r == Saved(rows, E, V, S)
<1>1. rows \in [Items -> RowRecord]
  BY DEF TableOK
<1>2. r = [i \in Items |-> IF i \in S THEN new(i) ELSE rows[i]]
  BY DEF Saved
<1>3. ASSUME NEW i \in S \cap Items
      PROVE  /\ new(i) \in RowRecord /\ (new(i).good => rows[i].good) /\ new(i).text = Written(V[i])
             /\ DOMAIN Written(V[i]) = DOMAIN V[i] /\ \A k \in DOMAIN V[i] : Written(V[i])[k].id = V[i][k].id
  <2> DEFINE v == V[i]
             w == Written(v)
  <2>1. v \in Seq(Gem)
    OBVIOUS
  <2> HIDE DEF v
  <2>2. w \in Seq(Gem) /\ DOMAIN w = DOMAIN v /\ \A k \in DOMAIN v : w[k].id = v[k].id
    BY <2>1, WrittenKeeps
  <2> HIDE DEF w
  <2>3. rows[i].good \in BOOLEAN
    BY <1>1 DEF RowRecord
  <2>4. new(i) = [good |-> rows[i].good /\ i \notin E, empty |-> i \in E, text |-> w]
    BY DEF v, w
  <2> HIDE DEF new
  <2>5. new(i) \in RowRecord /\ (new(i).good => rows[i].good) /\ new(i).text = w
    <3>1. (rows[i].good /\ i \notin E) \in BOOLEAN /\ (i \in E) \in BOOLEAN
      OBVIOUS
    <3> QED
      BY <2>2, <2>3, <2>4, <3>1 DEF RowRecord
  <2> QED
    BY <2>2, <2>5 DEF v, w
<1> HIDE DEF new
<1>4. r \in [Items -> RowRecord]
  BY <1>1, <1>2, <1>3
<1>5. \A i \in Items : r[i] = IF i \in S THEN new(i) ELSE rows[i]
  BY <1>2
<1> HIDE DEF r
<1>6. \A i \in Items : r[i].good => rows[i].good
  BY <1>3, <1>5
<1>7. ASSUME NEW e \in Items, r[e].good, NEW k \in DOMAIN r[e].text
      PROVE  r[e].text[k].id \in Items /\ ~r[r[e].text[k].id].good
  <2>1. rows[e].good
    BY <1>6, <1>7
  <2>2. r[e].text[k].id \in Items /\ ~rows[r[e].text[k].id].good
    <3>1. CASE e \in S
      <4>1. r[e].text = Written(V[e])
        BY <1>3, <1>5, <3>1
      <4>2. k \in DOMAIN V[e] /\ r[e].text[k].id = V[e][k].id
        BY <1>3, <1>7, <3>1, <4>1
      <4> QED
        BY <2>1, <3>1, <4>2
    <3>2. CASE e \notin S
      <4>1. r[e] = rows[e]
        BY <1>5, <3>2
      <4> QED
        BY <1>7, <2>1, <4>1 DEF TableOK
    <3> QED
      BY <3>1, <3>2
  <2> QED
    BY <1>6, <2>2
<1> QED
  BY <1>4, <1>6, <1>7 DEF r, TableOK

\* So the flushes of a request keep the table, also those before a crash.
LEMMA FlushesKeep ==
  ASSUME GemsInv, NEW rows, TableOK(rows), \A i \in Items : rows[i].good => row[i].good,
         NEW E, NEW S, S \subseteq bag
  PROVE  /\ TableOK(Saved(rows, E, gems, S))
         /\ \A i \in Items : Saved(rows, E, gems, S)[i].good => row[i].good
<1>1. \A i \in S \cap Items : gems[i] \in Seq(Gem)
  BY DEF GemsInv, TypeOK
<1>2. \A i \in S \cap Items : \A k \in DOMAIN gems[i] : gems[i][k].id \in Items /\ ~rows[gems[i][k].id].good
  BY DEF GemsInv, NoneGood
<1> DEFINE r == Saved(rows, E, gems, S)
<1>3. TableOK(r) /\ \A i \in Items : r[i].good => rows[i].good
  BY <1>1, <1>2, SavedKeeps
<1> HIDE DEF r
<1> QED
  BY <1>3 DEF r

-----------------------------------------------------------------------------
(* What the steps keep.                                                    *)

\* The role comes in with no gem at all, and goes without one.
LEMMA LoadKeeps ==
  ASSUME GemsInv, Load
  PROVE  GemsInv'
<1>1. row \in [Items -> RowRecord]
  BY DEF GemsInv, TableOK
<1>2. Good \subseteq Items /\ row' = row /\ bag' = Good /\ loaded' = TRUE /\ empty' \subseteq bag'
  BY DEF Load, Good
<1>3. \A i \in Good : Read(row[i].text) = <<>>
  BY <1>1, <1>2, NothingRead DEF RowRecord
<1>4. gems' = [i \in Good |-> <<>>]
  BY <1>3 DEF Load
<1>5. TypeOK'
  BY <1>1, <1>2, <1>4 DEF TypeOK, RowRecord
<1>6. NoneGood' /\ Apart' /\ Once'
  BY <1>2, <1>4 DEF NoneGood, Apart, Once
<1>7. TableOK(row)'
  BY <1>2 DEF GemsInv
<1> QED
  BY <1>5, <1>6, <1>7 DEF GemsInv

\* When the role is gone, only the table counts.
LEMMA GoneKeeps ==
  ASSUME Gone, TableOK(row')
  PROVE  GemsInv'
<1>1. bag' = {} /\ empty' = {} /\ gems' = NoItems /\ loaded' = FALSE
  BY DEF Gone
<1>2. TypeOK'
  BY <1>1 DEF TypeOK, NoItems, TableOK, RowRecord
<1>3. NoneGood' /\ Apart' /\ Once'
  BY <1>1 DEF NoneGood, Apart, Once
<1> QED
  BY <1>2, <1>3 DEF GemsInv

\* Items may leave the bag, with what is in them, and rows may stop being good.
LEMMA LeavingKeeps ==
  ASSUME GemsInv, TableOK(row'), \A i \in Items : row'[i].good => row[i].good,
         loaded' \in BOOLEAN, bag' \subseteq bag, empty' \subseteq bag', gems' = [i \in bag' |-> gems[i]]
  PROVE  GemsInv'
<1>1. TypeOK'
  BY DEF GemsInv, TypeOK, TableOK, RowRecord
<1>2. NoneGood' /\ Apart' /\ Once'
  BY DEF GemsInv, NoneGood, Apart, Once
<1> QED
  BY <1>1, <1>2 DEF GemsInv

\* What a gem put into an item changes.
Equipped(e, g, p) ==
         /\ e \in bag /\ g \in bag /\ p \in Nat /\ loaded' = TRUE
         /\ bag' = bag \ {g} /\ empty' = empty \ {g}
         /\ ~Taken(gems[e], p) /\ ~Gapped(Put(gems[e], g, p)) /\ gems[e] \in Seq(Gem)
         /\ gems' = [i \in bag \ {g} |-> gems'[i]] /\ \A i \in bag \ {e, g} : gems'[i] = gems[i]
         /\ e # g => gems'[e] = Put(gems[e], g, p)
         /\ TableOK(row') /\ \A i \in Items : row'[i].good => row[i].good
         /\ row'[g].good = FALSE

\* Both rows are flushed, and the gem leaves the bag.
LEMMA EquipDoes ==
  ASSUME GemsInv, NEW e \in Items, NEW g \in Items, NEW p \in Positions, EquipGem(e, g, p)
  PROVE  Equipped(e, g, p)
<1>1. loaded \in BOOLEAN /\ bag \subseteq Items /\ gems \in [bag -> Seq(Gem)] /\ TableOK(row)
  BY DEF GemsInv, TypeOK
<1>2. /\ e \in bag /\ g \in bag /\ p >= 0 /\ loaded = TRUE /\ ~Taken(gems[e], p)
      /\ ~Gapped(Put(gems[e], g, p)) /\ loaded' = loaded
  BY <1>1 DEF EquipGem, CanEquip
<1>3. p \in Nat
  BY <1>2, GemsAssumption
<1> DEFINE put == Put(gems[e], g, p)
           f == Filled(e, g, p)
           m == Marked(row, g)
<1>4. gems[e] \in Seq(Gem) /\ Appended(put, gems[e], g, p)
  <2> DEFINE v == gems[e]
  <2>1. v \in Seq(Gem) /\ ~Taken(v, p) /\ ~Gapped(Put(v, g, p)) /\ g \in Items
    BY <1>1, <1>2
  <2> HIDE DEF v
  <2>2. Appended(Put(v, g, p), v, g, p)
    BY ONLY <1>3, <2>1, PutAppends
  <2> QED
    BY <2>1, <2>2 DEF v
<1>5. f = [gems EXCEPT ![e] = put]
  BY DEF Filled
<1> HIDE DEF put
<1>a. /\ put \in Seq(Gem) /\ DOMAIN put = DOMAIN gems[e] \union {p + 1}
      /\ \A k \in DOMAIN gems[e] : put[k] = gems[e][k]
      /\ put[p + 1].id = g
  BY ONLY <1>4 DEF Appended
<1>6. f \in [bag -> Seq(Gem)] /\ f[e] = put /\ \A i \in bag \ {e} : f[i] = gems[i]
  BY <1>1, <1>2, <1>5, <1>a
<1>7. TableOK(m) /\ m[g].good = FALSE /\ \A i \in Items : m[i].good => row[i].good
  BY <1>1, MarkedKeeps
<1>8. /\ bag' = bag \ {g} /\ empty' = empty \ {g} /\ gems' = [i \in bag \ {g} |-> f[i]]
      /\ row' = Saved(m, empty, f, {g, e})
  BY DEF EquipGem, Without
<1> HIDE DEF f, m
<1>9. f[g] \in Seq(Gem) /\ f[e] \in Seq(Gem)
  BY <1>2, <1>6
<1>10. \A k \in DOMAIN put : put[k].id \in Items /\ ~m[put[k].id].good
  <2>1. \A k \in DOMAIN gems[e] : gems[e][k].id \in Items /\ ~row[gems[e][k].id].good
    BY <1>2 DEF GemsInv, NoneGood
  <2> QED
    BY <1>7, <1>a, <2>1
<1>11. \A i \in {g, e} \cap Items : f[i] \in Seq(Gem) /\ (m[i].good =>
         \A k \in DOMAIN f[i] : f[i][k].id \in Items /\ ~m[f[i][k].id].good)
  BY <1>6, <1>7, <1>9, <1>10
<1>12. TableOK(row') /\ \A i \in Items : row'[i].good => m[i].good
  <2> DEFINE r == Saved(m, empty, f, {g, e})
  <2>1. TableOK(r) /\ \A i \in Items : r[i].good => m[i].good
    BY <1>7, <1>11, SavedKeeps
  <2> HIDE DEF r
  <2> QED
    BY <1>8, <2>1 DEF r
<1>13. row'[g].good = FALSE
  <2>1. row'[g].good \in BOOLEAN
    BY <1>12 DEF TableOK, RowRecord
  <2> QED
    BY <1>7, <1>12, <2>1
<1>14. e # g => gems'[e] = put
  BY <1>2, <1>6, <1>8
<1>15. gems' = [i \in bag \ {g} |-> gems'[i]] /\ \A i \in bag \ {e, g} : gems'[i] = gems[i]
  BY <1>6, <1>8
<1> QED
  BY <1>2, <1>3, <1>4, <1>7, <1>8, <1>12, <1>13, <1>14, <1>15 DEF put, Equipped

\* The vector of the item becomes what it was, and the gem after it.
LEMMA EquipAppends ==
  ASSUME GemsInv, NEW e \in Items, NEW g \in Items, NEW p \in Positions, EquipGem(e, g, p)
  PROVE  Appended(Put(gems[e], g, p), gems[e], g, p)
<1>0. Equipped(e, g, p)
  BY EquipDoes
<1>1. gems[e] \in Seq(Gem) /\ p \in Nat /\ ~Taken(gems[e], p) /\ ~Gapped(Put(gems[e], g, p)) /\ g \in Items
  BY ONLY <1>0, g \in Items DEF Equipped
<1> DEFINE v == gems[e]
<1> HIDE DEF v
<1>2. v \in Seq(Gem) /\ ~Taken(v, p) /\ ~Gapped(Put(v, g, p))
  BY <1>1 DEF v
<1>3. Appended(Put(v, g, p), v, g, p)
  BY ONLY <1>1, <1>2, PutAppends
<1> QED
  BY <1>3 DEF v

\* A gem that is put into an item is an item no more, in memory and in the table.
LEMMA EquipKeeps ==
  ASSUME GemsInv, NEW e \in Items, NEW g \in Items, NEW p \in Positions, EquipGem(e, g, p)
  PROVE  GemsInv'
<1> DEFINE put == Put(gems[e], g, p)
<1>1. /\ bag \subseteq Items /\ gems \in [bag -> Seq(Gem)] /\ empty \subseteq bag
      /\ \A i \in bag : \A k \in DOMAIN gems[i] :
           gems[i][k].id \in Items /\ ~row[gems[i][k].id].good /\ gems[i][k].id \notin bag
      /\ \A i, f \in bag : \A j \in DOMAIN gems[i], k \in DOMAIN gems[f] :
           gems[i][j].id = gems[f][k].id => i = f /\ j = k
  BY DEF GemsInv, TypeOK, NoneGood, Apart, Once
<1>0. Equipped(e, g, p)
  BY EquipDoes
<1>2. /\ e \in bag /\ g \in bag /\ p \in Nat /\ loaded' = TRUE /\ bag' = bag \ {g} /\ empty' = empty \ {g}
      /\ gems' = [i \in bag \ {g} |-> gems'[i]] /\ \A i \in bag \ {e, g} : gems'[i] = gems[i]
      /\ e # g => gems'[e] = put
      /\ TableOK(row') /\ \A i \in Items : row'[i].good => row[i].good
      /\ row'[g].good = FALSE
  <2>1. /\ e \in bag /\ g \in bag /\ p \in Nat /\ loaded' = TRUE /\ bag' = bag \ {g} /\ empty' = empty \ {g}
        /\ row'[g].good = FALSE
    BY ONLY <1>0 DEF Equipped
  <2>2. gems' = [i \in bag \ {g} |-> gems'[i]] /\ \A i \in bag \ {e, g} : gems'[i] = gems[i]
    BY ONLY <1>0 DEF Equipped
  <2>3. TableOK(row') /\ \A i \in Items : row'[i].good => row[i].good
    BY ONLY <1>0 DEF Equipped
  <2>4. e # g => gems'[e] = put
    BY ONLY <1>0 DEF Equipped
  <2> QED
    BY ONLY <2>1, <2>2, <2>3, <2>4
<1>a. Appended(put, gems[e], g, p)
  BY EquipAppends
<1> HIDE DEF put
<1>3. /\ put \in Seq(Gem) /\ DOMAIN put = DOMAIN gems[e] \union {p + 1} /\ p + 1 \notin DOMAIN gems[e]
      /\ \A k \in DOMAIN gems[e] : put[k] = gems[e][k]
      /\ put[p + 1].id = g
  BY ONLY <1>a DEF Appended
<1>4. \A i \in bag \ {g} : gems'[i] \in Seq(Gem)
  BY <1>1, <1>2, <1>3
<1>5. gems' \in [bag' -> Seq(Gem)]
  BY <1>2, <1>4
<1>6. TypeOK'
  BY <1>1, <1>2, <1>5 DEF TypeOK, TableOK, RowRecord
<1>7. \A i \in bag \ {g} : \A k \in DOMAIN gems'[i] :
         \/ k \in DOMAIN gems[i] /\ gems'[i][k] = gems[i][k]
         \/ i = e /\ k = p + 1 /\ gems'[i][k].id = g
  BY <1>2, <1>3
<1>8. NoneGood'
  <2> SUFFICES ASSUME NEW i \in bag \ {g}, NEW k \in DOMAIN gems'[i]
               PROVE  gems'[i][k].id \in Items /\ ~row'[gems'[i][k].id].good
    BY <1>2 DEF NoneGood
  <2> DEFINE x == gems'[i][k].id
  <2>1. x = g \/ (k \in DOMAIN gems[i] /\ x = gems[i][k].id)
    BY <1>7
  <2>2. x = g \/ (x \in Items /\ ~row[x].good)
    BY <1>1, <2>1
  <2> HIDE DEF x
  <2>3. x \in Items /\ ~row'[x].good
    BY <1>2, <2>2
  <2> QED
    BY <2>3 DEF x
<1>9. Apart'
  BY <1>1, <1>2, <1>7 DEF Apart
<1>10. Once'
  <2> SUFFICES ASSUME NEW i \in bag \ {g}, NEW f \in bag \ {g}, NEW j \in DOMAIN gems'[i], NEW k \in DOMAIN gems'[f],
                      gems'[i][j].id = gems'[f][k].id
               PROVE  i = f /\ j = k
    BY <1>2 DEF Once
  <2>2. i \in bag /\ f \in bag
    OBVIOUS
  <2>3. CASE j \in DOMAIN gems[i] /\ gems'[i][j] = gems[i][j] /\ k \in DOMAIN gems[f] /\ gems'[f][k] = gems[f][k]
    <3>1. gems[i][j].id = gems[f][k].id
      BY <2>3
    <3> QED
      BY ONLY <1>1, <2>2, <2>3, <3>1
  <2>4. CASE j \in DOMAIN gems[i] /\ gems'[i][j] = gems[i][j] /\ f = e /\ k = p + 1 /\ gems'[f][k].id = g
    BY ONLY <1>1, <1>2, <2>2, <2>4, gems'[i][j].id = gems'[f][k].id
  <2>5. CASE i = e /\ j = p + 1 /\ gems'[i][j].id = g /\ k \in DOMAIN gems[f] /\ gems'[f][k] = gems[f][k]
    BY ONLY <1>1, <1>2, <2>2, <2>5, gems'[i][j].id = gems'[f][k].id
  <2>6. CASE i = e /\ j = p + 1 /\ f = e /\ k = p + 1
    BY <2>6
  <2> QED
    BY <1>7, <2>3, <2>4, <2>5, <2>6
<1>11. TableOK(row)'
  BY <1>2
<1> QED
  BY <1>6, <1>8, <1>9, <1>10, <1>11 DEF GemsInv

\* A position before the vector: the process dies, or the gem leaves the bag.
LEMMA BeforeKeeps ==
  ASSUME GemsInv, NEW e \in Items, NEW g \in Items, NEW p \in Positions, EquipBefore(e, g, p)
  PROVE  GemsInv'
<1>1. TableOK(row) /\ e \in bag /\ g \in bag /\ loaded \in BOOLEAN /\ empty \subseteq bag
  BY DEF EquipBefore, CanEquip, GemsInv, TypeOK
<1>2. CASE Gone /\ UNCHANGED row
  <2>1. TableOK(row')
    BY <1>1, <1>2
  <2> QED
    BY <1>2, <2>1, GoneKeeps
<1>3. CASE Without(g, gems) /\ row' = Saved(Marked(row, g), empty, gems, {g, e}) /\ UNCHANGED loaded
  <2> DEFINE m == Marked(row, g)
             r == Saved(m, empty, gems, {g, e})
  <2>1. TableOK(m) /\ \A i \in Items : m[i].good => row[i].good
    BY <1>1, MarkedKeeps
  <2> HIDE DEF m
  <2>2. TableOK(r) /\ \A i \in Items : r[i].good => row[i].good
    BY <1>1, <2>1, FlushesKeep
  <2> HIDE DEF r
  <2>3. row' = r
    BY <1>3 DEF r, m
  <2>4. bag' = bag \ {g} /\ empty' = empty \ {g} /\ gems' = [i \in bag' |-> gems[i]] /\ loaded' = loaded
    BY <1>3 DEF Without
  <2> QED
    BY <1>1, <2>2, <2>3, <2>4, LeavingKeeps
<1> QED
  BY <1>2, <1>3 DEF EquipBefore

\* A request cut between its flushes has taken the gem out of the table, or
\* nothing.
LEMMA CutKeeps ==
  ASSUME GemsInv, NEW e \in Items, NEW g \in Items, NEW p \in Positions, EquipCut(e, g, p)
  PROVE  GemsInv'
<1>1. TableOK(row) /\ gems \in [bag -> Seq(Gem)]
  BY DEF GemsInv, TypeOK
<1>2. e \in bag /\ g \in bag /\ ~Taken(gems[e], p) /\ Gone
  BY DEF EquipCut, CanEquip
<1> DEFINE m == Marked(row, g)
<1>3. TableOK(m) /\ m[g].good = FALSE /\ \A i \in Items : m[i].good => row[i].good
  BY <1>1, MarkedKeeps
<1> HIDE DEF m
<1>4. CASE row' = row
  <2>1. TableOK(row')
    BY <1>1, <1>4
  <2> QED
    BY <1>2, <2>1, GoneKeeps
<1>5. ASSUME NEW f, f[g] \in Seq(Gem), row' = Saved(m, empty, f, {g}) PROVE GemsInv'
  <2>1. \A i \in {g} \cap Items : f[i] \in Seq(Gem) /\ (m[i].good =>
          \A k \in DOMAIN f[i] : f[i][k].id \in Items /\ ~m[f[i][k].id].good)
    BY <1>3, <1>5
  <2>2. TableOK(row')
    BY <1>3, <1>5, <2>1, SavedKeeps
  <2> QED
    BY <1>2, <2>2, GoneKeeps
<1>6. CASE p >= 0 /\ ~Gapped(Filled(e, g, p)[g]) /\ row' = Saved(m, empty, Filled(e, g, p), {g})
  <2> DEFINE f == Filled(e, g, p)
             put == Put(gems[e], g, p)
  <2>1. f = [gems EXCEPT ![e] = put]
    BY DEF Filled
  <2>2. p \in Nat
    BY <1>6, GemsAssumption
  <2>3. CASE g = e
    <3>1. f[g] = put
      BY <1>1, <1>2, <2>1, <2>3
    <3>2. gems[e] \in Seq(Gem) /\ ~Gapped(put)
      BY <1>1, <1>2, <1>6, <3>1
    <3>3. put \in Seq(Gem)
      <4> DEFINE v == gems[e]
      <4> HIDE DEF v
      <4>1. v \in Seq(Gem) /\ ~Taken(v, p) /\ ~Gapped(Put(v, g, p))
        BY <1>2, <3>2 DEF v
      <4>2. Put(v, g, p) \in Seq(Gem)
        BY ONLY <2>2, <4>1, g \in Items, PutAppends DEF Appended
      <4> QED
        BY <4>2 DEF v
    <3> QED
      BY <1>5, <1>6, <3>1, <3>3
  <2>4. CASE g # e
    <3>1. f[g] \in Seq(Gem)
      BY <1>1, <1>2, <2>1, <2>4
    <3> QED
      BY <1>5, <1>6, <3>1
  <2> QED
    BY <2>3, <2>4
<1>7. CASE row' = Saved(m, empty, gems, {g})
  BY <1>1, <1>2, <1>5, <1>7
<1> QED
  BY <1>4, <1>6, <1>7 DEF EquipCut, m

\* A gem that is made stronger stays the gem it is.
LEMMA StrengthDoes ==
  ASSUME GemsInv, NEW e \in Items, NEW g \in Items, NEW n \in Counts, StrengthGem(e, g, n)
  PROVE  /\ UNCHANGED <<row, bag, empty, loaded>> /\ gems' \in [bag -> Seq(Gem)]
         /\ \A i \in bag : DOMAIN gems'[i] = DOMAIN gems[i] /\ \A k \in DOMAIN gems[i] : gems'[i][k].id = gems[i][k].id
<1>1. UNCHANGED <<row, bag, empty, loaded>> /\ e \in bag /\ gems \in [bag -> Seq(Gem)]
  BY DEF StrengthGem, GemsInv, TypeOK
<1>2. PICK k \in FoundAt(e, g) : gems' = [gems EXCEPT ![e][k].exp = @ + FragmentExp * n]
  BY DEF StrengthGem
<1> DEFINE v == gems[e]
           gem == v[k]
           x == gem.exp + FragmentExp * n
           new == [gem EXCEPT !.exp = x]
           w == [v EXCEPT ![k] = new]
<1>3. v \in Seq(Gem) /\ k \in DOMAIN v /\ gem \in Gem
  BY <1>1, <1>2 DEF FoundAt
<1>4. gems' = [gems EXCEPT ![e] = w]
  BY <1>2
<1>5. x \in Int
  <2> DEFINE m == FragmentExp * n
  <2>1. FragmentExp \in Int /\ n \in Int /\ gem.exp \in Int
    BY <1>3, GemsAssumption DEF Gem
  <2>2. m \in Int
    BY <2>1
  <2> HIDE DEF m
  <2>3. gem.exp + m \in Int
    BY <2>1, <2>2
  <2> QED
    BY <2>3 DEF m
<1> HIDE DEF x
<1>6. new \in Gem /\ new.id = gem.id
  BY <1>3, <1>5 DEF Gem
<1> HIDE DEF new
<1>7. w \in Seq(Gem) /\ DOMAIN w = DOMAIN v /\ \A j \in DOMAIN v : w[j].id = v[j].id
  BY <1>3, <1>6
<1> HIDE DEF w, gem
<1>8. gems' \in [bag -> Seq(Gem)] /\ gems'[e] = w /\ \A i \in bag \ {e} : gems'[i] = gems[i]
  BY <1>1, <1>4, <1>7
<1> QED
  BY <1>1, <1>7, <1>8

\* And the bag what it is.
LEMMA StrengthKeeps ==
  ASSUME GemsInv, NEW e \in Items, NEW g \in Items, NEW n \in Counts, StrengthGem(e, g, n)
  PROVE  GemsInv'
<1>1. /\ UNCHANGED <<row, bag, empty, loaded>> /\ gems' \in [bag -> Seq(Gem)]
      /\ \A i \in bag : DOMAIN gems'[i] = DOMAIN gems[i] /\ \A k \in DOMAIN gems[i] : gems'[i][k].id = gems[i][k].id
  BY StrengthDoes
<1>2. TypeOK' /\ TableOK(row)'
  BY <1>1 DEF GemsInv, TypeOK
<1>3. NoneGood' /\ Apart'
  BY <1>1 DEF GemsInv, NoneGood, Apart
<1>4. Once'
  BY <1>1 DEF GemsInv, Once
<1> QED
  BY <1>2, <1>3, <1>4 DEF GemsInv

\* A flush writes gems that are no items, and a cut one too.
LEMMA FlushKeeps ==
  ASSUME GemsInv, NEW F \in SUBSET Items, NEW S \in SUBSET Items, Flush(F, S) \/ FlushCut(F, S)
  PROVE  GemsInv'
<1>1. TableOK(row) /\ S \subseteq bag /\ F \subseteq bag /\ loaded \in BOOLEAN /\ empty \subseteq bag
  BY DEF Flush, FlushCut, GemsInv, TypeOK
<1> DEFINE r == Saved(row, empty \union F, gems, S)
<1>2. TableOK(r) /\ \A i \in Items : r[i].good => row[i].good
  BY <1>1, FlushesKeep
<1>3. row' = r
  BY DEF Flush, FlushCut
<1> HIDE DEF r
<1>4. CASE Flush(F, S)
  <2>1. bag' = bag /\ empty' = empty \union F /\ gems' = [i \in bag' |-> gems[i]] /\ loaded' = loaded
    BY <1>4 DEF Flush, GemsInv, TypeOK
  <2> QED
    BY <1>1, <1>2, <1>3, <2>1, LeavingKeeps
<1>5. CASE FlushCut(F, S)
  <2>1. Gone /\ TableOK(row')
    BY <1>2, <1>3, <1>5 DEF FlushCut
  <2> QED
    BY <2>1, GoneKeeps
<1> QED
  BY <1>4, <1>5

\* A dropped item goes with the gems in it.
LEMMA DropKeeps ==
  ASSUME GemsInv, NEW i \in Items, Drop(i)
  PROVE  GemsInv'
<1>1. TableOK(row) /\ i \in bag /\ loaded \in BOOLEAN /\ empty \subseteq bag
  BY DEF Drop, GemsInv, TypeOK
<1> DEFINE m == Marked(row, i)
           r == Saved(m, empty, gems, {i})
<1>2. TableOK(m) /\ \A j \in Items : m[j].good => row[j].good
  BY <1>1, MarkedKeeps
<1>3. bag' = bag \ {i} /\ empty' = empty \ {i} /\ gems' = [j \in bag' |-> gems[j]] /\ row' = r /\ loaded' = loaded
  BY DEF Drop, Without
<1> HIDE DEF m
<1>4. TableOK(r) /\ \A j \in Items : r[j].good => row[j].good
  BY <1>1, <1>2, FlushesKeep
<1> HIDE DEF r
<1> QED
  BY <1>1, <1>3, <1>4, LeavingKeeps

\* A stack that goes over to another does too, and none comes in.
LEMMA StackKeeps ==
  ASSUME GemsInv, NEW f \in Items, NEW t \in Items, StackAll(f, t) \/ StackSome(f, t) \/ StackCut(f, t)
  PROVE  GemsInv'
<1>1. TableOK(row) /\ f \in bag /\ t \in bag /\ loaded \in BOOLEAN /\ empty \subseteq bag /\ gems \in [bag -> Seq(Gem)]
  BY DEF StackAll, StackSome, StackCut, Alike, GemsInv, TypeOK
<1>2. \A E : \A S \in SUBSET {f, t} : /\ TableOK(Saved(row, E, gems, S))
                                      /\ \A i \in Items : Saved(row, E, gems, S)[i].good => row[i].good
  <2> TAKE E
  <2> TAKE S \in SUBSET {f, t}
  <2>1. S \subseteq bag
    BY <1>1
  <2> QED
    BY <1>1, <2>1, FlushesKeep
<1>3. CASE StackAll(f, t)
  <2>1. PICK E \in Emptied(f, t) : empty' = E \ {f} /\ row' = Saved(row, E, gems, {f, t})
    BY <1>3 DEF StackAll
  <2>2. E \subseteq bag
    BY <1>1 DEF Emptied
  <2>3. bag' = bag \ {f} /\ gems' = [i \in bag' |-> gems[i]] /\ loaded' = loaded
    BY <1>3 DEF StackAll
  <2>4. TableOK(row') /\ \A i \in Items : row'[i].good => row[i].good
    BY <1>2, <2>1
  <2> QED
    BY <1>1, <2>1, <2>2, <2>3, <2>4, LeavingKeeps
<1>4. CASE StackSome(f, t)
  <2>1. empty' \in Shared(f, t) /\ row' = Saved(row, empty', gems, {f, t})
    BY <1>4 DEF StackSome
  <2>2. empty' \subseteq bag
    BY <1>1, <2>1 DEF Shared
  <2>3. bag' = bag /\ gems' = [i \in bag' |-> gems[i]] /\ loaded' = loaded
    BY <1>1, <1>4 DEF StackSome
  <2>4. TableOK(row') /\ \A i \in Items : row'[i].good => row[i].good
    BY <1>2, <2>1
  <2> QED
    BY <1>1, <2>1, <2>2, <2>3, <2>4, LeavingKeeps
<1>5. CASE StackCut(f, t)
  <2>1. PICK E : row' = Saved(row, E, gems, {f})
    BY <1>5 DEF StackCut
  <2>2. Gone /\ TableOK(row')
    BY <1>2, <1>5, <2>1 DEF StackCut
  <2> QED
    BY <2>2, GoneKeeps
<1> QED
  BY <1>3, <1>4, <1>5

-----------------------------------------------------------------------------
(* The theorems.                                                           *)

\* It holds at the start, and every step keeps it.
LEMMA InitHolds == Init => GemsInv
<1> SUFFICES ASSUME Init PROVE GemsInv
  OBVIOUS
<1>1. /\ row = [i \in Items |-> [good |-> TRUE, empty |-> i \in BoughtEmpty, text |-> <<>>]]
      /\ bag = {} /\ empty = {} /\ gems = NoItems /\ loaded = FALSE
  BY DEF Init
<1>2. TableOK(row)
  <2>1. \A i \in Items : [good |-> TRUE, empty |-> i \in BoughtEmpty, text |-> <<>>] \in RowRecord
    BY DEF RowRecord
  <2>2. row \in [Items -> RowRecord]
    BY <1>1, <2>1
  <2>3. \A i \in Items : DOMAIN row[i].text = {}
    BY <1>1
  <2> QED
    BY <2>2, <2>3 DEF TableOK
<1>3. TypeOK
  BY <1>1, <1>2 DEF TypeOK, TableOK, RowRecord, NoItems
<1>4. NoneGood /\ Apart /\ Once
  BY <1>1 DEF NoneGood, Apart, Once
<1> QED
  BY <1>2, <1>3, <1>4 DEF GemsInv

\* The steps one by one.
LEMMA StepKeeps == GemsInv /\ [Next]_vars => GemsInv'
<1> SUFFICES ASSUME GemsInv, [Next]_vars PROVE GemsInv'
  OBVIOUS
<1>1. ASSUME NEW e \in Items, NEW g \in Items, NEW p \in Positions, EquipGem(e, g, p) PROVE GemsInv'
  BY <1>1, EquipKeeps
<1>2. ASSUME NEW e \in Items, NEW g \in Items, NEW p \in Positions, EquipBefore(e, g, p) PROVE GemsInv'
  BY <1>2, BeforeKeeps
<1>3. ASSUME NEW e \in Items, NEW g \in Items, NEW p \in Positions, EquipCut(e, g, p) PROVE GemsInv'
  BY <1>3, CutKeeps
<1>4. ASSUME NEW e \in Items, NEW g \in Items, NEW n \in Counts, StrengthGem(e, g, n) PROVE GemsInv'
  BY <1>4, StrengthKeeps
<1>5. ASSUME NEW F \in SUBSET Items, NEW S \in SUBSET Items, Flush(F, S) \/ FlushCut(F, S) PROVE GemsInv'
  BY <1>5, FlushKeeps
<1>6. ASSUME NEW i \in Items, Drop(i) PROVE GemsInv'
  BY <1>6, DropKeeps
<1>7. ASSUME NEW f \in Items, NEW t \in Items, StackAll(f, t) \/ StackSome(f, t) \/ StackCut(f, t) PROVE GemsInv'
  BY <1>7, StackKeeps
<1>8. ASSUME Load PROVE GemsInv'
  BY <1>8, LoadKeeps
<1>9. ASSUME Leave PROVE GemsInv'
  <2>1. Gone /\ TableOK(row')
    BY <1>9 DEF Leave, GemsInv
  <2> QED
    BY <2>1, GoneKeeps
<1>10. ASSUME UNCHANGED vars PROVE GemsInv'
  BY <1>10 DEF vars, GemsInv, TypeOK, NoneGood, Apart, Once
<1> QED
  BY <1>1, <1>2, <1>3, <1>4, <1>5, <1>6, <1>7, <1>8, <1>9, <1>10 DEF Next

\* What is in an item is neither in the bag nor in the table as an item.
THEOREM Invariance == Spec => []GemsInv
<1> QED
  BY InitHolds, StepKeeps, PTL DEF Spec

\* The types of gem_servlet.cpp and of the column gems, for every bound.
THEOREM TypeCorrect == Spec => []TypeOK
<1>1. GemsInv => TypeOK
  BY DEF GemsInv
<1> QED
  BY <1>1, Invariance, PTL

\* No gem is in two places, nor an item as well (doEquipGem), whatever items are
\* put into each other and wherever the process dies.
THEOREM GemsAreSingle == Spec => []NoGemTwice
<1>1. ASSUME GemsInv PROVE NoGemTwice
  <2>1. \A e \in bag : Carried(e) \cap bag = {}
    BY <1>1 DEF GemsInv, Apart, Carried
  <2>2. \A e \in Good : \A k \in DOMAIN row[e].text : ~row[row[e].text[k].id].good
    BY <1>1 DEF GemsInv, TableOK, Good
  <2> QED
    BY <1>1, <2>1, <2>2 DEF GemsInv, Once, NoGemTwice
<1> QED
  BY <1>1, Invariance, PTL

\* An item without gems that is put into another is in it, where it was in the
\* bag: nothing else comes or goes.
LEMMA EquipMoves ==
  ASSUME GemsInv, NEW e \in Items, NEW g \in Items, NEW p \in Positions, EquipGem(e, g, p),
         e # g, gems[g] = <<>>
  PROVE  Owned' = Owned
<1> DEFINE put == Put(gems[e], g, p)
<1>1. /\ e \in bag /\ g \in bag /\ bag' = bag \ {g}
      /\ \A i \in bag \ {e, g} : gems'[i] = gems[i]
      /\ gems'[e] = put
  <2>0. Equipped(e, g, p)
    BY EquipDoes
  <2>1. e \in bag /\ g \in bag /\ bag' = bag \ {g} /\ gems'[e] = put
    BY ONLY <2>0, e # g DEF Equipped
  <2>2. \A i \in bag \ {e, g} : gems'[i] = gems[i]
    BY ONLY <2>0 DEF Equipped
  <2> QED
    BY ONLY <2>1, <2>2
<1>a. Appended(put, gems[e], g, p)
  BY EquipAppends
<1> HIDE DEF put
<1>2. /\ DOMAIN put = DOMAIN gems[e] \union {p + 1} /\ p + 1 \notin DOMAIN gems[e]
      /\ \A k \in DOMAIN gems[e] : put[k] = gems[e][k]
      /\ put[p + 1].id = g
  BY ONLY <1>a DEF Appended
<1>3. Carried(e)' = Carried(e) \union {g}
  BY <1>1, <1>2 DEF Carried
<1>4. \A i \in bag \ {e, g} : Carried(i)' = Carried(i)
  BY <1>1 DEF Carried
<1>5. Carried(g) = {}
  BY DEF Carried
<1>6. ASSUME NEW x \in Owned PROVE x \in Owned'
  BY <1>1, <1>3, <1>4, <1>5 DEF Owned
<1>7. ASSUME NEW x \in Owned' PROVE x \in Owned
  BY <1>1, <1>3, <1>4, <1>7 DEF Owned
<1> QED
  BY <1>6, <1>7

\* An item leaves its owner with a request that says so, or because it is put into
\* itself or is in an item that is put into another (doEquipGem), because it is or
\* is in a stack that goes over to another one whole (moveItem), or because it is
\* put before the vector (addGem).
THEOREM OnlyTheseVanish == Spec => VanishBySteps
<1> DEFINE Lost == loaded /\ loaded' /\ Owned' # Owned
           Why  == \/ \E i \in bag : Drop(i)
                   \/ \E e, g \in bag : (e = g \/ gems[g] # <<>>) /\ \E p \in Positions : EquipGem(e, g, p)
                   \/ \E e, g \in bag : \E p \in Positions : EquipBefore(e, g, p)
                   \/ \E f, t \in bag : StackAll(f, t)
<1>1. ASSUME GemsInv, [Next]_vars, Lost PROVE Why
  <2>1. ASSUME NEW e \in Items, NEW g \in Items, NEW p \in Positions, EquipGem(e, g, p) PROVE Why
    <3>1. e \in bag /\ g \in bag
      BY <1>1, <2>1, EquipDoes DEF Equipped
    <3>2. e = g \/ gems[g] # <<>>
      BY <1>1, <2>1, EquipMoves
    <3> QED
      BY <2>1, <3>1, <3>2
  <2>2. ASSUME NEW e \in Items, NEW g \in Items, NEW n \in Counts, StrengthGem(e, g, n) PROVE FALSE
    <3>1. /\ bag' = bag
          /\ \A i \in bag : DOMAIN gems'[i] = DOMAIN gems[i] /\ \A k \in DOMAIN gems[i] : gems'[i][k].id = gems[i][k].id
      BY <1>1, <2>2, StrengthDoes
    <3>2. \A i \in bag : Carried(i)' = Carried(i)
      BY <3>1 DEF Carried
    <3> QED
      BY <1>1, <3>1, <3>2 DEF Owned
  <2>3. ASSUME NEW i \in Items, Drop(i) PROVE Why
    BY <2>3 DEF Drop
  <2>4. ASSUME UNCHANGED <<bag, gems>> PROVE FALSE
    BY <1>1, <2>4 DEF Owned, Carried
  <2>5. ASSUME NEW F \in SUBSET Items, NEW S \in SUBSET Items, Flush(F, S) PROVE FALSE
    BY <2>4, <2>5 DEF Flush
  <2>6. ASSUME Gone \/ Load PROVE FALSE
    <3>1. loaded' = FALSE \/ ~loaded
      BY <2>6 DEF Gone, Load
    <3> QED
      BY <1>1, <3>1
  <2>7. ASSUME UNCHANGED vars PROVE FALSE
    BY <2>4, <2>7 DEF vars
  <2>8. ASSUME NEW e \in Items, NEW g \in Items, NEW p \in Positions, EquipBefore(e, g, p) PROVE Why
    <3>1. e \in bag /\ g \in bag
      BY <2>8 DEF EquipBefore, CanEquip
    <3> QED
      BY <2>8, <3>1
  <2>9. ASSUME NEW f \in Items, NEW t \in Items, StackAll(f, t) PROVE Why
    <3>1. f \in bag /\ t \in bag
      BY <2>9 DEF StackAll, Alike
    <3> QED
      BY <2>9, <3>1
  <2>10. ASSUME NEW f \in Items, NEW t \in Items, StackSome(f, t) PROVE FALSE
    BY <2>4, <2>10 DEF StackSome
  <2>11. ASSUME NEW e \in Items, NEW g \in Items, NEW p \in Positions, EquipCut(e, g, p) PROVE FALSE
    BY <2>6, <2>11 DEF EquipCut
  <2>12. ASSUME NEW f \in Items, NEW t \in Items, StackCut(f, t) PROVE FALSE
    BY <2>6, <2>12 DEF StackCut
  <2>13. ASSUME NEW F \in SUBSET Items, NEW S \in SUBSET Items, FlushCut(F, S) PROVE FALSE
    BY <2>6, <2>13 DEF FlushCut
  <2> HIDE DEF Lost, Why
  <2> QED
    BY <1>1, <2>1, <2>2, <2>3, <2>5, <2>6, <2>7, <2>8, <2>9, <2>10, <2>11, <2>12, <2>13 DEF Next, Leave
<1>2. GemsInv /\ [Next]_vars => [Lost => Why]_vars
  BY <1>1
<1> QED
  BY <1>2, Invariance, PTL DEF Spec, VanishBySteps
=============================================================================

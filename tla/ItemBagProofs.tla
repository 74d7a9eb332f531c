--------------------------- MODULE ItemBagProofs ---------------------------
(***************************************************************************)
(* Theorems about ItemBag, for every setting.                              *)
(***************************************************************************)
EXTENDS ItemBag, CommonLemmas

\* A setting is one the assumption speaks of.
LEMMA SettingFacts ==
  ASSUME set \in Settings
  PROVE  /\ Cells \in Nat /\ Cells > 1 /\ StartMoney \in Nat
         /\ ItemType \in [Templates -> Nat] /\ StackNum \in [Templates -> Nat] /\ Price \in [Templates -> Int]
         /\ Counts \subseteq Int /\ StrengthMoney \in Seq(Seq(Nat))
         /\ StrengthNext \in [Templates -> Templates \union {NoTemplate}]
         /\ \A t \in Templates : StrengthNext[t] # NoTemplate => StackNum[t] = 0 /\ StackNum[StrengthNext[t]] = 0
         /\ FirstVisit \in BOOLEAN
<1>1. /\ set.cells \in Nat \ {0, 1} /\ set.money \in 0..set.maxMoney /\ set.counts \subseteq Int
      /\ set.type \in [DOMAIN set.type -> Nat] /\ set.stack \in [DOMAIN set.type -> Nat]
      /\ set.price \in [DOMAIN set.type -> Int]
      /\ set.next \in [DOMAIN set.type -> DOMAIN set.type \union {NoTemplate}] /\ set.visit \in BOOLEAN
      /\ set.strength \in Seq(Seq(Nat))
      /\ \A t \in DOMAIN set.type : set.next[t] # NoTemplate => set.stack[t] = 0 /\ set.stack[set.next[t]] = 0
  <2>1. set.counts \subseteq -(IntMax + 1)..IntMax /\ IntMax \in Nat
    BY BagAssumption
  <2>2. set.counts \subseteq Int
    BY ONLY <2>1
  <2> QED
    BY <2>2, BagAssumption
<1>2. set.cells \in Nat /\ set.cells > 1
  <2>1. \A x \in Nat \ {0, 1} : x > 1
    OBVIOUS
  <2> QED
    BY <1>1, <2>1
<1>3. set.money \in Nat
  BY <1>1
<1> QED
  BY <1>1, <1>2, <1>3
     DEF Cells, StartMoney, ItemType, StackNum, Price, Counts, StrengthMoney, StrengthNext, Templates, FirstVisit

\* A count, a price and a product as the code holds them are numbers.
LEMMA WrappedIsInt ==
  ASSUME NEW n \in Int, NEW m \in Nat
  PROVE  Wrapped(n, m) \in Int
BY DEF Wrapped

\* And what is no more than the greatest is what it was.
LEMMA WrappedKeeps ==
  ASSUME NEW m \in Nat, NEW n \in 0..m
  PROVE  Wrapped(n, m) = n
<1> DEFINE d == 2 * (m + 1)
<1>1. n + m + 1 \in 0..d - 1 /\ d \in Nat /\ d > 0
  OBVIOUS
<1>2. \A x \in Nat, y \in Nat : y > 0 /\ x < y => x % y = x
  OBVIOUS
<1>3. (n + m + 1) % d = n + m + 1
  BY <1>1, <1>2
<1> QED
  BY <1>3 DEF Wrapped

\* None is below the least.
LEMMA WrappedIsAbove ==
  ASSUME NEW m \in Nat, NEW n \in Int
  PROVE  Wrapped(n, m) >= -(m + 1)
<1> DEFINE d == 2 * (m + 1)
<1>1. n + m + 1 \in Int /\ d \in Nat /\ d > 0
  OBVIOUS
<1>2. \A x \in Int, y \in Nat : y > 0 => x % y \in 0..y - 1
  OBVIOUS
<1>3. (n + m + 1) % d \in Nat
  BY <1>1, <1>2
<1> QED
  BY <1>3 DEF Wrapped

\* And what is not below the least is no more than it was.
LEMMA WrappedIsLess ==
  ASSUME NEW m \in Nat, NEW n \in Int, n >= -(m + 1)
  PROVE  Wrapped(n, m) <= n
<1> DEFINE d == 2 * (m + 1)
<1>1. n + m + 1 \in Nat /\ d \in Nat /\ d > 0
  OBVIOUS
<1>2. \A x \in Nat, y \in Nat : y > 0 => x % y <= x
  OBVIOUS
<1>3. (n + m + 1) % d <= n + m + 1 /\ (n + m + 1) % d \in Int
  BY <1>1, <1>2
<1> QED
  BY <1>3 DEF Wrapped

-----------------------------------------------------------------------------
(* The items and their rows.                                               *)

\* What an item is, but for its level and quality.
Is(r, tpl, num, idx, equip, dead) ==
  r.tpl = tpl /\ r.num = num /\ r.idx = idx /\ r.equip = equip /\ r.dead = dead

\* A change of one field of one item leaves the rest.
LEMMA NewNum ==
  ASSUME NEW n \in Nat, NEW f \in [1..n -> ItemRecord], NEW x \in 1..n, NEW v \in Int
  PROVE  LET g == [f EXCEPT ![x].num = v] IN
         /\ g \in [1..n -> ItemRecord] /\ \A i \in 1..n \ {x} : g[i] = f[i]
         /\ Is(g[x], f[x].tpl, v, f[x].idx, f[x].equip, f[x].dead)
BY DEF ItemRecord, Is

\* So it is with the index,
LEMMA NewIdx ==
  ASSUME NEW n \in Nat, NEW f \in [1..n -> ItemRecord], NEW x \in 1..n, NEW v \in Nat
  PROVE  LET g == [f EXCEPT ![x].idx = v] IN
         /\ g \in [1..n -> ItemRecord] /\ \A i \in 1..n \ {x} : g[i] = f[i]
         /\ Is(g[x], f[x].tpl, f[x].num, v, f[x].equip, f[x].dead)
BY DEF ItemRecord, Is

\* ... so with the flag of deletion,
LEMMA NewDead ==
  ASSUME NEW n \in Nat, NEW f \in [1..n -> ItemRecord], NEW x \in 1..n, NEW v \in BOOLEAN
  PROVE  LET g == [f EXCEPT ![x].dead = v] IN
         /\ g \in [1..n -> ItemRecord] /\ \A i \in 1..n \ {x} : g[i] = f[i]
         /\ Is(g[x], f[x].tpl, f[x].num, f[x].idx, f[x].equip, v)
BY DEF ItemRecord, Is

\* ... with the flag of being worn,
LEMMA NewEquip ==
  ASSUME NEW n \in Nat, NEW f \in [1..n -> ItemRecord], NEW x \in 1..n, NEW v \in BOOLEAN
  PROVE  LET g == [f EXCEPT ![x].equip = v] IN
         /\ g \in [1..n -> ItemRecord] /\ \A i \in 1..n \ {x} : g[i] = f[i]
         /\ Is(g[x], f[x].tpl, f[x].num, f[x].idx, v, f[x].dead)
BY DEF ItemRecord, Is

\* ... and with the template (an upgrade of doStrengthEquip).
LEMMA NewTemplate ==
  ASSUME NEW n \in Nat, NEW f \in [1..n -> ItemRecord], NEW x \in 1..n,
         NEW t \in Templates, NEW l \in Nat, NEW q \in Nat
  PROVE  LET g == [f EXCEPT ![x].tpl = t, ![x].level = l, ![x].quality = q] IN
         /\ g \in [1..n -> ItemRecord] /\ \A i \in 1..n \ {x} : g[i] = f[i]
         /\ Is(g[x], t, f[x].num, f[x].idx, f[x].equip, f[x].dead)
BY ZenonT(30) DEF ItemRecord, Is

\* What a flush makes of the items it flushes, and of their rows.
LEMMA FlushDoes ==
  ASSUME NEW n \in Nat, NEW f \in [1..n -> ItemRecord], NEW S, row \in [1..n -> RowRecord]
  PROVE  /\ Flushed(f, S) \in [1..n -> ItemRecord] /\ Rows(f, S) \in [1..n -> RowRecord]
         /\ \A i \in 1..n \ S : Flushed(f, S)[i] = f[i] /\ Rows(f, S)[i] = row[i]
         /\ \A i \in 1..n : i \in S =>
              /\ Is(Flushed(f, S)[i], f[i].tpl, f[i].num, f[i].idx, f[i].equip, f[i].dead \/ f[i].num = 0)
              /\ Rows(f, S)[i].num = f[i].num /\ Rows(f, S)[i].idx = f[i].idx
              /\ Rows(f, S)[i].dead = Flushed(f, S)[i].dead
         /\ \A i \in 1..n : Rows(f, S)[i].tpl = row[i].tpl
<1> DEFINE F == Flushed(f, S)
           R == Rows(f, S)
           after(i) == [f[i] EXCEPT !.dead = @ \/ f[i].num = 0]
           saved(i) == [row[i] EXCEPT !.num = f[i].num, !.idx = f[i].idx, !.dead = F[i].dead]
<1>1. ASSUME NEW i \in 1..n
      PROVE  /\ after(i) \in ItemRecord
             /\ Is(after(i), f[i].tpl, f[i].num, f[i].idx, f[i].equip, f[i].dead \/ f[i].num = 0)
  BY DEF ItemRecord, Is
<1>2. F = [i \in 1..n |-> IF i \in S THEN after(i) ELSE f[i]]
  BY DEF Flushed
<1> HIDE DEF after, F
<1>3. F \in [1..n -> ItemRecord] /\ \A i \in 1..n : F[i] = IF i \in S THEN after(i) ELSE f[i]
  BY <1>1, <1>2
<1>4. ASSUME NEW i \in 1..n
      PROVE  /\ saved(i) \in RowRecord /\ saved(i).num = f[i].num /\ saved(i).idx = f[i].idx
             /\ saved(i).dead = F[i].dead /\ saved(i).tpl = row[i].tpl
  <2>1. F[i].dead \in BOOLEAN /\ f[i].num \in Int /\ f[i].idx \in Nat
    BY <1>3 DEF ItemRecord
  <2>2. row[i] \in RowRecord
    OBVIOUS
  <2> QED
    BY <2>1, <2>2 DEF RowRecord
<1>5. R = [i \in 1..n |-> IF i \in S THEN saved(i) ELSE row[i]]
  BY DEF Rows, F
<1> HIDE DEF saved, R
<1>6. R \in [1..n -> RowRecord] /\ \A i \in 1..n : R[i] = IF i \in S THEN saved(i) ELSE row[i]
  BY <1>4, <1>5
<1> QED
  BY <1>1, <1>3, <1>4, <1>6 DEF F, R

-----------------------------------------------------------------------------
(* The cells.                                                              *)

\* Cells that are numbered from zero are as many as the last number says.
LEMMA CellCount ==
  ASSUME NEW m \in Nat, NEW X, NEW s \in [0..m-1 -> X]
  PROVE  IsFiniteSet(DOMAIN s) /\ Cardinality(DOMAIN s) = m
<1>1. IsFiniteSet(0..m-1) /\ Cardinality(0..m-1) = IF 0 > m - 1 THEN 0 ELSE (m - 1) - 0 + 1
  BY FS_Interval
<1>2. (IF 0 > m - 1 THEN 0 ELSE (m - 1) - 0 + 1) = m
  OBVIOUS
<1> QED
  BY <1>1, <1>2

\* What the type invariant says of the cells.
LEMMA CellsAre ==
  ASSUME TypeOK, set \in Settings
  PROVE  \E m \in Nat : m > 0 /\ m >= Cells /\ slot \in [0..m-1 -> {0} \union DOMAIN item]
<1> DEFINE m == Cardinality(DOMAIN slot)
<1>1. m \in Nat
  BY FS_CardinalityType DEF TypeOK
<1>2. slot \in [0..m-1 -> {0} \union DOMAIN item] /\ 0..Cells-1 \subseteq DOMAIN slot
  BY DEF TypeOK
<1> HIDE DEF m
<1>3. DOMAIN slot = 0..m-1
  BY <1>2
<1>4. Cells \in Nat /\ Cells > 1 /\ Cells - 1 \in 0..Cells-1
  BY SettingFacts
<1>5. Cells - 1 \in 0..m-1
  BY <1>2, <1>3, <1>4
<1>6. m > 0 /\ m >= Cells
  BY <1>1, <1>4, <1>5
<1> QED
  BY <1>1, <1>2, <1>6

\* addItem opens a cell that is empty, or the next one after the last.
LEMMA FreeCellIs ==
  ASSUME NEW m \in Nat, m > 0, NEW X, NEW s \in [0..m-1 -> X]
  PROVE  FreeCell(s) \in 1..m /\ (FreeCell(s) = m \/ s[FreeCell(s)] = 0)
<1> DEFINE F == {i \in 1..Cardinality(DOMAIN s) : i \in DOMAIN s => s[i] = 0}
<1>1. Cardinality(DOMAIN s) = m
  BY CellCount
<1>2. F = {i \in 1..m : i \in 0..m-1 => s[i] = 0}
  BY <1>1
<1>3. m \in F /\ F \subseteq Nat
  BY <1>2
<1>4. Min(F) \in F
  BY <1>3, MinIsLeast
<1> QED
  BY <1>2, <1>4 DEF FreeCell

\* And puts the item there.
LEMMA PutDoes ==
  ASSUME NEW m \in Nat, m > 0, NEW X, NEW s \in [0..m-1 -> X], NEW x \in X
  PROVE  /\ \E k \in Nat : k >= m /\ Put(s, x) \in [0..k-1 -> X]
         /\ FreeCell(s) \in Nat /\ FreeCell(s) # 0
         /\ DOMAIN Put(s, x) = DOMAIN s \union {FreeCell(s)}
         /\ Put(s, x)[FreeCell(s)] = x /\ \A i \in DOMAIN s \ {FreeCell(s)} : Put(s, x)[i] = s[i]
         /\ FreeCell(s) \in DOMAIN s => s[FreeCell(s)] = 0
<1> DEFINE c == FreeCell(s)
<1>1. c \in 1..m /\ (c = m \/ s[c] = 0)
  BY FreeCellIs
<1>2. Put(s, x) = [i \in DOMAIN s \union {c} |-> IF i = c THEN x ELSE s[i]]
  BY DEF Put, PutAt
<1> HIDE DEF c
<1> DEFINE k == IF c = m THEN m + 1 ELSE m
<1>3. k \in Nat /\ k >= m /\ DOMAIN s \union {c} = 0..k-1
  BY <1>1
<1> HIDE DEF k
<1>4. Put(s, x) \in [0..k-1 -> X]
  BY <1>2, <1>3
<1>5. c \in DOMAIN s => s[c] = 0
  BY <1>1
<1> QED
  BY <1>1, <1>2, <1>3, <1>4, <1>5 DEF c

\* removeItem empties the cell the item believes it is in.
LEMMA ClearedIs ==
  ASSUME NEW m \in Nat, NEW X, 0 \in X, NEW s \in [0..m-1 -> X], NEW x \in Nat
  PROVE  /\ Cleared(s, x) \in [0..m-1 -> X]
         /\ \A i \in 0..m-1 : Cleared(s, x)[i] = IF i = x /\ x # 0 THEN 0 ELSE s[i]
BY DEF Cleared

-----------------------------------------------------------------------------
(* Strengthening.                                                          *)

\* A strengthening raises the level or the quality, for what the table says.
LEMMA NextLevelIs ==
  ASSUME set \in Settings, NEW q \in Nat, NEW l \in Nat
  PROVE  /\ NextLevel(q, l).quality \in Nat /\ NextLevel(q, l).level \in Nat
         /\ NextLevel(q, l).cost \in Nat \union {-1}
<1>1. StrengthMoney \in Seq(Seq(Nat))
  BY SettingFacts
<1> DEFINE q0 == IF q = 0 THEN 1 ELSE q
           l0 == IF q = 0 THEN 1 ELSE l
<1>2. q0 \in Nat /\ l0 \in Nat
  OBVIOUS
<1> HIDE DEF q0, l0
<1>3. ASSUME NEW p \in DOMAIN StrengthMoney, NEW i \in Nat, i > 0, i <= Len(StrengthMoney[p])
      PROVE  StrengthMoney[p][i] \in Nat
  <2>1. StrengthMoney[p] \in Seq(Nat)
    BY <1>1
  <2> QED
    BY <1>3, <2>1
<1>4. \A p \in DOMAIN StrengthMoney : Len(StrengthMoney[p]) \in Nat
  BY <1>1
<1>5. NextLevel(q, l) =
        IF q0 \notin DOMAIN StrengthMoney THEN Level(q0, l0, -1)
        ELSE IF l0 + 1 < Len(StrengthMoney[q0])
          THEN Level(q0, l0 + 1, StrengthMoney[q0][l0 + 2])
        ELSE IF q0 + 1 \in DOMAIN StrengthMoney /\ Len(StrengthMoney[q0 + 1]) > 1
          THEN Level(q0 + 1, 1, StrengthMoney[q0 + 1][2])
        ELSE Level(q0 + 1, 1, -1)
  BY DEF NextLevel, q0, l0
<1>6. ASSUME q0 \in DOMAIN StrengthMoney, l0 + 1 < Len(StrengthMoney[q0]) PROVE StrengthMoney[q0][l0 + 2] \in Nat
  BY <1>2, <1>3, <1>4, <1>6
<1>7. ASSUME q0 + 1 \in DOMAIN StrengthMoney, Len(StrengthMoney[q0 + 1]) > 1 PROVE StrengthMoney[q0 + 1][2] \in Nat
  BY <1>3, <1>4, <1>7
<1> QED
  BY <1>2, <1>5, <1>6, <1>7 DEF Level

\* What the loop has counted so far.
StrengthStates ==
  [quality : Nat, level : Nat, need : Int, tpl : Templates \union {NoTemplate}, ok : BOOLEAN]
Sound(s) == s.ok => s.need >= 0 /\ s.tpl \in Templates
SoundStates == {s \in StrengthStates : Sound(s)}

\* One round more.
LEMMA StrengthStepIs ==
  ASSUME set \in Settings, NEW s \in SoundStates
  PROVE  /\ StrengthStep(s) \in SoundStates
         /\ StrengthStep(s).ok => StackNum[StrengthStep(s).tpl] = 0 /\ money >= StrengthStep(s).need
<1> DEFINE up == NextLevel(s.quality, s.level)
           next == IF s.tpl = NoTemplate THEN NoTemplate ELSE StrengthNext[s.tpl]
           r == [quality |-> up.quality, level |-> up.level, need |-> s.need + up.cost, tpl |-> next,
                 ok |-> /\ s.ok /\ up.cost # -1 /\ up.level <= RoleLevel
                        /\ money >= s.need + up.cost /\ next # NoTemplate]
<1>1. /\ s.quality \in Nat /\ s.level \in Nat /\ s.need \in Int /\ s.tpl \in Templates \union {NoTemplate}
      /\ s.ok \in BOOLEAN /\ (s.ok => s.need >= 0 /\ s.tpl \in Templates)
  BY DEF SoundStates, StrengthStates, Sound
<1>2. up.quality \in Nat /\ up.level \in Nat /\ up.cost \in Nat \union {-1}
  BY <1>1, NextLevelIs
<1>3. /\ StrengthNext \in [Templates -> Templates \union {NoTemplate}]
      /\ \A t \in Templates : StrengthNext[t] # NoTemplate => StackNum[StrengthNext[t]] = 0
  BY SettingFacts
<1>4. next \in Templates \union {NoTemplate}
  BY <1>1, <1>3
<1>5. StrengthStep(s) = r
  BY DEF StrengthStep
<1>6. s.ok /\ next # NoTemplate => next \in Templates /\ StackNum[next] = 0
  BY <1>1, <1>3, <1>4
<1> HIDE DEF up, next
<1>7. s.need + up.cost \in Int
  BY <1>1, <1>2
<1>8. s.ok /\ up.cost # -1 => s.need + up.cost >= 0
  BY <1>1, <1>2
<1>9. /\ r.quality = up.quality /\ r.level = up.level /\ r.need = s.need + up.cost /\ r.tpl = next
      /\ r.ok \in BOOLEAN
      /\ (r.ok => s.ok /\ up.cost # -1 /\ money >= s.need + up.cost /\ next # NoTemplate)
  OBVIOUS
<1>10. r \in StrengthStates
  <2> DEFINE o == /\ s.ok /\ up.cost # -1 /\ up.level <= RoleLevel
                  /\ money >= s.need + up.cost /\ next # NoTemplate
  <2>1. o \in BOOLEAN
    OBVIOUS
  <2> HIDE DEF o
  <2>2. [quality |-> up.quality, level |-> up.level, need |-> s.need + up.cost, tpl |-> next, ok |-> o] \in StrengthStates
    BY <1>2, <1>4, <1>7, <2>1 DEF StrengthStates
  <2> QED
    BY <2>2 DEF o
<1> HIDE DEF r
<1> QED
  BY <1>5, <1>6, <1>8, <1>9, <1>10 DEF SoundStates, Sound

\* What the loop has counted in the end.
LEMMA StrengthenedIs ==
  ASSUME set \in Settings, NEW id, item[id] \in ItemRecord, NEW n \in Nat \ {0}
  PROVE  LET s == Strengthened(id, n) IN
         /\ s.level \in Nat /\ s.quality \in Nat /\ s.need \in Int
         /\ s.ok => /\ s.tpl \in Templates /\ StackNum[s.tpl] = 0
                    /\ s.need >= 0 /\ money >= s.need
<1> DEFINE base == [quality |-> item[id].quality, level |-> item[id].level, need |-> 0,
                    tpl |-> item[id].tpl, ok |-> TRUE]
           s[k \in 0..n] == IF k = 0 THEN base ELSE StrengthStep(s[k - 1])
           step == [k \in 1..n |-> [v \in SoundStates |-> StrengthStep(v)]]
<1>1. Strengthened(id, n) = s[n]
  BY DEF Strengthened
<1>2. base \in SoundStates
  BY DEF SoundStates, StrengthStates, Sound, ItemRecord
<1>3. step \in [1..n -> [SoundStates -> SoundStates]]
  BY StrengthStepIs
<1>4. PICK h : IsLoop(h, n, SoundStates, base, step)
  <2> HIDE DEF base, step
  <2> QED
    BY <1>2, <1>3, LoopExists
<1> HIDE DEF base
<1>5. h = [k \in 0..n |-> IF k = 0 THEN base ELSE StrengthStep(h[k - 1])]
  <2>1. h \in [0..n -> SoundStates] /\ h[0] = base
    BY <1>4 DEF IsLoop
  <2>2. ASSUME NEW k \in 0..n, k # 0 PROVE h[k] = StrengthStep(h[k - 1])
    <3>1. k \in 1..n /\ k - 1 \in 0..n
      BY <2>2
    <3>2. h[k] = step[k][h[k - 1]] /\ h[k - 1] \in SoundStates
      BY <1>4, <2>1, <3>1 DEF IsLoop
    <3> QED
      BY <3>1, <3>2
  <2> HIDE DEF step
  <2> QED
    BY <2>1, <2>2
<1>6. s = [k \in 0..n |-> IF k = 0 THEN base ELSE StrengthStep(s[k - 1])]
  BY <1>5
<1> HIDE DEF s, step
<1> DEFINE C == {k \in 0..n : s[k] \in SoundStates}
<1>7. 0 \in C
  BY <1>2, <1>6
<1>8. \A k \in 1..n : k - 1 \in C => k \in C
  <2> TAKE k \in 1..n
  <2>1. k \in 0..n /\ k # 0
    OBVIOUS
  <2>2. s[k] = StrengthStep(s[k - 1])
    BY <1>6, <2>1
  <2> QED
    BY <2>1, <2>2, StrengthStepIs
<1>9. 0..n \subseteq C
  <2> HIDE DEF C
  <2> QED
    BY <1>7, <1>8, RoundInduction
<1>10. n - 1 \in 0..n /\ n \in 0..n /\ n # 0
  OBVIOUS
<1>11. s[n - 1] \in SoundStates /\ s[n] = StrengthStep(s[n - 1])
  <2>1. n - 1 \in C
    BY <1>9, <1>10
  <2> QED
    BY <1>6, <1>10, <2>1
<1>12. s[n] \in SoundStates /\ (s[n].ok => StackNum[s[n].tpl] = 0 /\ money >= s[n].need)
  BY <1>11, StrengthStepIs
<1> QED
  BY <1>1, <1>12 DEF SoundStates, StrengthStates, Sound

-----------------------------------------------------------------------------
(* The merge loop.                                                         *)

\* What the loop works on: n items, those put back, and whether it ended.
MergeStates(n) == [items : [1..n -> ItemRecord], out : Seq(1..n), crashed : BOOLEAN]

\* Two items that differ in nothing but the number, level and quality.
Renumbered(a, b) == Is(a, b.tpl, a.num, b.idx, b.equip, b.dead)

\* The item put back last.
Back(s) == s.out[Len(s.out)]

\* v units of an item go over to the last one put back, which is of its kind.
Over(s, r, id, v) ==
  /\ v > 0 /\ v <= s.items[id].num /\ s.out # <<>>
  /\ s.items[Back(s)].tpl = s.items[id].tpl /\ StackNum[s.items[id].tpl] > 1
  /\ r.out = IF v = s.items[id].num THEN s.out ELSE Append(s.out, id)
  /\ Back(s) # id => r.items[Back(s)].num = s.items[Back(s)].num + v /\ r.items[id].num = s.items[id].num - v

\* What a round of the loop may do: pass over the item, put it back, or fill up
\* the last one with it.
Passed(s, r, id) == r.items = s.items /\ r.out = s.out /\ (r.crashed \/ s.items[id].num <= 0)
Pushed(s, r, id) == r.items = s.items /\ r.out = Append(s.out, id) /\ s.items[id].num > 0

RoundIs(n, s, id, r) ==
  /\ r \in MergeStates(n) /\ (s.crashed => r.crashed)
  /\ \A i \in 1..n : Renumbered(r.items[i], s.items[i])
  /\ \A i \in 1..n : i # id /\ (s.out # <<>> => i # Back(s)) => r.items[i] = s.items[i]
  /\ Passed(s, r, id) \/ Pushed(s, r, id) \/ \E v \in Nat : Over(s, r, id, v)

\* The change of two numbers in the items of the loop.
TwoSet(f, a, v, b, w) == [f EXCEPT ![a].num = v, ![b].num = w]

\* Two numbers changed leave all else (mergeSameItem adds to one item what it takes
\* from the other).
LEMMA TwoNums ==
  ASSUME NEW n \in Nat, NEW f \in [1..n -> ItemRecord], NEW a \in 1..n, NEW b \in 1..n, NEW v \in Int, NEW w \in Int
  PROVE  LET g == TwoSet(f, a, v, b, w) IN
         /\ g \in [1..n -> ItemRecord] /\ \A i \in 1..n \ {a, b} : g[i] = f[i]
         /\ \A i \in 1..n : Renumbered(g[i], f[i])
         /\ g[b].num = w /\ (a # b => g[a].num = v)
<1> DEFINE e == [f EXCEPT ![a].num = v]
           g == [e EXCEPT ![b].num = w]
<1>1. /\ e \in [1..n -> ItemRecord] /\ \A i \in 1..n \ {a} : e[i] = f[i]
      /\ Is(e[a], f[a].tpl, v, f[a].idx, f[a].equip, f[a].dead)
  BY NewNum
<1> HIDE DEF e
<1>2. /\ g \in [1..n -> ItemRecord] /\ \A i \in 1..n \ {b} : g[i] = e[i]
      /\ Is(g[b], e[b].tpl, w, e[b].idx, e[b].equip, e[b].dead)
  BY <1>1, NewNum
<1> HIDE DEF g
<1>3. \A i \in 1..n : Renumbered(g[i], f[i])
  <2> TAKE i \in 1..n
  <2>1. Is(e[i], f[i].tpl, e[i].num, f[i].idx, f[i].equip, f[i].dead)
    BY <1>1 DEF Is
  <2>2. Is(g[i], e[i].tpl, g[i].num, e[i].idx, e[i].equip, e[i].dead)
    BY <1>2 DEF Is
  <2> QED
    BY <2>1, <2>2 DEF Is, Renumbered
<1>4. g[b].num = w /\ (a # b => g[a].num = v)
  BY <1>1, <1>2 DEF Is
<1>5. \A i \in 1..n \ {a, b} : g[i] = f[i]
  BY <1>1, <1>2
<1>6. g = TwoSet(f, a, v, b, w)
  BY DEF g, e, TwoSet
<1> QED
  BY <1>2, <1>3, <1>4, <1>5, <1>6

\* The parts of what the loop works on.
LEMMA MergeParts ==
  ASSUME NEW n \in Nat, NEW s \in MergeStates(n)
  PROVE  /\ s.items \in [1..n -> ItemRecord] /\ s.out \in Seq(1..n) /\ s.crashed \in BOOLEAN
         /\ \A i \in 1..n : s.items[i].num \in Int /\ s.items[i].tpl \in Templates
         /\ s.out # <<>> => Len(s.out) \in DOMAIN s.out /\ Back(s) \in 1..n
<1>1. s.items \in [1..n -> ItemRecord] /\ s.out \in Seq(1..n) /\ s.crashed \in BOOLEAN
  BY DEF MergeStates
<1>2. ASSUME NEW i \in 1..n PROVE s.items[i].num \in Int /\ s.items[i].tpl \in Templates
  <2>1. s.items[i] \in ItemRecord
    BY <1>1
  <2> QED
    BY <2>1 DEF ItemRecord
<1>3. ASSUME s.out # <<>> PROVE Len(s.out) \in DOMAIN s.out /\ s.out[Len(s.out)] \in 1..n
  BY <1>1, <1>3
<1> QED
  BY <1>1, <1>2, <1>3 DEF Back

\* A round that passes over the item.
LEMMA RoundPasses ==
  ASSUME NEW n \in Nat, NEW s \in MergeStates(n), NEW id \in 1..n, s.crashed \/ s.items[id].num <= 0
  PROVE  RoundIs(n, s, id, s)
<1>1. Passed(s, s, id)
  BY DEF Passed
<1>2. \A i \in 1..n : Renumbered(s.items[i], s.items[i])
  BY DEF Renumbered, Is
<1> QED
  BY <1>1, <1>2 DEF RoundIs

\* A round that finds no cell before it.
LEMMA RoundBreaks ==
  ASSUME NEW n \in Nat, NEW s \in MergeStates(n), NEW id \in 1..n
  PROVE  RoundIs(n, s, id, [s EXCEPT !.crashed = TRUE])
<1> DEFINE r == [s EXCEPT !.crashed = TRUE]
<1>1. r.items = s.items /\ r.out = s.out /\ r.crashed = TRUE /\ r \in MergeStates(n)
  BY DEF MergeStates
<1>2. Passed(s, r, id)
  BY <1>1 DEF Passed
<1>3. \A i \in 1..n : Renumbered(r.items[i], s.items[i]) /\ r.items[i] = s.items[i]
  BY <1>1 DEF Renumbered, Is
<1> HIDE DEF r
<1>4. RoundIs(n, s, id, r)
  BY <1>1, <1>2, <1>3 DEF RoundIs
<1> QED
  BY <1>4 DEF r

\* What the loop works on, after an item is put back.
LEMMA PushIs ==
  ASSUME NEW n \in Nat, NEW s \in MergeStates(n), NEW id \in 1..n
  PROVE  LET p == [s EXCEPT !.out = Append(@, id)] IN
         /\ p = [items |-> s.items, out |-> Append(s.out, id), crashed |-> s.crashed]
         /\ p \in MergeStates(n) /\ p.items = s.items /\ p.out = Append(s.out, id) /\ p.crashed = s.crashed
<1> DEFINE a == Append(s.out, id)
           q == [items |-> s.items, out |-> a, crashed |-> s.crashed]
<1>1. a \in Seq(1..n)
  <2>1. s.out \in Seq(1..n)
    BY MergeParts
  <2> QED
    BY <2>1
<1>2. [s EXCEPT !.out = Append(@, id)] = [s EXCEPT !.out = a]
  OBVIOUS
<1> HIDE DEF a
<1>4. [s EXCEPT !.out = a] = q
  BY SMTT(30) DEF MergeStates
<1>3. q \in MergeStates(n) /\ q.items = s.items /\ q.out = a /\ q.crashed = s.crashed
  BY <1>1, MergeParts DEF MergeStates
<1> QED
  BY <1>2, <1>3, <1>4 DEF a

\* A round that puts the item back.
LEMMA RoundPushes ==
  ASSUME NEW n \in Nat, NEW s \in MergeStates(n), NEW id \in 1..n, s.items[id].num > 0
  PROVE  RoundIs(n, s, id, [s EXCEPT !.out = Append(@, id)])
<1> DEFINE r == [s EXCEPT !.out = Append(@, id)]
<1>1. r.items = s.items /\ r.out = Append(s.out, id) /\ r.crashed = s.crashed /\ r \in MergeStates(n)
  BY PushIs
<1> HIDE DEF r
<1>2. Pushed(s, r, id)
  BY <1>1 DEF Pushed
<1>3. \A i \in 1..n : Renumbered(r.items[i], s.items[i]) /\ r.items[i] = s.items[i]
  BY <1>1 DEF Renumbered, Is
<1>4. RoundIs(n, s, id, r)
  BY <1>1, <1>2, <1>3 DEF RoundIs
<1> QED
  BY <1>4 DEF r

\* A round that fills up the item put back last.
LEMMA RoundFills ==
  ASSUME NEW n \in Nat, NEW s \in MergeStates(n), NEW id \in 1..n, NEW r, NEW v \in Nat, NEW g \in [1..n -> ItemRecord],
         s.out # <<>>, s.items[Back(s)].tpl = s.items[id].tpl, StackNum[s.items[id].tpl] > 1,
         v > 0, v <= s.items[id].num,
         r = [items |-> g, out |-> IF v = s.items[id].num THEN s.out ELSE Append(s.out, id), crashed |-> s.crashed],
         \A i \in 1..n \ {Back(s), id} : g[i] = s.items[i],
         \A i \in 1..n : Renumbered(g[i], s.items[i]),
         Back(s) # id => g[Back(s)].num = s.items[Back(s)].num + v /\ g[id].num = s.items[id].num - v
  PROVE  RoundIs(n, s, id, r)
<1> DEFINE o == IF v = s.items[id].num THEN s.out ELSE Append(s.out, id)
<1>1. o \in Seq(1..n) /\ s.crashed \in BOOLEAN
  <2>1. s.out \in Seq(1..n) /\ s.crashed \in BOOLEAN
    BY MergeParts
  <2>2. Append(s.out, id) \in Seq(1..n)
    BY ONLY <2>1, id \in 1..n, n \in Nat
  <2> QED
    BY ONLY <2>1, <2>2 DEF o
<1>2. r = [items |-> g, out |-> o, crashed |-> s.crashed]
  OBVIOUS
<1> HIDE DEF o
<1>3. r.items = g /\ r.out = o /\ r.crashed = s.crashed /\ r \in MergeStates(n)
  BY ONLY <1>1, <1>2, g \in [1..n -> ItemRecord] DEF MergeStates
<1>4. Over(s, r, id, v)
  BY <1>3 DEF Over, o
<1>5. \A i \in 1..n : Renumbered(r.items[i], s.items[i])
  BY <1>3
<1>6. \A i \in 1..n : i # id /\ (s.out # <<>> => i # Back(s)) => r.items[i] = s.items[i]
  BY <1>3
<1>7. \E u \in Nat : Over(s, r, id, u)
  BY <1>4
<1> QED
  BY <1>3, <1>5, <1>6, <1>7 DEF RoundIs

\* A round of the loop.
LEMMA MergeStepDoes ==
  ASSUME set \in Settings, NEW n \in Nat, NEW s \in MergeStates(n), NEW id \in 1..n
  PROVE  RoundIs(n, s, id, MergeStep(s, id))
<1> DEFINE num == s.items[id].num
           stack == StackNum[s.items[id].tpl]
           b == Back(s)
           had == s.items[b].num
           room == stack - had
           push == [s EXCEPT !.out = Append(@, id)]
           fill == [s EXCEPT !.items[b].num = @ + num, !.items[id].num = 0]
           part == [push EXCEPT !.items[id].num = @ - room, !.items[b].num = stack]
           r == MergeStep(s, id)
<1>1. num \in Int /\ s.items[id].tpl \in Templates /\ s.items \in [1..n -> ItemRecord]
  BY MergeParts
<1>2. stack \in Nat
  BY <1>1, SettingFacts
<1>3. ASSUME s.out # <<>> PROVE b \in 1..n /\ had \in Int /\ room \in Int
  <2>1. b \in 1..n
    BY <1>3, MergeParts
  <2>2. had \in Int
    BY <2>1, MergeParts
  <2> QED
    BY <1>2, <2>1, <2>2
<1>4. r = IF s.crashed \/ num <= 0 THEN s
          ELSE IF stack <= 1 \/ num >= stack THEN push
          ELSE IF s.out = <<>> THEN [s EXCEPT !.crashed = TRUE]
          ELSE IF s.items[b].tpl # s.items[id].tpl \/ room <= 0 THEN push
          ELSE IF num <= room THEN fill
          ELSE part
  BY DEF MergeStep, Back
<1>5. ASSUME s.out # <<>>, s.items[b].tpl = s.items[id].tpl, room > 0, num > 0, stack > 1, num <= room
      PROVE  RoundIs(n, s, id, fill)
  <2> DEFINE v == had + num
             g == [s.items EXCEPT ![b].num = v, ![id].num = 0]
  <2>1. b \in 1..n /\ v \in Int /\ 0 \in Int
    BY <1>1, <1>3, <1>5
  <2>2. /\ g \in [1..n -> ItemRecord] /\ \A i \in 1..n \ {b, id} : g[i] = s.items[i]
        /\ \A i \in 1..n : Renumbered(g[i], s.items[i])
        /\ g[id].num = 0 /\ (b # id => g[b].num = v)
    <3> DEFINE old == s.items
    <3>1. g = TwoSet(old, b, v, id, 0)
      BY DEF TwoSet
    <3>2. n \in Nat /\ old \in [1..n -> ItemRecord] /\ b \in 1..n /\ id \in 1..n /\ v \in Int /\ 0 \in Int
      BY <1>1, <2>1
    <3> HIDE DEF g, v, b, old
    <3>3. /\ g \in [1..n -> ItemRecord] /\ \A i \in 1..n \ {b, id} : g[i] = old[i]
          /\ \A i \in 1..n : Renumbered(g[i], old[i])
          /\ g[id].num = 0 /\ (b # id => g[b].num = v)
      BY ONLY <3>1, <3>2, TwoNums
    <3> QED
      BY ONLY <3>3 DEF old
  <2>3. fill = [items |-> g, out |-> s.out, crashed |-> s.crashed]
    <3>1. s = [items |-> s.items, out |-> s.out, crashed |-> s.crashed]
      BY DEF MergeStates
    <3>2. fill = [s EXCEPT !.items = g]
      BY DEF MergeStates
    <3> HIDE DEF fill, g
    <3> QED
      BY <3>2 DEF MergeStates
  <2> HIDE DEF g
  <2>4. num = s.items[id].num /\ num - num = 0 /\ num \in Nat /\ num <= num
    BY <1>1, <1>5
  <2> QED
    BY <1>5, <2>2, <2>3, <2>4, RoundFills
<1>6. ASSUME s.out # <<>>, s.items[b].tpl = s.items[id].tpl, room > 0, num > 0, stack > 1, ~(num <= room)
      PROVE  RoundIs(n, s, id, part)
  <2> DEFINE w == num - room
             g == [s.items EXCEPT ![id].num = w, ![b].num = stack]
  <2>1. b \in 1..n /\ w \in Int /\ stack \in Int
    BY <1>1, <1>2, <1>3, <1>6
  <2>2. /\ g \in [1..n -> ItemRecord] /\ \A i \in 1..n \ {b, id} : g[i] = s.items[i]
        /\ \A i \in 1..n : Renumbered(g[i], s.items[i])
        /\ g[b].num = stack /\ (b # id => g[id].num = w)
    <3> DEFINE old == s.items
    <3>1. g = TwoSet(old, id, w, b, stack)
      BY DEF TwoSet
    <3>2. n \in Nat /\ old \in [1..n -> ItemRecord] /\ b \in 1..n /\ id \in 1..n /\ w \in Int /\ stack \in Int
      BY <1>1, <2>1
    <3> HIDE DEF g, w, b, stack, old
    <3>3. /\ g \in [1..n -> ItemRecord] /\ \A i \in 1..n \ {id, b} : g[i] = old[i]
          /\ \A i \in 1..n : Renumbered(g[i], old[i])
          /\ g[b].num = stack /\ (id # b => g[id].num = w)
      BY ONLY <3>1, <3>2, TwoNums
    <3> QED
      BY ONLY <3>3 DEF old
  <2>3. part = [items |-> g, out |-> Append(s.out, id), crashed |-> s.crashed]
    <3>1. push = [items |-> s.items, out |-> Append(s.out, id), crashed |-> s.crashed]
      BY PushIs
    <3> DEFINE one == [push EXCEPT !.items[id].num = @ - room]
               h == [s.items EXCEPT ![id].num = w]
    <3>2. part = [one EXCEPT !.items[b].num = stack] /\ g = [h EXCEPT ![b].num = stack]
      OBVIOUS
    <3> HIDE DEF push, part, g
    <3>3. one = [items |-> h, out |-> Append(s.out, id), crashed |-> s.crashed]
      <4> DEFINE a == Append(s.out, id)
                 q == [items |-> s.items, out |-> a, crashed |-> s.crashed]
      <4>1. push = q
        BY <3>1
      <4> HIDE DEF a, room
      <4>2. [q EXCEPT !.items[id].num = @ - room] = [items |-> [s.items EXCEPT ![id].num = num - room], out |-> a, crashed |-> s.crashed]
        OBVIOUS
      <4> QED
        BY <4>1, <4>2 DEF a
    <3> HIDE DEF one, h
    <3> QED
      BY <3>2, <3>3
  <2> HIDE DEF g
  <2>4. stack = had + room /\ room # num /\ room <= num /\ room \in Nat
    BY <1>1, <1>2, <1>3, <1>6
  <2> HIDE DEF room
  <2>5. part = [items |-> g, out |-> IF room = s.items[id].num THEN s.out ELSE Append(s.out, id), crashed |-> s.crashed]
    BY <2>3, <2>4
  <2> HIDE DEF part
  <2> QED
    BY <1>6, <2>2, <2>4, <2>5, RoundFills
<1>7. s.crashed \/ num <= 0 => RoundIs(n, s, id, s)
  BY RoundPasses
<1>8. num > 0 => RoundIs(n, s, id, push)
  BY RoundPushes
<1>9. RoundIs(n, s, id, [s EXCEPT !.crashed = TRUE])
  BY RoundBreaks
<1>10. (num <= 0 \/ num > 0) /\ (stack <= 1 \/ stack > 1) /\ (s.out # <<>> => room <= 0 \/ room > 0)
  BY <1>1, <1>2, <1>3
<1> HIDE DEF num, stack, b, room, push, fill, part, r
<1>11. RoundIs(n, s, id, r)
  BY <1>4, <1>5, <1>6, <1>7, <1>8, <1>9, <1>10
<1> QED
  BY <1>11 DEF r


-----------------------------------------------------------------------------
(* The rounds of the loop.                                                 *)

\* What the type invariant says of the items and of what the cells hold.
LEMMA ItemsAre ==
  ASSUME TypeOK
  PROVE  /\ Len(item) \in Nat /\ item \in [1..Len(item) -> ItemRecord] /\ DOMAIN item = 1..Len(item)
         /\ \A c \in DOMAIN slot : slot[c] # 0 => slot[c] \in 1..Len(item)
         /\ \A i \in 1..Len(item) : item[i].tpl \in Templates /\ item[i].num \in Int
         /\ Len(row) \in Nat /\ row \in [1..Len(row) -> RowRecord] /\ DOMAIN row = 1..Len(row)
         /\ loaded => Len(item) = Len(row)
<1>1. /\ Len(item) \in Nat /\ item \in [1..Len(item) -> ItemRecord] /\ DOMAIN item = 1..Len(item)
      /\ Len(row) \in Nat /\ row \in [1..Len(row) -> RowRecord] /\ DOMAIN row = 1..Len(row)
  BY DEF TypeOK
<1>2. ASSUME NEW c \in DOMAIN slot, slot[c] # 0 PROVE slot[c] \in 1..Len(item)
  <2>1. slot[c] \in {0} \union DOMAIN item
    BY DEF TypeOK
  <2> QED
    BY <1>1, <1>2, <2>1
<1>3. ASSUME NEW i \in 1..Len(item) PROVE item[i].tpl \in Templates /\ item[i].num \in Int
  <2>1. item[i] \in ItemRecord
    BY <1>1
  <2> QED
    BY <2>1 DEF ItemRecord
<1> QED
  BY <1>1, <1>2, <1>3 DEF TypeOK

\* The filled cells, in an order the sort may take them in.
LEMMA OrderIs ==
  ASSUME TypeOK, set \in Settings, NEW o \in Orders
  PROVE  /\ Cardinality(Filled) \in Nat /\ o \in [1..Cardinality(Filled) -> Filled] /\ Range(o) = Filled
         /\ \A i, j \in 1..Cardinality(Filled) : o[i] = o[j] => i = j
         /\ \A i \in 1..Cardinality(Filled) :
              o[i] \in DOMAIN slot /\ o[i] # 0 /\ slot[o[i]] # 0 /\ slot[o[i]] \in 1..Len(item)
         /\ \A c \in Filled : \E i \in 1..Cardinality(Filled) : o[i] = c
<1> DEFINE N == Cardinality(Filled)
<1>1. N \in Nat
  <2>1. IsFiniteSet(Filled)
    <3>1. IsFiniteSet(DOMAIN slot) /\ Filled \subseteq DOMAIN slot
      BY DEF TypeOK, Filled
    <3> QED
      BY <3>1, FS_Subset
  <2> QED
    BY <2>1, FS_CardinalityType
<1>2. o \in [1..N -> Filled] /\ Range(o) = Filled /\ \A i, j \in 1..N : i < j => Precedes(o[i], o[j])
  BY SMTT(30) DEF Orders
<1> HIDE DEF N
<1>3. ASSUME NEW i \in 1..N PROVE o[i] \in DOMAIN slot /\ o[i] # 0 /\ slot[o[i]] # 0 /\ slot[o[i]] \in 1..Len(item)
  <2>1. o[i] \in Filled
    BY <1>2
  <2>2. o[i] \in DOMAIN slot /\ o[i] # 0 /\ slot[o[i]] # 0
    BY <2>1 DEF Filled
  <2> QED
    BY <2>2, ItemsAre
<1>4. ASSUME NEW i \in 1..N, NEW j \in 1..N, i < j PROVE o[i] # o[j]
  <2> SUFFICES ASSUME o[i] = o[j] PROVE FALSE
    OBVIOUS
  <2> DEFINE id == slot[o[i]]
             type == ItemType[item[id].tpl]
  <2>1. id \in 1..Len(item) /\ o[i] \in DOMAIN slot
    BY <1>3
  <2>2. id \in Int /\ o[i] \in Int
    <3>1. DOMAIN slot \subseteq Int
      BY CellsAre, SMTT(30)
    <3> QED
      BY <2>1, <3>1
  <2>3. type \in Nat
    BY <2>1, ItemsAre, SettingFacts
  <2>4. (type < type \/ (type = type /\ id < id)) \/ (id = id /\ o[i] < o[i])
    BY <1>2, <1>4 DEF Precedes, Before
  <2> HIDE DEF type, id
  <2> QED
    BY <2>2, <2>3, <2>4
<1>5. \A i, j \in 1..N : o[i] = o[j] => i = j
  BY <1>1, <1>4
<1>6. \A c \in Filled : \E i \in 1..N : o[i] = c
  BY <1>2 DEF Range
<1> QED
  BY <1>1, <1>2, <1>3, <1>5, <1>6 DEF N

\* h is the work of the loop over the order o, round by round.
Rounds(h, o) ==
  /\ h \in [0..Cardinality(Filled) -> MergeStates(Len(item))]
  /\ h[0] = [items |-> item, out |-> <<>>, crashed |-> FALSE]
  /\ \A k \in 1..Cardinality(Filled) : RoundIs(Len(item), h[k - 1], slot[o[k]], h[k])

\* The loop ends with the work of its last round.
LEMMA MergedIs ==
  ASSUME TypeOK, set \in Settings, NEW o \in Orders
  PROVE  \E h : Rounds(h, o) /\ Merged(o) = h[Cardinality(Filled)]
<1> DEFINE N == Cardinality(Filled)
           V == MergeStates(Len(item))
           base == [items |-> item, out |-> <<>>, crashed |-> FALSE]
           m[k \in 0..N] == IF k = 0 THEN base ELSE MergeStep(m[k - 1], slot[o[k]])
           step == [k \in 1..N |-> [s \in V |-> MergeStep(s, slot[o[k]])]]
<1>1. Merged(o) = m[N]
  BY DEF Merged
<1>2. N \in Nat /\ \A k \in 1..N : slot[o[k]] \in 1..Len(item)
  BY OrderIs
<1>3. base \in V
  <2>1. <<>> \in Seq(1..Len(item))
    BY SMTT(30)
  <2>2. item \in [1..Len(item) -> ItemRecord]
    BY ItemsAre, ZenonT(30)
  <2> QED
    BY <2>1, <2>2 DEF MergeStates
<1>4. \A k \in 1..N : \A s \in V : RoundIs(Len(item), s, slot[o[k]], MergeStep(s, slot[o[k]]))
  BY <1>2, ItemsAre, MergeStepDoes
<1> HIDE DEF N, V, base
<1>5. \A k \in 1..N : \A s \in V : MergeStep(s, slot[o[k]]) \in V
  BY <1>4 DEF RoundIs, V
<1>6. step \in [1..N -> [V -> V]]
  BY <1>5
<1>7. PICK h : IsLoop(h, N, V, base, step)
  <2> HIDE DEF step
  <2> QED
    BY <1>2, <1>3, <1>6, LoopExists
<1>8. h \in [0..N -> V] /\ h[0] = base
  BY <1>7 DEF IsLoop
<1>9. ASSUME NEW k \in 1..N
      PROVE  h[k] = MergeStep(h[k - 1], slot[o[k]]) /\ h[k - 1] \in V
  <2>1. k - 1 \in 0..N
    BY <1>2
  <2>2. h[k] = step[k][h[k - 1]] /\ h[k - 1] \in V
    BY <1>7, <1>8, <2>1 DEF IsLoop
  <2> QED
    BY <2>2
<1>10. h = [k \in 0..N |-> IF k = 0 THEN base ELSE MergeStep(h[k - 1], slot[o[k]])]
  <2>1. \A k \in 0..N : k # 0 => k \in 1..N
    BY <1>2
  <2> HIDE DEF step
  <2> QED
    BY <1>8, <1>9, <2>1
<1>11. m = [k \in 0..N |-> IF k = 0 THEN base ELSE MergeStep(m[k - 1], slot[o[k]])]
  BY <1>10
<1> HIDE DEF m, step
<1>12. N \in 0..N /\ 0 \in 0..N
  BY <1>2
<1>13. m[0] = base /\ \A k \in 1..N : m[k] = MergeStep(m[k - 1], slot[o[k]])
  <2>1. \A k \in 1..N : k \in 0..N /\ k # 0
    BY <1>2
  <2> QED
    BY <1>11, <1>12, <2>1
<1> DEFINE C == {k \in 0..N : m[k] \in V}
<1>14. 0..N \subseteq C
  <2>1. 0 \in C
    BY <1>3, <1>12, <1>13
  <2>2. \A k \in 1..N : k - 1 \in C => k \in C
    <3> TAKE k \in 1..N
    <3>1. k \in 0..N
      BY <1>2
    <3> QED
      BY <1>5, <1>13, <3>1
  <2> HIDE DEF C
  <2> QED
    BY <1>2, <2>1, <2>2, RoundInduction
<1>15. m \in [0..N -> V]
  <2>1. \A k \in 0..N : m[k] \in V
    BY <1>14
  <2>2. m = [k \in 0..N |-> m[k]]
    BY ONLY <1>11
  <2> QED
    BY ONLY <2>1, <2>2
<1>16. \A k \in 1..N : RoundIs(Len(item), m[k - 1], slot[o[k]], m[k])
  <2> TAKE k \in 1..N
  <2>1. k - 1 \in 0..N
    BY <1>2
  <2>2. m[k - 1] \in V
    BY <1>15, <2>1
  <2> QED
    BY <1>4, <1>13, <2>2
<1>17. Rounds(m, o)
  BY <1>13, <1>15, <1>16 DEF Rounds, N, V, base
<1> QED
  BY <1>1, <1>17 DEF N

\* What is put back were items of the cells taken so far, the items of the cells
\* not yet taken are as they were, and all keep what they are but for the number.
Kept(s, o, k) ==
  /\ s \in MergeStates(Len(item))
  /\ \A i \in 1..Len(item) : Renumbered(s.items[i], item[i])
  /\ \A p \in DOMAIN s.out : \E j \in 1..k : s.out[p] = slot[o[j]]
  /\ \A i \in 1..Len(item) : (\A j \in 1..k : slot[o[j]] # i) => s.items[i] = item[i]

\* After every round of mergeSameItem only items it has met have changed.
LEMMA RoundsKeep ==
  ASSUME TypeOK, set \in Settings, NEW o \in Orders, NEW h, Rounds(h, o), NEW k \in 0..Cardinality(Filled)
  PROVE  Kept(h[k], o, k)
<1> DEFINE N == Cardinality(Filled)
           n == Len(item)
           C == {j \in 0..N : Kept(h[j], o, j)}
<1>1. N \in Nat /\ n \in Nat /\ \A j \in 1..N : slot[o[j]] \in 1..n
  BY OrderIs, ItemsAre
<1>2. /\ h \in [0..N -> MergeStates(n)] /\ h[0] = [items |-> item, out |-> <<>>, crashed |-> FALSE]
      /\ \A j \in 1..N : RoundIs(n, h[j - 1], slot[o[j]], h[j])
  BY DEF Rounds
<1>3. 0 \in C
  <2>0. 0 \in 0..N
    BY <1>1
  <2>1. 0 \in 0..N /\ h[0] \in MergeStates(n)
    <3> HIDE DEF N, n
    <3> QED
      BY ONLY <1>2, <2>0
  <2>2. h[0].items = item /\ h[0].out = <<>>
    BY <1>2
  <2>3. \A i \in 1..n : Renumbered(item[i], item[i])
    BY DEF Renumbered, Is
  <2>4. DOMAIN h[0].out = {}
    BY <2>2
  <2> QED
    BY <2>1, <2>2, <2>3, <2>4 DEF Kept
<1>4. ASSUME NEW j \in 1..N, j - 1 \in C PROVE j \in C
  <2> DEFINE s == h[j - 1]
             r == h[j]
             id == slot[o[j]]
  <2>1. Kept(s, o, j - 1) /\ RoundIs(n, s, id, r) /\ id \in 1..n /\ j \in 0..N
    BY <1>1, <1>2, <1>4
  <2> HIDE DEF s, r, n
  <2>2. s \in MergeStates(n) /\ r \in MergeStates(n)
    BY <2>1 DEF Kept, RoundIs, n
  <2>3. \A i \in 1..n : Renumbered(r.items[i], item[i])
    BY <2>1 DEF Kept, RoundIs, Renumbered, Is, n
  <2>4. \A q \in 1..j - 1 : q \in 1..j
    BY <1>1
  <2>5. r.out = s.out \/ r.out = Append(s.out, id)
    BY <2>1 DEF RoundIs, Passed, Pushed, Over
  <2>6. ASSUME NEW p \in DOMAIN r.out PROVE \E q \in 1..j : r.out[p] = slot[o[q]]
    <3>1. s.out \in Seq(1..n)
      BY <1>1, <2>2, MergeParts DEF n
    <3>2. r.out = Append(s.out, id) => (p \in DOMAIN s.out /\ r.out[p] = s.out[p]) \/ r.out[p] = id
      <4> HIDE DEF id
      <4> QED
        BY <2>6, <3>1
    <3>3. r.out[p] = id \/ (p \in DOMAIN s.out /\ r.out[p] = s.out[p])
      BY <2>5, <2>6, <3>2
    <3>4. j \in 1..j
      BY <1>1
    <3> QED
      BY <2>1, <2>4, <3>3, <3>4 DEF Kept, n
  <2>7. ASSUME NEW i \in 1..n, \A q \in 1..j : slot[o[q]] # i PROVE r.items[i] = item[i]
    <3>1. i # id
      <4>1. j \in 1..j
        BY <1>1
      <4> QED
        BY <2>7, <4>1
    <3>2. s.out # <<>> => i # Back(s)
      <4> SUFFICES ASSUME s.out # <<>>, i = Back(s) PROVE FALSE
        OBVIOUS
      <4>1. Len(s.out) \in DOMAIN s.out
        BY <1>1, <2>2, MergeParts DEF n
      <4>2. PICK q \in 1..j - 1 : s.out[Len(s.out)] = slot[o[q]]
        BY <2>1, <4>1 DEF Kept
      <4> QED
        BY <2>4, <2>7, <4>2 DEF Back
    <3>3. r.items[i] = s.items[i]
      BY <2>1, <3>1, <3>2 DEF RoundIs
    <3> QED
      BY <2>1, <2>4, <2>7, <3>3 DEF Kept, n
  <2>8. Kept(r, o, j)
    BY <2>2, <2>3, <2>6, <2>7 DEF Kept, n
  <2> QED
    BY <2>1, <2>8 DEF r
<1>5. 0..N \subseteq C
  <2> HIDE DEF C, N
  <2> QED
    BY <1>1, <1>3, <1>4, RoundInduction
<1> QED
  BY <1>5, SMTT(30)

\* An item that is in one cell is taken once.
LEMMA TakenOnce ==
  ASSUME TypeOK, set \in Settings, OneCellEach, NEW o \in Orders, NEW j \in 1..Cardinality(Filled),
         NEW q \in 1..Cardinality(Filled), slot[o[j]] = slot[o[q]]
  PROVE  j = q
<1>1. o[j] \in DOMAIN slot /\ o[q] \in DOMAIN slot /\ slot[o[j]] # 0
  BY OrderIs
<1>2. o[j] = o[q]
  BY <1>1 DEF OneCellEach
<1> QED
  BY <1>2, OrderIs

\* So nothing is put back twice, what is put back is not empty, and what was taken
\* and is not empty was put back, as long as the loop has not ended.
Single(s, o, k) ==
  /\ \A p, q \in DOMAIN s.out : s.out[p] = s.out[q] => p = q
  /\ \A p \in DOMAIN s.out : s.items[s.out[p]].num > 0
  /\ s.crashed \/ \A j \in 1..k : s.items[slot[o[j]]].num <= 0 \/ \E p \in DOMAIN s.out : s.out[p] = slot[o[j]]

\* What a round does when no item is in two cells: the item it takes was not put
\* back before.
RoundDoes(s, r, id) ==
  \/ Passed(s, r, id)
  \/ Pushed(s, r, id)
  \/ /\ s.out # <<>> /\ Back(s) # id
     /\ s.items[Back(s)].tpl = s.items[id].tpl /\ StackNum[s.items[id].tpl] > 1
     /\ \E v \in Nat :
          /\ v > 0 /\ v <= s.items[id].num
          /\ r.out = IF v = s.items[id].num THEN s.out ELSE Append(s.out, id)
          /\ r.items[Back(s)].num = s.items[Back(s)].num + v /\ r.items[id].num = s.items[id].num - v

\* In a bag with one cell each, a round of mergeSameItem meets an item for the first
\* time.
LEMMA RoundOnce ==
  ASSUME TypeOK, set \in Settings, OneCellEach, NEW o \in Orders, NEW h, Rounds(h, o), NEW k \in 1..Cardinality(Filled)
  PROVE  /\ \A p \in DOMAIN h[k - 1].out : h[k - 1].out[p] # slot[o[k]]
         /\ RoundDoes(h[k - 1], h[k], slot[o[k]])
         /\ h[k - 1].items[slot[o[k]]] = item[slot[o[k]]]
<1> DEFINE s == h[k - 1]
           id == slot[o[k]]
<1>1. Cardinality(Filled) \in Nat /\ Len(item) \in Nat /\ id \in 1..Len(item)
  BY OrderIs, ItemsAre
<1>2. k - 1 \in 0..Cardinality(Filled) /\ \A j \in 1..k - 1 : j \in 1..Cardinality(Filled) /\ j # k
  BY <1>1
<1>3. Kept(s, o, k - 1)
  BY <1>2, RoundsKeep
<1>4. \A j \in 1..k - 1 : slot[o[j]] # id
  BY <1>2, TakenOnce
<1>5. \A p \in DOMAIN s.out : s.out[p] # id
  BY <1>3, <1>4 DEF Kept
<1>6. s.items[id] = item[id]
  BY <1>1, <1>3, <1>4 DEF Kept
<1>7. RoundIs(Len(item), s, id, h[k])
  BY DEF Rounds
<1>8. s.out # <<>> => Back(s) # id
  <2>1. s \in MergeStates(Len(item))
    BY <1>3 DEF Kept
  <2>2. s.out # <<>> => Len(s.out) \in DOMAIN s.out
    BY <1>1, <2>1, MergeParts
  <2> QED
    BY <1>5, <2>2 DEF Back
<1> HIDE DEF s, id
<1>9. RoundDoes(s, h[k], id)
  BY <1>7, <1>8 DEF RoundIs, RoundDoes, Over
<1> QED
  BY <1>5, <1>6, <1>9 DEF s, id

\* In such a bag the loop of mergeSameItem puts no item back twice.
LEMMA RoundsSingle ==
  ASSUME TypeOK, set \in Settings, OneCellEach, NEW o \in Orders, NEW h, Rounds(h, o), NEW k \in 0..Cardinality(Filled)
  PROVE  Single(h[k], o, k)
<1> DEFINE N == Cardinality(Filled)
           n == Len(item)
           C == {j \in 0..N : Single(h[j], o, j)}
<1>1. N \in Nat /\ n \in Nat /\ \A j \in 1..N : slot[o[j]] \in 1..n
  BY OrderIs, ItemsAre
<1>2. h[0].out = <<>>
  BY DEF Rounds
<1>3. 0 \in C
  <2>1. 0 \in 0..N /\ DOMAIN h[0].out = {}
    BY <1>1, <1>2
  <2> QED
    BY <2>1 DEF Single
<1>4. ASSUME NEW j \in 1..N, j - 1 \in C PROVE j \in C
  <2> DEFINE s == h[j - 1]
             r == h[j]
             id == slot[o[j]]
  <2>1. /\ Single(s, o, j - 1) /\ RoundDoes(s, r, id) /\ RoundIs(n, s, id, r)
        /\ \A p \in DOMAIN s.out : s.out[p] # id
    <3>1. Single(s, o, j - 1)
      BY <1>4
    <3>2. RoundDoes(s, r, id) /\ \A p \in DOMAIN s.out : s.out[p] # id
      BY RoundOnce
    <3>3. RoundIs(n, s, id, r)
      BY DEF Rounds
    <3> QED
      BY <3>1, <3>2, <3>3
  <2>2. Kept(s, o, j - 1) /\ j \in 0..N /\ j - 1 \in 0..N
    <3>1. j \in 0..N /\ j - 1 \in 0..N
      BY <1>1
    <3> QED
      BY <3>1, RoundsKeep
  <2>3. id \in 1..n
    BY <1>1
  <2>4. \A q \in 1..j : q = j \/ (q \in 1..j - 1 /\ q \in 1..N)
    BY <1>1
  <2>5. \A q \in 1..j - 1 : slot[o[q]] # id /\ slot[o[q]] \in 1..n
    <3> TAKE q \in 1..j - 1
    <3>1. q \in 1..N /\ q # j
      BY <1>1
    <3> QED
      BY <1>1, <3>1, TakenOnce
  <2> DEFINE back == Back(s)
  <2>6. /\ s.out \in Seq(1..n) /\ \A i \in 1..n : s.items[i].num \in Int /\ r.items[i].num \in Int
        /\ s.out # <<>> => Len(s.out) \in DOMAIN s.out /\ back \in 1..n
    <3>1. s \in MergeStates(n) /\ r \in MergeStates(n)
      BY <2>1, <2>2 DEF Kept, RoundIs
    <3> QED
      BY <1>1, <3>1, MergeParts
  <2>7. \A p \in DOMAIN s.out : s.out[p] \in 1..n
    BY <2>6
  <2> DEFINE taken(q) == slot[o[q]]
  <2>8. \A i \in 1..n : i # id /\ (s.out # <<>> => i # back) => r.items[i] = s.items[i]
    BY <2>1 DEF RoundIs
  <2>9. s.crashed => r.crashed
    BY <2>1 DEF RoundIs
  <2>10. s.crashed \/ \A q \in 1..j - 1 : s.items[taken(q)].num <= 0 \/ \E p \in DOMAIN s.out : s.out[p] = taken(q)
    BY <2>1 DEF Single
  <2>11. \A p \in DOMAIN s.out : s.items[s.out[p]].num > 0
    BY <2>1 DEF Single
  <2>12. \A p, q \in DOMAIN s.out : s.out[p] = s.out[q] => p = q
    BY <2>1 DEF Single
  <2>13. \A q \in 1..j - 1 : taken(q) # id /\ taken(q) \in 1..n
    BY <2>5
  <2>14. taken(j) = id
    OBVIOUS
  <2> HIDE DEF s, r, id, back, taken, n, N
  \* What the round does to what is put back.
  <2>15. /\ r.out = s.out \/ r.out = Append(s.out, id)
         /\ r.out = s.out => r.crashed \/ r.items[id].num <= 0
         /\ r.out = Append(s.out, id) => r.items[id].num > 0
         /\ \A i \in 1..n : i # id /\ s.items[i].num > 0 => r.items[i].num > 0
         /\ \A i \in 1..n : i # id /\ s.items[i].num <= 0 /\ (s.out # <<>> => i # back) => r.items[i].num <= 0
    <3>1. r.out = s.out => r.out # Append(s.out, id)
      <4>1. Len(Append(s.out, id)) = Len(s.out) + 1 /\ Len(s.out) \in Nat
        BY <2>3, <2>6
      <4> QED
        BY <4>1
    <3>2. CASE Passed(s, r, id)
      BY <3>1, <3>2 DEF Passed
    <3>3. CASE Pushed(s, r, id)
      BY <3>1, <3>3 DEF Pushed
    <3>4. CASE /\ s.out # <<>> /\ back # id
               /\ \E v \in Nat :
                    /\ v > 0 /\ v <= s.items[id].num
                    /\ r.out = IF v = s.items[id].num THEN s.out ELSE Append(s.out, id)
                    /\ r.items[back].num = s.items[back].num + v /\ r.items[id].num = s.items[id].num - v
      <4>1. PICK v \in Nat :
              /\ v > 0 /\ v <= s.items[id].num
              /\ r.out = IF v = s.items[id].num THEN s.out ELSE Append(s.out, id)
              /\ r.items[back].num = s.items[back].num + v /\ r.items[id].num = s.items[id].num - v
        BY <3>4
      <4>2. s.items[id].num \in Int /\ back \in 1..n /\ s.items[back].num \in Int
        BY <2>3, <2>6, <3>4
      <4>3. v = s.items[id].num => r.items[id].num = 0 /\ r.out = s.out
        BY <4>1, <4>2
      <4>4. v # s.items[id].num => r.items[id].num > 0 /\ r.out = Append(s.out, id)
        BY <4>1, <4>2
      <4>5. s.items[back].num > 0 => r.items[back].num > 0
        BY <4>1, <4>2
      <4>6. \A i \in 1..n : i # id /\ s.items[i].num > 0 => r.items[i].num > 0
        BY <2>8, <4>5
      <4>7. \A i \in 1..n : i # id /\ s.items[i].num <= 0 /\ (s.out # <<>> => i # back) => r.items[i].num <= 0
        BY <2>8
      <4> QED
        BY <3>1, <4>3, <4>4, <4>6, <4>7
    <3> QED
      BY <2>1, <3>2, <3>3, <3>4 DEF RoundDoes, back
  <2>16. /\ DOMAIN s.out \subseteq DOMAIN r.out /\ \A p \in DOMAIN s.out : r.out[p] = s.out[p]
         /\ \A p \in DOMAIN r.out : p \in DOMAIN s.out \/ (r.out = Append(s.out, id) /\ p = Len(s.out) + 1 /\ r.out[p] = id)
         /\ r.out = Append(s.out, id) => Len(s.out) + 1 \in DOMAIN r.out /\ r.out[Len(s.out) + 1] = id
    <3>1. CASE r.out = s.out
      <4>1. r.out # Append(s.out, id)
        <5>1. Len(Append(s.out, id)) = Len(s.out) + 1 /\ Len(s.out) \in Nat
          BY <2>3, <2>6
        <5> QED
          BY <3>1, <5>1
      <4> QED
        BY <3>1, <4>1
    <3>2. CASE r.out = Append(s.out, id)
      BY <2>3, <2>6, <3>2
    <3> QED
      BY <2>15, <3>1, <3>2
  <2>17. \A p, q \in DOMAIN r.out : r.out[p] = r.out[q] => p = q
    BY <2>1, <2>12, <2>16
  <2>18. \A p \in DOMAIN r.out : r.items[r.out[p]].num > 0
    <3> TAKE p \in DOMAIN r.out
    <3>1. CASE p \in DOMAIN s.out
      <4>1. r.out[p] = s.out[p] /\ s.out[p] \in 1..n /\ s.out[p] # id /\ s.items[s.out[p]].num > 0
        BY <2>1, <2>7, <2>11, <2>16, <3>1
      <4> QED
        BY <2>15, <4>1
    <3>2. CASE r.out = Append(s.out, id) /\ r.out[p] = id
      BY <2>15, <3>2
    <3> QED
      BY <2>16, <3>1, <3>2
  <2>19. r.crashed \/ \A q \in 1..j : r.items[taken(q)].num <= 0 \/ \E p \in DOMAIN r.out : r.out[p] = taken(q)
    <3> SUFFICES ASSUME ~r.crashed, NEW q \in 1..j, \A p \in DOMAIN r.out : r.out[p] # taken(q)
                 PROVE  r.items[taken(q)].num <= 0
      OBVIOUS
    <3>1. CASE q = j
      BY <2>14, <2>15, <2>16, <3>1
    <3>2. CASE q # j
      <4>1. q \in 1..j - 1
        BY <2>4, <3>2
      <4>2. \A p \in DOMAIN s.out : s.out[p] # taken(q)
        BY <2>16
      <4>3. s.items[taken(q)].num <= 0
        BY <2>9, <2>10, <4>1, <4>2
      <4>4. s.out # <<>> => taken(q) # back
        BY <2>6, <4>2 DEF Back, back
      <4> QED
        BY <2>13, <2>15, <4>1, <4>3, <4>4
    <3> QED
      BY <3>1, <3>2
  <2>20. Single(r, o, j)
    BY <2>17, <2>18, <2>19 DEF Single, taken
  <2> QED
    BY <2>2, <2>20 DEF r, N
<1>5. 0..N \subseteq C
  <2> HIDE DEF C, N
  <2> QED
    BY <1>1, <1>3, <1>4, RoundInduction
<1> QED
  BY <1>5, SMTT(30)

-----------------------------------------------------------------------------
(* The units of a template.                                                *)

\* What the items of S hold of a template, by the template of their rows.
Part(S, f, t) == [i \in DOMAIN row |-> IF i \in S /\ row[i].tpl = t THEN f[i].num ELSE 0]
Share(S, f, t) == SumFunction(Part(S, f, t))

\* Such a part is a function to numbers.
LEMMA PartIs ==
  ASSUME NEW n \in Nat, DOMAIN row = 1..n, NEW f \in [1..n -> ItemRecord], NEW S, NEW t
  PROVE  /\ IsFiniteSet(1..n) /\ Part(S, f, t) \in [1..n -> Int]
         /\ \A i \in 1..n : f[i].num \in Int /\ Part(S, f, t)[i] = IF i \in S /\ row[i].tpl = t THEN f[i].num ELSE 0
<1>1. IsFiniteSet(1..n)
  BY FS_Interval
<1>2. \A i \in 1..n : f[i].num \in Int
  BY DEF ItemRecord
<1> QED
  BY <1>1, <1>2 DEF Part

\* The same numbers are the same share.
LEMMA ShareSame ==
  ASSUME NEW n \in Nat, DOMAIN row = 1..n, NEW f, NEW g, NEW S, NEW t,
         \A i \in 1..n : i \in S => f[i].num = g[i].num
  PROVE  Share(S, f, t) = Share(S, g, t)
<1>1. Part(S, f, t) = Part(S, g, t)
  BY DEF Part
<1> QED
  BY <1>1 DEF Share

\* What goes from one item of S to another of its template leaves the share.
Moved(n, f, g, S, a, b) ==
  /\ n \in Nat /\ DOMAIN row = 1..n /\ f \in [1..n -> ItemRecord] /\ g \in [1..n -> ItemRecord]
  /\ a \in 1..n /\ b \in 1..n /\ a # b /\ a \in S /\ b \in S /\ row[a].tpl = row[b].tpl
  /\ \A i \in 1..n \ {a, b} : f[i].num = g[i].num
  /\ f[a].num + f[b].num = g[a].num + g[b].num

\* The sum over S does not change with it (a merge, a stack onto a stack).
LEMMA ShareMoves ==
  ASSUME NEW n, NEW f, NEW g, NEW S, NEW a, NEW b, Moved(n, f, g, S, a, b), NEW t
  PROVE  Share(S, f, t) = Share(S, g, t)
<1> DEFINE T == 1..n
           F == Part(S, f, t)
           G == Part(S, g, t)
<1>9. /\ n \in Nat /\ DOMAIN row = 1..n /\ f \in [1..n -> ItemRecord] /\ g \in [1..n -> ItemRecord]
      /\ a \in 1..n /\ b \in 1..n /\ a # b /\ a \in S /\ b \in S /\ row[a].tpl = row[b].tpl
      /\ \A i \in 1..n \ {a, b} : f[i].num = g[i].num
      /\ f[a].num + f[b].num = g[a].num + g[b].num
  BY DEF Moved
<1>0. IsFiniteSet(T) /\ a \in T /\ b \in T
  BY <1>9, PartIs
<1>1. /\ F \in [T -> Int]
      /\ \A i \in T : f[i].num \in Int /\ F[i] = IF i \in S /\ row[i].tpl = t THEN f[i].num ELSE 0
  BY <1>9, PartIs
<1>7. /\ G \in [T -> Int]
      /\ \A i \in T : g[i].num \in Int /\ G[i] = IF i \in S /\ row[i].tpl = t THEN g[i].num ELSE 0
  BY <1>9, PartIs
<1>8. \A i \in T \ {a, b} : f[i].num = g[i].num
  BY <1>9
<1> HIDE DEF F, G, T
<1>2. \A i \in T \ {a, b} : F[i] = G[i]
  BY <1>1, <1>7, <1>8
<1>3. (G[a] - F[a]) + (G[b] - F[b]) = 0
  <2>1. /\ F[a] = IF row[b].tpl = t THEN f[a].num ELSE 0
        /\ F[b] = IF row[b].tpl = t THEN f[b].num ELSE 0
        /\ G[a] = IF row[b].tpl = t THEN g[a].num ELSE 0
        /\ G[b] = IF row[b].tpl = t THEN g[b].num ELSE 0
    BY <1>0, <1>1, <1>7, <1>9
  <2>2. f[a].num \in Int /\ f[b].num \in Int /\ g[a].num \in Int /\ g[b].num \in Int
    BY <1>0, <1>1, <1>7
  <2> QED
    BY <1>9, <2>1, <2>2
<1>4. SumFunction(G) - SumFunction(F) = (G[a] - F[a]) + (G[b] - F[b])
  <2>1. Shifted(T, F, G, a, b)
    BY <1>0, <1>1, <1>2, <1>7, <1>9 DEF Shifted
  <2> QED
    BY <2>1, SumShift
<1>5. SumFunction(G) \in Int /\ SumFunction(F) \in Int
  BY <1>0, <1>1, <1>7, SumOfIntegers
<1>6. SumFunction(G) = SumFunction(F)
  BY <1>3, <1>4, <1>5
<1> QED
  BY <1>6 DEF Share, F, G

\* What stacks is what its row says.
Chain == \A i \in DOMAIN item : StackNum[item[i].tpl] # 0 => item[i].tpl = row[i].tpl

\* The items in the cells are items the role has.
CellsInMap == \A c \in DOMAIN slot : slot[c] # 0 => slot[c] \in inMap

\* Two items that a round fills one of with the other are of one row template,
\* and the role has both.
LEMMA RoundOfOneKind ==
  ASSUME TypeOK, set \in Settings, loaded, OneCellEach, Chain, NEW o \in Orders, NEW h, Rounds(h, o),
         NEW k \in 1..Cardinality(Filled), h[k - 1].out # <<>>,
         h[k - 1].items[Back(h[k - 1])].tpl = h[k - 1].items[slot[o[k]]].tpl,
         StackNum[h[k - 1].items[slot[o[k]]].tpl] > 1
  PROVE  /\ slot[o[k]] \in 1..Len(item) /\ Back(h[k - 1]) \in 1..Len(item)
         /\ row[Back(h[k - 1])].tpl = row[slot[o[k]]].tpl
         /\ \E c \in DOMAIN slot : slot[c] # 0 /\ slot[c] = slot[o[k]]
         /\ \E c \in DOMAIN slot : slot[c] # 0 /\ slot[c] = Back(h[k - 1])
<1> DEFINE s == h[k - 1]
           id == slot[o[k]]
           back == Back(s)
           n == Len(item)
           N == Cardinality(Filled)
<1>1. /\ N \in Nat /\ n \in Nat /\ DOMAIN item = 1..n
      /\ \A j \in 1..N : o[j] \in DOMAIN slot /\ slot[o[j]] # 0 /\ slot[o[j]] \in 1..n
  BY OrderIs, ItemsAre
<1>2. k - 1 \in 0..N
  BY <1>1
<1>3. Kept(s, o, k - 1)
  BY <1>2, RoundsKeep
<1>4. Len(s.out) \in DOMAIN s.out /\ back \in 1..n
  <2>1. s \in MergeStates(n)
    BY <1>3 DEF Kept
  <2> QED
    BY <1>1, <2>1, MergeParts
<1>5. PICK j \in 1..k - 1 : back = slot[o[j]]
  BY <1>3, <1>4 DEF Kept, Back
<1>6. j \in 1..N
  BY <1>1, <1>5
<1>7. s.items[back].tpl = item[back].tpl /\ s.items[id].tpl = item[id].tpl
  <2>1. \A i \in 1..n : s.items[i].tpl = item[i].tpl
    BY <1>3 DEF Kept, Renumbered, Is
  <2> QED
    BY <1>1, <1>4, <2>1
<1>8. StackNum[item[id].tpl] # 0 /\ item[back].tpl = item[id].tpl
  <2>1. StackNum[item[id].tpl] > 1 /\ item[back].tpl = item[id].tpl
    BY <1>7
  <2> QED
    BY <2>1
<1>9. row[back].tpl = row[id].tpl
  BY <1>1, <1>4, <1>8, SMTT(30) DEF Chain
<1> QED
  BY <1>1, <1>4, <1>5, <1>6, <1>9

\* The loop leaves the units the role has of every template.
LEMMA RoundsConserve ==
  ASSUME TypeOK, set \in Settings, loaded, OneCellEach, Chain, CellsInMap, NEW o \in Orders, NEW h, Rounds(h, o),
         NEW t, NEW k \in 0..Cardinality(Filled)
  PROVE  Share(inMap, h[k].items, t) = Units(t)
<1> DEFINE N == Cardinality(Filled)
           n == Len(item)
           C == {j \in 0..N : Share(inMap, h[j].items, t) = Units(t)}
<1>1. N \in Nat /\ n \in Nat /\ DOMAIN row = 1..n
  BY OrderIs, ItemsAre
<1>2. 0 \in C
  <2>1. h[0].items = item /\ 0 \in 0..N
    BY <1>1 DEF Rounds
  <2> QED
    BY <2>1 DEF Share, Part, Units
<1>3. ASSUME NEW j \in 1..N, j - 1 \in C PROVE j \in C
  <2> DEFINE s == h[j - 1]
             r == h[j]
             id == slot[o[j]]
             back == Back(s)
  <2>1. j - 1 \in 0..N /\ j \in 0..N
    BY <1>1
  <2>2. RoundIs(n, s, id, r) /\ RoundDoes(s, r, id)
    BY RoundOnce DEF Rounds
  <2>3. Share(inMap, s.items, t) = Units(t) /\ Kept(s, o, j - 1)
    BY <1>3, <2>1, RoundsKeep
  <2>4. s.items \in [1..n -> ItemRecord] /\ r.items \in [1..n -> ItemRecord]
    <3>1. s \in MergeStates(n) /\ r \in MergeStates(n)
      BY <2>2, <2>3 DEF Kept, RoundIs
    <3> QED
      BY <1>1, <3>1, MergeParts
  <2>5. ASSUME s.out # <<>>, s.items[back].tpl = s.items[id].tpl, StackNum[s.items[id].tpl] > 1
        PROVE  /\ id \in 1..n /\ back \in 1..n /\ row[back].tpl = row[id].tpl
               /\ id \in inMap /\ back \in inMap
    <3>1. /\ id \in 1..n /\ back \in 1..n /\ row[back].tpl = row[id].tpl
          /\ \E c \in DOMAIN slot : slot[c] # 0 /\ slot[c] = id
          /\ \E c \in DOMAIN slot : slot[c] # 0 /\ slot[c] = back
      BY <2>5, RoundOfOneKind
    <3> HIDE DEF id, back
    <3> QED
      BY <3>1 DEF CellsInMap
  <2>6. \A i \in 1..n : i # id /\ (s.out # <<>> => i # back) => r.items[i] = s.items[i]
    BY <2>2 DEF RoundIs
  <2> HIDE DEF s, r, id, back, n
  <2>7. ASSUME Passed(s, r, id) \/ Pushed(s, r, id) PROVE Share(inMap, r.items, t) = Units(t)
    <3>1. r.items = s.items
      BY <2>7 DEF Passed, Pushed
    <3> QED
      BY <2>3, <3>1
  <2>8. ASSUME s.out # <<>>, back # id, s.items[back].tpl = s.items[id].tpl, StackNum[s.items[id].tpl] > 1,
               NEW v \in Nat,
               r.items[back].num = s.items[back].num + v, r.items[id].num = s.items[id].num - v
        PROVE  Share(inMap, r.items, t) = Units(t)
    <3>1. /\ id \in 1..n /\ back \in 1..n /\ row[back].tpl = row[id].tpl
          /\ id \in inMap /\ back \in inMap
      BY <2>5, <2>8
    <3>2. s.items[back].num + s.items[id].num = r.items[back].num + r.items[id].num
      <4>1. s.items[back].num \in Int /\ s.items[id].num \in Int
        BY <1>1, <2>4, <3>1, PartIs
      <4> QED
        BY <2>8, <4>1
    <3>3. \A i \in 1..n \ {back, id} : s.items[i].num = r.items[i].num
      BY <2>6
    <3>4. Share(inMap, s.items, t) = Share(inMap, r.items, t)
      <4> DEFINE f == s.items
                 g == r.items
      <4>1. f \in [1..n -> ItemRecord] /\ g \in [1..n -> ItemRecord] /\ n \in Nat /\ DOMAIN row = 1..n /\ back # id
        BY <1>1, <2>4, <2>8 DEF n
      <4>2. f[back].num + f[id].num = g[back].num + g[id].num /\ \A i \in 1..n \ {back, id} : f[i].num = g[i].num
        BY <3>2, <3>3
      <4> HIDE DEF f, g
      <4>3. Moved(n, f, g, inMap, back, id)
        BY <3>1, <4>1, <4>2 DEF Moved
      <4>4. Share(inMap, f, t) = Share(inMap, g, t)
        BY <4>3, ShareMoves
      <4> QED
        BY <4>4 DEF f, g
    <3> QED
      BY <2>3, <3>4
  <2>9. Share(inMap, r.items, t) = Units(t)
    BY <2>2, <2>7, <2>8 DEF RoundDoes, back
  <2> QED
    BY <2>1, <2>9 DEF r
<1>4. 0..N \subseteq C
  <2> HIDE DEF C, N
  <2> QED
    BY <1>1, <1>2, <1>3, RoundInduction, SMTT(30)
<1> QED
  BY <1>4

\* What the items that the sorted bag will show have more than they had.
Visible(s) == {s.out[q] : q \in {p \in DOMAIN s.out : p < Cells}}
Gains(s, t) == [i \in DOMAIN row |-> IF i \in Visible(s) /\ row[i].tpl = t THEN s.items[i].num - item[i].num ELSE 0]

\* The gains are a function to numbers.
LEMMA GainsAre ==
  ASSUME TypeOK, loaded, NEW s \in MergeStates(Len(item)), NEW t
  PROVE  /\ IsFiniteSet(1..Len(item)) /\ Gains(s, t) \in [1..Len(item) -> Int]
         /\ \A i \in 1..Len(item) :
              Gains(s, t)[i] = IF i \in Visible(s) /\ row[i].tpl = t THEN s.items[i].num - item[i].num ELSE 0
<1>1. IsFiniteSet(1..Len(item))
  BY ItemsAre, FS_Interval
<1>2. DOMAIN row = 1..Len(item) /\ Len(item) \in Nat /\ \A i \in 1..Len(item) : item[i].num \in Int
  BY ItemsAre
<1>3. \A i \in 1..Len(item) : s.items[i].num \in Int
  BY <1>2, MergeParts
<1> QED
  BY <1>1, <1>2, <1>3 DEF Gains

\* What a longer row of items shows.
LEMMA VisibleGrows ==
  ASSUME set \in Settings, NEW n \in Nat, NEW s \in MergeStates(n), NEW r \in MergeStates(n), NEW id \in 1..n,
         r.out = Append(s.out, id)
  PROVE  /\ Visible(s) \subseteq Visible(r) /\ Visible(r) \subseteq Visible(s) \union {id}
         /\ id \in Visible(r) /\ id \notin Visible(s) /\ s.out # <<>> => Back(s) \in Visible(s)
<1>1. s.out \in Seq(1..n) /\ Cells \in Nat
  BY MergeParts, SettingFacts
<1> DEFINE a == s.out
           L == Len(a)
<1>2. /\ L \in Nat /\ DOMAIN a = 1..L /\ DOMAIN r.out = 1..L + 1
      /\ \A p \in 1..L : r.out[p] = a[p] /\ p \in 1..L + 1
      /\ \A p \in 1..L + 1 : p \in 1..L \/ (p = L + 1 /\ r.out[p] = id)
  BY <1>1
<1>3. ASSUME id \in Visible(r), id \notin Visible(s), s.out # <<>> PROVE Back(s) \in Visible(s)
  <2>1. PICK p \in 1..L + 1 : r.out[p] = id /\ p < Cells
    BY <1>2, <1>3 DEF Visible
  <2>2. p \notin 1..L
    <3> SUFFICES ASSUME p \in 1..L PROVE FALSE
      OBVIOUS
    <3>1. a[p] = id
      BY <1>2, <2>1
    <3> QED
      BY <1>2, <1>3, <2>1, <3>1 DEF Visible
  <2>3. L + 1 < Cells
    BY <1>2, <2>1, <2>2
  <2>4. L < Cells /\ L \in 1..L
    <3>1. L # 0
      BY <1>1, <1>3
    <3> QED
      BY <1>1, <1>2, <2>3, <3>1
  <2> QED
    BY <1>2, <2>4 DEF Back, Visible
<1>4. Visible(s) \subseteq Visible(r)
  BY <1>2 DEF Visible
<1>5. Visible(r) \subseteq Visible(s) \union {id}
  BY <1>2 DEF Visible
<1> QED
  BY <1>3, <1>4, <1>5

\* The items that the sorted bag shows have together no less than they had.
LEMMA RoundsGain ==
  ASSUME TypeOK, set \in Settings, loaded, OneCellEach, Chain, NEW o \in Orders, NEW h, Rounds(h, o),
         NEW t, NEW k \in 0..Cardinality(Filled)
  PROVE  SumFunction(Gains(h[k], t)) \in Int /\ SumFunction(Gains(h[k], t)) >= 0
<1> DEFINE N == Cardinality(Filled)
           n == Len(item)
           C == {j \in 0..N : SumFunction(Gains(h[j], t)) >= 0}
<1>1. N \in Nat /\ n \in Nat /\ DOMAIN row = 1..n /\ IsFiniteSet(1..n) /\ \A i \in 1..n : item[i].num \in Int
  <2>1. N \in Nat
    BY OrderIs, SMTT(30)
  <2>2. n \in Nat /\ DOMAIN row = 1..n /\ \A i \in 1..n : item[i].num \in Int
    BY ItemsAre
  <2>3. IsFiniteSet(1..n)
    BY <2>2, FS_Interval
  <2> QED
    BY <2>1, <2>2, <2>3
<1>2. \A j \in 0..N : h[j] \in MergeStates(n)
  BY DEF Rounds
<1>3. \A j \in 0..N : SumFunction(Gains(h[j], t)) \in Int
  BY <1>1, <1>2, GainsAre, SumOfIntegers
<1>4. 0 \in C
  <2>1. h[0].items = item /\ h[0].out = <<>> /\ 0 \in 0..N
    BY <1>1 DEF Rounds
  <2>2. Visible(h[0]) = {}
    BY <2>1 DEF Visible
  <2> DEFINE zero == [i \in 1..n |-> 0]
  <2>3. Gains(h[0], t) = zero
    BY <1>1, <2>2 DEF Gains
  <2>4. zero \in [1..n -> Nat]
    OBVIOUS
  <2>5. SumFunction(zero) \in Nat
    <3> HIDE DEF zero
    <3> QED
      BY <1>1, <2>4, SumOfNaturals
  <2> QED
    BY <2>1, <2>3, <2>5
<1>5. ASSUME NEW j \in 1..N, j - 1 \in C PROVE j \in C
  <2> DEFINE s == h[j - 1]
             r == h[j]
             id == slot[o[j]]
             back == Back(s)
             T == 1..n
             S == Gains(s, t)
             R == Gains(r, t)
  <2>1. j - 1 \in 0..N /\ j \in 0..N
    BY <1>1
  <2>2. RoundIs(n, s, id, r) /\ RoundDoes(s, r, id) /\ s.items[id] = item[id] /\ \A p \in DOMAIN s.out : s.out[p] # id
    <3>1. RoundIs(n, s, id, r)
      BY DEF Rounds
    <3> QED
      BY <3>1, RoundOnce
  <2>3. SumFunction(S) >= 0 /\ SumFunction(S) \in Int /\ SumFunction(R) \in Int
    BY <1>3, <1>5, <2>1
  <2>4. s \in MergeStates(n) /\ r \in MergeStates(n)
    BY <1>2, <2>1
  <2>5. \A i \in T : s.items[i].num \in Int /\ r.items[i].num \in Int
    BY <1>1, <2>4, MergeParts
  <2>6. /\ IsFiniteSet(T) /\ S \in [T -> Int] /\ R \in [T -> Int]
        /\ \A i \in T : S[i] = IF i \in Visible(s) /\ row[i].tpl = t THEN s.items[i].num - item[i].num ELSE 0
        /\ \A i \in T : R[i] = IF i \in Visible(r) /\ row[i].tpl = t THEN r.items[i].num - item[i].num ELSE 0
    BY <2>4, GainsAre
  <2>7. id \in T
    BY OrderIs
  <2>8. id \notin Visible(s)
    BY <2>2 DEF Visible
  <2>9. r.out = Append(s.out, id) =>
          /\ Visible(s) \subseteq Visible(r) /\ Visible(r) \subseteq Visible(s) \union {id}
          /\ id \in Visible(r) /\ id \notin Visible(s) /\ s.out # <<>> => Back(s) \in Visible(s)
    <3> SUFFICES ASSUME r.out = Append(s.out, id)
                 PROVE  /\ Visible(s) \subseteq Visible(r) /\ Visible(r) \subseteq Visible(s) \union {id}
                        /\ id \in Visible(r) /\ id \notin Visible(s) /\ s.out # <<>> => Back(s) \in Visible(s)
      OBVIOUS
    <3> HIDE DEF s, r, id, n
    <3> QED
      BY <1>1, <2>4, <2>7, VisibleGrows
  <2>10. r.out = s.out => Visible(r) = Visible(s)
    BY DEF Visible
  <2>11. s.out # <<>> /\ s.items[back].tpl = s.items[id].tpl /\ StackNum[s.items[id].tpl] > 1 =>
           back \in T /\ row[back].tpl = row[id].tpl
    BY RoundOfOneKind
  <2>12. \A i \in T : i # id /\ (s.out # <<>> => i # back) => r.items[i] = s.items[i]
    BY <2>2 DEF RoundIs
  <2>13. \A i \in T : item[i].num \in Int
    BY <1>1
  <2> HIDE DEF s, r, id, back, n, T, S, R
  <2>14. ASSUME Passed(s, r, id) \/ Pushed(s, r, id) PROVE SumFunction(R) >= 0
    <3>1. \A i \in T : s.items[i] = r.items[i]
      BY <2>14 DEF Passed, Pushed
    <3>2. \A i \in T : i # id => (i \in Visible(r) <=> i \in Visible(s))
      BY <2>9, <2>10, <2>14 DEF Passed, Pushed
    <3>3. \A i \in T : i # id => S[i] = R[i]
      BY <2>6, <3>1, <3>2
    <3>4. S[id] = R[id]
      BY <2>2, <2>6, <2>7, <2>8, <2>13, <3>1
    <3>5. S = R
      BY <2>6, <3>3, <3>4
    <3> QED
      BY <2>3, <3>5
  <2>15. ASSUME s.out # <<>>, back # id, back \in T, row[back].tpl = row[id].tpl,
                NEW v \in Nat, v > 0, v <= s.items[id].num,
                r.out = IF v = s.items[id].num THEN s.out ELSE Append(s.out, id),
                r.items[back].num = s.items[back].num + v, r.items[id].num = s.items[id].num - v
         PROVE  SumFunction(R) >= 0
    <3>1. r.out = s.out \/ r.out = Append(s.out, id)
      BY <2>15
    <3>2. \A i \in T : i # id => (i \in Visible(r) <=> i \in Visible(s))
      BY <2>9, <2>10, <3>1
    <3>3. \A i \in T \ {back, id} : S[i] = R[i]
      BY <2>6, <2>12, <3>2
    <3>4. CASE id \notin Visible(r)
      <4>1. S[id] = 0 /\ R[id] = 0
        BY <2>6, <2>7, <2>8, <3>4
      <4>2. S[back] <= R[back]
        <5>1. /\ S[back] = IF back \in Visible(s) /\ row[back].tpl = t THEN s.items[back].num - item[back].num ELSE 0
              /\ R[back] = IF back \in Visible(s) /\ row[back].tpl = t THEN r.items[back].num - item[back].num ELSE 0
          BY <2>6, <2>15, <3>2
        <5>2. s.items[back].num \in Int /\ item[back].num \in Int
          BY <2>5, <2>13, <2>15
        <5> QED
          BY <2>15, <5>1, <5>2
      <4>3. \A i \in T : S[i] <= R[i]
        <5>1. \A i \in T : S[i] \in Int /\ R[i] \in Int
          BY <2>6
        <5> QED
          BY <3>3, <4>1, <4>2, <5>1
      <4>4. SumFunction(S) <= SumFunction(R)
        BY <2>6, <4>3, SumMonotone
      <4> QED
        BY <2>3, <4>4
    <3>5. CASE id \in Visible(r)
      <4>1. r.out = Append(s.out, id)
        BY <2>8, <2>10, <3>1, <3>5
      <4>2. back \in Visible(s) /\ back \in Visible(r)
        BY <2>8, <2>9, <2>15, <3>2, <3>5, <4>1 DEF back
      <4>3. /\ S[back] = IF row[id].tpl = t THEN s.items[back].num - item[back].num ELSE 0
            /\ R[back] = IF row[id].tpl = t THEN r.items[back].num - item[back].num ELSE 0
            /\ S[id] = 0
            /\ R[id] = IF row[id].tpl = t THEN r.items[id].num - item[id].num ELSE 0
        BY <2>6, <2>7, <2>8, <2>15, <3>5, <4>2
      <4>4. /\ s.items[back].num \in Int /\ item[back].num \in Int /\ s.items[id].num \in Int
            /\ item[id].num = s.items[id].num
        BY <2>2, <2>5, <2>7, <2>13, <2>15
      <4>5. (R[back] - S[back]) + (R[id] - S[id]) = 0
        <5>1. CASE row[id].tpl = t
          <6>1. /\ S[back] = s.items[back].num - item[back].num
                /\ R[back] = (s.items[back].num + v) - item[back].num
                /\ S[id] = 0
                /\ R[id] = (s.items[id].num - v) - s.items[id].num
            BY <2>15, <4>3, <4>4, <5>1
          <6> QED
            BY <4>4, <6>1
        <5>2. CASE row[id].tpl # t
          BY <4>3, <5>2
        <5> QED
          BY <5>1, <5>2
      <4>6. Shifted(T, S, R, back, id)
        BY <2>6, <2>7, <2>15, <3>3 DEF Shifted
      <4>7. SumFunction(R) - SumFunction(S) = (R[back] - S[back]) + (R[id] - S[id])
        BY <4>6, SumShift
      <4> QED
        BY <2>3, <4>5, <4>7
    <3> QED
      BY <3>4, <3>5
  <2>16. SumFunction(R) >= 0
    BY <2>2, <2>11, <2>14, <2>15 DEF RoundDoes, back
  <2> QED
    BY <2>1, <2>16 DEF r, R
<1>6. 0..N \subseteq C
  <2> HIDE DEF C, N
  <2> QED
    BY <1>1, <1>4, <1>5, RoundInduction
<1> QED
  BY <1>3, <1>6

-----------------------------------------------------------------------------
(* What the requests do.                                                   *)

\* The setting never changes, nor what is read from it.
LEMMA SettingStays ==
  ASSUME set' = set
  PROVE  /\ ItemRecord' = ItemRecord /\ RowRecord' = RowRecord /\ Templates' = Templates /\ Cells' = Cells
         /\ StackNum' = StackNum /\ FirstVisit' = FirstVisit /\ Counts' = Counts
BY DEF ItemRecord, RowRecord, Templates, Cells, StackNum, FirstVisit, Counts

\* A function over the numbers up to n is a sequence.
LEMMA SequenceOf ==
  ASSUME NEW n \in Nat, NEW X, NEW f \in [1..n -> X]
  PROVE  f \in Seq(X) /\ Len(f) = n
OBVIOUS

\* A request changes the items of S, and their rows are as they are after it; of
\* the others it changes neither.
Touches(S) ==
  /\ S \subseteq 1..Len(item)
  /\ item' \in [1..Len(item) -> ItemRecord] /\ row' \in [1..Len(item) -> RowRecord]
  /\ \A i \in 1..Len(item) : row'[i].tpl = row[i].tpl
  /\ \A i \in 1..Len(item) \ S : item'[i] = item[i] /\ row'[i] = row[i]
  /\ \A i \in S : row'[i].num = item'[i].num /\ row'[i].dead = item'[i].dead

\* A save of changed items.
LEMMA SaveTouches ==
  ASSUME TypeOK, loaded, NEW S \in SUBSET (1..Len(item)), NEW f \in [1..Len(item) -> ItemRecord],
         \A i \in 1..Len(item) \ S : f[i] = item[i], Save(f, S)
  PROVE  /\ Touches(S)
         /\ \A i \in S : Is(item'[i], f[i].tpl, f[i].num, f[i].idx, f[i].equip, f[i].dead \/ f[i].num = 0)
<1> DEFINE n == Len(item)
<1>1. n \in Nat /\ row \in [1..n -> RowRecord]
  BY ItemsAre
<1>2. item' = Flushed(f, S) /\ row' = Rows(f, S)
  BY DEF Save
<1> DEFINE F == Flushed(f, S)
           R == Rows(f, S)
<1>3. /\ F \in [1..n -> ItemRecord] /\ R \in [1..n -> RowRecord]
      /\ \A i \in 1..n \ S : F[i] = f[i] /\ R[i] = row[i]
      /\ \A i \in 1..n : i \in S =>
           /\ Is(F[i], f[i].tpl, f[i].num, f[i].idx, f[i].equip, f[i].dead \/ f[i].num = 0)
           /\ R[i].num = f[i].num /\ R[i].idx = f[i].idx
           /\ R[i].dead = F[i].dead
      /\ \A i \in 1..n : R[i].tpl = row[i].tpl
  BY <1>1, FlushDoes
<1> HIDE DEF F, R
<1>4. \A i \in S : i \in 1..n
  OBVIOUS
<1>5. \A i \in S : Is(F[i], f[i].tpl, f[i].num, f[i].idx, f[i].equip, f[i].dead \/ f[i].num = 0)
  BY <1>3, <1>4
<1>6. \A i \in S : R[i].num = F[i].num /\ R[i].dead = F[i].dead
  BY <1>3, <1>4 DEF Is
<1>7. item' = F /\ row' = R
  BY <1>2 DEF F, R
<1> QED
  BY <1>3, <1>5, <1>6, <1>7 DEF Touches

\* Cells as the type invariant has them, of items 1..n.
CellsOf(s, n) == \E k \in Nat : k > 0 /\ k >= Cells /\ s \in [0..k-1 -> {0} \union 1..n]

\* The type invariant holds after a request that touches items, if it holds of the
\* rest.
LEMMA TypeStays ==
  ASSUME TypeOK, set \in Settings, set' = set, odd' \in BOOLEAN, loaded, NEW S, Touches(S), inMap' \subseteq 1..Len(item),
         CellsOf(slot', Len(item)),
         recent' \in BOOLEAN, money' \in Int, dbMoney' \in Int, loaded' = TRUE
  PROVE  TypeOK'
<1> DEFINE n == Len(item)
<1>0. PICK k \in Nat : k >= Cells /\ slot' \in [0..k-1 -> {0} \union 1..n]
  BY DEF CellsOf
<1>1. n \in Nat /\ Cells \in Nat
  BY ItemsAre, SettingFacts
<1>2. /\ item' \in Seq(ItemRecord) /\ Len(item') = n /\ DOMAIN item' = 1..n
      /\ row' \in Seq(RowRecord) /\ Len(row') = n
  <2>1. item' \in [1..n -> ItemRecord] /\ row' \in [1..n -> RowRecord]
    BY DEF Touches
  <2> HIDE DEF n
  <2> QED
    BY <1>1, <2>1, SequenceOf
<1>3. IsFiniteSet(DOMAIN slot') /\ Cardinality(DOMAIN slot') = k /\ DOMAIN slot' = 0..k-1
  BY <1>0, CellCount
<1>4. 0..Cells-1 \subseteq 0..k-1
  BY <1>0, <1>1
<1>5. ItemRecord' = ItemRecord /\ RowRecord' = RowRecord /\ Cells' = Cells
  BY SettingStays
<1> HIDE DEF n
<1>6. slot' \in [0..Cardinality(DOMAIN slot')-1 -> {0} \union DOMAIN item']
  BY <1>0, <1>2, <1>3 DEF n
<1>7. inMap' \subseteq DOMAIN item'
  BY <1>2 DEF n
<1>8. 0..Cells'-1 \subseteq DOMAIN slot'
  BY <1>3, <1>4, <1>5
<1> QED
  BY <1>2, <1>3, <1>5, <1>6, <1>7, <1>8 DEF TypeOK

\* The cells before a request.
LEMMA CellsBefore ==
  ASSUME TypeOK, set \in Settings
  PROVE  /\ CellsOf(slot, Len(item)) /\ 0 \in DOMAIN slot
         /\ \A c \in DOMAIN slot : c \in Nat /\ slot[c] \in {0} \union 1..Len(item)
<1>1. PICK m \in Nat : m > 0 /\ m >= Cells /\ slot \in [0..m-1 -> {0} \union DOMAIN item]
  BY CellsAre
<1>2. DOMAIN item = 1..Len(item)
  BY ItemsAre
<1>3. CellsOf(slot, Len(item))
  BY <1>1, <1>2 DEF CellsOf
<1>4. 0 \in 0..m-1 /\ \A c \in 0..m-1 : c \in Nat
  BY <1>1
<1> QED
  BY <1>1, <1>2, <1>3, <1>4

\* An item the role has.
LEMMA HeldIs ==
  ASSUME TypeOK, NEW id \in inMap
  PROVE  /\ id \in 1..Len(item) /\ item[id] \in ItemRecord
         /\ item[id].tpl \in Templates /\ item[id].num \in Int /\ item[id].idx \in Nat
         /\ item[id].equip \in BOOLEAN /\ item[id].dead \in BOOLEAN
<1>1. id \in 1..Len(item) /\ item[id] \in ItemRecord
  <2>1. id \in DOMAIN item
    BY DEF TypeOK
  <2> QED
    BY <2>1, ItemsAre
<1> QED
  BY <1>1 DEF ItemRecord

\* The cells after an item left the one it believes it is in.
Emptied(x) ==
  /\ DOMAIN slot' = DOMAIN slot
  /\ \A c \in DOMAIN slot : slot'[c] = IF c = x /\ x # 0 THEN 0 ELSE slot[c]

\* The cell of an item is emptied, one cell at most, and cells stay cells.
LEMMA ClearedDoes ==
  ASSUME TypeOK, set \in Settings, NEW x \in Nat, slot' = Cleared(slot, x)
  PROVE  Emptied(x) /\ CellsOf(slot', Len(item))
<1> DEFINE X == {0} \union 1..Len(item)
<1>1. PICK m \in Nat : m > 0 /\ m >= Cells /\ slot \in [0..m-1 -> X]
  BY CellsBefore DEF CellsOf
<1>2. 0 \in X
  OBVIOUS
<1> DEFINE s == Cleared(slot, x)
<1>3. s \in [0..m-1 -> X] /\ \A c \in 0..m-1 : s[c] = IF c = x /\ x # 0 THEN 0 ELSE slot[c]
  <2> HIDE DEF X
  <2> QED
    BY <1>1, <1>2, ClearedIs
<1> HIDE DEF s
<1>4. slot' = s
  BY DEF s
<1>5. CellsOf(slot', Len(item))
  BY <1>1, <1>3, <1>4 DEF CellsOf
<1> QED
  BY <1>1, <1>3, <1>4, <1>5 DEF Emptied

\* A sale or an abandonment: the item is marked deleted and leaves the bag.
LEMMA DropDoes ==
  ASSUME TypeOK, set \in Settings, loaded, NEW id \in inMap, Drop(id)
  PROVE  /\ Touches({id})
         /\ Is(item'[id], item[id].tpl, item[id].num, item[id].idx, item[id].equip, TRUE)
         /\ Emptied(item[id].idx) /\ CellsOf(slot', Len(item))
         /\ inMap' = inMap \ {id} /\ recent' = recent /\ loaded' = loaded
<1> DEFINE n == Len(item)
           f == [item EXCEPT ![id].dead = TRUE]
<1>1. n \in Nat /\ item \in [1..n -> ItemRecord] /\ id \in 1..n /\ item[id].idx \in Nat
  BY ItemsAre, HeldIs
<1>2. /\ f \in [1..n -> ItemRecord] /\ \A i \in 1..n \ {id} : f[i] = item[i]
      /\ Is(f[id], item[id].tpl, item[id].num, item[id].idx, item[id].equip, TRUE)
  BY <1>1, NewDead
<1>3. Save(f, {id}) /\ slot' = Cleared(slot, item[id].idx) /\ inMap' = inMap \ {id} /\ recent' = recent /\ loaded' = loaded
  BY DEF Drop
<1> HIDE DEF f
<1>4. /\ Touches({id})
      /\ Is(item'[id], f[id].tpl, f[id].num, f[id].idx, f[id].equip, f[id].dead \/ f[id].num = 0)
  BY <1>1, <1>2, <1>3, SaveTouches
<1>5. Is(item'[id], item[id].tpl, item[id].num, item[id].idx, item[id].equip, TRUE)
  BY <1>2, <1>4 DEF Is
<1> QED
  BY <1>1, <1>3, <1>4, <1>5, ClearedDoes

\* Equipping: the item leaves its cell.
LEMMA EquipDoes ==
  ASSUME TypeOK, set \in Settings, NEW id \in inMap, EquipItem(id)
  PROVE  /\ Touches({id}) /\ loaded
         /\ Is(item'[id], item[id].tpl, item[id].num, item[id].idx, TRUE, item[id].dead \/ item[id].num = 0)
         /\ Emptied(item[id].idx) /\ CellsOf(slot', Len(item))
         /\ UNCHANGED <<inMap, recent, money, loaded, dbMoney>>
<1> DEFINE n == Len(item)
           f == [item EXCEPT ![id].equip = TRUE]
<1>1. n \in Nat /\ item \in [1..n -> ItemRecord] /\ id \in 1..n /\ item[id].idx \in Nat
  BY ItemsAre, HeldIs
<1>2. /\ f \in [1..n -> ItemRecord] /\ \A i \in 1..n \ {id} : f[i] = item[i]
      /\ Is(f[id], item[id].tpl, item[id].num, item[id].idx, TRUE, item[id].dead)
  BY <1>1, NewEquip
<1>3. Save(f, {id}) /\ slot' = Cleared(slot, item[id].idx) /\ loaded /\ UNCHANGED <<inMap, recent, money, loaded, dbMoney>>
  BY DEF EquipItem
<1> HIDE DEF f
<1>4. /\ Touches({id})
      /\ Is(item'[id], f[id].tpl, f[id].num, f[id].idx, f[id].equip, f[id].dead \/ f[id].num = 0)
  BY <1>1, <1>2, <1>3, SaveTouches
<1>5. Is(item'[id], item[id].tpl, item[id].num, item[id].idx, TRUE, item[id].dead \/ item[id].num = 0)
  BY <1>2, <1>4 DEF Is
<1> QED
  BY <1>1, <1>3, <1>4, <1>5, ClearedDoes

\* Strengthening: another template, which does not stack, for money.
LEMMA StrengthDoes ==
  ASSUME TypeOK, set \in Settings, NEW id \in inMap, NEW c \in Counts, StrengthItem(id, c)
  PROVE  /\ Touches({id}) /\ loaded
         /\ \E t \in Templates :
              /\ StackNum[t] = 0
              /\ Is(item'[id], t, item[id].num, item[id].idx, item[id].equip, item[id].dead \/ item[id].num = 0)
         /\ money' \in Int /\ money' <= money /\ money' >= 0
         /\ UNCHANGED <<inMap, slot, recent, loaded, dbMoney>>
<1> DEFINE n == Len(item)
           s == Strengthened(id, c)
<1>1. n \in Nat /\ item \in [1..n -> ItemRecord] /\ id \in 1..n /\ item[id] \in ItemRecord
  BY ItemsAre, HeldIs
<1>2. c \in Nat \ {0}
  <2>1. c \in Int
    BY SettingFacts
  <2>2. c >= 1
    BY DEF StrengthItem
  <2> QED
    BY <2>1, <2>2
<1>3. /\ s.level \in Nat /\ s.quality \in Nat /\ s.need \in Int
      /\ s.ok => s.tpl \in Templates /\ StackNum[s.tpl] = 0 /\ s.need >= 0 /\ money >= s.need
  BY <1>1, <1>2, StrengthenedIs
<1> HIDE DEF s
<1> DEFINE f == [item EXCEPT ![id].tpl = s.tpl, ![id].level = s.level, ![id].quality = s.quality]
<1>4. loaded /\ s.ok /\ money' = money - s.need /\ Save(f, {id}) /\ UNCHANGED <<inMap, slot, recent, loaded, dbMoney>>
  BY SMTT(30) DEF StrengthItem, s
<1>5. /\ f \in [1..n -> ItemRecord] /\ \A i \in 1..n \ {id} : f[i] = item[i]
      /\ Is(f[id], s.tpl, item[id].num, item[id].idx, item[id].equip, item[id].dead)
  BY <1>1, <1>3, <1>4, NewTemplate
<1> HIDE DEF f
<1>6. /\ Touches({id})
      /\ Is(item'[id], f[id].tpl, f[id].num, f[id].idx, f[id].equip, f[id].dead \/ f[id].num = 0)
  BY <1>1, <1>4, <1>5, SaveTouches
<1>7. Is(item'[id], s.tpl, item[id].num, item[id].idx, item[id].equip, item[id].dead \/ item[id].num = 0)
  BY <1>5, <1>6 DEF Is
<1>8. money \in Int
  BY DEF TypeOK
<1> QED
  BY <1>3, <1>4, <1>6, <1>7, <1>8, SMTT(30)

\* The cells after an item was put in the first free one.
Filling(x) ==
  LET c == FreeCell(slot) IN
  /\ c \in Nat /\ c # 0 /\ DOMAIN slot' = DOMAIN slot \union {c}
  /\ slot'[c] = x /\ \A i \in DOMAIN slot \ {c} : slot'[i] = slot[i]
  /\ c \in DOMAIN slot => slot[c] = 0

\* The first free cell takes an item, and cells stay cells (getFreeCell, or one more).
LEMMA FillingDoes ==
  ASSUME TypeOK, set \in Settings, NEW n \in Nat, n >= Len(item), NEW x \in 1..n, slot' = Put(slot, x)
  PROVE  Filling(x) /\ CellsOf(slot', n)
<1> DEFINE X == {0} \union 1..n
           s == Put(slot, x)
           c == FreeCell(slot)
<1>1. PICK m \in Nat : m > 0 /\ m >= Cells /\ slot \in [0..m-1 -> {0} \union 1..Len(item)]
  BY CellsBefore DEF CellsOf
<1>2. slot \in [0..m-1 -> X]
  <2>1. Len(item) \in Nat
    BY ItemsAre
  <2>2. {0} \union 1..Len(item) \subseteq X
    BY <2>1
  <2> HIDE DEF X
  <2> QED
    BY <1>1, <2>2
<1>3. x \in X
  OBVIOUS
<1> HIDE DEF X
<1>4. /\ \E k \in Nat : k >= m /\ s \in [0..k-1 -> X]
      /\ c \in Nat /\ c # 0 /\ DOMAIN s = DOMAIN slot \union {c}
      /\ s[c] = x /\ \A i \in DOMAIN slot \ {c} : s[i] = slot[i]
      /\ c \in DOMAIN slot => slot[c] = 0
  BY <1>1, <1>2, <1>3, PutDoes
<1> HIDE DEF s, c
<1>5. slot' = s
  BY DEF s
<1>6. CellsOf(s, n)
  <2>1. PICK k \in Nat : k >= m /\ s \in [0..k-1 -> X]
    BY <1>4
  <2>2. k > 0 /\ k >= Cells
    BY <1>1, <2>1, SettingFacts
  <2> QED
    BY <2>1, <2>2 DEF CellsOf, X
<1> QED
  BY <1>4, <1>5, <1>6 DEF Filling, c

\* Taking off: the row is written before the item gets its new cell.
LEMMA UnEquipDoes ==
  ASSUME TypeOK, set \in Settings, NEW id \in inMap, UnEquipItem(id)
  PROVE  /\ Touches({id}) /\ loaded
         /\ Is(item'[id], item[id].tpl, item[id].num, FreeCell(slot), FALSE, item[id].dead \/ item[id].num = 0)
         /\ Filling(id) /\ CellsOf(slot', Len(item))
         /\ UNCHANGED <<inMap, recent, money, loaded, dbMoney>>
<1> DEFINE n == Len(item)
           off == [item EXCEPT ![id].equip = FALSE]
           F == Flushed(off, {id})
           R == Rows(off, {id})
           c == FreeCell(slot)
           g == [F EXCEPT ![id].idx = c]
<1>1. /\ n \in Nat /\ item \in [1..n -> ItemRecord] /\ id \in 1..n /\ item[id].idx \in Nat
      /\ row \in [1..n -> RowRecord] /\ loaded
  BY ItemsAre, HeldIs DEF UnEquipItem
<1>2. /\ off \in [1..n -> ItemRecord] /\ \A i \in 1..n \ {id} : off[i] = item[i]
      /\ Is(off[id], item[id].tpl, item[id].num, item[id].idx, FALSE, item[id].dead)
  BY <1>1, NewEquip
<1>3. /\ row' = R /\ item' = g /\ slot' = Put(slot, id) /\ loaded
      /\ UNCHANGED <<inMap, recent, money, loaded, dbMoney>>
  BY DEF UnEquipItem
<1>4. Filling(id) /\ CellsOf(slot', n)
  BY <1>1, <1>3, FillingDoes
<1>5. c \in Nat
  BY <1>4 DEF Filling
<1> HIDE DEF off, c
<1>6. /\ F \in [1..n -> ItemRecord] /\ R \in [1..n -> RowRecord]
      /\ \A i \in 1..n \ {id} : F[i] = off[i] /\ R[i] = row[i]
      /\ \A i \in 1..n : i \in {id} =>
           /\ Is(F[i], off[i].tpl, off[i].num, off[i].idx, off[i].equip, off[i].dead \/ off[i].num = 0)
           /\ R[i].num = off[i].num /\ R[i].idx = off[i].idx
           /\ R[i].dead = F[i].dead
      /\ \A i \in 1..n : R[i].tpl = row[i].tpl
  <2> DEFINE T == {id}
  <2> HIDE DEF T
  <2>1. /\ Flushed(off, T) \in [1..n -> ItemRecord] /\ Rows(off, T) \in [1..n -> RowRecord]
        /\ \A i \in 1..n \ T : Flushed(off, T)[i] = off[i] /\ Rows(off, T)[i] = row[i]
        /\ \A i \in 1..n : i \in T =>
             /\ Is(Flushed(off, T)[i], off[i].tpl, off[i].num, off[i].idx, off[i].equip, off[i].dead \/ off[i].num = 0)
             /\ Rows(off, T)[i].num = off[i].num /\ Rows(off, T)[i].idx = off[i].idx
             /\ Rows(off, T)[i].dead = Flushed(off, T)[i].dead
        /\ \A i \in 1..n : Rows(off, T)[i].tpl = row[i].tpl
    <3>1. n \in Nat /\ row \in [1..n -> RowRecord] /\ off \in [1..n -> ItemRecord]
      BY <1>1, <1>2
    <3> HIDE DEF n
    <3> QED
      BY ONLY <3>1, FlushDoes, SMTT(40)
  <2> QED
    BY <2>1 DEF T
<1> HIDE DEF F, R
<1>7. /\ g \in [1..n -> ItemRecord] /\ \A i \in 1..n \ {id} : g[i] = F[i]
      /\ Is(g[id], F[id].tpl, F[id].num, c, F[id].equip, F[id].dead)
  BY <1>1, <1>5, <1>6, NewIdx
<1> HIDE DEF g
<1>8. Is(F[id], off[id].tpl, off[id].num, off[id].idx, off[id].equip, off[id].dead \/ off[id].num = 0) /\ R[id].num = off[id].num /\ R[id].dead = F[id].dead
  BY <1>1, <1>6
<1>9. Is(g[id], item[id].tpl, item[id].num, c, FALSE, item[id].dead \/ item[id].num = 0)
  BY <1>2, <1>7, <1>8 DEF Is
<1>10. R[id].num = g[id].num /\ R[id].dead = g[id].dead
  BY <1>7, <1>8 DEF Is
<1>11. \A i \in 1..n \ {id} : g[i] = item[i] /\ R[i] = row[i]
  BY <1>2, <1>6, <1>7
<1>12. Touches({id})
  BY <1>1, <1>3, <1>6, <1>7, <1>10, <1>11 DEF Touches
<1> QED
  BY <1>3, <1>4, <1>9, <1>12 DEF c

\* A move to an empty cell or one with another item.
LEMMA SwapDoes ==
  ASSUME TypeOK, set \in Settings, loaded, NEW id \in inMap, NEW to \in DOMAIN slot, to # 0,
         item[id].idx \in DOMAIN slot, SwapCells(id, to)
  PROVE  LET S == {id, slot[to]} \ {0} IN
         /\ Touches(S)
         /\ \A i \in S : Is(item'[i], item[i].tpl, item[i].num, item'[i].idx, item[i].equip, item[i].dead \/ item[i].num = 0)
         /\ item'[id].idx = IF slot[to] = id THEN item[id].idx ELSE to
         /\ slot[to] \notin {0, id} => item'[slot[to]].idx = item[id].idx
         /\ CellsOf(slot', Len(item)) /\ DOMAIN slot' = DOMAIN slot
         /\ slot'[item[id].idx] = slot[to] /\ slot'[to] = slot[item[id].idx]
         /\ \A c \in DOMAIN slot \ {to, item[id].idx} : slot'[c] = slot[c]
         /\ inMap' = inMap
<1> DEFINE n == Len(item)
           S == {id, slot[to]} \ {0}
           from == item[id].idx
           other == slot[to]
           moved == [item EXCEPT ![id].idx = to]
           both == [moved EXCEPT ![other].idx = from]
<1>1. /\ n \in Nat /\ item \in [1..n -> ItemRecord] /\ id \in 1..n /\ from \in Nat /\ to \in Nat
      /\ other \in {0} \union 1..n
  BY ItemsAre, HeldIs, CellsBefore
<1>2. /\ slot' = [slot EXCEPT ![from] = slot[to], ![to] = slot[from]] /\ inMap' = inMap
      /\ IF other = 0 THEN Save(moved, {id}) ELSE Save(both, {id, other})
  BY DEF SwapCells
<1>3. /\ DOMAIN slot' = DOMAIN slot /\ slot'[from] = slot[to] /\ slot'[to] = slot[from]
      /\ \A c \in DOMAIN slot \ {to, from} : slot'[c] = slot[c]
  <2> HIDE DEF from
  <2> QED
    BY <1>2 DEF from
<1>4. CellsOf(slot', n)
  <2>1. PICK m \in Nat : m > 0 /\ m >= Cells /\ slot \in [0..m-1 -> {0} \union 1..n]
    BY CellsBefore DEF CellsOf
  <2> DEFINE X == {0} \union 1..n
  <2>2. slot[to] \in X /\ slot[from] \in X
    BY CellsBefore
  <2> HIDE DEF X, from, n
  <2>3. slot' \in [0..m-1 -> X]
    BY <1>2, <2>1, <2>2 DEF X
  <2> QED
    BY <2>1, <2>3 DEF CellsOf, X
<1>5. /\ moved \in [1..n -> ItemRecord] /\ \A i \in 1..n \ {id} : moved[i] = item[i]
      /\ Is(moved[id], item[id].tpl, item[id].num, to, item[id].equip, item[id].dead)
  BY <1>1, NewIdx
<1> HIDE DEF moved
<1>6. CASE other = 0
  <2>1. S = {id}
    BY <1>1, <1>6
  <2>2. Save(moved, {id})
    BY <1>2, <1>6
  <2>3. /\ Touches({id})
        /\ Is(item'[id], moved[id].tpl, moved[id].num, moved[id].idx, moved[id].equip, moved[id].dead \/ moved[id].num = 0)
    BY <1>1, <1>5, <2>2, SaveTouches
  <2>4. Is(item'[id], item[id].tpl, item[id].num, to, item[id].equip, item[id].dead \/ item[id].num = 0)
    BY <1>5, <2>3 DEF Is
  <2>5. item'[id].idx = to /\ Is(item'[id], item[id].tpl, item[id].num, item'[id].idx, item[id].equip, item[id].dead \/ item[id].num = 0)
    BY <2>4 DEF Is
  <2>6. other # id
    BY <1>1, <1>6
  <2> HIDE DEF S, from, other
  <2> QED
    BY <1>2, <1>3, <1>4, <1>6, <2>1, <2>3, <2>5, <2>6 DEF S, from, other
<1>7. CASE other # 0
  <2>1. S = {id, other} /\ other \in 1..n
    BY <1>1, <1>7
  <2>2. Save(both, {id, other})
    BY <1>2, <1>7
  <2>3. /\ both \in [1..n -> ItemRecord] /\ \A i \in 1..n \ {other} : both[i] = moved[i]
        /\ Is(both[other], moved[other].tpl, moved[other].num, from, moved[other].equip, moved[other].dead)
    BY <1>1, <1>5, <2>1, NewIdx
  <2> HIDE DEF both, from, other
  <2>4. \A i \in 1..n \ {id, other} : both[i] = item[i]
    BY <1>5, <2>3
  <2>5. /\ Touches({id, other})
        /\ \A i \in {id, other} : Is(item'[i], both[i].tpl, both[i].num, both[i].idx, both[i].equip, both[i].dead \/ both[i].num = 0)
    BY <1>1, <2>1, <2>2, <2>3, <2>4, SaveTouches
  <2>6. \A i \in {id, other} : Is(both[i], item[i].tpl, item[i].num, both[i].idx, item[i].equip, item[i].dead)
    BY <1>1, <1>5, <2>1, <2>3 DEF Is
  <2>7. both[id].idx = (IF other = id THEN from ELSE to) /\ both[other].idx = from
    BY <1>1, <1>5, <2>1, <2>3 DEF Is
  <2>8. \A i \in {id, other} : Is(item'[i], item[i].tpl, item[i].num, item'[i].idx, item[i].equip, item[i].dead \/ item[i].num = 0)
    BY <2>5, <2>6 DEF Is
  <2>9. item'[id].idx = (IF other = id THEN from ELSE to) /\ item'[other].idx = from
    BY <2>5, <2>7 DEF Is
  <2> HIDE DEF S
  <2> QED
    BY <1>2, <1>3, <1>4, <2>1, <2>5, <2>8, <2>9 DEF S, from, other
<1> QED
  BY <1>6, <1>7

\* Two stacks after one was moved onto the other.
LEMMA StackedIs ==
  ASSUME TypeOK, set \in Settings, NEW id \in inMap, NEW to \in DOMAIN slot, Stackable(id, to)
  PROVE  LET n     == Len(item)
             other == slot[to]
             stack == StackNum[item[id].tpl]
             sum   == item[other].num + item[id].num
             f     == Stacked(id, other)
         IN
         /\ other \in 1..n /\ stack \in Nat /\ stack > 0 /\ sum \in Int /\ item[other].tpl = item[id].tpl
         /\ f \in [1..n -> ItemRecord] /\ \A i \in 1..n \ {id, other} : f[i] = item[i]
         /\ \A i \in 1..n : Renumbered(f[i], item[i])
         /\ sum <= stack => f[id].num = 0 /\ (other # id => f[other].num = sum)
         /\ ~(sum <= stack) => f[other].num = stack /\ (other # id => f[id].num = sum - stack)
<1> DEFINE n == Len(item)
           other == slot[to]
           stack == StackNum[item[id].tpl]
           sum == item[other].num + item[id].num
           fits == sum <= stack
           f == Stacked(id, other)
<1>1. /\ n \in Nat /\ item \in [1..n -> ItemRecord] /\ id \in 1..n /\ item[id].idx \in Nat
      /\ item[id].num \in Int /\ item[id].tpl \in Templates
  BY ItemsAre, HeldIs
<1>2. other \in 1..n /\ item[other].tpl = item[id].tpl /\ stack # 0
  BY ItemsAre DEF Stackable
<1>3. stack \in Nat /\ stack > 0
  BY <1>1, <1>2, SettingFacts, SMTT(30)
<1>4. item[other].num \in Int /\ sum \in Int
  <2>1. \A i \in 1..n : item[i].num \in Int
    BY ItemsAre
  <2>2. item[other].num \in Int
    BY <1>2, <2>1
  <2> QED
    BY <1>1, <2>2
<1>6. f = IF fits THEN [item EXCEPT ![other].num = sum, ![id].num = 0]
          ELSE [item EXCEPT ![id].num = sum - stack, ![other].num = stack]
  BY DEF Stacked
<1>7. fits => f = TwoSet(item, other, sum, id, 0)
  BY <1>6 DEF TwoSet
<1>8. ~fits => f = TwoSet(item, id, sum - stack, other, stack)
  BY <1>6 DEF TwoSet
<1> HIDE DEF other, sum, stack, fits, f
<1>9. /\ f \in [1..n -> ItemRecord] /\ \A i \in 1..n \ {id, other} : f[i] = item[i]
      /\ \A i \in 1..n : Renumbered(f[i], item[i])
      /\ fits => f[id].num = 0 /\ (other # id => f[other].num = sum)
      /\ ~fits => f[other].num = stack /\ (other # id => f[id].num = sum - stack)
  <2>1. CASE fits
    <3> DEFINE g == TwoSet(item, other, sum, id, 0)
    <3>1. /\ g \in [1..n -> ItemRecord] /\ \A i \in 1..n \ {other, id} : g[i] = item[i]
          /\ \A i \in 1..n : Renumbered(g[i], item[i])
          /\ g[id].num = 0 /\ (other # id => g[other].num = sum)
      <4>1. 0 \in Int /\ n \in Nat /\ item \in [1..n -> ItemRecord] /\ id \in 1..n /\ other \in 1..n /\ sum \in Int
        BY <1>1, <1>2, <1>4
      <4> HIDE DEF n
      <4> QED
        BY ONLY <4>1, TwoNums
    <3>2. f = g
      BY <1>7, <2>1
    <3> HIDE DEF g
    <3> QED
      BY <2>1, <3>1, <3>2
  <2>2. CASE ~fits
    <3> DEFINE rest == sum - stack
               g == TwoSet(item, id, rest, other, stack)
    <3>0. rest \in Int /\ stack \in Int
      BY <1>3, <1>4
    <3>1. /\ g \in [1..n -> ItemRecord] /\ \A i \in 1..n \ {id, other} : g[i] = item[i]
          /\ \A i \in 1..n : Renumbered(g[i], item[i])
          /\ g[other].num = stack /\ (id # other => g[id].num = rest)
      <4>1. n \in Nat /\ item \in [1..n -> ItemRecord] /\ id \in 1..n /\ other \in 1..n
        BY <1>1, <1>2
      <4> HIDE DEF n, rest
      <4> QED
        BY ONLY <3>0, <4>1, TwoNums
    <3>2. f = g
      BY <1>8, <2>2
    <3> HIDE DEF g
    <3> QED
      BY <2>2, <3>1, <3>2
  <2> QED
    BY <2>1, <2>2
<1> QED
  BY <1>2, <1>3, <1>4, <1>9 DEF other, sum, stack, fits, f

\* A move onto a stack of the same item.
LEMMA StackDoes ==
  ASSUME TypeOK, set \in Settings, loaded, NEW id \in inMap, NEW to \in DOMAIN slot,
         Stackable(id, to), StackCells(id, to)
  PROVE  LET other == slot[to]
             stack == StackNum[item[id].tpl]
             fits  == item[other].num + item[id].num <= stack
         IN
         /\ other \in 1..Len(item) /\ stack > 0 /\ item[other].tpl = item[id].tpl
         /\ Touches({id, other})
         /\ \A i \in {id, other} : Is(item'[i], item[i].tpl, item'[i].num, item[i].idx, item[i].equip, item[i].dead \/ item'[i].num = 0)
         /\ other # id =>
              IF fits THEN item'[other].num = item[other].num + item[id].num /\ item'[id].num = 0
              ELSE item'[other].num = stack /\ item'[id].num = (item[other].num + item[id].num) - stack
         /\ other = id => item'[id].num = IF fits THEN 0 ELSE stack
         /\ fits => Emptied(item[id].idx) /\ inMap' = inMap \ {id}
         /\ ~fits => slot' = slot /\ inMap' = inMap
         /\ CellsOf(slot', Len(item))
<1> DEFINE n == Len(item)
           other == slot[to]
           stack == StackNum[item[id].tpl]
           sum == item[other].num + item[id].num
           fits == sum <= stack
           f == Stacked(id, other)
<1>1. /\ n \in Nat /\ item \in [1..n -> ItemRecord] /\ id \in 1..n /\ item[id].idx \in Nat
      /\ item[id].num \in Int /\ item[id].tpl \in Templates
  BY ItemsAre, HeldIs
<1>2. other \in 1..n /\ item[other].tpl = item[id].tpl /\ stack # 0
  BY ItemsAre DEF Stackable
<1>3. stack \in Nat /\ stack > 0
  BY <1>1, <1>2, SettingFacts
<1>4. item[other].num \in Int /\ sum \in Int
  BY <1>1, <1>2, ItemsAre
<1>5. /\ Save(f, {id, other})
      /\ IF fits THEN slot' = Cleared(slot, item[id].idx) /\ inMap' = inMap \ {id} ELSE UNCHANGED <<slot, inMap>>
  BY DEF StackCells
<1>9. /\ f \in [1..n -> ItemRecord] /\ \A i \in 1..n \ {id, other} : f[i] = item[i]
      /\ \A i \in 1..n : Renumbered(f[i], item[i])
      /\ fits => f[id].num = 0 /\ (other # id => f[other].num = sum)
      /\ ~fits => f[other].num = stack /\ (other # id => f[id].num = sum - stack)
  BY StackedIs
<1> HIDE DEF other, sum, stack, fits, f
<1>10. /\ Touches({id, other})
       /\ \A i \in {id, other} : Is(item'[i], f[i].tpl, f[i].num, f[i].idx, f[i].equip, f[i].dead \/ f[i].num = 0)
  BY <1>1, <1>2, <1>5, <1>9, SaveTouches
<1>11. \A i \in {id, other} : item'[i].num = f[i].num
  BY <1>10 DEF Is
<1>12. \A i \in {id, other} :
         Is(item'[i], item[i].tpl, item'[i].num, item[i].idx, item[i].equip, item[i].dead \/ item'[i].num = 0)
  BY <1>1, <1>2, <1>9, <1>10 DEF Is, Renumbered
<1>13. /\ other # id =>
            IF fits THEN item'[other].num = sum /\ item'[id].num = 0
            ELSE item'[other].num = stack /\ item'[id].num = sum - stack
       /\ other = id => item'[id].num = IF fits THEN 0 ELSE stack
  BY <1>9, <1>11
<1>14. fits => Emptied(item[id].idx) /\ inMap' = inMap \ {id} /\ CellsOf(slot', n)
  BY <1>1, <1>5, ClearedDoes
<1>15. ~fits => slot' = slot /\ inMap' = inMap
  BY <1>5
<1>16. CellsOf(slot, n)
  BY CellsBefore
<1>17. CellsOf(slot', n)
  BY <1>14, <1>15, <1>16
<1> QED
  BY <1>2, <1>3, <1>10, <1>12, <1>13, <1>14, <1>15, <1>17 DEF other, sum, stack, fits

\* The type invariant holds if it holds of the parts, of a role in memory.
LEMMA TypeFrom ==
  ASSUME set \in Settings, set' = set, odd' \in BOOLEAN, NEW n \in Nat, item' \in [1..n -> ItemRecord], row' \in [1..n -> RowRecord],
         inMap' \subseteq 1..n, CellsOf(slot', n),
         recent' \in BOOLEAN, money' \in Int, dbMoney' \in Int, loaded' = TRUE
  PROVE  TypeOK'
<1>0. PICK k \in Nat : k >= Cells /\ slot' \in [0..k-1 -> {0} \union 1..n]
  BY DEF CellsOf
<1>1. Cells \in Nat
  BY SettingFacts
<1>2. /\ item' \in Seq(ItemRecord) /\ Len(item') = n /\ DOMAIN item' = 1..n
      /\ row' \in Seq(RowRecord) /\ Len(row') = n
  BY SequenceOf
<1>3. IsFiniteSet(DOMAIN slot') /\ Cardinality(DOMAIN slot') = k /\ DOMAIN slot' = 0..k-1
  BY <1>0, CellCount
<1>4. 0..Cells-1 \subseteq 0..k-1
  BY <1>0, <1>1
<1>5. ItemRecord' = ItemRecord /\ RowRecord' = RowRecord /\ Cells' = Cells
  BY SettingStays
<1>6. slot' \in [0..Cardinality(DOMAIN slot')-1 -> {0} \union DOMAIN item']
  BY <1>0, <1>2, <1>3
<1>7. inMap' \subseteq DOMAIN item'
  BY <1>2
<1>8. 0..Cells'-1 \subseteq DOMAIN slot'
  BY <1>3, <1>4, <1>5
<1> QED
  BY <1>2, <1>3, <1>5, <1>6, <1>7, <1>8 DEF TypeOK

\* One more at the end of a sequence.
LEMMA AppendIs ==
  ASSUME NEW X, NEW q \in Seq(X), NEW e \in X
  PROVE  /\ Append(q, e) \in [1..Len(q) + 1 -> X] /\ \A i \in 1..Len(q) : Append(q, e)[i] = q[i]
         /\ Append(q, e)[Len(q) + 1] = e
<1> DEFINE a == Append(q, e)
<1>1. Len(q) \in Nat /\ a \in Seq(X) /\ Len(a) = Len(q) + 1
  OBVIOUS
<1>2. a[Len(q) + 1] = e
  OBVIOUS
<1>3. \A i \in 1..Len(q) : a[i] = q[i]
  OBVIOUS
<1> HIDE DEF a
<1>4. a \in [1..Len(q) + 1 -> X]
  BY <1>1
<1> QED
  BY <1>2, <1>3, <1>4 DEF a

\* A purchase leaves a number.
LEMMA ChangeIs ==
  ASSUME TypeOK, set \in Settings, NEW t \in Templates, NEW c \in Counts
  PROVE  /\ Change(t, c) \in Int /\ Cost(t, c) \in Int
         /\ money >= Cost(t, c) => Change(t, c) <= money - Cost(t, c)
         /\ money >= Cost(t, c) /\ money - Cost(t, c) <= IntMax => Change(t, c) = money - Cost(t, c)
<1>1. c \in Int /\ Price[t] \in Int /\ IntMax \in Nat /\ money \in Int
  BY SettingFacts, BagAssumption DEF TypeOK
<1>2. Cost(t, c) \in Int
  <2>1. Price[t] * c \in Int
    BY <1>1
  <2> QED
    BY <1>1, <2>1, WrappedIsInt DEF Cost
<1> DEFINE k == Cost(t, c)
           x == money - k
<1> HIDE DEF k
<1>3. x \in Int /\ (money >= k => x >= 0 /\ x >= -(IntMax + 1)) /\ (money >= k /\ x <= IntMax => x \in 0..IntMax)
  BY <1>1, <1>2 DEF k
<1>4. Change(t, c) = Wrapped(x, IntMax)
  BY DEF Change, k
<1> HIDE DEF x
<1>5. Wrapped(x, IntMax) \in Int /\ (money >= k => Wrapped(x, IntMax) <= x)
      /\ (money >= k /\ x <= IntMax => Wrapped(x, IntMax) = x)
  BY <1>1, <1>3, WrappedIsInt, WrappedIsLess, WrappedKeeps
<1> QED
  BY <1>2, <1>4, <1>5 DEF k, x

\* A purchase: one item more, in the first free cell.
LEMMA BuyDoes ==
  ASSUME TypeOK, set \in Settings, NEW t \in Templates, NEW c \in Counts, BuyItem(t, c)
  PROVE  LET n == Len(item) IN
         /\ loaded /\ n = Len(row)
         /\ item' \in [1..n + 1 -> ItemRecord] /\ row' \in [1..n + 1 -> RowRecord]
         /\ \A i \in 1..n : item'[i] = item[i] /\ row'[i] = row[i]
         /\ Is(item'[n + 1], t, Short(c), FreeCell(slot), FALSE, FALSE)
         /\ row'[n + 1].tpl = t /\ row'[n + 1].num = Short(c) /\ row'[n + 1].dead = FALSE
         /\ Filling(n + 1) /\ CellsOf(slot', n + 1)
         /\ inMap' = inMap \union {n + 1} /\ money' \in Int /\ dbMoney' = money' /\ UNCHANGED <<recent, loaded>>
<1> DEFINE n == Len(item)
           new == [tpl |-> t, num |-> Short(c), idx |-> FreeCell(slot), equip |-> FALSE,
                   dead |-> FALSE, level |-> 0, quality |-> 0]
           saved == NewRow(t, c)
<1>1. /\ loaded /\ row' = Append(row, saved) /\ item' = Append(item, new)
      /\ slot' = Put(slot, Len(row) + 1) /\ inMap' = inMap \union {Len(row) + 1}
      /\ money' = Change(t, c) /\ dbMoney' = money' /\ UNCHANGED <<recent, loaded>>
  BY DEF BuyItem, CanBuy
<1>2. n \in Nat /\ item \in Seq(ItemRecord) /\ row \in Seq(RowRecord) /\ Len(row) = n /\ money \in Int
  BY <1>1, ItemsAre DEF TypeOK
<1>3. n + 1 \in Nat /\ n + 1 >= Len(item) /\ n + 1 \in 1..n + 1
  BY <1>2
<1>4. slot' = Put(slot, n + 1) /\ inMap' = inMap \union {n + 1}
  BY <1>1, <1>2
<1>5. Filling(n + 1) /\ CellsOf(slot', n + 1)
  <2> DEFINE m == n + 1
  <2>1. m \in Nat /\ m >= Len(item) /\ m \in 1..m /\ slot' = Put(slot, m)
    BY <1>3, <1>4
  <2> HIDE DEF m, n
  <2>2. Filling(m) /\ CellsOf(slot', m)
    BY <2>1, FillingDoes
  <2> QED
    BY <2>2 DEF m
<1>6. c \in Int /\ IntMax \in Nat /\ ShortMax \in Nat
  BY SettingFacts, BagAssumption
<1>7. Short(c) \in Int /\ Change(t, c) \in Int
  BY <1>6, WrappedIsInt, ChangeIs DEF Short
<1>8. FreeCell(slot) \in Nat
  BY <1>5 DEF Filling
<1>9. new \in ItemRecord /\ Is(new, t, Short(c), FreeCell(slot), FALSE, FALSE)
  BY <1>7, <1>8 DEF ItemRecord, Is
<1>10. saved \in RowRecord /\ saved.tpl = t /\ saved.num = Short(c) /\ saved.dead = FALSE
  BY <1>7 DEF RowRecord, NewRow
<1> HIDE DEF new, saved
<1>13. money' \in Int
  BY <1>1, <1>2, <1>7
<1> HIDE DEF n
<1>11. /\ item' \in [1..n + 1 -> ItemRecord] /\ \A i \in 1..n : item'[i] = item[i]
       /\ item'[n + 1] = new
  BY <1>1, <1>2, <1>9, AppendIs DEF n
<1>12. /\ row' \in [1..n + 1 -> RowRecord] /\ \A i \in 1..n : row'[i] = row[i]
       /\ row'[n + 1] = saved
  <2> DEFINE a == Append(row, saved)
  <2>1. row \in Seq(RowRecord) /\ saved \in RowRecord
    BY <1>2, <1>10
  <2>2. /\ a \in [1..Len(row) + 1 -> RowRecord] /\ \A i \in 1..Len(row) : a[i] = row[i]
        /\ a[Len(row) + 1] = saved
    BY ONLY <2>1, AppendIs
  <2> HIDE DEF a
  <2>3. row' = a
    BY <1>1 DEF a
  <2> QED
    BY <1>2, <2>2, <2>3
<1> QED
  BY <1>1, <1>2, <1>4, <1>5, <1>9, <1>10, <1>11, <1>12, <1>13 DEF n

\* The role has left memory.
LEMMA GoneDoes ==
  ASSUME TypeOK, set \in Settings, set' = set, odd' \in BOOLEAN, Gone, row' \in Seq(RowRecord), dbMoney' \in Int
  PROVE  /\ TypeOK' /\ loaded' = FALSE /\ item' = <<>> /\ inMap' = {} /\ \A c \in DOMAIN slot' : slot'[c] = 0
         /\ DOMAIN slot' = 0..Cells-1
<1>1. Cells \in Nat /\ Cells > 1
  BY SettingFacts
<1>2. /\ loaded' = FALSE /\ item' = <<>> /\ inMap' = {} /\ slot' = [i \in 0..Cells-1 |-> 0]
      /\ recent' = FALSE /\ money' = 0
  BY DEF Gone
<1>3. ItemRecord' = ItemRecord /\ RowRecord' = RowRecord /\ Cells' = Cells
  BY SettingStays
<1>4. slot' \in [0..Cells-1 -> {0}]
  BY <1>2
<1>5. IsFiniteSet(DOMAIN slot') /\ Cardinality(DOMAIN slot') = Cells /\ DOMAIN slot' = 0..Cells-1
  BY <1>1, <1>4, CellCount
<1>6. slot' \in [0..Cardinality(DOMAIN slot')-1 -> {0} \union DOMAIN item']
  BY <1>2, <1>4, <1>5
<1>7. item' \in Seq(ItemRecord) /\ Len(item') = 0
  BY <1>2
<1>9. /\ row' \in Seq(RowRecord') /\ item' \in Seq(ItemRecord') /\ inMap' \subseteq DOMAIN item'
      /\ Len(item') = (IF loaded' THEN Len(row') ELSE 0) /\ 0..Cells'-1 \subseteq DOMAIN slot'
      /\ recent' \in BOOLEAN /\ loaded' \in BOOLEAN /\ money' \in Int
  <2>1. 0..Cells'-1 \subseteq DOMAIN slot' /\ row' \in Seq(RowRecord') /\ item' \in Seq(ItemRecord')
    BY <1>3, <1>5, <1>7
  <2>2. inMap' \subseteq DOMAIN item'
    BY <1>2
  <2>3. Len(item') = (IF loaded' THEN Len(row') ELSE 0)
    BY <1>2, <1>7
  <2>4. recent' \in BOOLEAN /\ loaded' \in BOOLEAN /\ money' \in Int
    <3>1. recent' \in BOOLEAN
      BY <1>2, Zenon
    <3>2. loaded' \in BOOLEAN
      BY <1>2, Zenon
    <3>3. money' \in Int
      BY <1>2
    <3> QED
      BY <3>1, <3>2, <3>3
  <2> QED
    BY <2>1, <2>2, <2>3, <2>4
<1>8. TypeOK'
  BY <1>5, <1>6, <1>9 DEF TypeOK
<1> QED
  BY <1>2, <1>4, <1>5, <1>8

\* The bag as it is loaded.
LEMMA LoadDoes ==
  ASSUME TypeOK, set \in Settings, set' = set, odd' \in BOOLEAN, Load
  PROVE  LET n == Len(row) IN
         /\ TypeOK' /\ loaded' /\ n \in Nat /\ row' = row /\ money' = dbMoney /\ dbMoney' = dbMoney
         /\ \A i \in 1..n : item'[i].tpl = row[i].tpl /\ item'[i].num = row[i].num /\ item'[i].dead = FALSE
         /\ DOMAIN item' = 1..n /\ inMap' = LoadedIds
         /\ \A c \in DOMAIN slot' : slot'[c] # 0 => slot'[c] \in 1..n /\ ~row[slot'[c]].dead /\ row[slot'[c]].idx = c
<1> DEFINE n == Len(row)
           f == [i \in 1..n |-> row[i].idx]
           idxs == {row[i].idx : i \in LoadedIds}
           A == idxs \union {Cells - 1}
           At(c) == {i \in LoadedIds : row[i].idx = c} \union {0}
           g == [i \in 1..n |-> LoadedItem(i)]
<1>1. n \in Nat /\ row \in [1..n -> RowRecord] /\ DOMAIN row = 1..n /\ Cells \in Nat /\ Cells > 1
  BY ItemsAre, SettingFacts
<1>2. \A i \in 1..n : /\ row[i].tpl \in Templates /\ row[i].num \in Int /\ row[i].idx \in Nat
                      /\ row[i].dead \in BOOLEAN
  <2> TAKE i \in 1..n
  <2>1. row[i] \in RowRecord
    BY <1>1
  <2> QED
    BY <2>1 DEF RowRecord
<1>3. LoadedIds \subseteq 1..n /\ \A i \in LoadedIds : ~row[i].dead
  BY <1>1 DEF LoadedIds
<1>4. /\ loaded' = TRUE /\ item' = g /\ inMap' = LoadedIds /\ slot' = LoadedCells /\ money' = dbMoney
      /\ row' = row /\ dbMoney' = dbMoney /\ recent' = recent
  BY <1>1 DEF Load
<1>5. /\ g \in [1..n -> ItemRecord]
      /\ \A i \in 1..n : g[i].tpl = row[i].tpl /\ g[i].num = row[i].num /\ g[i].dead = FALSE
  <2>1. ASSUME NEW i \in 1..n
        PROVE  /\ LoadedItem(i) \in ItemRecord /\ LoadedItem(i).tpl = row[i].tpl /\ LoadedItem(i).num = row[i].num
               /\ LoadedItem(i).dead = FALSE
    BY <1>2 DEF LoadedItem, ItemRecord
  <2> QED
    BY <2>1
<1>6. PICK b \in Nat : \A i \in 1..n : row[i].idx <= b
  <2>1. f \in [1..n -> Nat] /\ \A i \in 1..n : f[i] = row[i].idx
    BY <1>2
  <2> HIDE DEF f
  <2>2. \E b \in Nat : \A i \in 1..n : f[i] <= b
    BY <1>1, <2>1, BoundExists
  <2> QED
    BY <2>1, <2>2
<1>7. Max(A) \in Nat /\ Max(A) >= Cells - 1
  <2> DEFINE d == b + Cells
  <2>1. A \subseteq Nat /\ Cells - 1 \in A /\ d \in Nat
    BY <1>1, <1>2, <1>3, <1>6
  <2>2. \A x \in A : x <= d
    <3>1. \A x \in idxs : x \in Nat /\ x <= b
      BY <1>2, <1>3, <1>6
    <3> HIDE DEF idxs
    <3> QED
      BY <1>1, <1>6, <3>1
  <2> HIDE DEF A, d
  <2>3. Max(A) \in A /\ \A x \in A : x <= Max(A)
    BY <2>1, <2>2, MaxIsGreatest
  <2> QED
    BY <1>1, <2>1, <2>3
<1> DEFINE k == Max(A) + 1
<1>8. ASSUME NEW c PROVE Max(At(c)) \in At(c)
  <2>1. At(c) \subseteq Nat /\ 0 \in At(c) /\ \A x \in At(c) : x <= n
    <3>1. \A x \in At(c) : x = 0 \/ x \in 1..n
      BY <1>3
    <3>2. 0 \in At(c)
      OBVIOUS
    <3> HIDE DEF At
    <3> QED
      BY <1>1, <3>1, <3>2
  <2> HIDE DEF At
  <2> QED
    BY <1>1, <2>1, MaxIsGreatest
<1>9. LoadedCells = [c \in 0..Max(A) |-> Max(At(c))]
  BY DEF LoadedCells
<1>10. \A c : At(c) \subseteq {0} \union 1..n /\ \A i \in At(c) : i # 0 => i \in 1..n /\ ~row[i].dead /\ row[i].idx = c
  BY <1>3
<1> HIDE DEF At, A, g
<1>11. k \in Nat /\ k > 0 /\ k >= Cells /\ 0..k-1 = 0..Max(A)
  BY <1>1, <1>7
<1>12. slot' \in [0..k-1 -> {0} \union 1..n]
  BY <1>4, <1>8, <1>9, <1>10, <1>11
<1>13. CellsOf(slot', n)
  BY <1>11, <1>12 DEF CellsOf
<1>14. \A c \in DOMAIN slot' : slot'[c] # 0 => slot'[c] \in 1..n /\ ~row[slot'[c]].dead /\ row[slot'[c]].idx = c
  BY <1>4, <1>8, <1>9, <1>10
<1>15. recent \in BOOLEAN /\ dbMoney \in Int
  BY DEF TypeOK
<1>16. inMap' \subseteq 1..n
  BY <1>3, <1>4
<1> HIDE DEF n
<1>17. TypeOK'
  BY <1>1, <1>4, <1>5, <1>13, <1>15, <1>16, TypeFrom
<1> QED
  BY <1>1, <1>4, <1>5, <1>14, <1>17, SMTT(30) DEF n

\* What a sort makes of the items and the cells, of what its loop ended with.
Place(m, i) == Max({c \in DOMAIN m.out : m.out[c] = i})

\* The place of an item put back is one it has been put back to, the only one if
\* items are put back once.
LEMMA PlaceIs ==
  ASSUME NEW n \in Nat, NEW m \in MergeStates(n), NEW c \in DOMAIN m.out
  PROVE  /\ Place(m, m.out[c]) \in Nat
         /\ (\A p, q \in DOMAIN m.out : m.out[p] = m.out[q] => p = q) => Place(m, m.out[c]) = c
<1> DEFINE a == m.out
           A == {p \in DOMAIN a : a[p] = a[c]}
<1>1. a \in Seq(1..n)
  BY MergeParts
<1>2. Len(a) \in Nat /\ DOMAIN a = 1..Len(a)
  BY <1>1
<1>3. A \subseteq Nat /\ c \in A /\ \A x \in A : x <= Len(a)
  BY <1>2
<1> HIDE DEF A
<1>4. Max(A) \in A
  BY <1>2, <1>3, MaxIsGreatest
<1>5. Place(m, m.out[c]) = Max(A)
  BY DEF Place, A
<1>6. (\A p, q \in DOMAIN m.out : m.out[p] = m.out[q] => p = q) => \A x \in A : x = c
  BY DEF A
<1> QED
  BY <1>3, <1>4, <1>5, <1>6

\* The sorted bag and its cells, item by item and cell by cell (sortItem).
LEMMA SortedIs ==
  ASSUME TypeOK, set \in Settings, NEW o \in Orders, NEW h, Rounds(h, o), NEW m, m = h[Cardinality(Filled)]
  PROVE  LET n == Len(item)
             f == SortedItems(m)
             s == SortedCells(m) IN
         /\ f \in [1..n -> ItemRecord]
         /\ \A i \in 1..n : Is(f[i], item[i].tpl, m.items[i].num, f[i].idx, item[i].equip, item[i].dead)
         /\ \A c \in DOMAIN m.out : f[m.out[c]].idx = Place(m, m.out[c])
         /\ \A i \in 1..n : (\A c \in DOMAIN m.out : m.out[c] # i) => f[i] = m.items[i]
         /\ s \in [0..Cells-1 -> {0} \union 1..n] /\ s[0] = 0
         /\ \A c \in 0..Cells-1 : s[c] = IF c \in DOMAIN m.out THEN m.out[c] ELSE 0
         /\ InCells(s) = Visible(m) /\ Visible(m) \subseteq 1..n
<1> DEFINE n == Len(item)
           f == SortedItems(m)
           s == SortedCells(m)
           N == Cardinality(Filled)
<1>1. N \in Nat /\ n \in Nat /\ DOMAIN item = 1..n /\ Cells \in Nat /\ Cells > 1
  BY OrderIs, ItemsAre, SettingFacts
<1>2. Kept(m, o, N) /\ m \in MergeStates(n)
  <2>1. N \in 0..N
    BY <1>1
  <2>2. Kept(m, o, N)
    BY <2>1, RoundsKeep
  <2> QED
    BY <2>2 DEF Kept
<1>3. m.items \in [1..n -> ItemRecord] /\ m.out \in Seq(1..n)
  BY <1>1, <1>2, MergeParts
<1>4. DOMAIN m.out = 1..Len(m.out) /\ Len(m.out) \in Nat /\ \A c \in DOMAIN m.out : m.out[c] \in 1..n
  BY <1>3
<1>5. ToSet(m.out) = {m.out[c] : c \in DOMAIN m.out}
  BY DEF ToSet
<1> DEFINE told(i) == [m.items[i] EXCEPT !.idx = Place(m, i)]
<1>6. f = [i \in 1..n |-> IF i \in ToSet(m.out) THEN told(i) ELSE m.items[i]]
  BY <1>1 DEF SortedItems, Place
<1>7. \A i \in ToSet(m.out) : Place(m, i) \in Nat
  BY <1>1, <1>2, <1>5, PlaceIs
<1>8. ASSUME NEW i \in 1..n, i \in ToSet(m.out)
      PROVE  /\ told(i) \in ItemRecord /\ told(i).idx = Place(m, i)
             /\ Is(told(i), m.items[i].tpl, m.items[i].num, told(i).idx, m.items[i].equip, m.items[i].dead)
  <2>1. Place(m, i) \in Nat /\ m.items[i] \in ItemRecord
    BY <1>3, <1>7, <1>8
  <2> QED
    BY <2>1 DEF ItemRecord, Is
<1> HIDE DEF told, f
<1>9. f \in [1..n -> ItemRecord]
  BY <1>3, <1>6, <1>8
<1>10. \A i \in 1..n : f[i] = IF i \in ToSet(m.out) THEN told(i) ELSE m.items[i]
  BY <1>6
<1>11. \A i \in 1..n : Is(m.items[i], item[i].tpl, m.items[i].num, item[i].idx, item[i].equip, item[i].dead)
  BY <1>2 DEF Kept, Renumbered
<1>12. \A i \in 1..n : Is(f[i], item[i].tpl, m.items[i].num, f[i].idx, item[i].equip, item[i].dead)
  BY <1>8, <1>10, <1>11 DEF Is
<1>13. \A c \in DOMAIN m.out : f[m.out[c]].idx = Place(m, m.out[c])
  BY <1>4, <1>5, <1>8, <1>10
<1>14. \A i \in 1..n : (\A c \in DOMAIN m.out : m.out[c] # i) => f[i] = m.items[i]
  BY <1>5, <1>10
<1>15. s = [c \in 0..Cells-1 |-> IF c \in DOMAIN m.out THEN m.out[c] ELSE 0]
  BY DEF SortedCells
<1> HIDE DEF s
<1>16. \A c \in 0..Cells-1 : s[c] = IF c \in DOMAIN m.out THEN m.out[c] ELSE 0
  BY <1>15
<1>17. s \in [0..Cells-1 -> {0} \union 1..n] /\ DOMAIN s = 0..Cells-1
  BY <1>4, <1>15
<1>18. s[0] = 0
  BY <1>1, <1>4, <1>16
<1>19. \A c \in DOMAIN m.out : c < Cells => c \in 0..Cells-1 /\ m.out[c] # 0
  BY <1>1, <1>4
<1>20. \A c \in 0..Cells-1 : c < Cells
  BY <1>1
<1>21. InCells(s) = Visible(m)
  <2>1. ASSUME NEW i \in InCells(s) PROVE i \in Visible(m)
    <3>1. PICK c \in 0..Cells-1 : s[c] = i /\ i # 0
      BY <1>17 DEF InCells
    <3>2. c \in DOMAIN m.out /\ m.out[c] = i /\ c < Cells
      BY <1>16, <1>20, <3>1
    <3> QED
      BY <3>2 DEF Visible
  <2>2. ASSUME NEW i \in Visible(m) PROVE i \in InCells(s)
    <3>1. PICK c \in DOMAIN m.out : m.out[c] = i /\ c < Cells
      BY DEF Visible
    <3>2. c \in 0..Cells-1 /\ i # 0 /\ s[c] = i
      BY <1>16, <1>19, <3>1
    <3> QED
      BY <1>17, <3>2 DEF InCells
  <2> QED
    BY <2>1, <2>2
<1>22. Visible(m) \subseteq 1..n
  BY <1>4 DEF Visible
<1> QED
  BY <1>9, <1>12, <1>13, <1>14, <1>16, <1>17, <1>18, <1>21, <1>22 DEF f, s

\* A sort that looks at the bag.
Sorts(m) == slot' = SortedCells(m) /\ Save(SortedItems(m), InCells(SortedCells(m)))

\* What sortItem does to the items, their rows and the cells.
LEMMA SortDoes ==
  ASSUME TypeOK, set \in Settings, loaded, NEW o \in Orders, NEW h, Rounds(h, o), NEW m, m = h[Cardinality(Filled)],
         Sorts(m)
  PROVE  LET n == Len(item) IN
         /\ item' \in [1..n -> ItemRecord] /\ row' \in [1..n -> RowRecord]
         /\ \A i \in 1..n : /\ item'[i].tpl = item[i].tpl /\ item'[i].num = m.items[i].num /\ item'[i].equip = item[i].equip
                            /\ row'[i].tpl = row[i].tpl
         /\ \A i \in 1..n : i \in Visible(m) =>
              /\ row'[i].num = m.items[i].num /\ row'[i].dead = item'[i].dead
              /\ item'[i].dead = (item[i].dead \/ m.items[i].num = 0)
         /\ \A i \in 1..n : i \notin Visible(m) => row'[i] = row[i] /\ item'[i].dead = item[i].dead
         /\ \A c \in DOMAIN m.out : item'[m.out[c]].idx = Place(m, m.out[c])
         /\ \A i \in 1..n : (\A c \in DOMAIN m.out : m.out[c] # i) => item'[i] = m.items[i]
         /\ CellsOf(slot', n) /\ DOMAIN slot' = 0..Cells-1 /\ slot'[0] = 0
         /\ \A c \in 0..Cells-1 : slot'[c] = IF c \in DOMAIN m.out THEN m.out[c] ELSE 0
         /\ InCells(slot') = Visible(m) /\ Visible(m) \subseteq 1..n
<1> DEFINE n == Len(item)
           f == SortedItems(m)
           S == Visible(m)
           F == Flushed(f, S)
           R == Rows(f, S)
<1>1. n \in Nat /\ row \in [1..n -> RowRecord] /\ Cells \in Nat /\ Cells > 1
  BY ItemsAre, SettingFacts
<1>2. /\ f \in [1..n -> ItemRecord]
      /\ \A i \in 1..n : Is(f[i], item[i].tpl, m.items[i].num, f[i].idx, item[i].equip, item[i].dead)
      /\ \A c \in DOMAIN m.out : f[m.out[c]].idx = Place(m, m.out[c])
      /\ \A i \in 1..n : (\A c \in DOMAIN m.out : m.out[c] # i) => f[i] = m.items[i]
  BY SortedIs, ZenonT(30)
<1>3. /\ slot' \in [0..Cells-1 -> {0} \union 1..n] /\ slot'[0] = 0
      /\ \A c \in 0..Cells-1 : slot'[c] = IF c \in DOMAIN m.out THEN m.out[c] ELSE 0
      /\ InCells(slot') = S /\ S \subseteq 1..n
  <2>1. slot' = SortedCells(m)
    BY DEF Sorts
  <2> QED
    BY <2>1, SortedIs
<1>4. item' = F /\ row' = R
  <2>1. InCells(SortedCells(m)) = S
    BY SortedIs
  <2> QED
    BY <2>1 DEF Sorts, Save
<1> HIDE DEF f, S
<1>5. /\ F \in [1..n -> ItemRecord] /\ R \in [1..n -> RowRecord]
      /\ \A i \in 1..n \ S : F[i] = f[i] /\ R[i] = row[i]
      /\ \A i \in 1..n : i \in S =>
           /\ Is(F[i], f[i].tpl, f[i].num, f[i].idx, f[i].equip, f[i].dead \/ f[i].num = 0)
           /\ R[i].num = f[i].num /\ R[i].idx = f[i].idx
           /\ R[i].dead = F[i].dead
      /\ \A i \in 1..n : R[i].tpl = row[i].tpl
  <2>1. n \in Nat /\ row \in [1..n -> RowRecord] /\ f \in [1..n -> ItemRecord]
    BY <1>1, <1>2
  <2> HIDE DEF n
  <2> QED
    BY ONLY <2>1, FlushDoes
<1> HIDE DEF F, R
<1>6. \A i \in 1..n : Is(F[i], item[i].tpl, m.items[i].num, f[i].idx, item[i].equip, F[i].dead)
  BY <1>2, <1>5 DEF Is
<1>7. \A i \in 1..n : i \in S =>
        R[i].num = m.items[i].num /\ R[i].dead = F[i].dead /\ F[i].dead = (item[i].dead \/ m.items[i].num = 0)
  BY <1>2, <1>5 DEF Is
<1>8. \A i \in 1..n : i \notin S => R[i] = row[i] /\ F[i].dead = item[i].dead
  BY <1>2, <1>5 DEF Is
<1>9. \A c \in DOMAIN m.out : m.out[c] \in 1..n
  <2>1. m \in MergeStates(n)
    BY <1>1, OrderIs DEF Rounds
  <2>2. m.out \in Seq(1..n)
    BY <1>1, <2>1, MergeParts
  <2> QED
    BY <2>2
<1>10. \A c \in DOMAIN m.out : F[m.out[c]].idx = Place(m, m.out[c])
  BY <1>2, <1>6, <1>9 DEF Is
<1>11. \A i \in 1..n : (\A c \in DOMAIN m.out : m.out[c] # i) => F[i] = m.items[i]
  <2>1. \A i \in 1..n : (\A c \in DOMAIN m.out : m.out[c] # i) => i \notin S
    BY DEF S, Visible
  <2> QED
    BY <1>2, <1>5, <2>1
<1>12. CellsOf(slot', n) /\ DOMAIN slot' = 0..Cells-1
  <2>1. Cells > 0 /\ Cells >= Cells
    BY <1>1
  <2> QED
    BY <1>1, <1>3, <2>1 DEF CellsOf
<1>13. \A i \in 1..n : /\ F[i].tpl = item[i].tpl /\ F[i].num = m.items[i].num /\ F[i].equip = item[i].equip
                       /\ R[i].tpl = row[i].tpl
  BY <1>5, <1>6 DEF Is
<1> QED
  BY <1>3, <1>4, <1>5, <1>7, <1>8, <1>10, <1>11, <1>12, <1>13, SMTT(30) DEF S

-----------------------------------------------------------------------------
(* The types.                                                              *)

\* What a step may be, whatever the client.
LEMMA NextIs ==
  ASSUME Next, TypeOK
  PROVE  /\ set' = set /\ odd' \in BOOLEAN
         /\ \/ \E t \in Templates, c \in Counts : BuyItem(t, c) \/ BuyCut(t, c)
            \/ \E id \in inMap :
                 \/ SellItem(id) \/ SellCut(id) \/ AbandonItem(id)
                 \/ EquipItem(id) \/ UnEquipItem(id)
                 \/ \E to \in DOMAIN slot : MoveItem(id, to) \/ MoveCrash(id, to) \/ MoveCut(id, to)
                 \/ \E n \in Counts : StrengthItem(id, n)
            \/ SortItems \/ SortCrash \/ SortCut \/ Tick \/ Leave \/ Load
<1>1. InBag \subseteq inMap /\ Worn \subseteq inMap /\ \A n \in Counts : StrengthCrash(n) => Leave
  BY DEF InBag, Worn, StrengthCrash, Leave
<1>2. set' = set /\ (Visit \/ AnyRequest)
  BY DEF Next
<1> DEFINE step == \/ \E t \in Templates, c \in Counts : BuyItem(t, c) \/ BuyCut(t, c)
                   \/ \E id \in inMap :
                        \/ SellItem(id) \/ SellCut(id) \/ AbandonItem(id)
                        \/ EquipItem(id) \/ UnEquipItem(id)
                        \/ \E to \in DOMAIN slot : MoveItem(id, to) \/ MoveCrash(id, to) \/ MoveCut(id, to)
                        \/ \E n \in Counts : StrengthItem(id, n)
                   \/ SortItems \/ SortCrash \/ SortCut \/ Tick \/ Leave \/ Load
<1>3. ASSUME AnyRequest PROVE step
  <2>1. step \/ \E n \in Counts : StrengthCrash(n)
    BY <1>3, ZenonT(30) DEF AnyRequest
  <2> QED
    BY <1>1, <2>1
<1>4. ASSUME Visit PROVE step
  <2>1. step \/ \E n \in Counts : StrengthCrash(n)
    BY <1>1, <1>4, ZenonT(30) DEF Visit
  <2> QED
    BY <1>1, <2>1
<1> DEFINE new == \E t \in Templates, c \in Counts : Odd(t, c) /\ (BuyItem(t, c) \/ BuyCut(t, c))
<1>5. odd \in BOOLEAN /\ odd' = (odd \/ new)
  BY DEF Next, TypeOK
<1> HIDE DEF new
<1>6. odd' \in BOOLEAN
  BY <1>5, Zenon
<1> QED
  BY <1>2, <1>3, <1>4, <1>6 DEF step

\* Rows that are saved are rows.
LEMMA RowsAre ==
  ASSUME TypeOK, loaded, NEW f \in [1..Len(item) -> ItemRecord], NEW S
  PROVE  Rows(f, S) \in Seq(RowRecord)
<1> DEFINE n == Len(item)
<1>1. n \in Nat /\ row \in [1..n -> RowRecord] /\ f \in [1..n -> ItemRecord]
  BY ItemsAre
<1> HIDE DEF n
<1>2. Rows(f, S) \in [1..n -> RowRecord]
  BY ONLY <1>1, FlushDoes
<1> QED
  BY <1>1, <1>2, SequenceOf

\* A sale leaves a number that is not negative, and from money that is not negative
\* no more than the money and the price.
LEMMA SaleIs ==
  ASSUME TypeOK, set \in Settings, NEW id \in inMap
  PROVE  /\ MoneyAfterSale(id) \in Nat
         /\ money >= 0 /\ Price[item[id].tpl] * item[id].num >= 0 =>
              MoneyAfterSale(id) <= money + Price[item[id].tpl] * item[id].num
<1>1. item[id].tpl \in Templates /\ item[id].num \in Int /\ money \in Int /\ IntMax \in Nat
  BY HeldIs, BagAssumption DEF TypeOK
<1>2. Price[item[id].tpl] \in Int
  BY <1>1, SettingFacts
<1> DEFINE k == Price[item[id].tpl] * item[id].num
           w == Wrapped(k, IntMax)
           x == money + w
           v == Wrapped(x, IntMax)
<1>3. k \in Int
  BY <1>1, <1>2
<1>4. MoneyAfterSale(id) = Max({0, v})
  BY DEF MoneyAfterSale
<1> HIDE DEF k
<1>5. w \in Int /\ w >= -(IntMax + 1) /\ (k >= -(IntMax + 1) => w <= k)
  BY <1>1, <1>3, WrappedIsInt, WrappedIsAbove, WrappedIsLess
<1> HIDE DEF w
<1>6. x \in Int /\ (money >= 0 => x >= -(IntMax + 1))
  BY <1>1, <1>5
<1> HIDE DEF x
<1>7. v \in Int /\ (money >= 0 => v <= x)
  BY <1>1, <1>6, WrappedIsInt, WrappedIsLess
<1> HIDE DEF v
<1>8. 0 \in Int /\ Max({0, v}) = IF 0 <= v THEN v ELSE 0
  BY <1>7, MaxOfTwo
<1>9. Max({0, v}) \in Nat
  BY <1>7, <1>8
<1>10. ASSUME money >= 0, k >= 0 PROVE Max({0, v}) <= money + k
  <2>1. k >= -(IntMax + 1)
    BY <1>1, <1>3, <1>10
  <2>2. v <= x /\ w <= k /\ x = money + w
    BY <1>5, <1>7, <1>10, <2>1 DEF x
  <2> QED
    BY <1>1, <1>3, <1>5, <1>6, <1>7, <1>8, <1>10, <2>2
<1> QED
  BY <1>4, <1>9, <1>10 DEF k

\* The saves that a crash cuts short write rows.
LEMMA CutRowsAre ==
  ASSUME TypeOK, set \in Settings, loaded
  PROVE  /\ \A id \in inMap : \A to \in DOMAIN slot : MoveCut(id, to) => row' \in Seq(RowRecord)
         /\ SortCut => row' \in Seq(RowRecord)
<1>1. ASSUME NEW id \in inMap, NEW to \in DOMAIN slot, MoveCut(id, to) PROVE row' \in Seq(RowRecord)
  <2>1. CASE Stackable(id, to) /\ row' = Rows(Stacked(id, slot[to]), {id})
    <3> DEFINE f == Stacked(id, slot[to])
    <3>1. f \in [1..Len(item) -> ItemRecord]
      BY <2>1, StackedIs
    <3> HIDE DEF f
    <3>2. Rows(f, {id}) \in Seq(RowRecord)
      BY <3>1, RowsAre
    <3> QED
      BY <2>1, <3>2 DEF f
  <2>2. CASE slot[to] # 0 /\ row' = Rows([item EXCEPT ![slot[to]].idx = item[id].idx], {slot[to]})
    <3> DEFINE n == Len(item)
               x == slot[to]
               v == item[id].idx
               f == [item EXCEPT ![x].idx = v]
    <3>1. n \in Nat /\ item \in [1..n -> ItemRecord] /\ x \in 1..n /\ v \in Nat
      BY <2>2, ItemsAre, HeldIs
    <3>2. f \in [1..n -> ItemRecord]
      <4> HIDE DEF n, x, v
      <4> QED
        BY <3>1, NewIdx
    <3> HIDE DEF f
    <3>3. Rows(f, {x}) \in Seq(RowRecord)
      BY <3>2, RowsAre
    <3> QED
      BY <2>2, <3>3 DEF f
  <2> QED
    BY <1>1, <2>1, <2>2 DEF MoveCut
<1>2. ASSUME SortCut PROVE row' \in Seq(RowRecord)
  <2>1. PICK m \in Merges, last \in 1..Cells-1 :
          row' = Rows(SortedItems(m), {SortedCells(m)[i] : i \in 0..last} \ {0})
    BY <1>2 DEF SortCut
  <2>2. PICK o \in Orders : m = Merged(o)
    BY DEF Merges
  <2>3. PICK h : Rounds(h, o) /\ m = h[Cardinality(Filled)]
    BY <2>2, MergedIs
  <2>4. SortedItems(m) \in [1..Len(item) -> ItemRecord]
    BY <2>3, SortedIs
  <2> QED
    BY <2>1, <2>4, RowsAre
<1> QED
  BY <1>1, <1>2

\* A sort that looks at the bag, and its loop.
LEMMA SortItemsIs ==
  ASSUME TypeOK, set \in Settings, SortItems
  PROVE  /\ loaded /\ recent' = TRUE /\ UNCHANGED <<inMap, money, loaded, dbMoney>>
         /\ \/ Save(item, InCells(slot)) /\ slot' = slot
            \/ \E o \in Orders : \E h : Rounds(h, o) /\ ~h[Cardinality(Filled)].crashed /\ Sorts(h[Cardinality(Filled)])
<1>1. ASSUME NEW m \in Merges, ~m.crashed, Sorts(m)
      PROVE  \E o \in Orders : \E h : Rounds(h, o) /\ ~h[Cardinality(Filled)].crashed /\ Sorts(h[Cardinality(Filled)])
  <2>1. PICK o \in Orders : m = Merged(o)
    BY DEF Merges
  <2>2. PICK h : Rounds(h, o) /\ m = h[Cardinality(Filled)]
    BY <2>1, MergedIs
  <2> QED
    BY <1>1, <2>2
<1> QED
  BY <1>1 DEF SortItems, Sorts

\* A flush of what is in the cells.
LEMMA FlushAllDoes ==
  ASSUME TypeOK, set \in Settings, loaded, Save(item, InCells(slot))
  PROVE  /\ Touches(InCells(slot))
         /\ \A i \in InCells(slot) :
              Is(item'[i], item[i].tpl, item[i].num, item[i].idx, item[i].equip, item[i].dead \/ item[i].num = 0)
<1>1. item \in [1..Len(item) -> ItemRecord]
  BY ItemsAre
<1>2. InCells(slot) \in SUBSET (1..Len(item))
  BY ItemsAre DEF InCells
<1> QED
  BY <1>1, <1>2, SaveTouches

\* The types are kept by every step.
LEMMA TypeStep ==
  ASSUME TypeOK, set \in Settings, Next
  PROVE  TypeOK'
<1> DEFINE n == Len(item)
<1>1. /\ set' = set /\ odd' \in BOOLEAN
      /\ \/ \E t \in Templates, c \in Counts : BuyItem(t, c) \/ BuyCut(t, c)
         \/ \E id \in inMap :
              \/ SellItem(id) \/ SellCut(id) \/ AbandonItem(id)
              \/ EquipItem(id) \/ UnEquipItem(id)
              \/ \E to \in DOMAIN slot : MoveItem(id, to) \/ MoveCrash(id, to) \/ MoveCut(id, to)
              \/ \E k \in Counts : StrengthItem(id, k)
         \/ SortItems \/ SortCrash \/ SortCut \/ Tick \/ Leave \/ Load
  BY NextIs
<1>2. /\ n \in Nat /\ money \in Int /\ dbMoney \in Int /\ recent \in BOOLEAN /\ row \in Seq(RowRecord)
      /\ inMap \subseteq 1..n /\ CellsOf(slot, n)
  BY ItemsAre, CellsBefore DEF TypeOK
<1>3. ASSUME Gone, row' \in Seq(RowRecord), dbMoney' \in Int PROVE TypeOK'
  BY <1>1, <1>3, GoneDoes
<1>4. ASSUME loaded, NEW S, Touches(S), inMap' \subseteq 1..n, CellsOf(slot', n), recent' \in BOOLEAN, money' \in Int,
             dbMoney' \in Int, loaded' = TRUE
      PROVE  TypeOK'
  BY <1>1, <1>4, TypeStays
<1>5. ASSUME loaded, NEW S, Touches(S), inMap' \subseteq 1..n, CellsOf(slot', n), recent' = recent, money' \in Int,
             dbMoney' \in Int, loaded' = loaded
      PROVE  TypeOK'
  BY <1>2, <1>4, <1>5
<1>6. ASSUME NEW t \in Templates, NEW c \in Counts, BuyItem(t, c) PROVE TypeOK'
  <2> DEFINE k == n + 1
  <2>1. /\ loaded /\ item' \in [1..k -> ItemRecord] /\ row' \in [1..k -> RowRecord] /\ CellsOf(slot', k)
        /\ inMap' = inMap \union {k} /\ money' \in Int /\ dbMoney' = money' /\ UNCHANGED <<recent, loaded>>
    BY <1>6, BuyDoes
  <2>4. n \in Nat /\ inMap \subseteq 1..n /\ k = n + 1 /\ inMap' = inMap \union {k}
    BY <1>2, <2>1
  <2> HIDE DEF k, n
  <2>5. 1..n \subseteq 1..k /\ k \in 1..k /\ k \in Nat
    BY <2>4
  <2>2. k \in Nat /\ inMap' \subseteq 1..k
    BY <2>4, <2>5
  <2>3. recent' \in BOOLEAN /\ dbMoney' \in Int /\ loaded' = TRUE
    BY <1>2, <2>1
  <2> QED
    BY <1>1, <2>1, <2>2, <2>3, TypeFrom
<1>7. ASSUME NEW t \in Templates, NEW c \in Counts, BuyCut(t, c) PROVE TypeOK'
  <2>1. Change(t, c) \in Int
    BY ChangeIs
  <2>2. Gone /\ dbMoney' = Change(t, c) /\ row' = row
    BY <1>7 DEF BuyCut
  <2> QED
    BY <1>2, <1>3, <2>1, <2>2
<1>8. ASSUME NEW id \in inMap, SellItem(id) \/ AbandonItem(id) PROVE TypeOK'
  <2>1. loaded /\ Drop(id) /\ money' \in Int /\ dbMoney' \in Int
    <3>1. MoneyAfterSale(id) \in Int
      BY SaleIs
    <3> QED
      BY <1>2, <1>8, <3>1 DEF SellItem, AbandonItem
  <2>2. Touches({id}) /\ CellsOf(slot', n) /\ inMap' = inMap \ {id} /\ recent' = recent /\ loaded' = loaded
    BY <2>1, DropDoes
  <2> QED
    BY <1>2, <1>5, <2>1, <2>2
<1>9. ASSUME NEW id \in inMap, SellCut(id) PROVE TypeOK'
  BY <1>2, <1>3, <1>9, SaleIs DEF SellCut
<1>10. ASSUME NEW id \in inMap, EquipItem(id) PROVE TypeOK'
  <2>1. Touches({id}) /\ loaded /\ CellsOf(slot', n) /\ UNCHANGED <<inMap, recent, money, loaded, dbMoney>>
    BY <1>10, EquipDoes
  <2> QED
    BY <1>2, <1>5, <2>1
<1>11. ASSUME NEW id \in inMap, UnEquipItem(id) PROVE TypeOK'
  <2>1. Touches({id}) /\ loaded /\ CellsOf(slot', n) /\ UNCHANGED <<inMap, recent, money, loaded, dbMoney>>
    BY <1>11, UnEquipDoes
  <2> QED
    BY <1>2, <1>5, <2>1
<1>12. ASSUME NEW id \in inMap, NEW to \in DOMAIN slot, MoveItem(id, to) PROVE TypeOK'
  <2>1. /\ loaded /\ to # 0 /\ UNCHANGED <<recent, money, loaded, dbMoney>>
        /\ \/ Stackable(id, to) /\ StackCells(id, to)
           \/ item[id].idx \in DOMAIN slot /\ SwapCells(id, to)
    BY <1>12 DEF MoveItem
  <2>2. CASE Stackable(id, to) /\ StackCells(id, to)
    <3>1. Touches({id, slot[to]}) /\ CellsOf(slot', n) /\ inMap' \subseteq inMap
      BY <2>1, <2>2, StackDoes
    <3> QED
      BY <1>2, <1>5, <2>1, <3>1
  <2>3. CASE item[id].idx \in DOMAIN slot /\ SwapCells(id, to)
    <3>1. Touches({id, slot[to]} \ {0}) /\ CellsOf(slot', n) /\ inMap' = inMap
      BY <2>1, <2>3, SwapDoes
    <3> QED
      BY <1>2, <1>5, <2>1, <3>1
  <2> QED
    BY <2>1, <2>2, <2>3
<1>13. ASSUME NEW id \in inMap, NEW to \in DOMAIN slot, MoveCrash(id, to) PROVE TypeOK'
  BY <1>2, <1>3, <1>13 DEF MoveCrash, db
<1>14. ASSUME NEW id \in inMap, NEW to \in DOMAIN slot, MoveCut(id, to) PROVE TypeOK'
  <2>1. loaded /\ Gone /\ dbMoney' = dbMoney
    BY <1>14 DEF MoveCut
  <2>2. row' \in Seq(RowRecord)
    BY <1>14, <2>1, CutRowsAre
  <2> QED
    BY <1>2, <1>3, <2>1, <2>2
<1>15. ASSUME NEW id \in inMap, NEW c \in Counts, StrengthItem(id, c) PROVE TypeOK'
  <2>1. Touches({id}) /\ loaded /\ money' \in Int /\ UNCHANGED <<inMap, slot, recent, loaded, dbMoney>>
    BY <1>15, StrengthDoes
  <2> QED
    BY <1>2, <1>5, <2>1
<1>16. ASSUME SortItems PROVE TypeOK'
  <2>1. /\ loaded /\ recent' = TRUE /\ UNCHANGED <<inMap, money, loaded, dbMoney>>
        /\ \/ Save(item, InCells(slot)) /\ slot' = slot
           \/ \E o \in Orders : \E h : Rounds(h, o) /\ Sorts(h[Cardinality(Filled)])
    BY <1>16, SortItemsIs
  <2>2. recent' \in BOOLEAN /\ inMap' \subseteq 1..n /\ money' \in Int /\ dbMoney' \in Int /\ loaded' = TRUE
    BY <1>2, <2>1
  <2>3. CASE Save(item, InCells(slot)) /\ slot' = slot
    <3>1. Touches(InCells(slot))
      BY <2>1, <2>3, FlushAllDoes
    <3> QED
      BY <1>2, <1>4, <2>1, <2>2, <2>3, <3>1
  <2>4. ASSUME NEW o \in Orders, NEW h, Rounds(h, o), Sorts(h[Cardinality(Filled)]) PROVE TypeOK'
    <3>1. item' \in [1..n -> ItemRecord] /\ row' \in [1..n -> RowRecord] /\ CellsOf(slot', n)
      BY <2>1, <2>4, SortDoes
    <3> HIDE DEF n
    <3> QED
      BY <1>1, <1>2, <2>2, <3>1, TypeFrom
  <2> QED
    BY <2>1, <2>3, <2>4
<1>17. ASSUME SortCrash \/ Leave PROVE TypeOK'
  BY <1>2, <1>3, <1>17 DEF SortCrash, Leave, db
<1>18. ASSUME SortCut PROVE TypeOK'
  <2>1. loaded /\ Gone /\ dbMoney' = dbMoney
    BY <1>18 DEF SortCut
  <2>2. row' \in Seq(RowRecord)
    BY <1>18, <2>1, CutRowsAre
  <2> QED
    BY <1>2, <1>3, <2>1, <2>2
<1>19. ASSUME Tick PROVE TypeOK'
  <2>1. ItemRecord' = ItemRecord /\ RowRecord' = RowRecord /\ Cells' = Cells /\ odd' \in BOOLEAN
    BY <1>1, SettingStays
  <2>2. recent' = FALSE /\ UNCHANGED <<item, inMap, slot, money, loaded, row, dbMoney>>
    BY <1>19 DEF Tick
  <2>3. recent' \in BOOLEAN
    BY <2>2, Zenon
  <2> QED
    BY <2>1, <2>2, <2>3 DEF TypeOK
<1>20. ASSUME Load PROVE TypeOK'
  BY <1>1, <1>20, LoadDoes
<1> QED
  BY <1>1, <1>6, <1>7, <1>8, <1>9, <1>10, <1>11, <1>12, <1>13, <1>14, <1>15, <1>16, <1>17, <1>18, <1>19, <1>20

\* A role that is first loaded has no items.
LEMMA TypeInit ==
  ASSUME Init
  PROVE  set \in Settings /\ TypeOK
<1>1. set \in Settings /\ item = <<>> /\ row = <<>> /\ inMap = {} /\ slot = [i \in 0..Cells-1 |-> 0]
      /\ odd = FALSE /\ recent = FALSE /\ loaded = TRUE /\ money = StartMoney /\ dbMoney = StartMoney
  BY DEF Init
<1>2. Cells \in Nat /\ StartMoney \in Nat
  BY <1>1, SettingFacts
<1> HIDE DEF Cells, StartMoney
<1>3. slot \in [0..Cells-1 -> {0}]
  BY <1>1
<1>4. IsFiniteSet(DOMAIN slot) /\ Cardinality(DOMAIN slot) = Cells
  BY <1>2, <1>3, CellCount
<1>5. item \in Seq(ItemRecord) /\ row \in Seq(RowRecord) /\ Len(item) = 0 /\ Len(row) = 0
  BY <1>1
<1>6. recent \in BOOLEAN /\ loaded \in BOOLEAN /\ odd \in BOOLEAN
  BY <1>1, Zenon
<1>7. slot \in [0..Cardinality(DOMAIN slot)-1 -> {0} \union DOMAIN item] /\ 0..Cells-1 \subseteq DOMAIN slot
  BY <1>3, <1>4
<1>8. money \in Int /\ dbMoney \in Int /\ inMap \subseteq DOMAIN item /\ Len(item) = (IF loaded THEN Len(row) ELSE 0)
  BY <1>1, <1>2, <1>5
<1> QED
  BY <1>1, <1>4, <1>5, <1>6, <1>7, <1>8 DEF TypeOK

\* The setting and the types, at every step.
LEMMA TypesHold == Spec => [](set \in Settings /\ TypeOK)
<1>1. Init => set \in Settings /\ TypeOK
  BY TypeInit
<1>2. (set \in Settings /\ TypeOK) /\ [Next]_vars => (set \in Settings /\ TypeOK)'
  <2> SUFFICES ASSUME set \in Settings, TypeOK, [Next]_vars
               PROVE  set' \in Settings /\ TypeOK'
    OBVIOUS
  <2>1. CASE Next
    BY <2>1, TypeStep, NextIs
  <2>2. CASE UNCHANGED vars
    <3>1. UNCHANGED <<set, odd, item, inMap, slot, recent, money, loaded, row, dbMoney>>
      BY <2>2 DEF vars
    <3>2. ItemRecord' = ItemRecord /\ RowRecord' = RowRecord /\ Cells' = Cells
      BY <3>1, SettingStays
    <3> QED
      BY <3>1, <3>2 DEF TypeOK
  <2> QED
    BY <2>1, <2>2
<1> QED
  BY <1>1, <1>2, PTL DEF Spec

\* Every variable keeps its type, the table has a row for every item object, and the
\* bag at least its first cells.
THEOREM TypeCorrect == Spec => []TypeOK
  BY TypesHold, PTL

-----------------------------------------------------------------------------
(* What the cells show is what the table holds.                            *)

\* An item is shown if some cell holds it.
LEMMA ShownIs ==
  ASSUME NEW s, NEW x
  PROVE  x \in InCells(s) <=> x # 0 /\ \E c \in DOMAIN s : s[c] = x
  BY DEF InCells

\* An item that leaves its cell shows nothing new, and one that is put in a free
\* cell shows only that one.
LEMMA ShownAfter ==
  ASSUME NEW x
  PROVE  /\ Emptied(x) => InCells(slot') \subseteq InCells(slot)
         /\ Filling(x) => InCells(slot') \subseteq InCells(slot) \union {x}
<1>1. ASSUME Emptied(x) PROVE InCells(slot') \subseteq InCells(slot)
  <2> SUFFICES ASSUME NEW y, y # 0, NEW c \in DOMAIN slot', slot'[c] = y
               PROVE  \E d \in DOMAIN slot : slot[d] = y
    BY ShownIs
  <2> QED
    BY <1>1 DEF Emptied
<1>2. ASSUME Filling(x) PROVE InCells(slot') \subseteq InCells(slot) \union {x}
  <2> SUFFICES ASSUME NEW y, y # 0, y # x, NEW c \in DOMAIN slot', slot'[c] = y
               PROVE  \E d \in DOMAIN slot : slot[d] = y
    BY ShownIs
  <2> QED
    BY <1>2 DEF Filling
<1> QED
  BY <1>1, <1>2

\* The table holds what the cells show.
CellsSaved ==
  loaded => \A id \in InCells(slot) : row[id].num = item[id].num /\ row[id].dead = item[id].dead

\* A request that shows nothing but what was shown or what it saves keeps it so,
\* and what stacks what its row says, if only what does not stack is changed.
LEMMA TouchKeeps ==
  ASSUME TypeOK, set \in Settings, set' = set, loaded, CellsSaved, Chain, NEW S, Touches(S),
         InCells(slot') \subseteq InCells(slot) \union S,
         \A i \in S : item'[i].tpl = item[i].tpl \/ StackNum[item'[i].tpl] = 0
  PROVE  CellsSaved' /\ Chain'
<1> DEFINE n == Len(item)
<1>1. n \in Nat /\ DOMAIN item = 1..n /\ DOMAIN item' = 1..n /\ StackNum' = StackNum
  BY ItemsAre, SettingStays DEF Touches
<1>2. /\ \A i \in 1..n : row'[i].tpl = row[i].tpl
      /\ \A i \in 1..n \ S : item'[i] = item[i] /\ row'[i] = row[i]
      /\ \A i \in S : i \in 1..n /\ row'[i].num = item'[i].num /\ row'[i].dead = item'[i].dead
  BY DEF Touches
<1>3. \A i \in InCells(slot) : i \in 1..n
  BY ItemsAre, ShownIs
<1> HIDE DEF n
<1>4. CellsSaved'
  <2> SUFFICES ASSUME NEW i \in InCells(slot')
               PROVE  row'[i].num = item'[i].num /\ row'[i].dead = item'[i].dead
    BY DEF CellsSaved
  <2>1. CASE i \in S
    BY <1>2, <2>1
  <2>2. CASE i \notin S
    <3>1. i \in InCells(slot) /\ i \in 1..n \ S
      BY <1>3, <2>2
    <3> QED
      BY <1>2, <3>1 DEF CellsSaved
  <2> QED
    BY <2>1, <2>2
<1>5. Chain'
  <2> SUFFICES ASSUME NEW i \in 1..n, StackNum[item'[i].tpl] # 0
               PROVE  item'[i].tpl = row'[i].tpl
    BY <1>1 DEF Chain
  <2>1. item'[i].tpl = item[i].tpl
    BY <1>2
  <2> QED
    BY <1>1, <1>2, <2>1 DEF Chain
<1> QED
  BY <1>4, <1>5

\* What two cells swap was shown before.
LEMMA SwapShows ==
  ASSUME NEW a \in DOMAIN slot, NEW b \in DOMAIN slot, DOMAIN slot' = DOMAIN slot,
         slot'[a] = slot[b], slot'[b] = slot[a], \A c \in DOMAIN slot \ {b, a} : slot'[c] = slot[c]
  PROVE  InCells(slot') \subseteq InCells(slot)
<1> SUFFICES ASSUME NEW y, y # 0, NEW c \in DOMAIN slot', slot'[c] = y
             PROVE  \E d \in DOMAIN slot : slot[d] = y
  BY ShownIs
<1> QED
  OBVIOUS

\* A sort writes the items it shows.
LEMMA SortSaves ==
  ASSUME TypeOK, set \in Settings, set' = set, loaded, Chain, NEW o \in Orders, NEW h, Rounds(h, o),
         Sorts(h[Cardinality(Filled)])
  PROVE  CellsSaved' /\ Chain'
<1> DEFINE n == Len(item)
           m == h[Cardinality(Filled)]
<1>1. /\ item' \in [1..n -> ItemRecord]
      /\ \A i \in 1..n : item'[i].tpl = item[i].tpl /\ item'[i].num = m.items[i].num /\ row'[i].tpl = row[i].tpl
      /\ \A i \in 1..n : i \in Visible(m) => row'[i].num = m.items[i].num /\ row'[i].dead = item'[i].dead
      /\ InCells(slot') = Visible(m) /\ Visible(m) \subseteq 1..n
  BY SortDoes
<1>2. n \in Nat /\ DOMAIN item = 1..n /\ StackNum' = StackNum
  BY ItemsAre, SettingStays
<1> HIDE DEF n, m
<1>3. CellsSaved'
  BY <1>1 DEF CellsSaved
<1>4. Chain'
  <2> SUFFICES ASSUME NEW i \in 1..n, StackNum[item'[i].tpl] # 0
               PROVE  item'[i].tpl = row'[i].tpl
    BY <1>1, <1>2 DEF Chain
  <2> QED
    BY <1>1, <1>2 DEF Chain
<1> QED
  BY <1>3, <1>4

\* No cell shows what the table does not hold, and what stacks is what its row
\* says, after every step.
LEMMA SavedStep ==
  ASSUME TypeOK, set \in Settings, CellsSaved, Chain, Next
  PROVE  CellsSaved' /\ Chain'
<1> DEFINE n == Len(item)
<1>1. /\ set' = set /\ odd' \in BOOLEAN
      /\ \/ \E t \in Templates, c \in Counts : BuyItem(t, c) \/ BuyCut(t, c)
         \/ \E id \in inMap :
              \/ SellItem(id) \/ SellCut(id) \/ AbandonItem(id)
              \/ EquipItem(id) \/ UnEquipItem(id)
              \/ \E to \in DOMAIN slot : MoveItem(id, to) \/ MoveCrash(id, to) \/ MoveCut(id, to)
              \/ \E k \in Counts : StrengthItem(id, k)
         \/ SortItems \/ SortCrash \/ SortCut \/ Tick \/ Leave \/ Load
  BY NextIs
<1>2. n \in Nat /\ DOMAIN item = 1..n /\ \A i \in InCells(slot) : i \in 1..n
  BY ItemsAre, ShownIs
<1>3. ASSUME Gone PROVE CellsSaved' /\ Chain'
  BY <1>3 DEF Gone, CellsSaved, Chain
<1>4. ASSUME loaded, NEW S, Touches(S), InCells(slot') \subseteq InCells(slot) \union S,
             \A i \in S : item'[i].tpl = item[i].tpl \/ StackNum[item'[i].tpl] = 0
      PROVE  CellsSaved' /\ Chain'
  BY <1>1, <1>4, TouchKeeps
<1>5. ASSUME NEW t \in Templates, NEW c \in Counts, BuyItem(t, c) PROVE CellsSaved' /\ Chain'
  <2>1. /\ loaded /\ item' \in [1..n + 1 -> ItemRecord]
        /\ \A i \in 1..n : item'[i] = item[i] /\ row'[i] = row[i]
        /\ Is(item'[n + 1], t, Short(c), FreeCell(slot), FALSE, FALSE)
        /\ row'[n + 1].tpl = t /\ row'[n + 1].num = Short(c) /\ row'[n + 1].dead = FALSE
        /\ Filling(n + 1)
    BY <1>5, BuyDoes
  <2>2. InCells(slot') \subseteq InCells(slot) \union {n + 1} /\ DOMAIN item' = 1..n + 1 /\ StackNum' = StackNum
    BY <1>1, <2>1, ShownAfter, SettingStays
  <2>6. item'[n + 1].tpl = t /\ item'[n + 1].num = Short(c) /\ item'[n + 1].dead = FALSE
    BY <2>1 DEF Is
  <2> HIDE DEF n
  <2>3. \A i \in 1..n + 1 : i = n + 1 \/ i \in 1..n
    BY <1>2
  <2>4. CellsSaved'
    <3> SUFFICES ASSUME NEW i \in InCells(slot')
                 PROVE  row'[i].num = item'[i].num /\ row'[i].dead = item'[i].dead
      BY DEF CellsSaved
    <3>1. CASE i = n + 1
      BY <2>1, <2>6, <3>1
    <3>2. CASE i # n + 1
      <4>1. i \in InCells(slot) /\ i \in 1..n
        BY <1>2, <2>2, <3>2
      <4> QED
        BY <2>1, <4>1 DEF CellsSaved
    <3> QED
      BY <3>1, <3>2
  <2>5. Chain'
    <3> SUFFICES ASSUME NEW i \in 1..n + 1, StackNum[item'[i].tpl] # 0
                 PROVE  item'[i].tpl = row'[i].tpl
      BY <2>2 DEF Chain
    <3>1. CASE i = n + 1
      BY <2>1, <2>6, <3>1
    <3>2. CASE i \in 1..n
      BY <1>2, <2>1, <3>2 DEF Chain
    <3> QED
      BY <2>3, <3>1, <3>2
  <2> QED
    BY <2>4, <2>5
<1>6. ASSUME NEW id \in inMap, SellItem(id) \/ AbandonItem(id) PROVE CellsSaved' /\ Chain'
  <2>1. loaded /\ Drop(id)
    BY <1>6 DEF SellItem, AbandonItem
  <2>2. Touches({id}) /\ Emptied(item[id].idx) /\ item'[id].tpl = item[id].tpl
    BY <2>1, DropDoes DEF Is
  <2> QED
    BY <1>4, <2>1, <2>2, ShownAfter
<1>7. ASSUME NEW id \in inMap, EquipItem(id) PROVE CellsSaved' /\ Chain'
  <2>1. loaded /\ Touches({id}) /\ Emptied(item[id].idx) /\ item'[id].tpl = item[id].tpl
    BY <1>7, EquipDoes DEF Is
  <2> QED
    BY <1>4, <2>1, ShownAfter
<1>8. ASSUME NEW id \in inMap, UnEquipItem(id) PROVE CellsSaved' /\ Chain'
  <2>1. loaded /\ Touches({id}) /\ Filling(id) /\ item'[id].tpl = item[id].tpl
    BY <1>8, UnEquipDoes DEF Is
  <2> QED
    BY <1>4, <2>1, ShownAfter
<1>9. ASSUME NEW id \in inMap, NEW to \in DOMAIN slot, MoveItem(id, to) PROVE CellsSaved' /\ Chain'
  <2>1. /\ loaded /\ to # 0
        /\ \/ Stackable(id, to) /\ StackCells(id, to)
           \/ item[id].idx \in DOMAIN slot /\ SwapCells(id, to)
    BY <1>9 DEF MoveItem
  <2>2. CASE Stackable(id, to) /\ StackCells(id, to)
    <3>1. Touches({id, slot[to]}) /\ (slot' = slot \/ Emptied(item[id].idx))
      BY <2>1, <2>2, StackDoes
    <3>2. \A i \in {id, slot[to]} : item'[i].tpl = item[i].tpl
      BY <2>1, <2>2, StackDoes DEF Is
    <3>3. InCells(slot') \subseteq InCells(slot)
      BY <3>1, ShownAfter
    <3> QED
      BY <1>4, <2>1, <3>1, <3>2, <3>3
  <2>3. CASE item[id].idx \in DOMAIN slot /\ SwapCells(id, to)
    <3> DEFINE S == {id, slot[to]} \ {0}
    <3>1. /\ Touches(S) /\ DOMAIN slot' = DOMAIN slot
          /\ slot'[item[id].idx] = slot[to] /\ slot'[to] = slot[item[id].idx]
          /\ \A c \in DOMAIN slot \ {to, item[id].idx} : slot'[c] = slot[c]
      BY <2>1, <2>3, SwapDoes
    <3>2. \A i \in S : item'[i].tpl = item[i].tpl
      <4>1. \A i \in S : Is(item'[i], item[i].tpl, item[i].num, item'[i].idx, item[i].equip, item[i].dead \/ item[i].num = 0)
        BY <2>1, <2>3, SwapDoes
      <4> QED
        BY <4>1 DEF Is
    <3>3. InCells(slot') \subseteq InCells(slot)
      BY <2>3, <3>1, SwapShows
    <3> HIDE DEF S
    <3> QED
      BY <1>4, <2>1, <3>1, <3>2, <3>3
  <2> QED
    BY <2>1, <2>2, <2>3
<1>10. ASSUME NEW id \in inMap, NEW c \in Counts, StrengthItem(id, c) PROVE CellsSaved' /\ Chain'
  <2>1. loaded /\ Touches({id}) /\ StackNum[item'[id].tpl] = 0 /\ slot' = slot
    BY <1>10, StrengthDoes DEF Is
  <2> QED
    BY <1>4, <2>1
<1>11. ASSUME SortItems PROVE CellsSaved' /\ Chain'
  <2>1. /\ loaded
        /\ \/ Save(item, InCells(slot)) /\ slot' = slot
           \/ \E o \in Orders : \E h : Rounds(h, o) /\ Sorts(h[Cardinality(Filled)])
    BY <1>11, SortItemsIs
  <2>2. CASE Save(item, InCells(slot)) /\ slot' = slot
    <3>1. Touches(InCells(slot)) /\ \A i \in InCells(slot) : item'[i].tpl = item[i].tpl
      BY <2>1, <2>2, FlushAllDoes DEF Is
    <3> QED
      BY <1>4, <2>1, <2>2, <3>1
  <2>3. ASSUME NEW o \in Orders, NEW h, Rounds(h, o), Sorts(h[Cardinality(Filled)]) PROVE CellsSaved' /\ Chain'
    BY <1>1, <2>1, <2>3, SortSaves
  <2> QED
    BY <2>1, <2>2, <2>3
<1>12. ASSUME Tick PROVE CellsSaved' /\ Chain'
  BY <1>1, <1>12, SettingStays DEF Tick, CellsSaved, Chain
<1>13. ASSUME Load PROVE CellsSaved' /\ Chain'
  <2> DEFINE k == Len(row)
  <2>1. /\ row' = row /\ DOMAIN item' = 1..k /\ StackNum' = StackNum
        /\ \A i \in 1..k : item'[i].tpl = row[i].tpl /\ item'[i].num = row[i].num /\ item'[i].dead = FALSE
        /\ \A c \in DOMAIN slot' : slot'[c] # 0 => slot'[c] \in 1..k /\ ~row[slot'[c]].dead
    BY <1>1, <1>13, LoadDoes, SettingStays
  <2>2. \A i \in 1..k : row[i].dead \in BOOLEAN
    <3>1. row \in [1..k -> RowRecord]
      BY ItemsAre
    <3> HIDE DEF k
    <3> QED
      BY <3>1 DEF RowRecord
  <2> HIDE DEF k
  <2>3. CellsSaved'
    <3> SUFFICES ASSUME NEW i \in InCells(slot')
                 PROVE  row'[i].num = item'[i].num /\ row'[i].dead = item'[i].dead
      BY DEF CellsSaved
    <3>1. i \in 1..k /\ ~row[i].dead
      BY <2>1, ShownIs
    <3> QED
      BY <2>1, <2>2, <3>1
  <2> QED
    BY <2>1, <2>3 DEF Chain
<1> QED
  BY <1>1, <1>3, <1>5, <1>6, <1>7, <1>8, <1>9, <1>10, <1>11, <1>12, <1>13
     DEF SellCut, BuyCut, MoveCrash, MoveCut, SortCrash, SortCut, Leave

-----------------------------------------------------------------------------
(* Where the items of a first visit are.                                   *)

\* An item in a cell is one the role has and believes it is in that cell.
Placed ==
  /\ slot[0] = 0
  /\ \A c \in DOMAIN slot : slot[c] # 0 => slot[c] \in inMap /\ item[slot[c]].idx = c

\* An item that is worn is in no cell.
WornOut == \A id \in inMap : item[id].equip => \A c \in DOMAIN slot : slot[c] # id

\* Whatever is neither empty nor worn is in its cell, as long as a sort has room
\* for all.
Covered ==
  Len(row) < Cells =>
    \A id \in inMap :
      item[id].num > 0 /\ ~item[id].equip => item[id].idx \in DOMAIN slot /\ slot[item[id].idx] = id

InPlace == Placed /\ WornOut /\ Covered

\* So no item is in two cells, and an item of the bag is where it believes it is.
LEMMA PlacedIs ==
  ASSUME TypeOK, set \in Settings, Placed
  PROVE  /\ OneCellEach /\ CellsInMap
         /\ \A id \in InBag :
              /\ id \in inMap /\ id \in 1..Len(item) /\ id # 0 /\ id \in InCells(slot)
              /\ item[id].idx \in DOMAIN slot /\ item[id].idx \in Nat /\ item[id].idx # 0 /\ slot[item[id].idx] = id
<1>1. OneCellEach /\ CellsInMap
  BY DEF OneCellEach, CellsInMap, Placed
<1>2. ASSUME NEW id \in InBag
      PROVE  /\ id \in inMap /\ id \in 1..Len(item) /\ id # 0 /\ id \in InCells(slot)
             /\ item[id].idx \in DOMAIN slot /\ item[id].idx \in Nat /\ item[id].idx # 0 /\ slot[item[id].idx] = id
  <2>1. id \in inMap /\ id \in InCells(slot) /\ id \in 1..Len(item) /\ item[id].idx \in Nat
    BY HeldIs DEF InBag
  <2>2. PICK c \in DOMAIN slot : slot[c] = id
    BY <2>1, ShownIs
  <2>3. id # 0
    BY <2>1, ShownIs
  <2>4. item[id].idx = c
    BY <2>2, <2>3 DEF Placed
  <2>5. c # 0
    BY <2>2, <2>3 DEF Placed
  <2> QED
    BY <2>1, <2>2, <2>3, <2>4, <2>5
<1> QED
  BY <1>1, <1>2

\* What a request says of the items it touches, but for the one that moves: each
\* is in a cell or keeps its number, and keeps its place.
Stays(S, id) ==
  \A i \in S \ {id} :
    /\ item'[i].idx = item[i].idx /\ item'[i].equip = item[i].equip
    /\ (\E c \in DOMAIN slot : slot[c] = i) \/ item'[i].num = item[i].num

\* The items a request does not move are where they were.
LEMMA OthersStay ==
  ASSUME TypeOK, set \in Settings, set' = set, loaded, InPlace, NEW S, Touches(S), NEW id, Stays(S, id)
  PROVE  /\ Len(row') = Len(row) /\ Cells' = Cells /\ Len(row') \in Nat
         /\ \A w \in inMap \ {id} :
              /\ item'[w].idx = item[w].idx /\ item'[w].equip = item[w].equip
              /\ Len(row) < Cells /\ item'[w].num > 0 /\ ~item'[w].equip =>
                   item[w].idx \in DOMAIN slot /\ slot[item[w].idx] = w
<1> DEFINE n == Len(item)
<1>1. n \in Nat /\ n = Len(row) /\ inMap \subseteq 1..n
  BY ItemsAre DEF TypeOK
<1>2. row' \in [1..n -> RowRecord] /\ \A i \in 1..n \ S : item'[i] = item[i]
  BY DEF Touches
<1>3. Cells' = Cells
  BY SettingStays
<1> HIDE DEF n
<1>4. Len(row') = n
  BY <1>1, <1>2, SequenceOf
<1>5. ASSUME NEW w \in inMap, w # id
      PROVE  /\ item'[w].idx = item[w].idx /\ item'[w].equip = item[w].equip
             /\ Len(row) < Cells /\ item'[w].num > 0 /\ ~item'[w].equip =>
                  item[w].idx \in DOMAIN slot /\ slot[item[w].idx] = w
  <2>0. w # 0
    BY <1>1
  <2>1. CASE w \in S
    <3>1. item'[w].idx = item[w].idx /\ item'[w].equip = item[w].equip
      BY <1>5, <2>1 DEF Stays
    <3>2. CASE \E c \in DOMAIN slot : slot[c] = w
      BY <2>0, <3>1, <3>2 DEF InPlace, Placed
    <3>3. CASE item'[w].num = item[w].num
      BY <3>1, <3>3 DEF InPlace, Covered
    <3> QED
      BY <1>5, <2>1, <3>1, <3>2, <3>3 DEF Stays
  <2>2. CASE w \notin S
    <3>1. item'[w] = item[w]
      BY <1>1, <1>2, <2>2
    <3> QED
      BY <3>1 DEF InPlace, Covered
  <2> QED
    BY <2>1, <2>2
<1> QED
  BY <1>1, <1>3, <1>4, <1>5

\* A request that leaves the cells as they are.
LEMMA StayKeeps ==
  ASSUME TypeOK, set \in Settings, set' = set, loaded, InPlace, NEW S, Touches(S), Stays(S, 0),
         slot' = slot, inMap' = inMap
  PROVE  InPlace'
<1>1. /\ Len(row') = Len(row) /\ Cells' = Cells
      /\ \A w \in inMap \ {0} :
           /\ item'[w].idx = item[w].idx /\ item'[w].equip = item[w].equip
           /\ Len(row) < Cells /\ item'[w].num > 0 /\ ~item'[w].equip =>
                item[w].idx \in DOMAIN slot /\ slot[item[w].idx] = w
  BY OthersStay
<1>2. \A w \in inMap : w \in inMap \ {0}
  BY HeldIs
<1>3. Placed'
  BY <1>1, <1>2 DEF InPlace, Placed
<1>4. WornOut'
  BY <1>1, <1>2 DEF InPlace, WornOut
<1>5. Covered'
  BY <1>1, <1>2 DEF Covered
<1> QED
  BY <1>3, <1>4, <1>5 DEF InPlace

\* A request that takes an item of the bag out of its cell, and out of the map
\* or on the role.
LEMMA EmptyingKeeps ==
  ASSUME TypeOK, set \in Settings, set' = set, loaded, InPlace, NEW S, Touches(S), NEW id \in InBag, Stays(S, id),
         Emptied(item[id].idx), inMap \ {id} \subseteq inMap', inMap' \subseteq inMap,
         id \notin inMap' \/ item'[id].equip
  PROVE  InPlace'
<1> DEFINE x == item[id].idx
<1>1. /\ Len(row') = Len(row) /\ Cells' = Cells
      /\ \A w \in inMap \ {id} :
           /\ item'[w].idx = item[w].idx /\ item'[w].equip = item[w].equip
           /\ Len(row) < Cells /\ item'[w].num > 0 /\ ~item'[w].equip =>
                item[w].idx \in DOMAIN slot /\ slot[item[w].idx] = w
  BY OthersStay
<1>2. x \in DOMAIN slot /\ slot[x] = id /\ x # 0 /\ id # 0
  BY PlacedIs DEF InPlace
<1>3. DOMAIN slot' = DOMAIN slot /\ \A c \in DOMAIN slot : slot'[c] = IF c = x THEN 0 ELSE slot[c]
  BY <1>2 DEF Emptied
<1>4. \A c \in DOMAIN slot : slot[c] # 0 => slot[c] \in inMap /\ item[slot[c]].idx = c /\ (slot[c] = id => c = x)
  BY DEF InPlace, Placed
<1>5. slot[0] = 0 /\ 0 \in DOMAIN slot
  BY CellsBefore DEF InPlace, Placed
<1> HIDE DEF x
<1>6. ASSUME NEW c \in DOMAIN slot', slot'[c] # 0
      PROVE  c # x /\ slot'[c] = slot[c] /\ slot[c] \in inMap \ {id} /\ item'[slot[c]].idx = c
  BY <1>1, <1>3, <1>4, <1>6
<1>7. Placed'
  <2>1. slot'[0] = 0
    BY <1>3, <1>5
  <2> QED
    BY <1>6, <2>1 DEF Placed
<1>8. WornOut'
  <2> SUFFICES ASSUME NEW w \in inMap', item'[w].equip, NEW c \in DOMAIN slot', slot'[c] = w
               PROVE  FALSE
    BY DEF WornOut
  <2>1. w # 0
    BY HeldIs
  <2>2. slot[c] = w /\ w \in inMap \ {id} /\ c \in DOMAIN slot
    BY <1>3, <1>6, <2>1
  <2> QED
    BY <1>1, <2>2 DEF InPlace, WornOut
<1>9. Covered'
  <2> SUFFICES ASSUME Len(row) < Cells, NEW w \in inMap', item'[w].num > 0, ~item'[w].equip
               PROVE  item'[w].idx \in DOMAIN slot' /\ slot'[item'[w].idx] = w
    BY <1>1 DEF Covered
  <2>1. w \in inMap \ {id}
    OBVIOUS
  <2>2. item'[w].idx = item[w].idx /\ item[w].idx \in DOMAIN slot /\ slot[item[w].idx] = w
    BY <1>1, <2>1
  <2>3. item[w].idx # x
    BY <1>2, <2>1, <2>2
  <2> QED
    BY <1>3, <2>2, <2>3
<1> QED
  BY <1>7, <1>8, <1>9 DEF InPlace

\* A request that puts an item that is in no cell into the first free one.
LEMMA FillingKeeps ==
  ASSUME TypeOK, set \in Settings, set' = set, InPlace, NEW id, id \in inMap', \A c \in DOMAIN slot : slot[c] # id,
         Filling(id), item'[id].idx = FreeCell(slot), ~item'[id].equip,
         inMap' \subseteq inMap \union {id}, inMap \ {id} \subseteq inMap', Len(row') < Cells' => Len(row) < Cells,
         \A w \in inMap \ {id} : item'[w] = item[w]
  PROVE  InPlace'
<1> DEFINE x == FreeCell(slot)
<1>1. /\ x \in Nat /\ x # 0 /\ DOMAIN slot' = DOMAIN slot \union {x}
      /\ slot'[x] = id /\ \A i \in DOMAIN slot \ {x} : slot'[i] = slot[i]
      /\ x \in DOMAIN slot => slot[x] = 0
  BY DEF Filling
<1>2. slot[0] = 0 /\ 0 \in DOMAIN slot /\ item'[id].idx = x
  BY CellsBefore DEF InPlace, Placed
<1>3. \A c \in DOMAIN slot : slot[c] # 0 => slot[c] \in inMap /\ item[slot[c]].idx = c /\ slot[c] # id
  BY DEF InPlace, Placed
<1>10. \A w \in inMap : w # 0
  BY HeldIs
<1> HIDE DEF x
<1>4. ASSUME NEW c \in DOMAIN slot', c # x, slot'[c] # 0
      PROVE  c \in DOMAIN slot /\ slot'[c] = slot[c] /\ slot[c] \in inMap \ {id} /\ item'[slot[c]].idx = c
  BY <1>1, <1>3, <1>4
<1>5. Placed'
  <2>1. slot'[0] = 0
    BY <1>1, <1>2
  <2>2. ASSUME NEW c \in DOMAIN slot', slot'[c] # 0 PROVE slot'[c] \in inMap' /\ item'[slot'[c]].idx = c
    <3>1. CASE c = x
      BY <1>1, <1>2, <3>1
    <3>2. CASE c # x
      BY <1>4, <2>2, <3>2
    <3> QED
      BY <3>1, <3>2
  <2> QED
    BY <2>1, <2>2 DEF Placed
<1>6. WornOut'
  <2> SUFFICES ASSUME NEW w \in inMap', item'[w].equip, NEW c \in DOMAIN slot', slot'[c] = w
               PROVE  FALSE
    BY DEF WornOut
  <2>1. w # id /\ w \in inMap /\ w # 0 /\ item[w].equip
    BY <1>10
  <2>2. c # x
    BY <1>1, <2>1
  <2>3. c \in DOMAIN slot /\ slot[c] = w
    BY <1>4, <2>1, <2>2
  <2> QED
    BY <2>1, <2>3 DEF InPlace, WornOut
<1>7. Covered'
  <2> SUFFICES ASSUME Len(row) < Cells, NEW w \in inMap', item'[w].num > 0, ~item'[w].equip
               PROVE  item'[w].idx \in DOMAIN slot' /\ slot'[item'[w].idx] = w
    BY DEF Covered
  <2>1. CASE w = id
    BY <1>1, <1>2, <2>1
  <2>2. CASE w # id
    <3>1. w \in inMap /\ item'[w] = item[w] /\ w # 0
      BY <1>10, <2>2
    <3>2. item[w].idx \in DOMAIN slot /\ slot[item[w].idx] = w
      BY <3>1 DEF InPlace, Covered
    <3>3. item[w].idx # x
      BY <1>1, <3>1, <3>2
    <3> QED
      BY <1>1, <3>1, <3>2, <3>3
  <2> QED
    BY <2>1, <2>2
<1> QED
  BY <1>5, <1>6, <1>7 DEF InPlace

\* A move to another cell.
LEMMA SwapKeeps ==
  ASSUME TypeOK, set \in Settings, set' = set, loaded, InPlace, NEW id \in InBag, NEW to \in DOMAIN slot, to # 0,
         SwapCells(id, to)
  PROVE  InPlace'
<1> DEFINE x == item[id].idx
           y == slot[to]
           S == {id, y} \ {0}
           n == Len(item)
<1>1. x \in DOMAIN slot /\ slot[x] = id /\ x # 0 /\ id # 0 /\ id \in inMap /\ OneCellEach /\ id \in 1..n
  BY PlacedIs DEF InPlace
<1>2. /\ Touches(S)
      /\ \A i \in S : Is(item'[i], item[i].tpl, item[i].num, item'[i].idx, item[i].equip, item[i].dead \/ item[i].num = 0)
      /\ item'[id].idx = IF y = id THEN x ELSE to
      /\ y \notin {0, id} => item'[y].idx = x
      /\ DOMAIN slot' = DOMAIN slot /\ slot'[x] = y /\ slot'[to] = id
      /\ \A c \in DOMAIN slot \ {to, x} : slot'[c] = slot[c]
      /\ inMap' = inMap
  BY <1>1, SwapDoes
<1>3. /\ n \in Nat /\ n = Len(row) /\ inMap \subseteq 1..n /\ row' \in [1..n -> RowRecord]
      /\ \A i \in 1..n \ S : item'[i] = item[i]
  BY <1>2, ItemsAre DEF TypeOK, Touches
<1>4. slot[0] = 0 /\ 0 \in DOMAIN slot /\ Cells' = Cells
  BY CellsBefore, SettingStays DEF InPlace, Placed
<1>5. \A c \in DOMAIN slot : slot[c] # 0 => slot[c] \in inMap /\ item[slot[c]].idx = c
  BY DEF InPlace, Placed
<1>6. \A i \in S : item'[i].num = item[i].num /\ item'[i].equip = item[i].equip
  BY <1>2 DEF Is
<1>7. (y = id => to = x) /\ (to = x => y = id) /\ (y # 0 => y \in inMap /\ item[y].idx = to)
  BY <1>1, <1>5 DEF OneCellEach
<1>8. \A i \in inMap : item'[i].num = item[i].num /\ item'[i].equip = item[i].equip
  BY <1>3, <1>6
<1> HIDE DEF n
<1>9. Len(row') = Len(row)
  BY <1>3, SequenceOf
<1>10. \A i \in inMap \ {id, y} : i # 0 /\ item'[i] = item[i]
  BY <1>3
<1> HIDE DEF x, y, S
<1>11. Placed'
  <2>1. slot'[0] = 0
    BY <1>1, <1>2, <1>4
  <2>2. ASSUME NEW c \in DOMAIN slot', slot'[c] # 0 PROVE slot'[c] \in inMap' /\ item'[slot'[c]].idx = c
    <3>1. CASE c = to
      BY <1>1, <1>2, <1>7, <3>1
    <3>2. CASE c = x /\ c # to
      BY <1>1, <1>2, <1>7, <2>2, <3>2
    <3>3. CASE c # x /\ c # to
      <4>1. slot'[c] = slot[c] /\ slot[c] # 0 /\ c \in DOMAIN slot
        BY <1>2, <2>2, <3>3
      <4>2. slot[c] \in inMap /\ item[slot[c]].idx = c
        BY <1>5, <4>1
      <4>3. slot[c] # id /\ slot[c] # y
        BY <1>7, <3>3, <4>1, <4>2 DEF x
      <4> QED
        BY <1>2, <1>10, <4>1, <4>2, <4>3
    <3> QED
      BY <3>1, <3>2, <3>3
  <2> QED
    BY <2>1, <2>2 DEF Placed
<1>12. WornOut'
  <2> SUFFICES ASSUME NEW w \in inMap', item'[w].equip, NEW c \in DOMAIN slot', slot'[c] = w
               PROVE  FALSE
    BY DEF WornOut
  <2>1. w \in inMap /\ item[w].equip
    BY <1>2, <1>8
  <2>2. \A d \in DOMAIN slot : slot[d] # w
    BY <2>1 DEF InPlace, WornOut
  <2> QED
    BY <1>1, <1>2, <2>2 DEF y
<1>13. Covered'
  <2> SUFFICES ASSUME Len(row) < Cells, NEW w \in inMap', item'[w].num > 0, ~item'[w].equip
               PROVE  item'[w].idx \in DOMAIN slot' /\ slot'[item'[w].idx] = w
    BY <1>4, <1>9 DEF Covered
  <2>1. w \in inMap /\ item[w].num > 0 /\ ~item[w].equip
    BY <1>2, <1>8
  <2>2. item[w].idx \in DOMAIN slot /\ slot[item[w].idx] = w
    BY <2>1 DEF InPlace, Covered
  <2>3. CASE w = id
    BY <1>1, <1>2, <1>7, <2>3
  <2>4. CASE w = y /\ w # id
    <3>1. w # 0
      BY <1>3, <2>1
    <3> QED
      BY <1>1, <1>2, <2>4, <3>1
  <2>5. CASE w # id /\ w # y
    <3>1. item'[w] = item[w]
      BY <1>10, <2>1, <2>5
    <3>2. item[w].idx # x /\ item[w].idx # to
      BY <1>1, <2>2, <2>5 DEF y
    <3> QED
      BY <1>2, <2>2, <3>1, <3>2
  <2> QED
    BY <2>3, <2>4, <2>5
<1> QED
  BY <1>11, <1>12, <1>13 DEF InPlace

\* A move onto a stack.
LEMMA StackKeeps ==
  ASSUME TypeOK, set \in Settings, set' = set, loaded, InPlace, NEW id \in InBag, NEW to \in DOMAIN slot,
         Stackable(id, to), StackCells(id, to)
  PROVE  InPlace'
<1> DEFINE other == slot[to]
           S     == {id, other}
<1>1. id \in inMap /\ item[id].idx \in DOMAIN slot /\ slot[item[id].idx] = id
  BY PlacedIs DEF InPlace
<1>2. /\ Touches(S)
      /\ \A i \in S : Is(item'[i], item[i].tpl, item'[i].num, item[i].idx, item[i].equip, item[i].dead \/ item'[i].num = 0)
      /\ \/ Emptied(item[id].idx) /\ inMap' = inMap \ {id}
         \/ slot' = slot /\ inMap' = inMap
  BY <1>1, StackDoes
<1>3. \A i \in S : item'[i].idx = item[i].idx /\ item'[i].equip = item[i].equip /\ \E c \in DOMAIN slot : slot[c] = i
  BY <1>1, <1>2 DEF Is
<1> HIDE DEF S
<1>4. Stays(S, id) /\ Stays(S, 0)
  BY <1>3 DEF Stays
<1>5. CASE Emptied(item[id].idx) /\ inMap' = inMap \ {id}
  BY <1>2, <1>4, <1>5, EmptyingKeeps
<1>6. CASE slot' = slot /\ inMap' = inMap
  BY <1>2, <1>4, <1>6, StayKeeps
<1> QED
  BY <1>2, <1>5, <1>6

\* The items put back are no more than the items there are.
LEMMA OutFits ==
  ASSUME NEW n \in Nat, NEW out \in Seq(1..n), \A p, q \in DOMAIN out : out[p] = out[q] => p = q
  PROVE  Len(out) <= n
<1>1. out \in [1..Len(out) -> 1..n] /\ Len(out) \in Nat
  OBVIOUS
<1>2. \A p, q \in 1..Len(out) : p # q => out[p] # out[q]
  BY <1>1
<1>3. IsInjective(out)
  BY <1>1, <1>2 DEF IsInjective
<1>4. out \in Injection(1..Len(out), 1..n)
  BY <1>1, <1>3 DEF Injection
<1>5. IsFiniteSet(1..Len(out)) /\ IsFiniteSet(1..n) /\ Cardinality(1..n) = n /\ Cardinality(1..Len(out)) = Len(out)
  <2>1. ASSUME NEW k \in Nat PROVE IsFiniteSet(1..k) /\ Cardinality(1..k) = k
    BY FS_Interval
  <2> QED
    BY <1>1, <2>1
<1> QED
  BY <1>4, <1>5, FS_Injection

\* A sort of the bag.
LEMMA SortKeeps ==
  ASSUME TypeOK, set \in Settings, set' = set, loaded, InPlace, NEW o \in Orders, NEW h, Rounds(h, o),
         ~h[Cardinality(Filled)].crashed, Sorts(h[Cardinality(Filled)]), inMap' = inMap
  PROVE  InPlace'
<1> DEFINE n == Len(item)
           k == Cardinality(Filled)
           m == h[k]
<1>1. /\ OneCellEach /\ slot[0] = 0
      /\ \A c \in DOMAIN slot : slot[c] # 0 => slot[c] \in inMap /\ item[slot[c]].idx = c
  BY PlacedIs DEF InPlace, Placed
<1>2. /\ k \in Nat /\ n \in Nat /\ n = Len(row) /\ inMap \subseteq 1..n
      /\ \A j \in 1..k : o[j] \in DOMAIN slot /\ slot[o[j]] # 0
      /\ \A c \in Filled : \E i \in 1..k : o[i] = c
      /\ Cells' = Cells /\ Cells \in Nat /\ Cells > 1
  BY OrderIs, ItemsAre, SettingStays, SettingFacts DEF TypeOK
<1>3. Kept(m, o, k)
  BY <1>2, RoundsKeep
<1>4. Single(m, o, k)
  BY <1>1, <1>2, RoundsSingle
<1>5. /\ m \in MergeStates(n)
      /\ \A p \in DOMAIN m.out : \E j \in 1..k : m.out[p] = slot[o[j]]
      /\ \A i \in 1..n : (\A j \in 1..k : slot[o[j]] # i) => m.items[i] = item[i]
  BY <1>3 DEF Kept
<1>6. /\ \A p, q \in DOMAIN m.out : m.out[p] = m.out[q] => p = q
      /\ \A j \in 1..k : m.items[slot[o[j]]].num <= 0 \/ \E p \in DOMAIN m.out : m.out[p] = slot[o[j]]
  BY <1>4 DEF Single
<1>7. /\ item' \in [1..n -> ItemRecord] /\ row' \in [1..n -> RowRecord]
      /\ \A i \in 1..n : item'[i].num = m.items[i].num /\ item'[i].equip = item[i].equip
      /\ \A c \in DOMAIN m.out : item'[m.out[c]].idx = Place(m, m.out[c])
      /\ DOMAIN slot' = 0..Cells-1 /\ slot'[0] = 0
      /\ \A c \in 0..Cells-1 : slot'[c] = IF c \in DOMAIN m.out THEN m.out[c] ELSE 0
  <2>1. item' \in [1..n -> ItemRecord] /\ row' \in [1..n -> RowRecord]
    BY SortDoes
  <2>2. \A i \in 1..n : item'[i].num = m.items[i].num /\ item'[i].equip = item[i].equip
    BY SortDoes
  <2>3. \A c \in DOMAIN m.out : item'[m.out[c]].idx = Place(m, m.out[c])
    BY SortDoes
  <2>4. DOMAIN slot' = 0..Cells-1 /\ slot'[0] = 0
    BY SortDoes
  <2>5. \A c \in 0..Cells-1 : slot'[c] = IF c \in DOMAIN m.out THEN m.out[c] ELSE 0
    BY SortDoes
  <2> QED
    BY <2>1, <2>2, <2>3, <2>4, <2>5
<1>8. /\ m.out \in Seq(1..n)
      /\ \A i \in 1..n : m.items[i].num \in Int
  BY <1>2, <1>5, MergeParts
<1>9. Len(m.out) <= n /\ DOMAIN m.out = 1..Len(m.out) /\ Len(m.out) \in Nat
  BY <1>2, <1>6, <1>8, OutFits
<1>10. \A c \in DOMAIN m.out : Place(m, m.out[c]) = c
  BY <1>2, <1>5, <1>6, PlaceIs
<1> HIDE DEF n, k, m
<1>11. Len(row') = n
  BY <1>2, <1>7, SequenceOf
<1>12. ASSUME NEW p \in DOMAIN m.out
       PROVE  \E c \in DOMAIN slot : slot[c] # 0 /\ slot[c] = m.out[p]
  BY <1>2, <1>5
<1>13. Placed'
  <2>1. ASSUME NEW c \in DOMAIN slot', slot'[c] # 0 PROVE slot'[c] \in inMap /\ item'[slot'[c]].idx = c
    <3>1. c \in DOMAIN m.out /\ slot'[c] = m.out[c]
      BY <1>7, <2>1
    <3>2. m.out[c] \in inMap
      BY <1>1, <1>12, <3>1
    <3> QED
      BY <1>7, <1>10, <3>1, <3>2
  <2> QED
    BY <1>7, <2>1 DEF Placed
<1>14. WornOut'
  <2> SUFFICES ASSUME NEW w \in inMap, item'[w].equip, NEW c \in DOMAIN slot', slot'[c] = w
               PROVE  FALSE
    BY DEF WornOut
  <2>1. w \in 1..n /\ item[w].equip
    BY <1>2, <1>7
  <2>2. c \in DOMAIN m.out /\ m.out[c] = w
    BY <1>7, <2>1
  <2>3. \E d \in DOMAIN slot : slot[d] = w
    BY <1>12, <2>2
  <2> QED
    BY <2>1, <2>3 DEF InPlace, WornOut
<1>15. Covered'
  <2> SUFFICES ASSUME n < Cells, NEW w \in inMap, item'[w].num > 0, ~item'[w].equip
               PROVE  item'[w].idx \in DOMAIN slot' /\ slot'[item'[w].idx] = w
    BY <1>2, <1>11 DEF Covered
  <2>1. w \in 1..n /\ w # 0 /\ ~item[w].equip /\ m.items[w].num > 0
    BY <1>2, <1>7
  <2>2. \E j \in 1..k : slot[o[j]] = w
    <3>1. CASE item[w].num > 0
      <4>1. item[w].idx \in DOMAIN slot /\ slot[item[w].idx] = w
        BY <1>2, <2>1, <3>1 DEF InPlace, Covered
      <4>2. item[w].idx # 0
        BY <1>1, <2>1, <4>1
      <4>3. item[w].idx \in Filled
        BY <2>1, <4>1, <4>2 DEF Filled
      <4> QED
        BY <1>2, <4>1, <4>3
    <3>2. CASE ~(item[w].num > 0)
      <4>1. m.items[w] # item[w]
        BY <2>1, <3>2
      <4> QED
        BY <1>5, <2>1, <4>1
    <3> QED
      BY <3>1, <3>2
  <2>3. PICK p \in DOMAIN m.out : m.out[p] = w
    <3>1. PICK j \in 1..k : slot[o[j]] = w
      BY <2>2
    <3>2. m.items[w].num \in Int
      BY <1>8, <2>1
    <3> QED
      BY <1>6, <2>1, <3>1, <3>2
  <2>4. p \in 1..Len(m.out) /\ item'[w].idx = p
    BY <1>7, <1>9, <1>10, <2>3
  <2>5. p \in 0..Cells-1
    BY <1>2, <1>9, <2>4
  <2> QED
    BY <1>7, <2>3, <2>4, <2>5
<1> QED
  BY <1>13, <1>14, <1>15 DEF InPlace

\* What a step of a first visit may be.
LEMMA VisitIs ==
  ASSUME Next, FirstVisit
  PROVE  /\ set' = set
         /\ \/ \E t \in Templates, c \in Counts : BuyItem(t, c)
            \/ \E id \in InBag : SellItem(id) \/ AbandonItem(id)
            \/ \E id \in InBag : EquipItem(id)
            \/ \E id \in InBag : \E to \in DOMAIN slot : MoveItem(id, to)
            \/ \E id \in InBag \union Worn, n \in Counts : StrengthItem(id, n)
            \/ \E id \in Worn : UnEquipItem(id)
            \/ SortItems \/ Tick
            \/ Gone
  BY DEF Next, Visit, BuyCut, SellCut, MoveCut, SortCut, SortCrash, StrengthCrash, Leave

\* An item that is worn is in no cell, and is one the role has.
LEMMA WornIs ==
  ASSUME TypeOK, set \in Settings, WornOut, NEW id \in Worn
  PROVE  id \in inMap /\ id \in 1..Len(item) /\ item[id].equip /\ \A c \in DOMAIN slot : slot[c] # id
  BY HeldIs DEF Worn, WornOut

\* The items are in their places after every step of a first visit.
LEMMA PlaceStep ==
  ASSUME TypeOK, set \in Settings, FirstVisit, InPlace, Next
  PROVE  InPlace'
<1> DEFINE n == Len(item)
<1>1. /\ set' = set
      /\ \/ \E t \in Templates, c \in Counts : BuyItem(t, c)
         \/ \E id \in InBag : SellItem(id) \/ AbandonItem(id)
         \/ \E id \in InBag : EquipItem(id)
         \/ \E id \in InBag : \E to \in DOMAIN slot : MoveItem(id, to)
         \/ \E id \in InBag \union Worn, k \in Counts : StrengthItem(id, k)
         \/ \E id \in Worn : UnEquipItem(id)
         \/ SortItems \/ Tick
         \/ Gone
  BY VisitIs
<1>2. /\ n \in Nat /\ inMap \subseteq 1..n /\ Cells' = Cells /\ Cells \in Nat
      /\ \A c \in DOMAIN slot : slot[c] # 0 => slot[c] \in 1..n
  BY <1>1, ItemsAre, SettingStays, SettingFacts DEF TypeOK
<1>3. \A id \in InBag : id \in inMap
  BY DEF InBag
<1>4. ASSUME NEW t \in Templates, NEW c \in Counts, BuyItem(t, c) PROVE InPlace'
  <2> DEFINE id == n + 1
  <2>1. /\ n = Len(row) /\ row' \in [1..n + 1 -> RowRecord]
        /\ \A i \in 1..n : item'[i] = item[i]
        /\ Is(item'[id], t, Short(c), FreeCell(slot), FALSE, FALSE)
        /\ Filling(id) /\ inMap' = inMap \union {id}
    BY <1>4, BuyDoes
  <2>2. item'[id].idx = FreeCell(slot) /\ item'[id].equip = FALSE
    BY <2>1 DEF Is
  <2>3. Len(row') = n + 1
    BY <1>2, <2>1, SequenceOf
  <2>4. Len(row') < Cells' => Len(row) < Cells
    BY <1>2, <2>1, <2>3
  <2> HIDE DEF n
  <2>5. \A k \in DOMAIN slot : slot[k] # id
    BY <1>2
  <2>6. \A w \in inMap \ {id} : item'[w] = item[w]
    BY <1>2, <2>1
  <2>7. id \in inMap' /\ inMap' \subseteq inMap \union {id} /\ inMap \ {id} \subseteq inMap'
    BY <2>1
  <2>8. Filling(id)
    BY <2>1
  <2> HIDE DEF id
  <2> QED
    BY <1>1, <2>2, <2>4, <2>5, <2>6, <2>7, <2>8, FillingKeeps
<1>5. ASSUME NEW id \in InBag, SellItem(id) \/ AbandonItem(id) PROVE InPlace'
  <2>1. loaded /\ Drop(id)
    BY <1>5 DEF SellItem, AbandonItem
  <2>2. Touches({id}) /\ Emptied(item[id].idx) /\ inMap' = inMap \ {id}
    BY <1>3, <2>1, DropDoes
  <2>3. Stays({id}, id)
    BY DEF Stays
  <2> QED
    BY <1>1, <2>1, <2>2, <2>3, EmptyingKeeps
<1>6. ASSUME NEW id \in InBag, EquipItem(id) PROVE InPlace'
  <2>1. loaded /\ Touches({id}) /\ Emptied(item[id].idx) /\ inMap' = inMap /\ item'[id].equip = TRUE
    BY <1>3, <1>6, EquipDoes DEF Is
  <2>2. Stays({id}, id)
    BY DEF Stays
  <2> QED
    BY <1>1, <2>1, <2>2, EmptyingKeeps
<1>7. ASSUME NEW id \in InBag, NEW to \in DOMAIN slot, MoveItem(id, to) PROVE InPlace'
  <2>1. /\ loaded /\ to # 0
        /\ \/ Stackable(id, to) /\ StackCells(id, to)
           \/ SwapCells(id, to)
    BY <1>7 DEF MoveItem
  <2> QED
    BY <1>1, <2>1, StackKeeps, SwapKeeps
<1>8. ASSUME NEW id \in InBag \union Worn, NEW k \in Counts, StrengthItem(id, k) PROVE InPlace'
  <2>1. id \in inMap
    BY <1>3 DEF Worn
  <2>2. /\ loaded /\ Touches({id}) /\ UNCHANGED <<inMap, slot>>
        /\ item'[id].num = item[id].num /\ item'[id].idx = item[id].idx /\ item'[id].equip = item[id].equip
    BY <1>8, <2>1, StrengthDoes DEF Is
  <2>3. Stays({id}, 0)
    BY <2>2 DEF Stays
  <2> QED
    BY <1>1, <2>2, <2>3, StayKeeps
<1>9. ASSUME NEW id \in Worn, UnEquipItem(id) PROVE InPlace'
  <2>1. id \in inMap /\ \A c \in DOMAIN slot : slot[c] # id
    BY WornIs DEF InPlace
  <2>2. /\ loaded /\ Touches({id}) /\ Filling(id) /\ inMap' = inMap
        /\ item'[id].idx = FreeCell(slot) /\ item'[id].equip = FALSE
    BY <1>9, <2>1, UnEquipDoes DEF Is
  <2>3. n = Len(row) /\ row' \in [1..n -> RowRecord] /\ \A i \in 1..n \ {id} : item'[i] = item[i]
    BY <2>2, ItemsAre DEF Touches
  <2>4. Len(row') = n
    BY <1>2, <2>3, SequenceOf
  <2>5. \A w \in inMap \ {id} : item'[w] = item[w]
    BY <1>2, <2>3
  <2>6. Len(row') < Cells' => Len(row) < Cells
    BY <1>2, <2>3, <2>4
  <2> HIDE DEF n
  <2> QED
    BY <1>1, <2>1, <2>2, <2>5, <2>6, FillingKeeps
<1>10. ASSUME SortItems PROVE InPlace'
  <2>1. /\ loaded /\ inMap' = inMap
        /\ \/ Save(item, InCells(slot)) /\ slot' = slot
           \/ \E o \in Orders : \E h : Rounds(h, o) /\ ~h[Cardinality(Filled)].crashed /\ Sorts(h[Cardinality(Filled)])
    BY <1>10, SortItemsIs
  <2>2. CASE Save(item, InCells(slot)) /\ slot' = slot
    <3>1. /\ Touches(InCells(slot))
          /\ \A i \in InCells(slot) : item'[i].num = item[i].num /\ item'[i].idx = item[i].idx /\ item'[i].equip = item[i].equip
      BY <2>1, <2>2, FlushAllDoes DEF Is
    <3>2. Stays(InCells(slot), 0)
      BY <3>1 DEF Stays
    <3> QED
      BY <1>1, <2>1, <2>2, <3>1, <3>2, StayKeeps
  <2>3. ASSUME NEW o \in Orders, NEW h, Rounds(h, o), ~h[Cardinality(Filled)].crashed, Sorts(h[Cardinality(Filled)])
        PROVE  InPlace'
    BY <1>1, <2>1, <2>3, SortKeeps
  <2> QED
    BY <2>1, <2>2, <2>3
<1>11. ASSUME Tick PROVE InPlace'
  BY <1>1, <1>2, <1>11 DEF Tick, InPlace, Placed, WornOut, Covered
<1>12. ASSUME Gone PROVE InPlace'
  <2>1. /\ inMap' = {} /\ slot' = [i \in 0..Cells-1 |-> 0]
    BY <1>12 DEF Gone
  <2>2. 0 \in 0..Cells-1
    BY <1>2, SettingFacts
  <2>3. slot'[0] = 0 /\ \A c \in DOMAIN slot' : slot'[c] = 0
    BY <2>1, <2>2
  <2> QED
    BY <2>1, <2>3 DEF InPlace, Placed, WornOut, Covered
<1> QED
  BY <1>1, <1>4, <1>5, <1>6, <1>7, <1>8, <1>9, <1>10, <1>11, <1>12

-----------------------------------------------------------------------------
(* What the bag and the table hold.                                        *)

\* What each item has of a template in the bag, and what its row has.
HasOf(r, f, M, t) == [i \in DOMAIN r |-> IF i \in M /\ r[i].tpl = t THEN f[i].num ELSE 0]
StoredOf(r, t)    ==
  [i \in DOMAIN r |-> IF i \in {j \in DOMAIN r : ~r[j].dead} /\ r[i].tpl = t THEN r[i].num ELSE 0]

\* They are functions to numbers.
LEMMA HasIs ==
  ASSUME NEW n \in Nat, NEW r \in [1..n -> RowRecord], NEW f \in [1..n -> ItemRecord], NEW M, NEW t
  PROVE  /\ HasOf(r, f, M, t) \in [1..n -> Int] /\ SumFunction(HasOf(r, f, M, t)) \in Int
         /\ \A i \in 1..n : HasOf(r, f, M, t)[i] = IF i \in M /\ r[i].tpl = t THEN f[i].num ELSE 0
<1>1. \A i \in 1..n : f[i].num \in Int
  BY DEF ItemRecord
<1>2. IsFiniteSet(1..n)
  BY FS_Interval
<1>3. /\ HasOf(r, f, M, t) \in [1..n -> Int]
      /\ \A i \in 1..n : HasOf(r, f, M, t)[i] = IF i \in M /\ r[i].tpl = t THEN f[i].num ELSE 0
  BY <1>1 DEF HasOf
<1>4. SumFunction(HasOf(r, f, M, t)) \in Int
  BY <1>2, <1>3, SumOfIntegers
<1> QED
  BY <1>3, <1>4

\* And so are those of the rows.
LEMMA StoredIs ==
  ASSUME NEW n \in Nat, NEW r \in [1..n -> RowRecord], NEW t
  PROVE  /\ StoredOf(r, t) \in [1..n -> Int] /\ SumFunction(StoredOf(r, t)) \in Int
         /\ \A i \in 1..n : StoredOf(r, t)[i] = IF r[i].dead = FALSE /\ r[i].tpl = t THEN r[i].num ELSE 0
<1>1. \A i \in 1..n : r[i].num \in Int /\ r[i].dead \in BOOLEAN
  BY DEF RowRecord
<1>2. IsFiniteSet(1..n)
  BY FS_Interval
<1>3. /\ StoredOf(r, t) \in [1..n -> Int]
      /\ \A i \in 1..n : StoredOf(r, t)[i] = IF r[i].dead = FALSE /\ r[i].tpl = t THEN r[i].num ELSE 0
  BY <1>1 DEF StoredOf
<1>4. SumFunction(StoredOf(r, t)) \in Int
  BY <1>2, <1>3, SumOfIntegers
<1> QED
  BY <1>3, <1>4

\* Their sums are the units of the bag and of the table, before and after a step.
LEMMA UnitsAre ==
  ASSUME NEW t
  PROVE  /\ Units(t) = SumFunction(HasOf(row, item, inMap, t))
         /\ SavedUnits(t) = SumFunction(StoredOf(row, t))
         /\ Units(t)' = SumFunction(HasOf(row', item', inMap', t))
         /\ SavedUnits(t)' = SumFunction(StoredOf(row', t))
  BY DEF Units, SavedUnits, HasOf, StoredOf, LoadedIds

\* What one function gains on another, everywhere, it gains in all.
LEMMA SumGap ==
  ASSUME NEW n \in Nat, NEW f \in [1..n -> Int], NEW g \in [1..n -> Int], NEW e \in [1..n -> Int], NEW k \in [1..n -> Int],
         \A i \in 1..n : g[i] - f[i] <= k[i] - e[i]
  PROVE  SumFunction(g) - SumFunction(f) <= SumFunction(k) - SumFunction(e)
<1> DEFINE D == [i \in 1..n |-> g[i] - f[i]]
           E == [i \in 1..n |-> k[i] - e[i]]
<1>1. IsFiniteSet(1..n)
  BY FS_Interval
<1>2. D \in [1..n -> Int] /\ E \in [1..n -> Int] /\ \A i \in 1..n : D[i] = g[i] - f[i] /\ E[i] = k[i] - e[i]
  OBVIOUS
<1> HIDE DEF D, E
<1>3. \A i \in 1..n : D[i] <= E[i] /\ g[i] = f[i] + D[i] /\ k[i] = e[i] + E[i]
  BY <1>2
<1>4. SumFunction(D) <= SumFunction(E)
  BY <1>1, <1>2, <1>3, SumMonotone
<1>8. Adds(1..n, f, D, g) /\ Adds(1..n, e, E, k)
  BY <1>1, <1>2, <1>3 DEF Adds
<1>5. SumFunction(g) = SumFunction(f) + SumFunction(D)
  BY <1>8, SumPlus
<1>6. SumFunction(k) = SumFunction(e) + SumFunction(E)
  BY <1>8, SumPlus
<1>7. SumFunction(D) \in Int /\ SumFunction(E) \in Int /\ SumFunction(f) \in Int /\ SumFunction(e) \in Int
  BY <1>1, <1>2, SumOfIntegers
<1> QED
  BY <1>4, <1>5, <1>6, <1>7

\* A request that saves what it touches gains no unit that the table lacks.
LEMMA TouchSums ==
  ASSUME TypeOK, loaded, NEW S, Touches(S),
         \A i \in S : i \in inMap /\ row[i].dead = FALSE /\ row[i].num = item[i].num,
         \A i \in S : i \in inMap' => item'[i].dead = FALSE \/ item'[i].num = 0,
         \A i \in S : i \notin inMap' => item'[i].dead = TRUE \/ item'[i].num >= 0,
         \A i \in 1..Len(item) \ S : i \in inMap' <=> i \in inMap,
         NEW t, SavedUnits(t) >= Units(t)
  PROVE  SavedUnits(t)' >= Units(t)'
<1> DEFINE n == Len(item)
           f == HasOf(row, item, inMap, t)
           g == StoredOf(row, t)
           e == HasOf(row', item', inMap', t)
           k == StoredOf(row', t)
<1>1. /\ n \in Nat /\ item' \in [1..n -> ItemRecord] /\ row' \in [1..n -> RowRecord]
      /\ item \in [1..n -> ItemRecord] /\ row \in [1..n -> RowRecord]
      /\ \A i \in 1..n : row'[i].tpl = row[i].tpl
      /\ \A i \in 1..n \ S : item'[i] = item[i] /\ row'[i] = row[i] /\ (i \in inMap' <=> i \in inMap)
      /\ \A i \in S : i \in 1..n /\ row'[i].num = item'[i].num /\ row'[i].dead = item'[i].dead
  BY ItemsAre DEF Touches
<1> HIDE DEF n
<1>8. n \in Nat /\ item \in [1..n -> ItemRecord] /\ row \in [1..n -> RowRecord]
  BY <1>1
<1>9. n \in Nat /\ item' \in [1..n -> ItemRecord] /\ row' \in [1..n -> RowRecord]
  BY <1>1
<1>2. /\ f \in [1..n -> Int] /\ g \in [1..n -> Int]
      /\ \A i \in 1..n :
           /\ f[i] = IF i \in inMap /\ row[i].tpl = t THEN item[i].num ELSE 0
           /\ g[i] = IF row[i].dead = FALSE /\ row[i].tpl = t THEN row[i].num ELSE 0
      /\ SumFunction(f) \in Int /\ SumFunction(g) \in Int
  <2>1. /\ f \in [1..n -> Int] /\ SumFunction(f) \in Int
        /\ \A i \in 1..n : f[i] = IF i \in inMap /\ row[i].tpl = t THEN item[i].num ELSE 0
    BY ONLY <1>8, HasIs
  <2>2. /\ g \in [1..n -> Int] /\ SumFunction(g) \in Int
        /\ \A i \in 1..n : g[i] = IF row[i].dead = FALSE /\ row[i].tpl = t THEN row[i].num ELSE 0
    BY ONLY <1>8, StoredIs
  <2> HIDE DEF f, g
  <2> QED
    BY <2>1, <2>2
<1>3. /\ e \in [1..n -> Int] /\ k \in [1..n -> Int]
      /\ \A i \in 1..n :
           /\ e[i] = IF i \in inMap' /\ row'[i].tpl = t THEN item'[i].num ELSE 0
           /\ k[i] = IF row'[i].dead = FALSE /\ row'[i].tpl = t THEN row'[i].num ELSE 0
      /\ SumFunction(e) \in Int /\ SumFunction(k) \in Int
  <2>1. /\ e \in [1..n -> Int] /\ SumFunction(e) \in Int
        /\ \A i \in 1..n : e[i] = IF i \in inMap' /\ row'[i].tpl = t THEN item'[i].num ELSE 0
    BY ONLY <1>9, HasIs
  <2>2. /\ k \in [1..n -> Int] /\ SumFunction(k) \in Int
        /\ \A i \in 1..n : k[i] = IF row'[i].dead = FALSE /\ row'[i].tpl = t THEN row'[i].num ELSE 0
    BY ONLY <1>9, StoredIs
  <2> HIDE DEF e, k
  <2> QED
    BY <2>1, <2>2
<1>4. /\ Units(t) = SumFunction(f) /\ SavedUnits(t) = SumFunction(g)
      /\ Units(t)' = SumFunction(e) /\ SavedUnits(t)' = SumFunction(k)
  BY UnitsAre
<1>5. \A i \in 1..n : item'[i].num \in Int /\ item'[i].dead \in BOOLEAN
  BY <1>1 DEF ItemRecord
<1> HIDE DEF f, g, e, k
<1>6. ASSUME NEW i \in 1..n PROVE g[i] - f[i] <= k[i] - e[i]
  <2>1. CASE i \in S
    <3>1. f[i] = g[i]
      BY <1>2, <2>1
    <3>2. row'[i].num = item'[i].num /\ row'[i].dead = item'[i].dead /\ item'[i].num \in Int /\ item'[i].dead \in BOOLEAN
      BY <1>1, <1>5, <2>1
    <3>3. e[i] <= k[i]
      <4>1. CASE row'[i].tpl # t
        BY <1>3, <4>1
      <4>2. CASE row'[i].tpl = t /\ i \in inMap'
        <5>1. item'[i].dead = FALSE \/ item'[i].num = 0
          BY <2>1, <4>2
        <5> QED
          BY <1>3, <3>2, <4>2, <5>1
      <4>3. CASE row'[i].tpl = t /\ i \notin inMap'
        <5>1. item'[i].dead = TRUE \/ item'[i].num >= 0
          BY <2>1, <4>3
        <5> QED
          BY <1>3, <3>2, <4>3, <5>1
      <4> QED
        BY <4>1, <4>2, <4>3
    <3> QED
      BY <1>2, <1>3, <3>1, <3>3
  <2>2. CASE i \notin S
    <3>2. item'[i] = item[i] /\ row'[i] = row[i] /\ (i \in inMap' <=> i \in inMap)
      BY <1>1, <2>2
    <3>1. f[i] = e[i] /\ g[i] = k[i]
      BY <1>2, <1>3, <3>2
    <3> QED
      BY <1>2, <1>3, <3>1
  <2> QED
    BY <2>1, <2>2
<1>7. SumFunction(g) - SumFunction(f) <= SumFunction(k) - SumFunction(e)
  BY <1>1, <1>2, <1>3, <1>6, SumGap
<1> QED
  BY <1>2, <1>3, <1>4, <1>7, SMTT(30)

\* An item of the bag or on the role is not empty, and its row holds it.
Live ==
  \A id \in InBag \union Worn :
    item[id].num > 0 /\ item[id].dead = FALSE /\ row[id].dead = FALSE /\ row[id].num = item[id].num

\* The tables hold no less than the role has.
Funds == dbMoney >= money /\ \A t \in Templates : SavedUnits(t) >= Units(t)

\* A request saves the items of the bag that it touches, and leaves none of those
\* the role keeps empty or deleted.
SavesWell(S) ==
  /\ S \subseteq InBag \union Worn /\ Touches(S)
  /\ InCells(slot') \subseteq InCells(slot) \union S /\ inMap \ S \subseteq inMap' /\ inMap' \subseteq inMap
  /\ \A i \in S : i \in inMap' => item'[i].num > 0 /\ item'[i].dead = FALSE
  /\ \A i \in S : i \notin inMap' => item'[i].dead = TRUE \/ item'[i].num >= 0
  /\ dbMoney' >= money'

\* Then the tables hold no less than the role has.
LEMMA TouchFunds ==
  ASSUME TypeOK, set \in Settings, set' = set, loaded, Live, Funds, NEW S, SavesWell(S)
  PROVE  Live' /\ Funds'
<1> USE DEF SavesWell
<1>1. Templates' = Templates
  BY SettingStays
<1>2. /\ \A i \in S : /\ i \in inMap /\ row[i].dead = FALSE /\ row[i].num = item[i].num
      /\ \A i \in S : i \in inMap' => item'[i].dead = FALSE \/ item'[i].num = 0
      /\ \A i \in S : i \notin inMap' => item'[i].dead = TRUE \/ item'[i].num >= 0
  BY DEF Live, InBag, Worn
<1>3. \A i \in 1..Len(item) \ S : i \in inMap' <=> i \in inMap
  OBVIOUS
<1>4. \A t \in Templates : SavedUnits(t)' >= Units(t)'
  BY <1>2, <1>3, TouchSums DEF Funds
<1>5. /\ \A i \in S : row'[i].num = item'[i].num /\ row'[i].dead = item'[i].dead
      /\ \A i \in inMap \ S : item'[i] = item[i] /\ row'[i] = row[i]
  BY HeldIs DEF Touches
<1>6. Live'
  <2> SUFFICES ASSUME NEW i \in (InBag \union Worn)'
               PROVE  /\ item'[i].num > 0 /\ item'[i].dead = FALSE
                      /\ row'[i].dead = FALSE /\ row'[i].num = item'[i].num
    BY DEF Live
  <2>1. i \in inMap' /\ (i \in InCells(slot') \/ item'[i].equip)
    BY DEF InBag, Worn
  <2>2. CASE i \in S
    BY <1>5, <2>1, <2>2
  <2>3. CASE i \notin S
    <3>1. i \in inMap \ S /\ item'[i] = item[i] /\ row'[i] = row[i]
      BY <1>5, <2>1, <2>3
    <3>2. i \in InBag \union Worn
      BY <2>1, <2>3, <3>1 DEF InBag, Worn
    <3> QED
      BY <3>1, <3>2 DEF Live
  <2> QED
    BY <2>2, <2>3
<1> QED
  BY <1>1, <1>4, <1>6 DEF Funds

\* A purchase of something puts as much in the bag as in the table.
LEMMA BuyFunds ==
  ASSUME TypeOK, set \in Settings, set' = set, Live, Funds, NEW b \in Templates, NEW c \in Counts, ~Odd(b, c), BuyItem(b, c)
  PROVE  Live' /\ Funds'
<1> DEFINE n == Len(item)
           x == n + 1
<1>1. /\ loaded /\ n = Len(row) /\ item' \in [1..x -> ItemRecord] /\ row' \in [1..x -> RowRecord]
      /\ \A i \in 1..n : item'[i] = item[i] /\ row'[i] = row[i]
      /\ Is(item'[x], b, Short(c), FreeCell(slot), FALSE, FALSE)
      /\ row'[x].tpl = b /\ row'[x].num = Short(c) /\ row'[x].dead = FALSE
      /\ Filling(x) /\ inMap' = inMap \union {x} /\ dbMoney' = money' /\ money' \in Int
  BY BuyDoes
<1>2. item'[x].num = Short(c) /\ item'[x].dead = FALSE /\ Short(c) > 0
  <2>1. c \in Int /\ ShortMax \in Nat
    BY SettingFacts, BagAssumption
  <2>2. Short(c) \in Int
    BY <2>1, WrappedIsInt DEF Short
  <2>3. Short(c) > 0
    BY <2>2 DEF Odd
  <2> QED
    BY <1>1, <2>3 DEF Is
<1>3. /\ n \in Nat /\ inMap \subseteq 1..n /\ Templates' = Templates
      /\ item \in [1..n -> ItemRecord] /\ row \in [1..n -> RowRecord]
  BY <1>1, ItemsAre, SettingStays DEF TypeOK
<1>4. InCells(slot') \subseteq InCells(slot) \union {x}
  BY <1>1, ShownAfter
<1> HIDE DEF n
<1>5. x \in Nat /\ x \notin 1..n /\ 1..x = 1..n \union {x} /\ IsFiniteSet(1..n)
  <2>1. IsFiniteSet(1..n)
    BY <1>3, FS_Interval
  <2> QED
    BY <1>3, <2>1
<1>8. x \in Nat /\ row' \in [1..x -> RowRecord]
  BY <1>1, <1>5
<1> HIDE DEF x
<1>6. Live'
  <2> SUFFICES ASSUME NEW i \in (InBag \union Worn)'
               PROVE  /\ item'[i].num > 0 /\ item'[i].dead = FALSE
                      /\ row'[i].dead = FALSE /\ row'[i].num = item'[i].num
    BY DEF Live
  <2>1. i \in inMap' /\ (i \in InCells(slot') \/ item'[i].equip)
    BY DEF InBag, Worn
  <2>2. CASE i = x
    BY <1>1, <1>2, <2>2
  <2>3. CASE i # x
    <3>1. i \in inMap /\ item'[i] = item[i] /\ row'[i] = row[i]
      BY <1>1, <1>3, <2>1, <2>3
    <3>2. i \in InBag \union Worn
      BY <1>4, <2>1, <2>3, <3>1 DEF InBag, Worn
    <3> QED
      BY <3>1, <3>2 DEF Live
  <2> QED
    BY <2>2, <2>3
<1>7. ASSUME NEW t \in Templates PROVE SavedUnits(t)' >= Units(t)'
  <2> DEFINE f == HasOf(row, item, inMap, t)
             g == StoredOf(row, t)
             e == HasOf(row', item', inMap', t)
             k == StoredOf(row', t)
  <2>1. /\ f \in [1..n -> Int] /\ SumFunction(f) \in Int
        /\ \A i \in 1..n : f[i] = IF i \in inMap /\ row[i].tpl = t THEN item[i].num ELSE 0
    BY ONLY <1>3, HasIs
  <2>2. /\ g \in [1..n -> Int] /\ SumFunction(g) \in Int
        /\ \A i \in 1..n : g[i] = IF row[i].dead = FALSE /\ row[i].tpl = t THEN row[i].num ELSE 0
    BY ONLY <1>3, StoredIs
  <2>3. /\ e \in [1..x -> Int] /\ SumFunction(e) \in Int
        /\ \A i \in 1..x : e[i] = IF i \in inMap' /\ row'[i].tpl = t THEN item'[i].num ELSE 0
    BY ONLY <1>1, <1>5, HasIs
  <2>4. /\ k \in [1..x -> Int] /\ SumFunction(k) \in Int
        /\ \A i \in 1..x : k[i] = IF row'[i].dead = FALSE /\ row'[i].tpl = t THEN row'[i].num ELSE 0
    BY ONLY <1>8, StoredIs
  <2>5. /\ Units(t) = SumFunction(f) /\ SavedUnits(t) = SumFunction(g)
        /\ Units(t)' = SumFunction(e) /\ SavedUnits(t)' = SumFunction(k)
    BY UnitsAre
  <2> HIDE DEF f, g, e, k
  <2>6. ASSUME NEW i \in 1..n PROVE e[i] = f[i] /\ k[i] = g[i]
    <3>1. item'[i] = item[i] /\ row'[i] = row[i] /\ (i \in inMap' <=> i \in inMap) /\ i \in 1..x
      BY <1>1, <1>5
    <3>2. e[i] = f[i]
      BY <2>1, <2>3, <3>1
    <3>3. k[i] = g[i]
      BY <2>2, <2>4, <3>1
    <3> QED
      BY <3>2, <3>3
  <2>7. x \in inMap' /\ x \in 1..x
    BY <1>1, <1>5
  <2>8. e[x] = k[x]
    BY <1>1, <1>2, <2>3, <2>4, <2>7
  <2>9. e \in [1..n \union {x} -> Int] /\ k \in [1..n \union {x} -> Int]
    BY <1>5, <2>3, <2>4
  <2> DEFINE T == 1..n
  <2>14. IsFiniteSet(T) /\ x \notin T /\ f \in [T -> Int] /\ e \in [T \union {x} -> Int] /\ \A i \in T : e[i] = f[i]
    BY <1>5, <2>1, <2>6, <2>9
  <2>15. g \in [T -> Int] /\ k \in [T \union {x} -> Int] /\ \A i \in T : k[i] = g[i]
    BY <2>2, <2>6, <2>9
  <2> HIDE DEF T
  <2>10. SumFunction(e) = SumFunction(f) + e[x]
    BY ONLY <2>14, SumGrows
  <2>11. SumFunction(k) = SumFunction(g) + k[x]
    BY ONLY <2>14, <2>15, SumGrows
  <2>12. e[x] \in Int
    BY <2>3, <2>7
  <2>13. SumFunction(g) >= SumFunction(f)
    BY <2>5 DEF Funds
  <2> QED
    BY <2>1, <2>2, <2>5, <2>8, <2>10, <2>11, <2>12, <2>13
<1> QED
  BY <1>1, <1>3, <1>6, <1>7 DEF Funds

\* The same numbers are as many units.
LEMMA SameUnits ==
  ASSUME NEW n \in Nat, DOMAIN row = 1..n, row' \in [1..n -> RowRecord], inMap' = inMap, NEW f,
         \A i \in 1..n : item'[i].num = f[i].num /\ row'[i].tpl = row[i].tpl, NEW t
  PROVE  Units(t)' = Share(inMap, f, t)
<1>1. HasOf(row', item', inMap', t) = Part(inMap, f, t)
  BY DEF HasOf, Part
<1> QED
  BY <1>1, UnitsAre DEF Share

\* A sort leaves the units the role has.
LEMMA SortUnits ==
  ASSUME TypeOK, set \in Settings, loaded, Placed, Chain, NEW o \in Orders, NEW h, Rounds(h, o),
         Sorts(h[Cardinality(Filled)]), inMap' = inMap, NEW t
  PROVE  Units(t)' = Units(t)
<1> DEFINE n == Len(item)
           k == Cardinality(Filled)
           m == h[k]
<1>1. OneCellEach /\ CellsInMap
  BY PlacedIs
<1>2. k \in 0..k /\ n \in Nat /\ DOMAIN row = 1..n
  <2>1. k \in Nat
    BY OrderIs, SMTT(30)
  <2>2. n \in Nat /\ n = Len(row) /\ DOMAIN row = 1..Len(row)
    BY ItemsAre
  <2> QED
    BY <2>1, <2>2
<1>3. Share(inMap, m.items, t) = Units(t)
  BY <1>1, <1>2, RoundsConserve
<1>4. row' \in [1..n -> RowRecord] /\ \A i \in 1..n : item'[i].num = m.items[i].num /\ row'[i].tpl = row[i].tpl
  BY SortDoes
<1> DEFINE f == m.items
<1>5. \A i \in 1..n : item'[i].num = f[i].num /\ row'[i].tpl = row[i].tpl
  BY <1>4
<1> HIDE DEF n, f
<1>6. Units(t)' = Share(inMap, f, t)
  BY <1>2, <1>4, <1>5, SameUnits
<1> QED
  BY <1>3, <1>6 DEF f

\* The rows of what a sorted bag shows gain what their items gain.
LEMMA SortStores ==
  ASSUME TypeOK, set \in Settings, loaded, Placed, Live, Chain, NEW o \in Orders, NEW h, Rounds(h, o),
         ~h[Cardinality(Filled)].crashed, Sorts(h[Cardinality(Filled)]), NEW t
  PROVE  SavedUnits(t)' >= SavedUnits(t)
<1> DEFINE n == Len(item)
           k == Cardinality(Filled)
           m == h[k]
           g == StoredOf(row, t)
           e == StoredOf(row', t)
           d == Gains(m, t)
<1>1. OneCellEach /\ CellsInMap
  BY PlacedIs
<1>2. /\ k \in 0..k /\ n \in Nat /\ row \in [1..n -> RowRecord]
      /\ \A j \in 1..k : o[j] \in DOMAIN slot /\ slot[o[j]] # 0
  <2>1. k \in Nat /\ \A j \in 1..k : o[j] \in DOMAIN slot /\ slot[o[j]] # 0
    BY OrderIs, SMTT(30)
  <2>2. n \in Nat /\ n = Len(row) /\ row \in [1..Len(row) -> RowRecord]
    BY ItemsAre
  <2> QED
    BY <2>1, <2>2
<1>3. SumFunction(d) \in Int /\ SumFunction(d) >= 0
  BY <1>1, <1>2, RoundsGain
<1>4. Kept(m, o, k)
  BY <1>2, RoundsKeep
<1>5. Single(m, o, k)
  BY <1>1, <1>2, RoundsSingle
<1>6. m \in MergeStates(n) /\ \A p \in DOMAIN m.out : \E j \in 1..k : m.out[p] = slot[o[j]]
  BY <1>4 DEF Kept
<1>7. /\ d \in [1..n -> Int] /\ IsFiniteSet(1..n)
      /\ \A i \in 1..n : d[i] = IF i \in Visible(m) /\ row[i].tpl = t THEN m.items[i].num - item[i].num ELSE 0
  BY <1>6, GainsAre
<1>8. \A p \in DOMAIN m.out : m.items[m.out[p]].num > 0
  BY <1>5 DEF Single
<1>9. row' \in [1..n -> RowRecord] /\ \A i \in 1..n : row'[i].tpl = row[i].tpl
  BY SortDoes
<1>10. /\ \A i \in 1..n : i \in Visible(m) =>
            /\ row'[i].num = m.items[i].num /\ row'[i].dead = item'[i].dead
            /\ item'[i].dead = (item[i].dead \/ m.items[i].num = 0)
       /\ \A i \in 1..n : i \notin Visible(m) => row'[i] = row[i]
  BY SortDoes
<1>11. \A i \in Visible(m) : \E p \in DOMAIN m.out : m.out[p] = i
  BY DEF Visible
<1>14. \A i \in 1..n : item[i].num \in Int /\ m.items[i].num \in Int
  BY <1>2, <1>6, ItemsAre, MergeParts
<1> HIDE DEF n
<1>20. n \in Nat /\ row \in [1..n -> RowRecord]
  BY <1>2
<1>21. n \in Nat /\ row' \in [1..n -> RowRecord]
  BY <1>2, <1>9
<1>12. /\ g \in [1..n -> Int] /\ SumFunction(g) \in Int
       /\ \A i \in 1..n : g[i] = IF row[i].dead = FALSE /\ row[i].tpl = t THEN row[i].num ELSE 0
  BY ONLY <1>20, StoredIs
<1>13. /\ e \in [1..n -> Int] /\ SumFunction(e) \in Int
       /\ \A i \in 1..n : e[i] = IF row'[i].dead = FALSE /\ row'[i].tpl = t THEN row'[i].num ELSE 0
  BY ONLY <1>21, StoredIs
<1> HIDE DEF m, k, g, e, d
<1>15. ASSUME NEW i \in 1..n, i \in Visible(m)
       PROVE  /\ m.items[i].num > 0 /\ item[i].dead = FALSE /\ row[i].dead = FALSE /\ row[i].num = item[i].num
  <2>1. PICK p \in DOMAIN m.out : m.out[p] = i
    BY <1>11, <1>15
  <2>2. PICK j \in 1..k : i = slot[o[j]]
    BY <1>6, <2>1
  <2>3. i \in InBag
    BY <1>1, <1>2, <2>2, ShownIs DEF CellsInMap, InBag
  <2> QED
    BY <1>8, <2>1, <2>3 DEF Live
<1>16. ASSUME NEW i \in 1..n PROVE e[i] = g[i] + d[i]
  <2>1. CASE i \in Visible(m)
    <3>1. row'[i].num = m.items[i].num /\ row'[i].dead = FALSE
      <4>0. m.items[i].num > 0
        BY <1>15, <2>1
      <4>1. m.items[i].num # 0
        BY <4>0
      <4>2. item[i].dead = FALSE
        BY <1>15, <2>1
      <4>3. row'[i].num = m.items[i].num /\ row'[i].dead = (item[i].dead \/ m.items[i].num = 0)
        BY <1>10, <2>1
      <4> QED
        BY <4>1, <4>2, <4>3, Zenon
    <3>2. row'[i].tpl = row[i].tpl /\ item[i].num \in Int /\ m.items[i].num \in Int
      BY <1>9, <1>14
    <3>3. row[i].dead = FALSE /\ row[i].num = item[i].num
      BY <1>15, <2>1
    <3>4. CASE row[i].tpl = t
      <4>1. e[i] = m.items[i].num /\ g[i] = item[i].num /\ d[i] = m.items[i].num - item[i].num
        BY <1>7, <1>12, <1>13, <2>1, <3>1, <3>2, <3>3, <3>4
      <4> QED
        BY <3>2, <4>1
    <3>5. CASE row[i].tpl # t
      <4>1. e[i] = 0
        BY <1>13, <3>2, <3>5
      <4>2. g[i] = 0 /\ d[i] = 0
        BY <1>7, <1>12, <3>5
      <4> QED
        BY <4>1, <4>2
    <3> QED
      BY <3>4, <3>5
  <2>2. CASE i \notin Visible(m)
    <3>1. row'[i] = row[i] /\ d[i] = 0
      BY <1>7, <1>10, <2>2
    <3>2. e[i] = g[i] /\ g[i] \in Int
      BY <1>12, <1>13, <3>1
    <3> QED
      BY <3>1, <3>2
  <2> QED
    BY <2>1, <2>2
<1>17. Adds(1..n, g, d, e)
  BY <1>7, <1>12, <1>13, <1>16 DEF Adds
<1>18. SumFunction(e) = SumFunction(g) + SumFunction(d)
  BY <1>17, SumPlus
<1>19. SavedUnits(t) = SumFunction(g) /\ SavedUnits(t)' = SumFunction(e)
  BY UnitsAre DEF g, e
<1> QED
  BY <1>3, <1>12, <1>13, <1>18, <1>19

\* After a sort the items of the bag and on the role are in their rows.
LEMMA SortLive ==
  ASSUME TypeOK, set \in Settings, loaded, InPlace, Live, NEW o \in Orders, NEW h, Rounds(h, o),
         ~h[Cardinality(Filled)].crashed, Sorts(h[Cardinality(Filled)]), inMap' = inMap
  PROVE  Live'
<1> DEFINE n == Len(item)
           k == Cardinality(Filled)
           m == h[k]
<1>1. OneCellEach /\ CellsInMap
  BY PlacedIs DEF InPlace
<1>2. k \in 0..k /\ n \in Nat /\ inMap \subseteq 1..n /\ \A j \in 1..k : o[j] \in DOMAIN slot /\ slot[o[j]] # 0
  <2>1. k \in Nat /\ \A j \in 1..k : o[j] \in DOMAIN slot /\ slot[o[j]] # 0
    BY OrderIs
  <2> QED
    BY <2>1, ItemsAre DEF TypeOK
<1>4. Kept(m, o, k)
  BY <1>2, RoundsKeep
<1>5. Single(m, o, k)
  BY <1>1, <1>2, RoundsSingle
<1>6. /\ m \in MergeStates(n) /\ \A p \in DOMAIN m.out : \E j \in 1..k : m.out[p] = slot[o[j]]
      /\ \A i \in 1..n : (\A j \in 1..k : slot[o[j]] # i) => m.items[i] = item[i]
  BY <1>4 DEF Kept
<1>8. \A p \in DOMAIN m.out : m.items[m.out[p]].num > 0
  BY <1>5 DEF Single
<1>9. /\ \A i \in 1..n : i \in Visible(m) =>
            /\ row'[i].num = m.items[i].num /\ row'[i].dead = item'[i].dead
            /\ item'[i].dead = (item[i].dead \/ m.items[i].num = 0)
      /\ \A i \in 1..n : i \notin Visible(m) => row'[i] = row[i]
  BY SortDoes
<1>10. /\ \A i \in 1..n : item'[i].num = m.items[i].num /\ item'[i].equip = item[i].equip
       /\ \A i \in 1..n : (\A c \in DOMAIN m.out : m.out[c] # i) => item'[i] = m.items[i]
       /\ InCells(slot') = Visible(m)
  BY SortDoes
<1>11. \A i \in Visible(m) : \E p \in DOMAIN m.out : m.out[p] = i
  BY DEF Visible
<1> HIDE DEF n, m, k
<1> SUFFICES ASSUME NEW x \in (InBag \union Worn)'
             PROVE  /\ item'[x].num > 0 /\ item'[x].dead = FALSE
                    /\ row'[x].dead = FALSE /\ row'[x].num = item'[x].num
  BY DEF Live
<1>12. x \in inMap /\ x \in 1..n /\ (x \in Visible(m) \/ item'[x].equip)
  BY <1>2, <1>10 DEF InBag, Worn
<1>13. CASE x \in Visible(m)
  <2>1. PICK p \in DOMAIN m.out : m.out[p] = x
    BY <1>11, <1>13
  <2>2. PICK j \in 1..k : x = slot[o[j]]
    BY <1>6, <2>1
  <2>3. x \in InBag
    BY <1>1, <1>2, <2>2, ShownIs DEF CellsInMap, InBag
  <2>4. m.items[x].num > 0 /\ item[x].dead = FALSE
    BY <1>8, <2>1, <2>3 DEF Live
  <2>5. m.items[x].num # 0
    BY <2>4
  <2>6. /\ row'[x].num = m.items[x].num /\ row'[x].dead = item'[x].dead
        /\ item'[x].dead = (item[x].dead \/ m.items[x].num = 0) /\ item'[x].num = m.items[x].num
    BY <1>9, <1>10, <1>12, <1>13
  <2>7. item'[x].dead = FALSE
    BY <2>4, <2>5, <2>6, Zenon
  <2> QED
    BY <2>4, <2>6, <2>7
<1>14. CASE x \notin Visible(m)
  <2>1. item[x].equip
    BY <1>10, <1>12, <1>14
  <2>2. \A c \in DOMAIN slot : slot[c] # x
    BY <1>12, <2>1 DEF InPlace, WornOut
  <2>3. \A j \in 1..k : slot[o[j]] # x
    BY <1>2, <2>2
  <2>4. \A c \in DOMAIN m.out : m.out[c] # x
    BY <1>6, <2>3
  <2>7. m.items[x] = item[x]
    BY <1>6, <1>12, <2>3
  <2>8. item'[x] = m.items[x]
    BY <1>10, <1>12, <2>4
  <2>5. item'[x] = item[x] /\ row'[x] = row[x]
    BY <1>9, <1>12, <1>14, <2>7, <2>8
  <2>6. x \in Worn
    BY <1>12, <2>1 DEF Worn
  <2> QED
    BY <2>5, <2>6 DEF Live
<1> QED
  BY <1>13, <1>14

\* In a first visit the tables hold no less than the role has, until something is
\* bought that makes no stack.
Solvent == ~odd /\ loaded => Live /\ Funds

\* Every step of the bag keeps it so.
LEMMA SolventStep ==
  ASSUME TypeOK, set \in Settings, FirstVisit, InPlace, CellsSaved, Chain, Solvent, Next
  PROVE  Solvent'
<1> DEFINE n == Len(item)
<1>1. /\ set' = set
      /\ \/ \E t \in Templates, c \in Counts : BuyItem(t, c)
         \/ \E id \in InBag : SellItem(id) \/ AbandonItem(id)
         \/ \E id \in InBag : EquipItem(id)
         \/ \E id \in InBag : \E to \in DOMAIN slot : MoveItem(id, to)
         \/ \E id \in InBag \union Worn, k \in Counts : StrengthItem(id, k)
         \/ \E id \in Worn : UnEquipItem(id)
         \/ SortItems \/ Tick
         \/ Gone
  BY VisitIs
<1>2. Templates' = Templates /\ (~odd' => ~odd) /\ \A t \in Templates, c \in Counts : BuyItem(t, c) /\ ~odd' => ~Odd(t, c)
  BY <1>1, SettingStays DEF Next
<1>3. CASE Gone
  BY <1>3 DEF Gone, Solvent
<1>4. CASE odd'
  BY <1>4 DEF Solvent
<1>5. CASE ~loaded
  <2>1. loaded \in BOOLEAN
    BY DEF TypeOK
  <2>2. loaded' = loaded
    <3>1. CASE Tick
      BY <3>1 DEF Tick
    <3>2. CASE ~Tick /\ ~Gone
      BY <1>1, <1>5, <3>2 DEF BuyItem, CanBuy, SellItem, AbandonItem, EquipItem, MoveItem, StrengthItem, UnEquipItem, SortItems
    <3>3. CASE Gone
      BY <1>5, <2>1, <3>3, Zenon DEF Gone
    <3> QED
      BY <3>1, <3>2, <3>3
  <2> QED
    BY <1>5, <2>2 DEF Solvent
<1> SUFFICES ASSUME ~odd', loaded, ~Gone
             PROVE  Live' /\ Funds'
  BY <1>3, <1>4, <1>5 DEF Solvent
<1>6. Live /\ Funds /\ dbMoney >= money
  BY <1>2 DEF Solvent, Funds
<1>7. \A id \in InBag : id \in inMap /\ id \in InBag \union Worn
  BY DEF InBag
<1>8. /\ \A id \in InBag \union Worn : item[id].num > 0 /\ item[id].num # 0 /\ item[id].dead = FALSE
      /\ money \in Int /\ dbMoney \in Int
  BY <1>6 DEF Live, TypeOK
<1>9. ASSUME NEW S, SavesWell(S) PROVE Live' /\ Funds'
  BY <1>1, <1>6, <1>9, TouchFunds
<1>10. ASSUME NEW t \in Templates, NEW c \in Counts, BuyItem(t, c) PROVE Live' /\ Funds'
  BY <1>1, <1>2, <1>6, <1>10, BuyFunds
<1>11. ASSUME NEW id \in InBag, SellItem(id) \/ AbandonItem(id) PROVE Live' /\ Funds'
  <2>1. Drop(id) /\ dbMoney' >= money'
    <3>1. MoneyAfterSale(id) \in Nat
      BY <1>7, SaleIs
    <3> QED
      BY <1>6, <1>11, <3>1 DEF SellItem, AbandonItem
  <2>2. Touches({id}) /\ Emptied(item[id].idx) /\ inMap' = inMap \ {id} /\ item'[id].dead = TRUE
    BY <1>7, <2>1, DropDoes DEF Is
  <2>3. SavesWell({id})
    BY <1>7, <2>1, <2>2, ShownAfter DEF SavesWell
  <2> QED
    BY <1>9, <2>3
<1>12. ASSUME NEW id \in InBag, EquipItem(id) PROVE Live' /\ Funds'
  <2>1. /\ Touches({id}) /\ Emptied(item[id].idx) /\ UNCHANGED <<inMap, money, dbMoney>>
        /\ item'[id].num = item[id].num /\ item'[id].dead = (item[id].dead \/ item[id].num = 0)
    BY <1>7, <1>12, EquipDoes DEF Is
  <2>2. item'[id].dead = FALSE
    BY <1>7, <1>8, <2>1, Zenon
  <2>3. InCells(slot') \subseteq InCells(slot) \union {id}
    BY <2>1, ShownAfter
  <2>4. SavesWell({id})
    BY <1>6, <1>7, <1>8, <2>1, <2>2, <2>3 DEF SavesWell
  <2> QED
    BY <1>9, <2>4
<1>13. ASSUME NEW id \in InBag \union Worn, NEW k \in Counts, StrengthItem(id, k) PROVE Live' /\ Funds'
  <2>0. id \in inMap
    BY <1>7 DEF Worn
  <2>1. /\ Touches({id}) /\ UNCHANGED <<inMap, slot, dbMoney>> /\ money' \in Int /\ money' <= money
        /\ item'[id].num = item[id].num /\ item'[id].dead = (item[id].dead \/ item[id].num = 0)
    BY <1>13, <2>0, StrengthDoes DEF Is
  <2>2. item'[id].dead = FALSE
    BY <1>8, <2>1, Zenon
  <2>3. dbMoney' >= money'
    BY <1>6, <1>8, <2>1
  <2>4. {id} \subseteq InBag \union Worn /\ item'[id].num > 0
    BY <1>8, <2>1
  <2>5. SavesWell({id})
    BY <2>0, <2>1, <2>2, <2>3, <2>4 DEF SavesWell
  <2> QED
    BY <1>9, <2>5
<1>14. ASSUME NEW id \in Worn, UnEquipItem(id) PROVE Live' /\ Funds'
  <2>0. id \in inMap
    BY DEF Worn
  <2>1. /\ Touches({id}) /\ Filling(id) /\ UNCHANGED <<inMap, money, dbMoney>>
        /\ item'[id].num = item[id].num /\ item'[id].dead = (item[id].dead \/ item[id].num = 0)
    BY <1>14, <2>0, UnEquipDoes DEF Is
  <2>2. item'[id].dead = FALSE
    BY <1>8, <2>1, Zenon
  <2>3. InCells(slot') \subseteq InCells(slot) \union {id}
    BY <2>1, ShownAfter
  <2>4. {id} \subseteq InBag \union Worn /\ item'[id].num > 0
    BY <1>8, <2>1
  <2>5. SavesWell({id})
    BY <1>6, <2>0, <2>1, <2>2, <2>3, <2>4 DEF SavesWell
  <2> QED
    BY <1>9, <2>5
<1>15. ASSUME NEW id \in InBag, NEW to \in DOMAIN slot, MoveItem(id, to) PROVE Live' /\ Funds'
  <2>0. /\ to # 0 /\ UNCHANGED <<money, dbMoney>>
        /\ \/ Stackable(id, to) /\ StackCells(id, to)
           \/ item[id].idx \in DOMAIN slot /\ SwapCells(id, to)
    BY <1>15 DEF MoveItem
  <2>1. id \in inMap /\ dbMoney' >= money'
    BY <1>6, <1>7, <2>0
  <2>2. slot[to] # 0 => slot[to] \in InBag
    BY ShownIs DEF InBag, InPlace, Placed
  <2>3. CASE Stackable(id, to) /\ StackCells(id, to)
    <3> DEFINE other == slot[to]
               S     == {id, other}
               stack == StackNum[item[id].tpl]
               fits  == item[other].num + item[id].num <= stack
    <3>1. /\ other \in 1..n /\ stack > 0 /\ Touches(S)
          /\ \A i \in S : Is(item'[i], item[i].tpl, item'[i].num, item[i].idx, item[i].equip, item[i].dead \/ item'[i].num = 0)
          /\ other # id =>
               IF fits THEN item'[other].num = item[other].num + item[id].num /\ item'[id].num = 0
               ELSE item'[other].num = stack /\ item'[id].num = (item[other].num + item[id].num) - stack
          /\ other = id => item'[id].num = IF fits THEN 0 ELSE stack
          /\ fits => Emptied(item[id].idx) /\ inMap' = inMap \ {id}
          /\ ~fits => slot' = slot /\ inMap' = inMap
      BY <2>1, <2>3, StackDoes
    <3>2. /\ other \in InBag /\ item[other].num \in Int /\ item[id].num \in Int /\ stack \in Int
          /\ item[other].num > 0 /\ item[id].num > 0
      <4>1. other \in InBag
        BY <2>2, <2>3 DEF Stackable
      <4>2. id \in 1..n /\ other \in 1..n /\ item[id].tpl \in Templates /\ item[id].num \in Int /\ item[other].num \in Int
        BY <1>7, <2>1, <4>1, HeldIs
      <4>3. stack \in Int
        BY <4>2, SettingFacts
      <4> QED
        BY <1>7, <1>8, <4>1, <4>2, <4>3
    <3>3. \A i \in S : item[i].dead = FALSE /\ item'[i].dead = (item[i].dead \/ item'[i].num = 0)
      <4>1. \A i \in S : i \in InBag \union Worn
        BY <1>7, <3>2
      <4> QED
        BY <1>8, <3>1, <4>1 DEF Is
    <3> HIDE DEF stack, other
    <3>10. item'[id].num \in Int /\ item'[other].num \in Int
      <4>1. item' \in [1..n -> ItemRecord] /\ id \in 1..n /\ other \in 1..n
        BY <2>1, <3>1, HeldIs DEF Touches
      <4> HIDE DEF n
      <4> QED
        BY <4>1 DEF ItemRecord
    <3>4. /\ \A i \in S : i \in inMap' => item'[i].num > 0 /\ item'[i].num # 0
          /\ \A i \in S : i \notin inMap' => item'[i].num >= 0
      <4>1. CASE fits
        <5>1. inMap' = inMap \ {id} /\ item'[id].num = 0
          BY <3>1, <4>1
        <5>2. other # id => item'[other].num > 0
          BY <3>1, <3>2, <4>1
        <5>3. other # id => item'[other].num # 0 /\ item'[other].num >= 0
          BY <3>10, <5>2
        <5>4. id \notin inMap' /\ item'[id].num >= 0
          BY <5>1
        <5> HIDE DEF fits
        <5> QED
          BY <5>2, <5>3, <5>4
      <4>2. CASE ~fits
        <5>1. other # id => item'[other].num > 0 /\ item'[id].num > 0
          BY <3>1, <3>2, <4>2
        <5>2. other = id => item'[id].num > 0
          BY <3>1, <3>2, <4>2
        <5>3. item'[id].num > 0 /\ item'[other].num > 0
          BY <5>1, <5>2
        <5>4. item'[id].num # 0 /\ item'[other].num # 0 /\ item'[id].num >= 0 /\ item'[other].num >= 0
          BY <3>10, <5>3
        <5> HIDE DEF fits
        <5> QED
          BY <5>3, <5>4
      <4> QED
        BY <4>1, <4>2
    <3>5. \A i \in S : i \in inMap' => item'[i].dead = FALSE
      <4> SUFFICES ASSUME NEW i \in S, i \in inMap' PROVE item'[i].dead = FALSE
        OBVIOUS
      <4>1. item'[i].num # 0
        BY <3>4
      <4>2. item[i].dead = FALSE /\ item'[i].dead = (item[i].dead \/ item'[i].num = 0)
        BY <3>3
      <4> QED
        BY <4>1, <4>2, Zenon
    <3>6. S \subseteq InBag \union Worn
      BY <1>7, <3>2
    <3>7. InCells(slot') \subseteq InCells(slot) \union S /\ inMap \ S \subseteq inMap' /\ inMap' \subseteq inMap
      BY <3>1, ShownAfter
    <3>8. Touches(S)
      BY <3>1
    <3> HIDE DEF S, fits
    <3>9. SavesWell(S)
      BY <2>1, <3>4, <3>5, <3>6, <3>7, <3>8 DEF SavesWell
    <3> QED
      BY <1>9, <3>9
  <2>4. CASE item[id].idx \in DOMAIN slot /\ SwapCells(id, to)
    <3> DEFINE S == {id, slot[to]} \ {0}
    <3>1. /\ Touches(S)
          /\ \A i \in S : Is(item'[i], item[i].tpl, item[i].num, item'[i].idx, item[i].equip, item[i].dead \/ item[i].num = 0)
          /\ DOMAIN slot' = DOMAIN slot /\ slot'[item[id].idx] = slot[to] /\ slot'[to] = slot[item[id].idx]
          /\ \A c \in DOMAIN slot \ {to, item[id].idx} : slot'[c] = slot[c]
          /\ inMap' = inMap
      BY <2>0, <2>1, <2>4, SwapDoes
    <3>2. InCells(slot') \subseteq InCells(slot)
      BY <2>4, <3>1, SwapShows
    <3>3. S \subseteq InBag \union Worn
      BY <1>7, <2>2
    <3> HIDE DEF S
    <3>4. \A i \in S : item'[i].num = item[i].num /\ item'[i].dead = (item[i].dead \/ item[i].num = 0)
      BY <3>1 DEF Is
    <3>5. \A i \in S : item'[i].dead = FALSE /\ item'[i].num > 0
      <4> SUFFICES ASSUME NEW i \in S PROVE item'[i].dead = FALSE /\ item'[i].num > 0
        OBVIOUS
      <4>1. item[i].num > 0 /\ item[i].num # 0 /\ item[i].dead = FALSE
        BY <1>8, <3>3
      <4>2. item'[i].dead = FALSE
        BY <3>4, <4>1, Zenon
      <4> QED
        BY <3>4, <4>1, <4>2
    <3>6. inMap \ S \subseteq inMap' /\ inMap' \subseteq inMap
      BY <3>1
    <3>7. SavesWell(S)
      BY <2>1, <3>1, <3>2, <3>3, <3>5, <3>6 DEF SavesWell, InBag, Worn
    <3> QED
      BY <1>9, <3>7
  <2> QED
    BY <2>0, <2>3, <2>4
<1>16. ASSUME SortItems PROVE Live' /\ Funds'
  <2>1. /\ UNCHANGED <<inMap, money, dbMoney>>
        /\ \/ Save(item, InCells(slot)) /\ slot' = slot
           \/ \E o \in Orders : \E h : Rounds(h, o) /\ ~h[Cardinality(Filled)].crashed /\ Sorts(h[Cardinality(Filled)])
    BY <1>16, SortItemsIs
  <2>2. CASE Save(item, InCells(slot)) /\ slot' = slot
    <3>1. /\ Touches(InCells(slot))
          /\ \A i \in InCells(slot) : item'[i].num = item[i].num /\ item'[i].dead = (item[i].dead \/ item[i].num = 0)
      BY <2>2, FlushAllDoes DEF Is
    <3>2. InCells(slot) \subseteq InBag
      BY ShownIs DEF InBag, InPlace, Placed
    <3>3. \A i \in InCells(slot) : item'[i].dead = FALSE /\ item'[i].num > 0
      <4> SUFFICES ASSUME NEW i \in InCells(slot) PROVE item'[i].dead = FALSE /\ item'[i].num > 0
        OBVIOUS
      <4>1. item[i].num > 0 /\ item[i].num # 0 /\ item[i].dead = FALSE
        BY <1>7, <1>8, <3>2
      <4>2. item'[i].dead = FALSE
        BY <3>1, <4>1, Zenon
      <4> QED
        BY <3>1, <4>1, <4>2
    <3> DEFINE S == InCells(slot)
    <3>4. SavesWell(S)
      <4>1. S \subseteq InBag \union Worn /\ Touches(S) /\ \A i \in S : item'[i].dead = FALSE /\ item'[i].num > 0
        BY <3>1, <3>2, <3>3
      <4>2. InCells(slot') \subseteq InCells(slot) \union S /\ inMap' = inMap /\ dbMoney' >= money'
        BY <1>6, <2>1, <2>2
      <4> HIDE DEF S
      <4> QED
        BY <4>1, <4>2 DEF SavesWell, InBag, Worn
    <3> HIDE DEF S
    <3> QED
      BY <1>9, <3>4
  <2>3. ASSUME NEW o \in Orders, NEW h, Rounds(h, o), ~h[Cardinality(Filled)].crashed, Sorts(h[Cardinality(Filled)])
        PROVE  Live' /\ Funds'
    <3>1. Live'
      BY <1>6, <2>1, <2>3, SortLive
    <3>2. ASSUME NEW t \in Templates PROVE SavedUnits(t)' >= Units(t)'
      <4>1. Units(t)' = Units(t)
        BY <2>1, <2>3, SortUnits DEF InPlace
      <4>2. SavedUnits(t)' >= SavedUnits(t)
        BY <1>6, <2>3, SortStores DEF InPlace
      <4>3. SavedUnits(t) >= Units(t)
        BY <1>6 DEF Funds
      <4>4. Units(t) \in Int /\ SavedUnits(t) \in Int /\ SavedUnits(t)' \in Int
        <5>1. n \in Nat /\ item \in [1..n -> ItemRecord] /\ row \in [1..n -> RowRecord] /\ row' \in [1..n -> RowRecord]
          BY <2>3, ItemsAre, SortDoes
        <5> HIDE DEF n
        <5>2. SumFunction(HasOf(row, item, inMap, t)) \in Int
          BY ONLY <5>1, HasIs
        <5>3. SumFunction(StoredOf(row, t)) \in Int /\ SumFunction(StoredOf(row', t)) \in Int
          BY ONLY <5>1, StoredIs
        <5> QED
          BY <5>2, <5>3, UnitsAre, SMTT(30)
      <4> QED
        BY <4>1, <4>2, <4>3, <4>4
    <3> QED
      BY <1>2, <1>6, <2>1, <3>1, <3>2 DEF Funds
  <2> QED
    BY <2>1, <2>2, <2>3
<1>17. ASSUME Tick PROVE Live' /\ Funds'
  <2>1. UNCHANGED <<item, inMap, slot, money, loaded, row, dbMoney>>
    BY <1>17 DEF Tick
  <2>2. Live'
    BY <1>6, <2>1 DEF Live, InBag, Worn, InCells
  <2>3. \A t \in Templates : SavedUnits(t)' = SavedUnits(t) /\ Units(t)' = Units(t)
    BY <2>1 DEF SavedUnits, Units, LoadedIds
  <2> QED
    BY <1>2, <1>6, <2>1, <2>2, <2>3 DEF Funds
<1> QED
  BY <1>1, <1>10, <1>11, <1>12, <1>13, <1>14, <1>15, <1>16, <1>17

-----------------------------------------------------------------------------
(* The purse.                                                              *)

\* The roles table never holds less money than a role in memory, and neither is
\* below zero, until something odd is bought.
Purse == (loaded => dbMoney >= money) /\ (~odd => dbMoney >= 0 /\ money >= 0)

\* Nobody pays more than there is, and a sale leaves nothing at least (doBuyItem,
\* addMoney, doStrengthItem).
LEMMA PurseStep ==
  ASSUME TypeOK, set \in Settings, Purse, Next
  PROVE  Purse'
<1>1. money \in Int /\ dbMoney \in Int
  BY DEF TypeOK
<1>2. /\ \/ \E t \in Templates, c \in Counts : BuyItem(t, c) \/ BuyCut(t, c)
         \/ \E id \in inMap :
              \/ SellItem(id) \/ SellCut(id) \/ AbandonItem(id)
              \/ EquipItem(id) \/ UnEquipItem(id)
              \/ \E to \in DOMAIN slot : MoveItem(id, to) \/ MoveCrash(id, to) \/ MoveCut(id, to)
              \/ \E n \in Counts : StrengthItem(id, n)
         \/ SortItems \/ SortCrash \/ SortCut \/ Tick \/ Leave \/ Load
  BY NextIs
<1>3. odd' = (odd \/ \E t \in Templates, c \in Counts : Odd(t, c) /\ (BuyItem(t, c) \/ BuyCut(t, c)))
  BY DEF Next
<1>4. ~odd' => ~odd
  BY <1>3, Zenon
<1>5. ASSUME NEW t \in Templates, NEW c \in Counts, BuyItem(t, c) \/ BuyCut(t, c)
      PROVE  Purse'
  <2>1. /\ money >= Cost(t, c) /\ dbMoney' = Change(t, c)
        /\ \/ money' = Change(t, c)
           \/ loaded' = FALSE /\ money' = 0
    BY <1>5 DEF BuyItem, BuyCut, CanBuy, Gone
  <2>2. /\ Change(t, c) \in Int /\ Cost(t, c) \in Int /\ IntMax \in Nat
        /\ money - Cost(t, c) <= IntMax => Change(t, c) = money - Cost(t, c)
    BY <2>1, ChangeIs, BagAssumption
  <2>3. ~odd' => ~Odd(t, c)
    BY <1>3, <1>5, Zenon
  <2>4. ~odd' => money - Cost(t, c) <= IntMax
    BY <1>1, <2>2, <2>3 DEF Odd
  <2> QED
    BY <1>1, <2>1, <2>2, <2>4 DEF Purse
<1>6. ASSUME NEW id \in inMap, SellItem(id) \/ SellCut(id)
      PROVE  Purse'
  <2>1. /\ dbMoney' = MoneyAfterSale(id)
        /\ \/ money' = MoneyAfterSale(id)
           \/ loaded' = FALSE /\ money' = 0
    BY <1>6 DEF SellItem, SellCut, Gone
  <2>2. MoneyAfterSale(id) \in Nat
    BY SaleIs
  <2> QED
    BY <2>1, <2>2 DEF Purse
<1>7. ASSUME dbMoney' = dbMoney,
             \/ loaded /\ money' = money
             \/ loaded' = FALSE /\ money' = 0
             \/ money' = dbMoney
      PROVE  Purse'
  BY <1>1, <1>4, <1>7 DEF Purse
<1>8. ASSUME NEW id \in inMap, NEW n \in Counts, StrengthItem(id, n)
      PROVE  Purse'
  <2>1. money' \in Int /\ money' <= money /\ money' >= 0 /\ dbMoney' = dbMoney /\ loaded
    BY <1>8, StrengthDoes
  <2> QED
    BY <1>1, <1>4, <2>1 DEF Purse
<1>9. ASSUME NEW id \in inMap, AbandonItem(id) \/ EquipItem(id) \/ UnEquipItem(id)
      PROVE  Purse'
  <2>1. dbMoney' = dbMoney /\ loaded /\ money' = money
    BY <1>9 DEF AbandonItem, EquipItem, UnEquipItem
  <2> QED
    BY <1>7, <2>1
<1>10. ASSUME NEW id \in inMap, NEW to \in DOMAIN slot, MoveItem(id, to) \/ MoveCrash(id, to) \/ MoveCut(id, to)
       PROVE  Purse'
  <2>1. CASE MoveItem(id, to)
    <3>1. dbMoney' = dbMoney /\ loaded /\ money' = money
      BY <2>1, Zenon DEF MoveItem
    <3> QED
      BY <1>7, <3>1
  <2>2. CASE MoveCrash(id, to) \/ MoveCut(id, to)
    <3>1. dbMoney' = dbMoney /\ Gone
      BY <2>2 DEF MoveCrash, MoveCut, db
    <3>2. loaded' = FALSE /\ money' = 0
      BY <3>1 DEF Gone
    <3> QED
      BY <1>7, <3>1, <3>2
  <2> QED
    BY <1>10, <2>1, <2>2
<1>11. ASSUME SortItems \/ SortCrash \/ SortCut \/ Leave \/ Load
       PROVE  Purse'
  <2>1. CASE SortItems
    <3>1. dbMoney' = dbMoney /\ loaded /\ money' = money
      BY <2>1, Zenon DEF SortItems
    <3> QED
      BY <1>7, <3>1
  <2>2. CASE SortCrash \/ SortCut \/ Leave
    <3>1. dbMoney' = dbMoney /\ Gone
      BY <2>2, Zenon DEF SortCrash, SortCut, Leave, db
    <3>2. loaded' = FALSE /\ money' = 0
      BY <3>1 DEF Gone
    <3> QED
      BY <1>7, <3>1, <3>2
  <2>3. CASE Load
    <3>1. dbMoney' = dbMoney /\ money' = dbMoney
      BY <2>3 DEF Load
    <3> QED
      BY <1>7, <3>1
  <2> QED
    BY <1>11, <2>1, <2>2, <2>3
<1>12. ASSUME Tick PROVE Purse'
  <2>1. dbMoney' = dbMoney /\ money' = money /\ loaded' = loaded
    BY <1>12 DEF Tick
  <2> QED
    BY <1>4, <2>1 DEF Purse
<1> QED
  BY <1>2, <1>5, <1>6, <1>8, <1>9, <1>10, <1>11, <1>12

\* So the purse keeps up at every step.
LEMMA PurseHolds == Spec => []Purse
<1>1. Init => Purse
  <2> SUFFICES ASSUME Init PROVE Purse
    OBVIOUS
  <2>1. set \in Settings /\ dbMoney = StartMoney /\ money = StartMoney
    BY DEF Init
  <2>2. StartMoney \in Nat
    BY <2>1, SettingFacts
  <2> QED
    BY <2>1, <2>2 DEF Purse
<1>2. set \in Settings /\ TypeOK /\ Purse /\ [Next]_vars => Purse'
  <2>1. ASSUME set \in Settings, TypeOK, Purse, Next PROVE Purse'
    BY <2>1, PurseStep
  <2>2. ASSUME Purse, UNCHANGED vars PROVE Purse'
    BY <2>2 DEF vars, Purse
  <2> QED
    BY <2>1, <2>2
<1> QED
  BY <1>1, <1>2, TypesHold, PTL DEF Spec

-----------------------------------------------------------------------------
(* The invariant.                                                          *)

\* What holds at every step, of any client and of one on a first visit.
BagInv ==
  /\ set \in Settings /\ TypeOK /\ CellsSaved /\ Chain
  /\ FirstVisit => InPlace /\ Solvent

\* It holds of a role that is first loaded.
LEMMA BagInit ==
  ASSUME Init
  PROVE  BagInv
<1>1. set \in Settings /\ TypeOK
  BY TypeInit
<1>2. item = <<>> /\ row = <<>> /\ inMap = {} /\ slot = [i \in 0..Cells-1 |-> 0] /\ money = StartMoney /\ dbMoney = StartMoney
  BY DEF Init
<1>3. Cells \in Nat /\ Cells > 1 /\ StartMoney \in Nat
  BY <1>1, SettingFacts
<1> HIDE DEF Cells, StartMoney
<1>4. slot[0] = 0 /\ \A c \in DOMAIN slot : slot[c] = 0
  BY <1>2, <1>3
<1>5. CellsSaved
  BY <1>4, ShownIs DEF CellsSaved
<1>6. Chain
  BY <1>2 DEF Chain
<1>7. InPlace
  BY <1>2, <1>4 DEF InPlace, Placed, WornOut, Covered
<1>8. Live
  BY <1>2 DEF Live, InBag, Worn
<1>9. ASSUME NEW t \in Templates PROVE SavedUnits(t) >= Units(t)
  <2>1. HasOf(row, item, inMap, t) = StoredOf(row, t)
    BY <1>2 DEF HasOf, StoredOf
  <2>2. 0 \in Nat /\ row \in [1..0 -> RowRecord]
    BY <1>2
  <2>3. SumFunction(StoredOf(row, t)) \in Int
    BY ONLY <2>2, StoredIs
  <2> QED
    BY <2>1, <2>3, UnitsAre
<1> QED
  BY <1>1, <1>2, <1>3, <1>5, <1>6, <1>7, <1>8, <1>9 DEF BagInv, Solvent, Funds

\* And every step keeps it.
LEMMA BagHolds == Spec => []BagInv
<1>1. Init => BagInv
  BY BagInit
<1>2. BagInv /\ [Next]_vars => BagInv'
  <2> SUFFICES ASSUME BagInv, [Next]_vars
               PROVE  BagInv'
    OBVIOUS
  <2>1. CASE Next
    <3>1. set' = set
      BY <2>1 DEF Next
    <3>2. TypeOK' /\ CellsSaved' /\ Chain'
      BY <2>1, TypeStep, SavedStep DEF BagInv
    <3>3. FirstVisit' = FirstVisit
      BY <3>1, SettingStays
    <3>4. FirstVisit => InPlace' /\ Solvent'
      BY <2>1, PlaceStep, SolventStep DEF BagInv
    <3> QED
      BY <3>1, <3>2, <3>3, <3>4 DEF BagInv
  <2>2. CASE UNCHANGED vars
    <3>1. UNCHANGED <<set, odd, item, inMap, slot, recent, money, loaded, row, dbMoney>>
      BY <2>2 DEF vars
    <3>2. /\ ItemRecord' = ItemRecord /\ RowRecord' = RowRecord /\ Cells' = Cells /\ StackNum' = StackNum
          /\ FirstVisit' = FirstVisit /\ Templates' = Templates
      BY <3>1, SettingStays
    <3>3. TypeOK'
      BY <3>1, <3>2 DEF BagInv, TypeOK
    <3>4. CellsSaved' /\ Chain'
      BY <3>1, <3>2 DEF BagInv, CellsSaved, Chain, InCells
    <3>5. FirstVisit => InPlace'
      BY <3>1, <3>2 DEF BagInv, InPlace, Placed, WornOut, Covered
    <3>6. Live => Live'
      BY <3>1 DEF Live, InBag, Worn, InCells
    <3>7. \A t \in Templates : SavedUnits(t)' = SavedUnits(t) /\ Units(t)' = Units(t)
      BY <3>1 DEF SavedUnits, Units, LoadedIds
    <3>8. FirstVisit => Solvent'
      BY <3>1, <3>2, <3>6, <3>7 DEF BagInv, Solvent, Funds
    <3> QED
      BY <3>1, <3>2, <3>3, <3>4, <3>5, <3>8 DEF BagInv
  <2> QED
    BY <2>1, <2>2
<1> QED
  BY <1>1, <1>2, PTL DEF Spec

\* What a cell of the bag shows is what the table holds, and a logout or a crash
\* loses no money nor, in a first visit and until something is bought that makes
\* no stack, goods (moveItem, doSortItems, doUnEquipItem, doStrengthItem).
THEOREM TableHolds == Spec => []TableKeepsUp
<1>1. BagInv /\ Purse => TableKeepsUp
  BY DEF BagInv, CellsSaved, Solvent, Funds, Purse, TableKeepsUp
<1> QED
  BY <1>1, BagHolds, PurseHolds, PTL

\* The three records of where an item is agree in a first visit.
THEOREM CellsHold == Spec => []CellsAgree
<1>1. BagInv => CellsAgree
  BY DEF BagInv, InPlace, Placed, Covered, CellsAgree
<1> QED
  BY <1>1, BagHolds, PTL

-----------------------------------------------------------------------------
(* Items in two cells.                                                     *)

\* An item that leaves its cell, and one that was in none and is put in a free
\* one, leave every other in one cell.
LEMMA OneCellStays ==
  ASSUME OneCellEach, NEW x
  PROVE  /\ Emptied(x) => OneCellEach'
         /\ Filling(x) /\ (\A c \in DOMAIN slot : slot[c] # x) => OneCellEach'
<1>1. ASSUME Emptied(x) PROVE OneCellEach'
  <2> SUFFICES ASSUME NEW i \in DOMAIN slot, NEW j \in DOMAIN slot, slot'[i] = slot'[j], slot'[i] # 0
               PROVE  i = j
    BY <1>1 DEF Emptied, OneCellEach
  <2>1. slot'[i] = slot[i] /\ slot'[j] = slot[j]
    BY <1>1 DEF Emptied
  <2> QED
    BY <2>1 DEF OneCellEach
<1>2. ASSUME Filling(x), \A c \in DOMAIN slot : slot[c] # x PROVE OneCellEach'
  <2> DEFINE f == FreeCell(slot)
  <2>1. DOMAIN slot' = DOMAIN slot \union {f} /\ slot'[f] = x /\ \A i \in DOMAIN slot \ {f} : slot'[i] = slot[i]
    BY <1>2 DEF Filling
  <2> HIDE DEF f
  <2> SUFFICES ASSUME NEW i \in DOMAIN slot', NEW j \in DOMAIN slot', slot'[i] = slot'[j], slot'[i] # 0
               PROVE  i = j
    BY DEF OneCellEach
  <2>2. CASE i = f \/ j = f
    BY <1>2, <2>1, <2>2
  <2>3. CASE i # f /\ j # f
    BY <2>1, <2>3 DEF OneCellEach
  <2> QED
    BY <2>2, <2>3
<1> QED
  BY <1>1, <1>2

\* Two cells that swap what they hold.
LEMMA OneCellSwaps ==
  ASSUME OneCellEach, NEW a \in DOMAIN slot, NEW b \in DOMAIN slot, DOMAIN slot' = DOMAIN slot,
         slot'[a] = slot[b], slot'[b] = slot[a], \A c \in DOMAIN slot \ {b, a} : slot'[c] = slot[c]
  PROVE  OneCellEach'
<1> DEFINE o(c) == IF c = a THEN b ELSE IF c = b THEN a ELSE c
<1>1. \A c \in DOMAIN slot : slot'[c] = slot[o(c)] /\ o(c) \in DOMAIN slot /\ o(o(c)) = c
  OBVIOUS
<1> HIDE DEF o
<1> SUFFICES ASSUME NEW i \in DOMAIN slot, NEW j \in DOMAIN slot, slot'[i] = slot'[j], slot'[i] # 0
             PROVE  i = j
  BY DEF OneCellEach
<1>2. o(i) = o(j)
  BY <1>1 DEF OneCellEach
<1>3. o(o(i)) = o(o(j))
  BY <1>2
<1> QED
  BY <1>1, <1>3

\* A sort puts each item in one cell.
LEMMA OneCellSorts ==
  ASSUME TypeOK, set \in Settings, loaded, OneCellEach, NEW o \in Orders, NEW h, Rounds(h, o),
         Sorts(h[Cardinality(Filled)])
  PROVE  OneCellEach'
<1> DEFINE k == Cardinality(Filled)
           m == h[k]
<1>1. k \in 0..k
  <2>1. k \in Nat
    BY OrderIs
  <2> QED
    BY <2>1
<1>2. Single(m, o, k)
  BY <1>1, RoundsSingle
<1>3. \A p, q \in DOMAIN m.out : m.out[p] = m.out[q] => p = q
  BY <1>2 DEF Single
<1>4. DOMAIN slot' = 0..Cells-1
  BY SortDoes
<1>5. \A c \in 0..Cells-1 : slot'[c] = IF c \in DOMAIN m.out THEN m.out[c] ELSE 0
  BY SortDoes
<1> HIDE DEF m
<1> SUFFICES ASSUME NEW i \in 0..Cells-1, NEW j \in 0..Cells-1, slot'[i] = slot'[j], slot'[i] # 0
             PROVE  i = j
  BY <1>4 DEF OneCellEach
<1>6. i \in DOMAIN m.out /\ j \in DOMAIN m.out
  BY <1>5
<1> QED
  BY <1>3, <1>5, <1>6

\* No other step puts an item in two cells.
LEMMA DoubleStep ==
  ASSUME TypeOK, set \in Settings, OneCellEach, Next, ~\E id \in InCells(slot) : UnEquipItem(id)
  PROVE  OneCellEach'
<1>1. /\ set' = set /\ odd' \in BOOLEAN
      /\ \/ \E t \in Templates, c \in Counts : BuyItem(t, c) \/ BuyCut(t, c)
         \/ \E id \in inMap :
              \/ SellItem(id) \/ SellCut(id) \/ AbandonItem(id)
              \/ EquipItem(id) \/ UnEquipItem(id)
              \/ \E to \in DOMAIN slot : MoveItem(id, to) \/ MoveCrash(id, to) \/ MoveCut(id, to)
              \/ \E k \in Counts : StrengthItem(id, k)
         \/ SortItems \/ SortCrash \/ SortCut \/ Tick \/ Leave \/ Load
  BY NextIs
<1>2. ASSUME Gone PROVE OneCellEach'
  BY <1>2 DEF Gone, OneCellEach
<1>3. ASSUME slot' = slot PROVE OneCellEach'
  BY <1>3 DEF OneCellEach
<1>4. ASSUME NEW t \in Templates, NEW c \in Counts, BuyItem(t, c) PROVE OneCellEach'
  <2> DEFINE n == Len(item)
  <2>1. Filling(n + 1)
    BY <1>4, BuyDoes
  <2>2. n \in Nat /\ \A k \in DOMAIN slot : slot[k] \in {0} \union 1..n
    BY CellsBefore, ItemsAre
  <2> HIDE DEF n
  <2>3. \A k \in DOMAIN slot : slot[k] # n + 1
    BY <2>2
  <2> QED
    BY <2>1, <2>3, OneCellStays
<1>5. ASSUME NEW id \in inMap, SellItem(id) \/ AbandonItem(id) PROVE OneCellEach'
  <2>1. loaded /\ Drop(id)
    BY <1>5 DEF SellItem, AbandonItem
  <2>2. Emptied(item[id].idx)
    BY <2>1, DropDoes
  <2> QED
    BY <2>2, OneCellStays
<1>6. ASSUME NEW id \in inMap, EquipItem(id) PROVE OneCellEach'
  <2>1. Emptied(item[id].idx)
    BY <1>6, EquipDoes
  <2> QED
    BY <2>1, OneCellStays
<1>7. ASSUME NEW id \in inMap, UnEquipItem(id) PROVE OneCellEach'
  <2>3. id \in 1..Len(item)
    BY HeldIs
  <2>4. Filling(id)
    BY <1>7, UnEquipDoes
  <2>1. Filling(id) /\ id # 0
    BY <2>3, <2>4
  <2>2. \A c \in DOMAIN slot : slot[c] # id
    BY <1>7, <2>1, ShownIs
  <2> QED
    BY <2>1, <2>2, OneCellStays
<1>8. ASSUME NEW id \in inMap, NEW to \in DOMAIN slot, MoveItem(id, to) PROVE OneCellEach'
  <2>1. /\ loaded /\ to # 0
        /\ \/ Stackable(id, to) /\ StackCells(id, to)
           \/ item[id].idx \in DOMAIN slot /\ SwapCells(id, to)
    BY <1>8 DEF MoveItem
  <2>2. CASE Stackable(id, to) /\ StackCells(id, to)
    <3>1. slot' = slot \/ Emptied(item[id].idx)
      BY <2>1, <2>2, StackDoes
    <3> QED
      BY <1>3, <3>1, OneCellStays
  <2>3. CASE item[id].idx \in DOMAIN slot /\ SwapCells(id, to)
    <3>1. /\ DOMAIN slot' = DOMAIN slot
          /\ slot'[item[id].idx] = slot[to] /\ slot'[to] = slot[item[id].idx]
          /\ \A c \in DOMAIN slot \ {to, item[id].idx} : slot'[c] = slot[c]
      BY <2>1, <2>3, SwapDoes
    <3> QED
      BY <2>3, <3>1, OneCellSwaps
  <2> QED
    BY <2>1, <2>2, <2>3
<1>9. ASSUME NEW id \in inMap, NEW k \in Counts, StrengthItem(id, k) PROVE OneCellEach'
  BY <1>3, <1>9 DEF StrengthItem
<1>10. ASSUME SortItems PROVE OneCellEach'
  <2>1. /\ loaded
        /\ \/ slot' = slot
           \/ \E o \in Orders : \E h : Rounds(h, o) /\ Sorts(h[Cardinality(Filled)])
    BY <1>10, SortItemsIs
  <2>2. ASSUME NEW o \in Orders, NEW h, Rounds(h, o), Sorts(h[Cardinality(Filled)]) PROVE OneCellEach'
    BY <2>1, <2>2, OneCellSorts
  <2> QED
    BY <1>3, <2>1, <2>2
<1>11. ASSUME Tick PROVE OneCellEach'
  BY <1>3, <1>11 DEF Tick
<1>12. ASSUME Load PROVE OneCellEach'
  <2>1. \A c \in DOMAIN slot' : slot'[c] # 0 => row[slot'[c]].idx = c
    BY <1>1, <1>12, LoadDoes
  <2> QED
    BY <2>1 DEF OneCellEach
<1> QED
  BY <1>1, <1>2, <1>4, <1>5, <1>6, <1>7, <1>8, <1>9, <1>10, <1>11, <1>12
     DEF SellCut, BuyCut, MoveCrash, MoveCut, SortCrash, SortCut, Leave

\* Only taking off an item that is in the bag puts an item in two cells
\* (doUnEquipItem, which does not ask whether the item was equipped).
THEOREM OnlyUnEquipDoubles == Spec => DoubledByUnEquip
<1>1. TypeOK /\ set \in Settings /\ [Next]_vars =>
        [OneCellEach /\ ~OneCellEach' => \E id \in InCells(slot) : UnEquipItem(id)]_vars
  <2> SUFFICES ASSUME TypeOK, set \in Settings, Next, OneCellEach, ~\E id \in InCells(slot) : UnEquipItem(id)
               PROVE  OneCellEach'
    OBVIOUS
  <2> QED
    BY DoubleStep
<1> QED
  BY <1>1, TypesHold, PTL DEF Spec, DoubledByUnEquip

-----------------------------------------------------------------------------
(* The units of a template.                                                *)

\* A request that leaves every number leaves the units.
LEMMA TouchUnits ==
  ASSUME TypeOK, loaded, NEW S, Touches(S), inMap' = inMap, \A i \in S : item'[i].num = item[i].num, NEW t
  PROVE  Units(t)' = Units(t)
<1> DEFINE n == Len(item)
<1>1. n \in Nat /\ DOMAIN row = 1..n /\ row' \in [1..n -> RowRecord]
  BY ItemsAre DEF Touches
<1>2. \A i \in 1..n : item'[i].num = item[i].num /\ row'[i].tpl = row[i].tpl
  BY DEF Touches
<1> HIDE DEF n
<1>3. Units(t)' = Share(inMap, item, t)
  BY <1>1, <1>2, SameUnits
<1> QED
  BY <1>3, SMTT(30) DEF Units, Share, Part

\* So does a move onto the stack of another cell.
LEMMA StackUnits ==
  ASSUME TypeOK, set \in Settings, loaded, Chain, CellsInMap, NEW id \in inMap, NEW to \in DOMAIN slot,
         slot[to] # id, Stackable(id, to), StackCells(id, to), NEW t
  PROVE  Units(t)' = Units(t)
<1> DEFINE n     == Len(item)
           other == slot[to]
           stack == StackNum[item[id].tpl]
           fits  == item[other].num + item[id].num <= stack
<1>1. /\ other \in 1..n /\ stack > 0 /\ item[other].tpl = item[id].tpl /\ Touches({id, other})
      /\ IF fits THEN item'[other].num = item[other].num + item[id].num /\ item'[id].num = 0
         ELSE item'[other].num = stack /\ item'[id].num = (item[other].num + item[id].num) - stack
      /\ fits => inMap' = inMap \ {id}
      /\ ~fits => inMap' = inMap
  BY StackDoes
<1>2. /\ n \in Nat /\ DOMAIN row = 1..n /\ DOMAIN item = 1..n /\ item \in [1..n -> ItemRecord]
      /\ \A i \in 1..n : item[i].tpl \in Templates /\ item[i].num \in Int
  <2>1. n \in Nat /\ n = Len(row) /\ DOMAIN row = 1..Len(row)
    BY ItemsAre
  <2> QED
    BY <2>1, ItemsAre
<1>3. /\ item' \in [1..n -> ItemRecord] /\ DOMAIN row' = 1..n
      /\ \A i \in 1..n : row'[i].tpl = row[i].tpl
      /\ \A i \in 1..n \ {id, other} : item'[i] = item[i]
  BY <1>1 DEF Touches
<1>4. id \in 1..n /\ other \in inMap /\ other # id
  BY HeldIs DEF CellsInMap, Stackable
<1>5. stack \in Nat /\ stack # 0
  BY <1>1, <1>2, <1>4, SettingFacts
<1>6. row[id].tpl = row[other].tpl
  BY <1>1, <1>2, <1>4, <1>5 DEF Chain
<1>7. item'[id].num + item'[other].num = item[id].num + item[other].num
  BY <1>1, <1>2, <1>4, <1>5
<1>8. fits => item'[id].num = 0
  BY <1>1
<1>14. IF fits THEN inMap' = inMap \ {id} /\ item'[id].num = 0 ELSE inMap' = inMap
  BY <1>1
<1> HIDE DEF fits, stack
<1>9. \A i \in 1..n : i \in inMap => i \in inMap' \/ item'[i].num = 0
  BY <1>14
<1>10. \A i \in 1..n : i \in inMap' => i \in inMap
  BY <1>14
<1> HIDE DEF n, other
<1>11. HasOf(row', item', inMap', t) = Part(inMap, item', t)
  <2>1. HasOf(row', item', inMap', t) = [i \in 1..n |-> IF i \in inMap' /\ row'[i].tpl = t THEN item'[i].num ELSE 0]
    BY <1>3 DEF HasOf
  <2>2. Part(inMap, item', t) = [i \in 1..n |-> IF i \in inMap /\ row[i].tpl = t THEN item'[i].num ELSE 0]
    BY <1>2 DEF Part
  <2>3. \A i \in 1..n : (IF i \in inMap' /\ row'[i].tpl = t THEN item'[i].num ELSE 0)
                        = IF i \in inMap /\ row[i].tpl = t THEN item'[i].num ELSE 0
    BY <1>3, <1>9, <1>10
  <2> QED
    BY <2>1, <2>2, <2>3
<1>12. \A i \in 1..n \ {id, other} : item[i].num = item'[i].num
  BY <1>3
<1>13. Moved(n, item, item', inMap, id, other)
  BY <1>1, <1>2, <1>3, <1>4, <1>6, <1>7, <1>12 DEF Moved
<1>15. Share(inMap, item, t) = Share(inMap, item', t)
  BY <1>13, ShareMoves
<1>16. Units(t) = Share(inMap, item, t)
  BY DEF Units, Share, Part
<1>17. Units(t)' = Share(inMap, item', t)
  BY <1>11, UnitsAre DEF Share
<1> QED
  BY <1>15, <1>16, <1>17

\* No step of a first visit changes the units of a template but a purchase, a sale,
\* an item thrown away, or a move of a stack onto its own cell.
LEMMA UnitsStep ==
  ASSUME BagInv, FirstVisit, loaded, loaded', Next, NEW b, Units(b)' # Units(b)
  PROVE  \/ \E t \in Templates, c \in Counts : BuyItem(t, c)
         \/ \E id \in InBag :
              \/ SellItem(id) \/ AbandonItem(id)
              \/ \E to \in DOMAIN slot \ {0} : slot[to] = id /\ MoveItem(id, to)
<1>1. set \in Settings /\ TypeOK /\ Chain /\ InPlace /\ OneCellEach /\ CellsInMap
  BY PlacedIs DEF BagInv, InPlace
<1>2. \A id \in InBag : id \in inMap
  BY DEF InBag
<1>3. \/ \E t \in Templates, c \in Counts : BuyItem(t, c)
      \/ \E id \in InBag : SellItem(id) \/ AbandonItem(id)
      \/ \E id \in InBag : EquipItem(id)
      \/ \E id \in InBag : \E to \in DOMAIN slot : MoveItem(id, to)
      \/ \E id \in InBag \union Worn, n \in Counts : StrengthItem(id, n)
      \/ \E id \in Worn : UnEquipItem(id)
      \/ SortItems \/ Tick
      \/ Gone
  BY VisitIs
<1>4. ASSUME NEW id \in InBag, EquipItem(id) PROVE FALSE
  <2>1. Touches({id}) /\ inMap' = inMap /\ item'[id].num = item[id].num
    BY <1>1, <1>2, <1>4, EquipDoes DEF Is
  <2> QED
    BY <1>1, <2>1, TouchUnits
<1>5. ASSUME NEW id \in InBag \union Worn, NEW c \in Counts, StrengthItem(id, c) PROVE FALSE
  <2>0. id \in inMap
    BY <1>2 DEF Worn
  <2>1. Touches({id}) /\ inMap' = inMap /\ item'[id].num = item[id].num
    BY <1>1, <1>5, <2>0, StrengthDoes DEF Is
  <2> QED
    BY <1>1, <2>1, TouchUnits
<1>6. ASSUME NEW id \in Worn, UnEquipItem(id) PROVE FALSE
  <2>0. id \in inMap
    BY DEF Worn
  <2>1. Touches({id}) /\ inMap' = inMap /\ item'[id].num = item[id].num
    BY <1>1, <1>6, <2>0, UnEquipDoes DEF Is
  <2> QED
    BY <1>1, <2>1, TouchUnits
<1>7. ASSUME NEW id \in InBag, NEW to \in DOMAIN slot, MoveItem(id, to) PROVE to # 0 /\ slot[to] = id
  <2>1. /\ to # 0 /\ id \in inMap
        /\ \/ Stackable(id, to) /\ StackCells(id, to)
           \/ item[id].idx \in DOMAIN slot /\ SwapCells(id, to)
    BY <1>2, <1>7 DEF MoveItem
  <2>2. CASE Stackable(id, to) /\ StackCells(id, to)
    BY <1>1, <2>1, <2>2, StackUnits
  <2>3. CASE item[id].idx \in DOMAIN slot /\ SwapCells(id, to)
    <3> DEFINE S == {id, slot[to]} \ {0}
    <3>1. /\ Touches(S) /\ inMap' = inMap
          /\ \A i \in S : Is(item'[i], item[i].tpl, item[i].num, item'[i].idx, item[i].equip, item[i].dead \/ item[i].num = 0)
      BY <1>1, <2>1, <2>3, SwapDoes
    <3> HIDE DEF S
    <3>2. \A i \in S : item'[i].num = item[i].num
      BY <3>1 DEF Is
    <3> QED
      BY <1>1, <3>1, <3>2, TouchUnits
  <2> QED
    BY <2>1, <2>2, <2>3
<1>8. ASSUME SortItems PROVE FALSE
  <2>1. /\ inMap' = inMap
        /\ \/ Save(item, InCells(slot)) /\ slot' = slot
           \/ \E o \in Orders : \E h : Rounds(h, o) /\ Sorts(h[Cardinality(Filled)])
    BY <1>1, <1>8, SortItemsIs
  <2>2. CASE Save(item, InCells(slot)) /\ slot' = slot
    <3>1. /\ Touches(InCells(slot)) /\ \A i \in InCells(slot) : item'[i].num = item[i].num
      BY <1>1, <2>2, FlushAllDoes DEF Is
    <3> QED
      BY <1>1, <2>1, <3>1, TouchUnits
  <2>3. ASSUME NEW o \in Orders, NEW h, Rounds(h, o), Sorts(h[Cardinality(Filled)]) PROVE FALSE
    BY <1>1, <2>1, <2>3, SortUnits DEF InPlace
  <2> QED
    BY <2>1, <2>2, <2>3
<1>9. ASSUME Tick PROVE FALSE
  BY <1>9 DEF Tick, Units
<1>10. ASSUME Gone PROVE FALSE
  BY <1>10 DEF Gone
<1> QED
  BY <1>3, <1>4, <1>5, <1>6, <1>7, <1>8, <1>9, <1>10

\* A first visit keeps the goods of a role but for those steps (moveItem, sortItems).
THEOREM GoodsKept == Spec => GoodsConserved
<1>1. BagInv /\ [Next]_vars =>
        [FirstVisit /\ loaded /\ loaded' /\ (\E t \in Templates : Units(t)' # Units(t)) =>
           \/ \E t \in Templates, c \in Counts : BuyItem(t, c)
           \/ \E id \in InBag :
                \/ SellItem(id) \/ AbandonItem(id)
                \/ \E to \in DOMAIN slot \ {0} : slot[to] = id /\ MoveItem(id, to)]_vars
  BY UnitsStep
<1> QED
  BY <1>1, BagHolds, PTL DEF Spec, GoodsConserved


-----------------------------------------------------------------------------
(* The wealth in the tables.                                               *)

\* How many pieces a stack of n has to sell.
Pieces(n) == Max({0, n})

\* A stack that is owed (a negative count) has nothing to sell: its pieces are its
\* number, or none.
LEMMA PiecesAre ==
  ASSUME NEW n \in Int
  PROVE  Pieces(n) \in Nat /\ Pieces(n) = IF 0 <= n THEN n ELSE 0
<1>1. 0 \in Int /\ Max({0, n}) = IF 0 <= n THEN n ELSE 0
  BY MaxOfTwo
<1> QED
  BY <1>1 DEF Pieces

\* What each row is worth at the prices p.
WorthOf(r, p) == [i \in DOMAIN r |-> IF i \in {j \in DOMAIN r : ~r[j].dead} THEN p[r[i].tpl] * Pieces(r[i].num) ELSE 0]

\* f is what each of the n rows r is worth.
Worths(f, n, r, p) ==
  /\ f \in [1..n -> Int] /\ SumFunction(f) \in Int
  /\ \A i \in 1..n : /\ r[i].dead = TRUE => f[i] = 0
                     /\ r[i].dead = FALSE => f[i] = p[r[i].tpl] * Pieces(r[i].num)

\* The worths are numbers, and so is their sum.
LEMMA WorthIs ==
  ASSUME NEW n \in Nat, NEW r \in [1..n -> RowRecord], NEW p \in [Templates -> Nat]
  PROVE  Worths(WorthOf(r, p), n, r, p)
<1>1. ASSUME NEW i \in 1..n
      PROVE  r[i].num \in Int /\ r[i].dead \in BOOLEAN /\ p[r[i].tpl] \in Nat /\ p[r[i].tpl] * Pieces(r[i].num) \in Int
  <2>1. r[i].num \in Int /\ r[i].dead \in BOOLEAN /\ r[i].tpl \in Templates
    BY DEF RowRecord
  <2>2. p[r[i].tpl] \in Nat /\ Pieces(r[i].num) \in Nat
    BY <2>1, PiecesAre
  <2> QED
    BY <2>1, <2>2
<1>2. IsFiniteSet(1..n) /\ DOMAIN r = 1..n
  BY FS_Interval
<1>3. WorthOf(r, p) = [i \in 1..n |-> IF r[i].dead THEN 0 ELSE p[r[i].tpl] * Pieces(r[i].num)]
  BY <1>2 DEF WorthOf
<1>4. WorthOf(r, p) \in [1..n -> Int]
  BY <1>1, <1>3
<1>5. \A i \in 1..n : /\ r[i].dead = TRUE => WorthOf(r, p)[i] = 0
                      /\ r[i].dead = FALSE => WorthOf(r, p)[i] = p[r[i].tpl] * Pieces(r[i].num)
  BY <1>3
<1> QED
  BY <1>2, <1>4, <1>5, SumOfIntegers DEF Worths

\* More pieces cost more.
LEMMA ProductGrows ==
  ASSUME NEW p \in Nat, NEW a \in Int, NEW b \in Int, a <= b
  PROVE  p * a <= p * b
<1> DEFINE d == b - a
<1>1. d \in Nat /\ b = a + d
  OBVIOUS
<1> HIDE DEF d
<1>2. p * d \in Nat /\ p * a \in Int
  BY <1>1
<1>3. p * (a + d) = p * a + p * d
  BY <1>1
<1> QED
  BY <1>1, <1>2, <1>3

\* Rows that hold less than they held: what is deleted held something.
Lessens(n, r, q) ==
  /\ n \in Nat /\ r \in [1..n -> RowRecord] /\ q \in [1..n -> RowRecord]
  /\ \A i \in 1..n : /\ q[i].tpl = r[i].tpl
                     /\ q[i].dead = FALSE => r[i].dead = FALSE /\ q[i].num <= r[i].num
                     /\ q[i].dead = TRUE => r[i].dead = TRUE \/ r[i].num >= 0

\* They are worth less.
LEMMA LessWorth ==
  ASSUME NEW n, NEW r, NEW q, Lessens(n, r, q), NEW p \in [Templates -> Nat]
  PROVE  SumFunction(WorthOf(q, p)) <= SumFunction(WorthOf(r, p))
<1>1. n \in Nat /\ r \in [1..n -> RowRecord] /\ q \in [1..n -> RowRecord] /\ IsFiniteSet(1..n)
  BY FS_Interval DEF Lessens
<1> DEFINE f == WorthOf(r, p)
           g == WorthOf(q, p)
<1>2. /\ f \in [1..n -> Int]
      /\ \A i \in 1..n : (r[i].dead = TRUE => f[i] = 0) /\ (r[i].dead = FALSE => f[i] = p[r[i].tpl] * Pieces(r[i].num))
  BY <1>1, WorthIs DEF Worths
<1>3. /\ g \in [1..n -> Int]
      /\ \A i \in 1..n : (q[i].dead = TRUE => g[i] = 0) /\ (q[i].dead = FALSE => g[i] = p[q[i].tpl] * Pieces(q[i].num))
  BY <1>1, WorthIs DEF Worths
<1> HIDE DEF f, g
<1>4. ASSUME NEW i \in 1..n PROVE g[i] <= f[i]
  <2> DEFINE w == p[r[i].tpl]
             a == Pieces(q[i].num)
             b == Pieces(r[i].num)
  <2>0. /\ r[i].tpl \in Templates /\ r[i].num \in Int /\ q[i].num \in Int
        /\ r[i].dead \in BOOLEAN /\ q[i].dead \in BOOLEAN /\ q[i].tpl = r[i].tpl
    BY <1>1 DEF RowRecord, Lessens
  <2>1. /\ r[i].tpl \in Templates /\ b \in Int /\ a \in Int /\ b >= 0
        /\ r[i].dead \in BOOLEAN /\ q[i].dead \in BOOLEAN /\ q[i].tpl = r[i].tpl
    BY <2>0, PiecesAre
  <2>2. w \in Nat
    BY <2>1
  <2>a. q[i].num <= r[i].num => a <= b
    BY <2>0, PiecesAre
  <2>3. /\ q[i].dead = FALSE => r[i].dead = FALSE /\ a <= b
        /\ q[i].dead = TRUE => r[i].dead = TRUE \/ b >= 0
    BY <2>1, <2>a DEF Lessens
  <2>4. /\ r[i].dead = TRUE => f[i] = 0
        /\ r[i].dead = FALSE => f[i] = w * b
        /\ q[i].dead = TRUE => g[i] = 0
        /\ q[i].dead = FALSE => g[i] = w * a
    BY <1>2, <1>3, <2>1
  <2> HIDE DEF w, a, b
  <2>5. CASE q[i].dead = FALSE
    <3>1. a <= b /\ f[i] = w * b /\ g[i] = w * a
      BY <2>3, <2>4, <2>5
    <3> QED
      BY <2>1, <2>2, <3>1, ProductGrows
  <2>6. CASE q[i].dead = TRUE /\ r[i].dead = TRUE
    BY <2>4, <2>6
  <2>7. CASE q[i].dead = TRUE /\ r[i].dead = FALSE
    <3>1. b >= 0 /\ f[i] = w * b /\ g[i] = 0
      BY <2>3, <2>4, <2>7
    <3>2. w * 0 <= w * b
      BY <2>1, <2>2, <3>1, ProductGrows
    <3> QED
      BY <2>2, <3>1, <3>2
  <2> QED
    BY <2>1, <2>5, <2>6, <2>7
<1> QED
  BY <1>1, <1>2, <1>3, <1>4, SumMonotone DEF f, g

\* A request that saves no more of an item than it was.
LEMMA SaveLessens ==
  ASSUME TypeOK, loaded, Live, NEW S, S \subseteq InBag \union Worn, Touches(S),
         \A i \in S : item'[i].num <= item[i].num
  PROVE  Lessens(Len(row), row, row')
<1> DEFINE n == Len(item)
<1>1. n = Len(row) /\ n \in Nat /\ row \in [1..n -> RowRecord] /\ row' \in [1..n -> RowRecord]
  BY ItemsAre DEF Touches
<1>2. /\ \A i \in 1..n : row'[i].tpl = row[i].tpl
      /\ \A i \in 1..n \ S : row'[i] = row[i]
      /\ \A i \in S : row'[i].num = item'[i].num
  BY DEF Touches
<1>3. \A i \in S : row[i].dead = FALSE /\ row[i].num = item[i].num /\ item[i].num > 0
  BY DEF Live
<1>4. \A i \in 1..n : row[i].num \in Int
  BY <1>1 DEF RowRecord
<1> HIDE DEF n
<1>5. ASSUME NEW i \in 1..n
      PROVE  /\ row'[i].tpl = row[i].tpl
             /\ row'[i].dead = FALSE => row[i].dead = FALSE /\ row'[i].num <= row[i].num
             /\ row'[i].dead = TRUE => row[i].dead = TRUE \/ row[i].num >= 0
  <2>1. CASE i \in S
    <3>1. row'[i].num <= row[i].num /\ row[i].dead = FALSE /\ row[i].num > 0
      BY <1>2, <1>3, <2>1
    <3>2. row[i].num >= 0
      BY <1>4, <3>1
    <3> QED
      BY <1>2, <3>1, <3>2
  <2>2. CASE i \notin S
    <3>1. row'[i] = row[i] /\ row[i].num \in Int
      BY <1>2, <1>4, <2>2
    <3>2. row'[i].num <= row[i].num
      BY <3>1
    <3> QED
      BY <3>1, <3>2
  <2> QED
    BY <2>1, <2>2
<1> QED
  BY <1>1, <1>5 DEF Lessens


\* The wealth, before and after a step.
LEMMA WealthIs ==
  /\ Wealth = dbMoney + SumFunction(WorthOf(row, Price))
  /\ Wealth' = dbMoney' + SumFunction(WorthOf(row', Price'))
BY DEF Wealth, Worth, WorthOf, LoadedIds, Pieces

\* Prices that are not negative stay what they are.
LEMMA PricesAre ==
  ASSUME set \in Settings, set' = set, \A t \in Templates : Price[t] >= 0
  PROVE  Price \in [Templates -> Nat] /\ Price' = Price
<1>1. Price \in [Templates -> Int]
  BY SettingFacts
<1>2. \A t \in Templates : Price[t] \in Nat
  BY <1>1
<1> HIDE DEF Price, Templates
<1>3. Price \in [Templates -> Nat]
  BY <1>1, <1>2
<1> QED
  BY <1>3 DEF Price

\* Sums of numbers that are no more.
LEMMA SumsLess ==
  ASSUME NEW a \in Int, NEW b \in Int, NEW c \in Int, NEW d \in Int, a <= b, c <= d
  PROVE  a + c <= b + d
OBVIOUS

\* What holds less is worth less, and the purse no more.
LEMMA WealthSinks ==
  ASSUME set \in Settings, set' = set, \A t \in Templates : Price[t] >= 0, dbMoney \in Int, dbMoney' \in Int,
         dbMoney' <= dbMoney, Lessens(Len(row), row, row')
  PROVE  Wealth' <= Wealth
<1> DEFINE w == SumFunction(WorthOf(row, Price))
           v == SumFunction(WorthOf(row', Price))
<1>1. Price \in [Templates -> Nat] /\ Price' = Price
  BY PricesAre
<1>2. v <= w /\ v \in Int /\ w \in Int
  BY <1>1, LessWorth, WorthIs DEF Lessens, Worths
<1>3. Wealth = dbMoney + w /\ Wealth' = dbMoney' + v
  BY <1>1, WealthIs
<1>4. dbMoney \in Int /\ dbMoney' \in Int /\ dbMoney' <= dbMoney
  OBVIOUS
<1> HIDE DEF w, v
<1>5. dbMoney' + v <= dbMoney + w
  BY ONLY <1>2, <1>4, SumsLess
<1> QED
  BY ONLY <1>3, <1>5

\* A purchase that costs what its price says: what is bought is worth no more.
LEMMA BuyWealth ==
  ASSUME TypeOK, set \in Settings, set' = set, \A t \in Templates : Price[t] >= 0, Funds,
         NEW t \in Templates, NEW c \in Counts, c >= 0, Price[t] * c <= IntMax, BuyItem(t, c) \/ BuyCut(t, c)
  PROVE  Wealth' <= Wealth
<1> DEFINE n == Len(item)
           x == n + 1
           p == Price
           w == SumFunction(WorthOf(row, p))
           v == SumFunction(WorthOf(row', p))
<1>1. /\ p \in [Templates -> Nat] /\ Price' = p /\ c \in Nat /\ IntMax \in Nat /\ ShortMax \in Nat
      /\ p[t] \in Nat
  BY PricesAre, SettingFacts, BagAssumption
<1>2. Wealth = dbMoney + w /\ Wealth' = dbMoney' + v
  BY <1>1, WealthIs
<1>3. Cost(t, c) = p[t] * c /\ p[t] * c \in Nat
  BY <1>1, WrappedKeeps DEF Cost
<1>4. dbMoney' <= money - Cost(t, c) /\ money <= dbMoney /\ money \in Int /\ dbMoney \in Int /\ dbMoney' \in Int
  <2>1. dbMoney' = Change(t, c) /\ money >= Cost(t, c)
    BY SMTT(30) DEF BuyItem, BuyCut, CanBuy
  <2>2. money <= dbMoney /\ money \in Int /\ dbMoney \in Int
    BY DEF Funds, TypeOK
  <2> QED
    BY <2>1, <2>2, ChangeIs
<1>5. row \in [1..Len(row) -> RowRecord] /\ Len(row) \in Nat
  BY ItemsAre
<1>6. w \in Int
  BY <1>1, <1>5, WorthIs DEF Worths
<1>7. CASE BuyCut(t, c)
  <2>1. v = w
    BY <1>7 DEF BuyCut
  <2> HIDE DEF w, v, p
  <2> QED
    BY <1>2, <1>3, <1>4, <1>6, <2>1
<1>8. CASE BuyItem(t, c)
  <2>1. /\ n = Len(row) /\ row' \in [1..x -> RowRecord] /\ \A i \in 1..n : row'[i] = row[i]
        /\ row'[x].tpl = t /\ row'[x].num = Short(c) /\ row'[x].dead = FALSE
    BY <1>8, BuyDoes
  <2>2. n \in Nat /\ row \in [1..n -> RowRecord]
    BY <1>5, <2>1
  <2> HIDE DEF n, p
  <2>3. x \in Nat /\ x \notin 1..n /\ x \in 1..x /\ 1..x = 1..n \union {x} /\ IsFiniteSet(1..n)
    <3>1. n \in Nat
      BY <2>2
    <3>2. x \in Nat /\ x \notin 1..n /\ x \in 1..x /\ 1..x = 1..n \union {x}
      BY ONLY <3>1
    <3>3. IsFiniteSet(1..n)
      BY ONLY <3>1, FS_Interval
    <3> QED
      BY <3>2, <3>3
  <2> HIDE DEF x
  <2> DEFINE f == WorthOf(row, p)
             g == WorthOf(row', p)
  <2>a. Worths(f, n, row, p)
    BY ONLY <1>1, <2>2, WorthIs
  <2>b. Worths(g, x, row', p)
    BY ONLY <1>1, <2>1, <2>3, WorthIs
  <2> HIDE DEF f, g
  <2>4. /\ f \in [1..n -> Int]
        /\ \A i \in 1..n : /\ row[i].dead = TRUE => f[i] = 0
                           /\ row[i].dead = FALSE => f[i] = p[row[i].tpl] * Pieces(row[i].num)
    BY <2>a DEF Worths
  <2>5. /\ g \in [1..x -> Int]
        /\ \A i \in 1..x : /\ row'[i].dead = TRUE => g[i] = 0
                           /\ row'[i].dead = FALSE => g[i] = p[row'[i].tpl] * Pieces(row'[i].num)
    BY <2>b DEF Worths
  <2>6. \A i \in 1..n : row[i].dead \in BOOLEAN
    BY <2>2 DEF RowRecord
  <2>7. ASSUME NEW i \in 1..n PROVE g[i] = f[i]
    <3>1. row'[i] = row[i] /\ i \in 1..x
      BY <2>1, <2>3
    <3> QED
      BY <2>4, <2>5, <2>6, <3>1
  <2>8. g[x] = p[t] * Pieces(Short(c))
    BY <2>1, <2>3, <2>5
  <2>9. g \in [1..n \union {x} -> Int]
    BY <2>3, <2>5
  <2> DEFINE T == 1..n
  <2>14. /\ IsFiniteSet(T) /\ x \notin T /\ f \in [T -> Int] /\ g \in [T \union {x} -> Int]
         /\ \A i \in T : g[i] = f[i]
    BY <2>3, <2>4, <2>7, <2>9
  <2> HIDE DEF T
  <2>10. SumFunction(g) = SumFunction(f) + g[x]
    BY ONLY <2>14, SumGrows
  <2> DEFINE many == Pieces(Short(c))
  <2>11. v = w + p[t] * many
    BY <2>8, <2>10 DEF f, g
  <2>12. many <= c /\ many \in Int
    <3>0. c \in Int /\ c >= -(ShortMax + 1)
      BY ONLY <1>1
    <3>1. Wrapped(c, ShortMax) <= c
      BY ONLY <1>1, <3>0, WrappedIsLess
    <3>2. Wrapped(c, ShortMax) \in Int
      BY ONLY <1>1, <3>0, WrappedIsInt
    <3>3. Pieces(Wrapped(c, ShortMax)) <= c /\ Pieces(Wrapped(c, ShortMax)) \in Int
      BY ONLY <1>1, <3>1, <3>2, PiecesAre
    <3> QED
      BY <3>3 DEF Short
  <2> HIDE DEF many
  <2>13. p[t] * many <= p[t] * c /\ p[t] * many \in Int
    BY <1>1, <2>12, ProductGrows
  <2> HIDE DEF w, v
  <2> QED
    BY <1>2, <1>3, <1>4, <1>6, <2>11, <2>13
<1> QED
  BY <1>7, <1>8

\* The sale of an item that is what its row says.
LEMMA SellWealth ==
  ASSUME TypeOK, set \in Settings, set' = set, \A t \in Templates : Price[t] >= 0, Live, Funds, money >= 0,
         NEW id \in InBag, item[id].tpl = row[id].tpl, SellItem(id)
  PROVE  Wealth' <= Wealth
<1> DEFINE n == Len(item)
           p == Price
           f == WorthOf(row, p)
           g == WorthOf(row', p)
           k == p[row[id].tpl] * row[id].num
<1>1. p \in [Templates -> Nat] /\ Price' = p
  BY PricesAre
<1>2. id \in inMap /\ loaded /\ Drop(id) /\ dbMoney' = MoneyAfterSale(id)
  BY DEF InBag, SellItem
<1>3. Touches({id}) /\ item'[id].dead = TRUE /\ id \in 1..n
  BY <1>2, DropDoes, HeldIs DEF Is
<1>4. /\ n \in Nat /\ n = Len(row) /\ row \in [1..n -> RowRecord] /\ row' \in [1..n -> RowRecord]
      /\ \A i \in 1..n \ {id} : row'[i] = row[i]
      /\ row'[id].dead = TRUE
  BY <1>2, <1>3, ItemsAre DEF Touches
<1>5. row[id].dead = FALSE /\ row[id].num = item[id].num /\ item[id].num > 0
  BY DEF Live
<1>6. row[id].tpl \in Templates /\ row[id].num \in Int /\ money \in Int /\ dbMoney \in Int /\ money <= dbMoney
  BY <1>3, <1>4 DEF RowRecord, TypeOK, Funds
<1>7. p[row[id].tpl] \in Nat /\ k \in Nat
  <2>1. p[row[id].tpl] \in Nat
    BY <1>1, <1>6
  <2>2. row[id].num \in Nat
    BY <1>5, <1>6
  <2> QED
    BY <2>1, <2>2
<1>8. Price[item[id].tpl] * item[id].num = k
  BY <1>5
<1> HIDE DEF n, k
<1>9. dbMoney' <= dbMoney + k /\ dbMoney' \in Int
  <2>1. MoneyAfterSale(id) \in Nat /\ MoneyAfterSale(id) <= money + k
    BY <1>2, <1>7, <1>8, SaleIs
  <2> QED
    BY <1>2, <1>6, <1>7, <2>1
<1>12. Wealth = dbMoney + SumFunction(f) /\ Wealth' = dbMoney' + SumFunction(g)
  BY <1>1, WealthIs
<1> HIDE DEF p
<1>a. Worths(f, n, row, p)
  BY ONLY <1>1, <1>4, WorthIs
<1>b. Worths(g, n, row', p)
  BY ONLY <1>1, <1>4, WorthIs
<1> HIDE DEF f, g
<1>10. /\ f \in [1..n -> Int] /\ SumFunction(f) \in Int
       /\ \A i \in 1..n : (row[i].dead = TRUE => f[i] = 0) /\ (row[i].dead = FALSE => f[i] = p[row[i].tpl] * Pieces(row[i].num))
  BY <1>a DEF Worths
<1>11. /\ g \in [1..n -> Int] /\ SumFunction(g) \in Int
       /\ \A i \in 1..n : (row'[i].dead = TRUE => g[i] = 0) /\ (row'[i].dead = FALSE => g[i] = p[row'[i].tpl] * Pieces(row'[i].num))
  BY <1>b DEF Worths
<1>13. \A i \in 1..n : row[i].dead \in BOOLEAN
  BY <1>4 DEF RowRecord
<1>14. \A i \in 1..n \ {id} : g[i] = f[i]
  BY <1>4, <1>10, <1>11, <1>13, SMTT(30)
<1>15. f[id] = k /\ g[id] = 0
  <2>1. Pieces(row[id].num) = row[id].num
    BY <1>5, <1>6, PiecesAre
  <2> QED
    BY <1>3, <1>4, <1>5, <1>10, <1>11, <2>1 DEF k
<1>16. IsFiniteSet(1..n)
  <2>1. n \in Int /\ 1 \in Int
    BY ONLY <1>4
  <2> QED
    BY ONLY <2>1, FS_Interval
<1>17. SumFunction(g) - SumFunction(f) = g[id] - f[id]
  <2> DEFINE T == 1..n
  <2>1. IsFiniteSet(T) /\ f \in [T -> Int] /\ g \in [T -> Int] /\ id \in T /\ \A i \in T \ {id} : g[i] = f[i]
    BY <1>3, <1>10, <1>11, <1>14, <1>16
  <2> HIDE DEF T
  <2> QED
    BY ONLY <2>1, SumChange
<1> QED
  BY <1>6, <1>7, <1>9, <1>10, <1>11, <1>12, <1>15, <1>17


\* A move onto another stack.
LEMMA StackWealth ==
  ASSUME TypeOK, set \in Settings, set' = set, \A t \in Templates : Price[t] >= 0, loaded, Live, Chain, InPlace,
         NEW id \in InBag, NEW to \in DOMAIN slot, Stackable(id, to), slot[to] # id, StackCells(id, to),
         dbMoney' = dbMoney
  PROVE  Wealth' <= Wealth
<1> DEFINE n == Len(item)
           other == slot[to]
           stack == StackNum[item[id].tpl]
           a == item[id].num
           b == item[other].num
           p == Price
           f == WorthOf(row, p)
           g == WorthOf(row', p)
           w == p[row[id].tpl]
<1>1. p \in [Templates -> Nat] /\ Price' = p
  BY PricesAre
<1>2. id \in inMap /\ other \in InBag /\ other # id
  BY ShownIs DEF InBag, InPlace, Placed, Stackable
<1>3. /\ other \in 1..n /\ stack > 0 /\ Touches({id, other}) /\ item[other].tpl = item[id].tpl
      /\ \A i \in {id, other} : Is(item'[i], item[i].tpl, item'[i].num, item[i].idx, item[i].equip, item[i].dead \/ item'[i].num = 0)
      /\ IF b + a <= stack THEN item'[other].num = b + a /\ item'[id].num = 0
         ELSE item'[other].num = stack /\ item'[id].num = (b + a) - stack
  BY <1>2, StackDoes, SMTT(30)
<1>4. /\ n \in Nat /\ n = Len(row) /\ row \in [1..n -> RowRecord] /\ row' \in [1..n -> RowRecord] /\ id \in 1..n
      /\ \A i \in 1..n \ {id, other} : row'[i] = row[i]
      /\ \A i \in 1..n : row'[i].tpl = row[i].tpl
      /\ \A i \in {id, other} : row'[i].num = item'[i].num /\ row'[i].dead = item'[i].dead
  BY <1>2, <1>3, ItemsAre, HeldIs DEF Touches
<1>5. \A i \in {id, other} : row[i].dead = FALSE /\ row[i].num = item[i].num /\ item[i].num > 0 /\ item[i].dead = FALSE
  BY <1>2 DEF Live
<1>6. a \in Int /\ b \in Int /\ stack \in Int /\ item[id].tpl \in Templates
  BY <1>2, HeldIs, SettingFacts DEF InBag
<1>7. row[id].tpl = item[id].tpl /\ row[other].tpl = item[id].tpl
  <2>1. StackNum[item[id].tpl] # 0 /\ StackNum[item[other].tpl] # 0
    BY <1>3, <1>6
  <2>2. id \in DOMAIN item /\ other \in DOMAIN item
    BY <1>3, <1>4, ItemsAre
  <2> QED
    BY <1>3, <2>1, <2>2 DEF Chain
<1>8. w \in Nat /\ p[row[other].tpl] = w
  BY <1>1, <1>6, <1>7
<1>11. Wealth = dbMoney + SumFunction(f) /\ Wealth' = dbMoney + SumFunction(g)
  BY <1>1, WealthIs
<1> HIDE DEF p, n
<1>a. Worths(f, n, row, p)
  BY ONLY <1>1, <1>4, WorthIs
<1>b. Worths(g, n, row', p)
  BY ONLY <1>1, <1>4, WorthIs
<1> HIDE DEF f, g
<1>9. /\ f \in [1..n -> Int] /\ SumFunction(f) \in Int
      /\ \A i \in 1..n : (row[i].dead = TRUE => f[i] = 0) /\ (row[i].dead = FALSE => f[i] = p[row[i].tpl] * Pieces(row[i].num))
  BY <1>a DEF Worths
<1>10. /\ g \in [1..n -> Int] /\ SumFunction(g) \in Int
       /\ \A i \in 1..n : (row'[i].dead = TRUE => g[i] = 0) /\ (row'[i].dead = FALSE => g[i] = p[row'[i].tpl] * Pieces(row'[i].num))
  BY <1>b DEF Worths
<1>12. IsFiniteSet(1..n) /\ \A i \in 1..n : row[i].dead \in BOOLEAN
  <2>3. n \in Int /\ 1 \in Int
    BY ONLY <1>4
  <2>1. IsFiniteSet(1..n)
    BY ONLY <2>3, FS_Interval
  <2>2. \A i \in 1..n : row[i].dead \in BOOLEAN
    BY ONLY <1>4 DEF RowRecord
  <2> QED
    BY <2>1, <2>2
<1>13. \A i \in 1..n \ {id, other} : f[i] = g[i]
  BY <1>4, <1>9, <1>10, <1>12
<1>14. SumFunction(g) - SumFunction(f) = (g[id] - f[id]) + (g[other] - f[other])
  <2>1. Shifted(1..n, f, g, id, other)
    BY <1>2, <1>3, <1>4, <1>9, <1>10, <1>12, <1>13 DEF Shifted
  <2> QED
    BY <2>1, SumShift
<1>15. f[id] = w * a /\ f[other] = w * b
  <2>1. Pieces(row[id].num) = a /\ Pieces(row[other].num) = b
    <3>1. row[id].num = a /\ row[other].num = b /\ a > 0 /\ b > 0
      BY <1>5
    <3> HIDE DEF a, b
    <3> QED
      BY <1>6, <3>1, PiecesAre
  <2> QED
    BY <1>3, <1>4, <1>5, <1>8, <1>9, <2>1
<1> DEFINE x == item'[id].num
           y == item'[other].num
<1>16. x + y = a + b /\ x >= 0 /\ y > 0 /\ x \in Int /\ y \in Int
  <2>1. a > 0 /\ b > 0
    BY <1>5
  <2> HIDE DEF a, b, stack
  <2> QED
    BY <1>3, <1>6, <2>1
<1>17. /\ row'[id].dead = (x = 0) /\ row'[id].num = x /\ row'[id].tpl = row[id].tpl
       /\ row'[other].dead = (y = 0) /\ row'[other].num = y /\ row'[other].tpl = row[other].tpl
  <2>1. \A i \in {id, other} : item'[i].dead = (item[i].dead \/ item'[i].num = 0)
    BY <1>3 DEF Is
  <2>2. item'[id].dead = (x = 0) /\ item'[other].dead = (y = 0)
    BY <1>5, <2>1, Zenon
  <2>3. row'[id].dead = item'[id].dead /\ row'[other].dead = item'[other].dead
    BY <1>4
  <2>4. row'[id].dead = (x = 0) /\ row'[other].dead = (y = 0)
    BY <2>2, <2>3, Zenon
  <2> QED
    BY <1>3, <1>4, <2>4
<1> HIDE DEF x, y, a, b, w
<1>c. Pieces(x) = x /\ Pieces(y) = y
  BY <1>16, PiecesAre
<1>18. g[other] = w * y
  <2>1. row'[other].dead = FALSE
    <3>1. (y = 0) = FALSE
      BY <1>16
    <3> QED
      BY <1>17, <3>1, Zenon
  <2> QED
    BY <1>3, <1>8, <1>10, <1>17, <1>c, <2>1
<1>19. g[id] = w * x
  <2>1. CASE x = 0
    <3>1. row'[id].dead = TRUE
      BY <1>17, <2>1, Zenon
    <3>2. w * 0 = 0
      BY <1>8
    <3> QED
      BY <1>4, <1>10, <2>1, <3>1, <3>2
  <2>2. CASE x # 0
    <3>1. row'[id].dead = FALSE
      BY <1>17, <2>2, Zenon
    <3> QED
      BY <1>4, <1>10, <1>17, <1>c, <3>1 DEF w
  <2> QED
    BY <2>1, <2>2
<1>20. w * x + w * y = w * a + w * b
  <2>1. w * x + w * y = w * (x + y) /\ w * a + w * b = w * (a + b)
    BY <1>6, <1>8, <1>16
  <2> QED
    BY <1>16, <2>1
<1>21. w * x \in Int /\ w * y \in Int /\ w * a \in Int /\ w * b \in Int
  BY <1>6, <1>8, <1>16
<1>22. SumFunction(g) = SumFunction(f)
  BY <1>9, <1>10, <1>14, <1>15, <1>18, <1>19, <1>20, <1>21
<1>23. dbMoney \in Int
  BY DEF TypeOK
<1> QED
  BY <1>9, <1>11, <1>22, <1>23

\* A move that is cut after the first row.
LEMMA CutLessens ==
  ASSUME TypeOK, set \in Settings, loaded, Live, InPlace, NEW id \in InBag, NEW to \in DOMAIN slot \ {0},
         slot[to] # id, slot[to] # 0 => item[slot[to]].num <= StackNum[item[id].tpl] \/ ~Stackable(id, to),
         MoveCut(id, to)
  PROVE  Lessens(Len(row), row, row') /\ dbMoney' = dbMoney
<1> DEFINE n == Len(item)
           other == slot[to]
<1>1. /\ n \in Nat /\ n = Len(row) /\ row \in [1..n -> RowRecord] /\ item \in [1..n -> ItemRecord]
      /\ id \in inMap /\ id \in 1..n /\ id \in InBag \union Worn
  BY ItemsAre, HeldIs DEF InBag
<1>2. other # 0 => other \in InBag \union Worn /\ other \in 1..n
  BY <1>1, ShownIs, HeldIs DEF InBag, InPlace, Placed
<1>3. \A i \in 1..n : row[i].num \in Int /\ row[i].dead \in BOOLEAN
  BY <1>1 DEF RowRecord
<1>4. ASSUME NEW x \in InBag \union Worn, x \in 1..n, NEW F \in [1..n -> ItemRecord], F[x].num <= item[x].num,
             row' = Rows(F, {x})
      PROVE  Lessens(Len(row), row, row')
  <2>1. row[x].dead = FALSE /\ row[x].num = item[x].num /\ item[x].num > 0
    BY DEF Live
  <2> DEFINE T == {x}
  <2>2. n \in Nat /\ row \in [1..n -> RowRecord] /\ F \in [1..n -> ItemRecord] /\ row' = Rows(F, T)
    BY <1>1, <1>4
  <2> HIDE DEF T, n
  <2>3. /\ row' \in [1..n -> RowRecord]
        /\ \A i \in 1..n \ T : row'[i] = row[i]
        /\ \A i \in 1..n : i \in T => row'[i].num = F[i].num
        /\ \A i \in 1..n : row'[i].tpl = row[i].tpl
    BY ONLY <2>2, FlushDoes
  <2>4. row'[x].num <= row[x].num /\ row[x].num >= 0
    <3>1. row'[x].num = F[x].num
      BY <1>4, <2>3 DEF T
    <3>2. row[x].num \in Int
      BY <1>3, <1>4
    <3> QED
      BY <1>4, <2>1, <3>1, <3>2
  <2>5. ASSUME NEW i \in 1..n, i # x
        PROVE  row'[i] = row[i] /\ row'[i].num <= row[i].num
    BY <1>3, <2>3, <2>5 DEF T
  <2>6. ASSUME NEW i \in 1..n
        PROVE  /\ row'[i].dead = FALSE => row[i].dead = FALSE /\ row'[i].num <= row[i].num
               /\ row'[i].dead = TRUE => row[i].dead = TRUE \/ row[i].num >= 0
    <3>1. CASE i = x
      BY <2>1, <2>4, <3>1
    <3>2. CASE i # x
      BY <2>5, <3>2
    <3> QED
      BY <3>1, <3>2
  <2> QED
    BY <1>1, <2>3, <2>6 DEF Lessens
<1>5. /\ dbMoney' = dbMoney
      /\ \/ Stackable(id, to) /\ row' = Rows(Stacked(id, other), {id})
         \/ ~Stackable(id, to) /\ other # 0 /\ row' = Rows([item EXCEPT ![other].idx = item[id].idx], {other})
  BY DEF MoveCut
<1>6. CASE Stackable(id, to) /\ row' = Rows(Stacked(id, other), {id})
  <2> DEFINE F == Stacked(id, other)
             stack == StackNum[item[id].tpl]
             sum == item[other].num + item[id].num
  <2>1. /\ F \in [1..n -> ItemRecord] /\ stack \in Nat /\ other \in 1..n /\ other # 0
        /\ sum <= stack => F[id].num = 0
        /\ ~(sum <= stack) => F[id].num = sum - stack
    BY <1>1, <1>6, StackedIs DEF Stackable
  <2>2. item[id].num > 0 /\ item[id].num \in Int /\ item[other].num \in Int /\ item[other].num <= stack
    <3>1. item[id].num > 0
      BY <1>1 DEF Live
    <3>2. item[id].num \in Int /\ item[other].num \in Int
      BY <1>1, <2>1, ItemsAre
    <3>3. item[other].num <= stack
      BY <1>6, <2>1
    <3> QED
      BY <3>1, <3>2, <3>3
  <2> HIDE DEF F, stack, n
  <2>3. F[id].num <= item[id].num
    BY <2>1, <2>2
  <2>4. row' = Rows(F, {id})
    BY <1>6 DEF F
  <2> QED
    BY <1>1, <1>4, <1>5, <2>1, <2>3, <2>4
<1>7. CASE other # 0 /\ row' = Rows([item EXCEPT ![other].idx = item[id].idx], {other})
  <2> DEFINE v == item[id].idx
             F == [item EXCEPT ![other].idx = v]
  <2>1. other \in 1..n /\ other \in InBag \union Worn /\ v \in Nat /\ row' = Rows(F, {other})
    BY <1>1, <1>2, <1>7, HeldIs
  <2>2. item[other].num \in Int
    BY <2>1, ItemsAre
  <2> HIDE DEF v, n, other
  <2>3. F \in [1..n -> ItemRecord] /\ F[other].num = item[other].num
    BY <1>1, <2>1, NewIdx DEF Is
  <2> HIDE DEF F
  <2>4. F[other].num <= item[other].num
    BY <2>2, <2>3
  <2> QED
    BY <1>4, <1>5, <2>1, <2>3, <2>4
<1> QED
  BY <1>5, <1>6, <1>7

\* The steps that may make the tables richer.
RicherBy ==
  \/ SortItems \/ SortCut
  \/ \E t \in Templates, c \in Counts : (c < 0 \/ Price[t] * c > IntMax) /\ (BuyItem(t, c) \/ BuyCut(t, c))
  \/ \E id \in InBag \union Worn :
       \/ SellCut(id)
       \/ SellItem(id) /\ item[id].tpl # row[id].tpl
       \/ \E to \in DOMAIN slot \ {0} :
            \/ slot[to] = id /\ (MoveItem(id, to) \/ MoveCut(id, to))
            \/ slot[to] # 0 /\ item[slot[to]].num > StackNum[item[id].tpl] /\ MoveCut(id, to)

\* No other does in a first visit.
LEMMA WealthStep ==
  ASSUME BagInv, Purse, Next, FirstVisit, ~odd, \A t \in Templates : Price[t] >= 0, ~RicherBy
  PROVE  Wealth' <= Wealth /\ Wealth \in Int /\ Wealth' \in Int
<1>0. \A n \in Counts : StrengthCrash(n) => Leave
  BY DEF StrengthCrash, Leave
<1>1. /\ set' = set
      /\ \/ \E t \in Templates, c \in Counts : BuyItem(t, c) \/ BuyCut(t, c)
         \/ \E id \in InBag : \/ SellItem(id) \/ AbandonItem(id) \/ EquipItem(id)
                              \/ \E to \in DOMAIN slot : MoveItem(id, to) \/ MoveCut(id, to)
         \/ \E id \in InBag \union Worn, n \in Counts : StrengthItem(id, n)
         \/ \E id \in Worn : UnEquipItem(id)
         \/ SortCrash \/ Tick \/ Leave
  BY <1>0 DEF Next, Visit, RicherBy
<1>2. TypeOK /\ set \in Settings /\ InPlace /\ Chain /\ (loaded => Live /\ Funds) /\ money >= 0
  BY DEF BagInv, Solvent, Purse
<1>3. dbMoney \in Int /\ dbMoney' \in Int
  BY <1>2, TypeStep DEF TypeOK
<1>4. ASSUME Lessens(Len(row), row, row'), dbMoney' = dbMoney PROVE Wealth' <= Wealth
  BY <1>1, <1>2, <1>3, <1>4, WealthSinks
<1>5. ASSUME NEW t \in Templates, NEW c \in Counts, BuyItem(t, c) \/ BuyCut(t, c)
      PROVE  Wealth' <= Wealth
  <2>1. Price[t] * c <= IntMax /\ c >= 0
    <3>1. ~(Price[t] * c > IntMax) /\ ~(c < 0)
      BY <1>5 DEF RicherBy
    <3>2. Price[t] * c \in Int /\ IntMax \in Nat /\ c \in Int
      BY <1>2, SettingFacts, BagAssumption
    <3> QED
      BY <3>1, <3>2
  <2>2. loaded
    BY <1>5 DEF BuyItem, BuyCut, CanBuy
  <2> QED
    BY <1>1, <1>2, <1>5, <2>1, <2>2, BuyWealth
<1>6. ASSUME NEW id \in InBag, SellItem(id)
      PROVE  Wealth' <= Wealth
  <2>1. item[id].tpl = row[id].tpl /\ loaded
    BY <1>6 DEF RicherBy, SellItem
  <2> QED
    BY <1>1, <1>2, <1>6, <2>1, SellWealth
<1>7. ASSUME NEW S, S \subseteq InBag \union Worn, Touches(S), \A i \in S : item'[i].num = item[i].num, loaded,
             dbMoney' = dbMoney
      PROVE  Wealth' <= Wealth
  <2>1. \A i \in S : item'[i].num <= item[i].num
    <3> SUFFICES ASSUME NEW i \in S PROVE item'[i].num <= item[i].num
      OBVIOUS
    <3>1. item[i].num \in Int
      BY <1>2, <1>7, HeldIs DEF InBag, Worn
    <3> QED
      BY <1>7, <3>1
  <2>2. Lessens(Len(row), row, row')
    BY <1>2, <1>7, <2>1, SaveLessens
  <2> QED
    BY <1>4, <1>7, <2>2
<1>8. \A id \in InBag \union Worn : id \in inMap
  BY DEF InBag, Worn
<1>9. ASSUME NEW id \in InBag, AbandonItem(id)
      PROVE  Wealth' <= Wealth
  <2>1. loaded /\ Drop(id) /\ dbMoney' = dbMoney
    BY <1>9 DEF AbandonItem
  <2>2. Touches({id}) /\ item'[id].num = item[id].num
    BY <1>2, <1>8, <2>1, DropDoes DEF Is
  <2> QED
    BY <1>7, <2>1, <2>2
<1>10. ASSUME NEW id \in InBag, EquipItem(id)
       PROVE  Wealth' <= Wealth
  <2>1. Touches({id}) /\ item'[id].num = item[id].num /\ loaded /\ dbMoney' = dbMoney
    BY <1>2, <1>8, <1>10, EquipDoes DEF Is
  <2> QED
    BY <1>7, <2>1
<1>11. ASSUME NEW id \in InBag \union Worn, NEW n \in Counts, StrengthItem(id, n)
       PROVE  Wealth' <= Wealth
  <2>1. Touches({id}) /\ item'[id].num = item[id].num /\ loaded /\ dbMoney' = dbMoney
    BY <1>2, <1>8, <1>11, StrengthDoes DEF Is
  <2> QED
    BY <1>7, <2>1
<1>12. ASSUME NEW id \in Worn, UnEquipItem(id)
       PROVE  Wealth' <= Wealth
  <2>1. Touches({id}) /\ item'[id].num = item[id].num /\ loaded /\ dbMoney' = dbMoney
    BY <1>2, <1>8, <1>12, UnEquipDoes DEF Is
  <2> QED
    BY <1>7, <2>1
<1>13. ASSUME NEW id \in InBag, NEW to \in DOMAIN slot, MoveItem(id, to)
       PROVE  Wealth' <= Wealth
  <2>1. /\ loaded /\ to # 0 /\ dbMoney' = dbMoney /\ id \in inMap
        /\ \/ Stackable(id, to) /\ StackCells(id, to)
           \/ item[id].idx \in DOMAIN slot /\ SwapCells(id, to)
    BY <1>8, <1>13 DEF MoveItem
  <2>2. slot[to] # id
    BY <1>13, <2>1 DEF RicherBy
  <2>3. CASE Stackable(id, to) /\ StackCells(id, to)
    BY <1>1, <1>2, <2>1, <2>2, <2>3, StackWealth
  <2>4. CASE item[id].idx \in DOMAIN slot /\ SwapCells(id, to)
    <3> DEFINE S == {id, slot[to]} \ {0}
    <3>0. /\ Touches(S)
          /\ \A i \in S : Is(item'[i], item[i].tpl, item[i].num, item'[i].idx, item[i].equip, item[i].dead \/ item[i].num = 0)
      BY <1>2, <2>1, <2>4, SwapDoes
    <3>1. Touches(S) /\ \A i \in S : item'[i].num = item[i].num
      BY ONLY <3>0 DEF Is
    <3>2. S \subseteq InBag \union Worn
      BY <1>2, ShownIs DEF InBag, InPlace, Placed
    <3> HIDE DEF S
    <3> QED
      BY <1>7, <2>1, <3>1, <3>2
  <2> QED
    BY <2>1, <2>3, <2>4
<1>14. ASSUME NEW id \in InBag, NEW to \in DOMAIN slot, MoveCut(id, to)
       PROVE  Wealth' <= Wealth
  <2>1. loaded /\ to # 0 /\ to \in DOMAIN slot \ {0}
    BY <1>14 DEF MoveCut
  <2>2. slot[to] # id /\ (slot[to] # 0 => ~(item[slot[to]].num > StackNum[item[id].tpl]))
    BY <1>14, <2>1 DEF RicherBy
  <2>3. ASSUME slot[to] # 0 PROVE item[slot[to]].num <= StackNum[item[id].tpl]
    <3>1. slot[to] \in 1..Len(item) /\ id \in 1..Len(item)
      BY <1>2, <1>8, <2>3, ItemsAre, HeldIs, ZenonT(30)
    <3>2. item[slot[to]].num \in Int /\ StackNum[item[id].tpl] \in Nat
      BY <1>2, <3>1, ItemsAre, SettingFacts
    <3> QED
      BY <2>2, <2>3, <3>2, SMTT(30)
  <2>4. Lessens(Len(row), row, row') /\ dbMoney' = dbMoney
    BY <1>2, <1>14, <2>1, <2>2, <2>3, CutLessens
  <2> QED
    BY <1>4, <2>4
<1>15. Wealth \in Int /\ Wealth' \in Int
  <2> DEFINE p == Price
  <2>1. p \in [Templates -> Nat] /\ Price' = p /\ RowRecord' = RowRecord
    BY <1>1, <1>2, PricesAre, SettingStays
  <2>2. row \in Seq(RowRecord) /\ row' \in Seq(RowRecord)
    BY <1>1, <1>2, <2>1, TypeStep DEF TypeOK
  <2>3. /\ Len(row) \in Nat /\ row \in [1..Len(row) -> RowRecord]
        /\ Len(row') \in Nat /\ row' \in [1..Len(row') -> RowRecord]
    BY <2>2
  <2> HIDE DEF p
  <2>4. SumFunction(WorthOf(row, p)) \in Int /\ SumFunction(WorthOf(row', p)) \in Int
    BY <2>1, <2>3, WorthIs DEF Worths
  <2>5. Wealth = dbMoney + SumFunction(WorthOf(row, p)) /\ Wealth' = dbMoney' + SumFunction(WorthOf(row', p))
    BY <2>1, WealthIs DEF p
  <2> QED
    BY <1>3, <2>4, <2>5
<1>16. ASSUME SortCrash \/ Tick \/ Leave
       PROVE  Wealth' <= Wealth
  <2>1. row' = row /\ dbMoney' = dbMoney
    BY <1>16 DEF SortCrash, Tick, Leave, db
  <2>2. Wealth' = Wealth
    BY <1>1, <2>1 DEF Wealth, Worth, LoadedIds, Price
  <2> QED
    BY <1>15, <2>2
<1> QED
  BY <1>1, <1>5, <1>6, <1>9, <1>10, <1>11, <1>12, <1>13, <1>14, <1>15, <1>16

\* In a first visit, until something is bought that makes no stack, nothing but
\* those steps makes the tables richer (doSellItem, doSortItems, moveItem and
\* doBuyItem).
THEOREM RicherBySources == Spec => WealthSources
<1>1. BagInv /\ Purse /\ [Next]_vars =>
        [FirstVisit /\ ~odd /\ (\A t \in Templates : Price[t] >= 0) /\ Wealth' > Wealth =>
           \/ SortItems \/ SortCut
           \/ \E t \in Templates, c \in Counts :
                (c < 0 \/ Price[t] * c > IntMax) /\ (BuyItem(t, c) \/ BuyCut(t, c))
           \/ \E id \in InBag \union Worn :
                \/ SellCut(id)
                \/ SellItem(id) /\ item[id].tpl # row[id].tpl
                \/ \E to \in DOMAIN slot \ {0} :
                     \/ slot[to] = id /\ (MoveItem(id, to) \/ MoveCut(id, to))
                     \/ slot[to] # 0 /\ item[slot[to]].num > StackNum[item[id].tpl] /\ MoveCut(id, to)]_vars
  <2> SUFFICES ASSUME BagInv, Purse, Next, FirstVisit, ~odd, \A t \in Templates : Price[t] >= 0, Wealth' > Wealth
               PROVE  RicherBy
    BY DEF RicherBy
  <2> SUFFICES ASSUME ~RicherBy PROVE FALSE
    OBVIOUS
  <2>1. Wealth' <= Wealth /\ Wealth \in Int /\ Wealth' \in Int
    BY WealthStep
  <2> QED
    BY <2>1
<1> QED
  BY <1>1, BagHolds, PurseHolds, PTL DEF Spec, WealthSources
=============================================================================

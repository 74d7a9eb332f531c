----------------------------- MODULE CommonLemmas -----------------------------
(***************************************************************************)
(* Facts about the operators of the community modules that the models use: *)
(* the least and the greatest of a set of numbers, what a sequence holds,  *)
(* and the sum of a function on a finite set.                              *)
(***************************************************************************)
EXTENDS Integers, SequencesExt, FiniteSetsExt, Functions, FiniteSetTheorems, WellFoundedInduction,
        TLAPS

\* The order of the numbers as the relation that is well-founded.
LEMMA LessIsRelated == \A x, y \in Nat : x < y => <<x, y>> \in OpToRel(<, Nat)
BY Zenon DEF OpToRel

\* A set of numbers that is not empty has a least one, and Min is it (the free
\* descriptor the kernel gives, the first free cell or index of a bag).
LEMMA MinIsLeast ==
  ASSUME NEW S, S \subseteq Nat, S # {}
  PROVE  Min(S) \in S /\ \A x \in S : Min(S) <= x
<1> DEFINE R == OpToRel(<, Nat)
<1>1. IsWellFoundedOn(R, Nat)
  BY NatLessThanWellFounded
<1>2. \A x, y \in Nat : x < y => <<x, y>> \in R
  BY LessIsRelated
<1> HIDE DEF R
<1>3. \E x \in S : \A y \in S : ~(<<y, x>> \in R)
  BY <1>1, WFMin
<1>4. PICK x \in S : \A y \in S : ~(<<y, x>> \in R)
  BY <1>3
<1>5. \A y \in S : x <= y
  <2> TAKE y \in S
  <2>1. x \in Nat /\ y \in Nat
    OBVIOUS
  <2>2. ~(y < x)
    BY <1>2, <1>4, <2>1
  <2> QED
    BY <2>1, <2>2
<1> QED
  BY <1>5 DEF Min

\* A set of numbers that is not empty and has a bound has a greatest one, and
\* Max is it.
LEMMA MaxIsGreatest ==
  ASSUME NEW S, S \subseteq Nat, S # {}, NEW n \in Nat, \A x \in S : x <= n
  PROVE  Max(S) \in S /\ \A x \in S : x <= Max(S)
<1> DEFINE T == {n - x : x \in S}
<1>1. T \subseteq Nat /\ T # {}
  <2>1. ASSUME NEW x \in S PROVE n - x \in Nat
    BY x \in Nat
  <2>2. PICK x \in S : TRUE
    OBVIOUS
  <2>3. n - x \in T
    OBVIOUS
  <2> QED
    BY <2>1, <2>3
<1>2. Min(T) \in T /\ \A y \in T : Min(T) <= y
  BY <1>1, MinIsLeast
<1>3. PICK x \in S : Min(T) = n - x
  BY <1>2
<1>4. \A y \in S : y <= x
  <2> TAKE y \in S
  <2>1. n - y \in T
    OBVIOUS
  <2>2. n - x <= n - y /\ x \in Nat /\ y \in Nat
    BY <1>2, <1>3, <2>1
  <2> QED
    BY <2>2
<1> QED
  BY <1>4 DEF Max

\* Of zero and a number, Max is a number no less than either (Role::addMoney,
\* SoulItem::addExp).
LEMMA MaxOfTwo ==
  ASSUME NEW a \in Int, NEW b \in Int
  PROVE  Max({a, b}) = IF a <= b THEN b ELSE a
BY DEF Max

\* Of two numbers, Min is one, and no more than either.
LEMMA MinOfTwo ==
  ASSUME NEW a \in Int, NEW b \in Int
  PROVE  Min({a, b}) = IF a <= b THEN a ELSE b
BY DEF Min

\* What is appended is held besides what was (a message pushed).
LEMMA HeldAfterAppend ==
  ASSUME NEW S, NEW q \in Seq(S), NEW m \in S
  PROVE  ToSet(Append(q, m)) = ToSet(q) \union {m}
<1>1. DOMAIN Append(q, m) = DOMAIN q \union {Len(q) + 1}
  OBVIOUS
<1>2. \A i \in DOMAIN q : Append(q, m)[i] = q[i]
  OBVIOUS
<1>3. Append(q, m)[Len(q) + 1] = m
  OBVIOUS
<1> QED
  BY <1>1, <1>2, <1>3 DEF ToSet

\* The first and the rest are what is held (a message popped).
LEMMA HeldAfterTail ==
  ASSUME NEW S, NEW q \in Seq(S), q # <<>>
  PROVE  /\ Head(q) \in S /\ Tail(q) \in Seq(S)
         /\ ToSet(q) = ToSet(Tail(q)) \union {Head(q)}
<1>1. DOMAIN q = 1..Len(q) /\ Len(q) \in Nat /\ Len(q) # 0 /\ Head(q) = q[1] /\ q[1] \in S
  OBVIOUS
<1>2. Tail(q) \in Seq(S) /\ DOMAIN Tail(q) = 1..Len(q) - 1 /\ \A i \in 1..Len(q) - 1 : Tail(q)[i] = q[i + 1]
  BY <1>1
<1>3. ToSet(Tail(q)) \subseteq ToSet(q)
  BY <1>1, <1>2 DEF ToSet
<1>4. Head(q) \in ToSet(q)
  BY <1>1 DEF ToSet
<1>5. ASSUME NEW m \in ToSet(q), m # Head(q) PROVE m \in ToSet(Tail(q))
  <2>1. PICK i \in 1..Len(q) : m = q[i]
    BY <1>1 DEF ToSet
  <2>2. i # 1
    BY <2>1, <1>1, <1>5
  <2>3. i - 1 \in 1..Len(q) - 1 /\ Tail(q)[i - 1] = q[i]
    BY <2>2, <1>1, <1>2
  <2> QED
    BY <2>1, <2>3, <1>2 DEF ToSet
<1> QED
  BY <1>1, <1>2, <1>3, <1>4, <1>5

\* Nothing is held by the empty sequence.
LEMMA NothingHeld == ToSet(<<>>) = {}
BY DEF ToSet

\* Induction on the numbers, for a set.
LEMMA NatSet ==
  ASSUME NEW S, S \subseteq Nat, 0 \in S, \A n \in S : n + 1 \in S
  PROVE  S = Nat
<1> SUFFICES ASSUME Nat \ S # {} PROVE FALSE
  OBVIOUS
<1> DEFINE m == Min(Nat \ S)
<1>1. m \in Nat \ S /\ \A x \in Nat \ S : m <= x
  BY MinIsLeast
<1> HIDE DEF m
<1>2. m # 0 /\ m - 1 \in Nat
  BY <1>1
<1>3. m - 1 \in S
  BY <1>1, <1>2
<1>4. (m - 1) + 1 = m
  BY <1>1
<1> QED
  BY <1>1, <1>3, <1>4

\* Induction on the subsets of a finite set, for a set: what holds of the empty
\* set, and of a set when of the sets with one element less, holds of all.
LEMMA SubsetInduction ==
  ASSUME NEW T, IsFiniteSet(T), NEW C, {} \in C,
         \A s \in SUBSET T : s # {} /\ (\A x \in s : s \ {x} \in C) => s \in C
  PROVE  SUBSET T \subseteq C
<1> DEFINE N == {n \in Nat : \A s \in SUBSET T : Cardinality(s) = n => s \in C}
<1>1. \A s \in SUBSET T : IsFiniteSet(s) /\ Cardinality(s) \in Nat /\ (Cardinality(s) = 0 <=> s = {})
  BY FS_Subset, FS_CardinalityType, FS_EmptySet
<1>2. \A s \in SUBSET T : \A x \in s : Cardinality(s \ {x}) = Cardinality(s) - 1
  BY <1>1, FS_RemoveElement
<1>3. 0 \in N
  BY <1>1
<1>4. ASSUME NEW n \in N PROVE n + 1 \in N
  <2>1. n \in Nat /\ n + 1 # 0 /\ (n + 1) - 1 = n
    OBVIOUS
  <2>2. ASSUME NEW s \in SUBSET T, Cardinality(s) = n + 1 PROVE s \in C
    <3>1. s # {}
      BY <1>1, <2>1, <2>2
    <3>2. \A x \in s : s \ {x} \in SUBSET T /\ Cardinality(s \ {x}) = n
      BY <1>2, <2>1, <2>2
    <3>3. \A x \in s : s \ {x} \in C
      BY <3>2
    <3> QED
      BY <3>1, <3>3
  <2> QED
    BY <2>1, <2>2
<1>5. N = Nat
  <2> HIDE DEF N
  <2>1. N \subseteq Nat
    BY DEF N
  <2> QED
    BY <1>3, <1>4, <2>1, NatSet
<1> QED
  BY <1>1, <1>5

\* Which element of each set a fold takes next.
Picks(pick, T) == \A s \in SUBSET T : s # {} => pick[s] \in s

\* The equation a fold into V over the subsets of T is defined by.
IsFold(h, T, V, base, pick, step) ==
  /\ h \in [SUBSET T -> V]
  /\ \A s \in SUBSET T : h[s] = IF s = {} THEN base ELSE step[pick[s]][h[s \ {pick[s]}]]

\* The function a fold is defined by exists.
LEMMA FoldExists ==
  ASSUME NEW T, IsFiniteSet(T), NEW V, NEW base \in V, NEW pick, Picks(pick, T), NEW step \in [T -> [V -> V]]
  PROVE  \E h : IsFold(h, T, V, base, pick, step)
<1> DEFINE D(n) == {s \in SUBSET T : Cardinality(s) <= n}
           N == {n \in Nat : \E h \in [D(n) -> V] :
                   \A s \in D(n) : h[s] = IF s = {} THEN base ELSE step[pick[s]][h[s \ {pick[s]}]]}
<1>1. \A s \in SUBSET T : IsFiniteSet(s) /\ Cardinality(s) \in Nat /\ (Cardinality(s) = 0 <=> s = {})
  BY FS_Subset, FS_CardinalityType, FS_EmptySet
<1>2. \A s \in SUBSET T : \A x \in s : Cardinality(s \ {x}) = Cardinality(s) - 1
  BY <1>1, FS_RemoveElement
<1>p. \A s \in SUBSET T : s # {} => pick[s] \in s
  BY DEF Picks
<1>3. 0 \in N
  <2> DEFINE h == [s \in D(0) |-> base]
  <2>1. \A s \in D(0) : s = {}
    BY <1>1
  <2>2. h \in [D(0) -> V] /\ \A s \in D(0) : h[s] = base
    OBVIOUS
  <2> QED
    BY <2>1, <2>2
<1>4. ASSUME NEW n \in N PROVE n + 1 \in N
  <2>1. n \in Nat
    OBVIOUS
  <2>2. PICK h \in [D(n) -> V] : \A s \in D(n) : h[s] = IF s = {} THEN base ELSE step[pick[s]][h[s \ {pick[s]}]]
    OBVIOUS
  <2>3. \A s \in D(n + 1) : s # {} => pick[s] \in s /\ pick[s] \in T /\ s \ {pick[s]} \in D(n)
    <3> TAKE s \in D(n + 1)
    <3> HAVE s # {}
    <3>1. pick[s] \in s /\ s \in SUBSET T
      BY <1>p
    <3>2. Cardinality(s \ {pick[s]}) = Cardinality(s) - 1 /\ Cardinality(s) \in Nat /\ Cardinality(s) <= n + 1
      BY <3>1, <1>1, <1>2
    <3> QED
      BY <2>1, <3>1, <3>2
  <2> DEFINE k == [s \in D(n + 1) |-> IF s = {} THEN base ELSE step[pick[s]][h[s \ {pick[s]}]]]
  <2>4. k \in [D(n + 1) -> V]
    <3>1. ASSUME NEW s \in D(n + 1)
          PROVE  (IF s = {} THEN base ELSE step[pick[s]][h[s \ {pick[s]}]]) \in V
      <4>1. s # {} => step[pick[s]] \in [V -> V] /\ h[s \ {pick[s]}] \in V
        BY <2>3
      <4> QED
        BY <4>1
    <3> QED
      BY <3>1
  <2>5. \A s \in D(n) : s \in D(n + 1) /\ k[s] = h[s]
    <3> TAKE s \in D(n)
    <3>1. s \in SUBSET T /\ Cardinality(s) \in Nat /\ Cardinality(s) <= n
      BY <1>1
    <3>2. s \in D(n + 1)
      BY <2>1, <3>1
    <3> QED
      BY <2>2, <3>2
  <2>6. \A s \in D(n + 1) : k[s] = IF s = {} THEN base ELSE step[pick[s]][k[s \ {pick[s]}]]
    BY <2>3, <2>5
  <2>7. n + 1 \in Nat
    BY <2>1
  <2> HIDE DEF k
  <2> QED
    BY <2>4, <2>6, <2>7
<1>5. N = Nat
  <2> HIDE DEF N
  <2>1. N \subseteq Nat
    BY DEF N
  <2> QED
    BY <1>3, <1>4, <2>1, NatSet
<1>6. Cardinality(T) \in N
  BY <1>1, <1>5
<1>7. D(Cardinality(T)) = SUBSET T
  BY FS_Subset
<1> QED
  BY <1>6, <1>7 DEF IsFold

\* The sum of a function over the subsets of its domain: one element, whichever,
\* and the rest.
IsSum(h, f, T) ==
  /\ h \in [SUBSET T -> Int] /\ h[{}] = 0
  /\ \A s \in SUBSET T : \A x \in s : h[s] = f[x] + h[s \ {x}]

\* SumFunction is such a sum.
LEMMA SumUnfolds ==
  ASSUME NEW T, IsFiniteSet(T), NEW f \in [T -> Int]
  PROVE  \E h : IsSum(h, f, T) /\ h[T] = SumFunction(f)
<1> DEFINE iter[s \in SUBSET T] == IF s = {} THEN 0 ELSE LET x == CHOOSE x \in s : TRUE IN f[x] + iter[s \ {x}]
           pick == [s \in SUBSET T |-> CHOOSE x \in s : TRUE]
           step == [x \in T |-> [v \in Int |-> f[x] + v]]
<1>1. SumFunction(f) = iter[T]
  BY DEF SumFunction, SumFunctionOnSet, FoldFunctionOnSet, MapThenFoldSet
<1>2. PICK h : IsFold(h, T, Int, 0, pick, step)
  <2>1. Picks(pick, T)
    BY DEF Picks
  <2>2. step \in [T -> [Int -> Int]]
    OBVIOUS
  <2>3. 0 \in Int
    OBVIOUS
  <2> HIDE DEF pick, step
  <2> QED
    BY <2>1, <2>2, <2>3, FoldExists
<1>3. h \in [SUBSET T -> Int] /\ \A s \in SUBSET T :
           h[s] = IF s = {} THEN 0 ELSE step[pick[s]][h[s \ {pick[s]}]]
  BY <1>2 DEF IsFold
<1>4. h = [s \in SUBSET T |-> IF s = {} THEN 0 ELSE LET x == CHOOSE x \in s : TRUE IN f[x] + h[s \ {x}]]
  <2>1. ASSUME NEW s \in SUBSET T, s # {}
        PROVE  h[s] = LET x == CHOOSE x \in s : TRUE IN f[x] + h[s \ {x}]
    <3> DEFINE x == CHOOSE x \in s : TRUE
    <3>1. pick[s] = x /\ x \in s
      BY <2>1
    <3> HIDE DEF x
    <3>2. x \in T /\ h[s \ {x}] \in Int
      BY <3>1, <1>3
    <3>3. step[x][h[s \ {x}]] = f[x] + h[s \ {x}]
      BY <3>2
    <3>4. h[s] = f[x] + h[s \ {x}]
      BY <1>3, <2>1, <3>1, <3>3
    <3> QED
      BY <3>4 DEF x
  <2> QED
    BY <1>3, <2>1
<1>5. iter = [s \in SUBSET T |-> IF s = {} THEN 0 ELSE LET x == CHOOSE x \in s : TRUE IN f[x] + iter[s \ {x}]]
  BY <1>4
<1>6. \A s \in SUBSET T : iter[s] = IF s = {} THEN 0 ELSE LET x == CHOOSE x \in s : TRUE IN f[x] + iter[s \ {x}]
  <2> HIDE DEF iter
  <2> QED
    BY <1>5
<1> HIDE DEF iter
<1>7. iter[{}] = 0
  BY ONLY <1>6
<1> DEFINE I == {s \in SUBSET T : iter[s] \in Int}
<1>8. SUBSET T \subseteq I
  <2>1. {} \in I
    BY <1>7
  <2>2. \A s \in SUBSET T : s # {} /\ (\A x \in s : s \ {x} \in I) => s \in I
    <3> SUFFICES ASSUME NEW s \in SUBSET T, s # {}, \A x \in s : s \ {x} \in I PROVE s \in I
      OBVIOUS
    <3> DEFINE c == CHOOSE x \in s : TRUE
    <3>1. c \in s /\ iter[s] = f[c] + iter[s \ {c}]
      BY <1>6
    <3> HIDE DEF c
    <3>2. f[c] \in Int /\ iter[s \ {c}] \in Int
      BY <3>1
    <3>3. iter[s] \in Int
      BY <3>1, <3>2
    <3> QED
      BY <3>3
  <2>3. IsFiniteSet(T)
    OBVIOUS
  <2> HIDE DEF I
  <2> QED
    BY ONLY <2>1, <2>2, <2>3, SubsetInduction
<1>9. \A s \in SUBSET T : iter[s] \in Int
  BY <1>8
<1> DEFINE C == {s \in SUBSET T : \A x \in s : iter[s] = f[x] + iter[s \ {x}]}
<1>10. SUBSET T \subseteq C
  <2>1. {} \in C
    OBVIOUS
  <2>2. \A s \in SUBSET T : s # {} /\ (\A x \in s : s \ {x} \in C) => s \in C
    <3> SUFFICES ASSUME NEW s \in SUBSET T, s # {}, \A x \in s : s \ {x} \in C,
                        NEW x \in s
                 PROVE  iter[s] = f[x] + iter[s \ {x}]
      OBVIOUS
    <3> DEFINE c == CHOOSE y \in s : TRUE
               v == iter[(s \ {x}) \ {c}]
    <3>1. c \in s /\ iter[s] = f[c] + iter[s \ {c}]
      BY <1>6
    <3> HIDE DEF c
    <3>2. CASE x = c
      BY <3>1, <3>2
    <3>3. CASE x # c
      <4>1. x \in s \ {c} /\ c \in s \ {x} /\ s \ {c} \in C /\ s \ {x} \in C
        BY <3>1, <3>3
      <4>2. (s \ {c}) \ {x} = (s \ {x}) \ {c} /\ (s \ {x}) \ {c} \in SUBSET T
        OBVIOUS
      <4>3. iter[s \ {c}] = f[x] + v /\ iter[s \ {x}] = f[c] + v
        BY <4>1, <4>2
      <4>4. v \in Int /\ f[x] \in Int /\ f[c] \in Int
        BY <1>9, <3>1, <4>2
      <4> HIDE DEF v
      <4> QED
        BY <3>1, <4>3, <4>4
    <3> QED
      BY <3>2, <3>3
  <2>3. IsFiniteSet(T)
    OBVIOUS
  <2> HIDE DEF C
  <2> QED
    BY ONLY <2>1, <2>2, <2>3, SubsetInduction
<1>11. \A s \in SUBSET T : iter[s] \in Int /\ \A x \in s : iter[s] = f[x] + iter[s \ {x}]
  BY <1>9, <1>10
<1>12. iter \in [SUBSET T -> Int]
  <2>1. iter = [s \in SUBSET T |-> iter[s]]
    BY ONLY <1>5, <1>6
  <2> QED
    BY ONLY <1>11, <2>1
<1>13. IsSum(iter, f, T)
  BY ONLY <1>7, <1>11, <1>12 DEF IsSum
<1> QED
  BY <1>1, <1>13

\* The sum of numbers is a number (what the souls a soul swallows give).
LEMMA SumOfNaturals ==
  ASSUME NEW T, IsFiniteSet(T), NEW f \in [T -> Nat]
  PROVE  SumFunction(f) \in Nat
<1>1. f \in [T -> Int]
  OBVIOUS
<1>2. PICK h : IsSum(h, f, T) /\ h[T] = SumFunction(f)
  BY <1>1, SumUnfolds
<1> DEFINE C == {s \in SUBSET T : h[s] \in Nat}
<1>3. {} \in C
  BY <1>2 DEF IsSum
<1>4. ASSUME NEW s \in SUBSET T, s # {}, \A x \in s : s \ {x} \in C PROVE s \in C
  <2>1. PICK x \in s : TRUE
    BY <1>4
  <2>2. h[s] = f[x] + h[s \ {x}] /\ h[s \ {x}] \in Nat /\ f[x] \in Nat
    BY <1>2, <1>4, <2>1 DEF IsSum
  <2> QED
    BY <2>2
<1>5. SUBSET T \subseteq C
  <2> HIDE DEF C
  <2> QED
    BY <1>3, <1>4, SubsetInduction
<1> QED
  BY <1>2, <1>5

\* The sum of whole numbers is one.
LEMMA SumOfIntegers ==
  ASSUME NEW T, IsFiniteSet(T), NEW f \in [T -> Int]
  PROVE  SumFunction(f) \in Int
<1>1. PICK h : IsSum(h, f, T) /\ h[T] = SumFunction(f)
  BY SumUnfolds
<1> QED
  BY <1>1 DEF IsSum

\* More everywhere is no less in all.
LEMMA SumMonotone ==
  ASSUME NEW T, IsFiniteSet(T), NEW f \in [T -> Int], NEW g \in [T -> Int], \A x \in T : f[x] <= g[x]
  PROVE  SumFunction(f) <= SumFunction(g)
<1>1. PICK h : IsSum(h, f, T) /\ h[T] = SumFunction(f)
  BY SumUnfolds
<1>2. PICK k : IsSum(k, g, T) /\ k[T] = SumFunction(g)
  BY SumUnfolds
<1> DEFINE C == {s \in SUBSET T : h[s] <= k[s]}
<1>3. {} \in C
  BY <1>1, <1>2 DEF IsSum
<1>4. ASSUME NEW s \in SUBSET T, s # {}, \A x \in s : s \ {x} \in C PROVE s \in C
  <2>1. PICK x \in s : TRUE
    BY <1>4
  <2>2. /\ h[s] = f[x] + h[s \ {x}] /\ k[s] = g[x] + k[s \ {x}]
        /\ h[s \ {x}] \in Int /\ k[s \ {x}] \in Int
    BY <1>1, <1>2, <2>1 DEF IsSum
  <2>3. h[s \ {x}] <= k[s \ {x}] /\ f[x] <= g[x] /\ f[x] \in Int /\ g[x] \in Int
    BY <1>4, <2>1
  <2>4. h[s] <= k[s]
    BY <2>2, <2>3
  <2> QED
    BY <2>4
<1>5. SUBSET T \subseteq C
  <2> HIDE DEF C
  <2> QED
    BY <1>3, <1>4, SubsetInduction
<1> QED
  BY <1>1, <1>2, <1>5

\* One function is the sum of two others.
Adds(T, f, g, e) ==
  /\ IsFiniteSet(T) /\ f \in [T -> Int] /\ g \in [T -> Int] /\ e \in [T -> Int]
  /\ \A x \in T : e[x] = f[x] + g[x]

\* Then it adds up to what they add up to together.
LEMMA SumPlus ==
  ASSUME NEW T, NEW f, NEW g, NEW e, Adds(T, f, g, e)
  PROVE  SumFunction(e) = SumFunction(f) + SumFunction(g)
<1>0. /\ IsFiniteSet(T) /\ f \in [T -> Int] /\ g \in [T -> Int] /\ e \in [T -> Int]
      /\ \A x \in T : e[x] = f[x] + g[x]
  BY DEF Adds
<1>1. PICK h : IsSum(h, f, T) /\ h[T] = SumFunction(f)
  BY <1>0, SumUnfolds
<1>2. PICK k : IsSum(k, g, T) /\ k[T] = SumFunction(g)
  BY <1>0, SumUnfolds
<1>3. PICK l : IsSum(l, e, T) /\ l[T] = SumFunction(e)
  BY <1>0, SumUnfolds
<1> DEFINE C == {s \in SUBSET T : l[s] = h[s] + k[s]}
<1>4. {} \in C
  BY <1>1, <1>2, <1>3 DEF IsSum
<1>5. ASSUME NEW s \in SUBSET T, s # {}, \A x \in s : s \ {x} \in C PROVE s \in C
  <2>1. PICK x \in s : TRUE
    BY <1>5
  <2>2. /\ h[s] = f[x] + h[s \ {x}] /\ k[s] = g[x] + k[s \ {x}] /\ l[s] = e[x] + l[s \ {x}]
        /\ h[s \ {x}] \in Int /\ k[s \ {x}] \in Int
    BY <1>1, <1>2, <1>3, <2>1 DEF IsSum
  <2>3. l[s \ {x}] = h[s \ {x}] + k[s \ {x}] /\ e[x] = f[x] + g[x] /\ f[x] \in Int /\ g[x] \in Int
    BY <1>0, <1>5, <2>1
  <2>4. l[s] = h[s] + k[s]
    BY <2>2, <2>3
  <2> QED
    BY <2>4
<1>6. SUBSET T \subseteq C
  <2> HIDE DEF C
  <2> QED
    BY <1>0, <1>4, <1>5, SubsetInduction
<1> QED
  BY <1>1, <1>2, <1>3, <1>6

\* The sum of a function that is zero but at two places.
LEMMA SumOfTwo ==
  ASSUME NEW T, IsFiniteSet(T), NEW f \in [T -> Int], NEW a \in T, NEW b \in T, a # b,
         \A x \in T \ {a, b} : f[x] = 0
  PROVE  SumFunction(f) = f[a] + f[b]
<1>1. PICK h : IsSum(h, f, T) /\ h[T] = SumFunction(f)
  BY SumUnfolds
<1> DEFINE R == T \ {a, b}
           C == {s \in SUBSET R : h[s] = 0}
<1>2. {} \in C
  BY <1>1 DEF IsSum
<1>3. ASSUME NEW s \in SUBSET R, s # {}, \A x \in s : s \ {x} \in C PROVE s \in C
  <2>1. PICK x \in s : TRUE
    BY <1>3
  <2>2. h[s] = f[x] + h[s \ {x}] /\ h[s \ {x}] = 0 /\ f[x] = 0
    BY <1>1, <1>3, <2>1 DEF IsSum
  <2>3. h[s] = 0
    BY <2>2
  <2> QED
    BY <2>3
<1>4. IsFiniteSet(R)
  BY FS_Subset
<1>5. SUBSET R \subseteq C
  <2> HIDE DEF C, R
  <2> QED
    BY <1>2, <1>3, <1>4, SubsetInduction
<1>6. h[(T \ {a}) \ {b}] = 0
  <2>1. (T \ {a}) \ {b} = R
    OBVIOUS
  <2> QED
    BY <1>5, <2>1
<1>7. h[T] = f[a] + h[T \ {a}] /\ h[T \ {a}] = f[b] + h[(T \ {a}) \ {b}]
  BY <1>1 DEF IsSum
<1> QED
  BY <1>1, <1>6, <1>7

\* Two functions that differ at no more than two places.
Shifted(T, f, g, a, b) ==
  /\ IsFiniteSet(T) /\ f \in [T -> Int] /\ g \in [T -> Int] /\ a \in T /\ b \in T /\ a # b
  /\ \A x \in T \ {a, b} : f[x] = g[x]

\* They differ in all by what they differ by at the two.
LEMMA SumShift ==
  ASSUME NEW T, NEW f, NEW g, NEW a, NEW b, Shifted(T, f, g, a, b)
  PROVE  SumFunction(g) - SumFunction(f) = (g[a] - f[a]) + (g[b] - f[b])
<1> USE DEF Shifted
<1> DEFINE d == [x \in T |-> g[x] - f[x]]
<1>1. d \in [T -> Int] /\ \A x \in T : g[x] = f[x] + d[x]
  OBVIOUS
<1>2. \A x \in T \ {a, b} : d[x] = 0
  OBVIOUS
<1>3. d[a] = g[a] - f[a] /\ d[b] = g[b] - f[b]
  OBVIOUS
<1> HIDE DEF d
<1>4. SumFunction(d) = d[a] + d[b]
  BY <1>1, <1>2, SumOfTwo
<1>5. SumFunction(g) = SumFunction(f) + SumFunction(d)
  <2>1. Adds(T, f, d, g)
    BY <1>1 DEF Adds
  <2> QED
    BY <2>1, SumPlus
<1>6. SumFunction(f) \in Int /\ SumFunction(d) \in Int
  BY <1>1, SumOfIntegers
<1>7. f[a] \in Int /\ g[a] \in Int /\ f[b] \in Int /\ g[b] \in Int
  OBVIOUS
<1> QED
  BY <1>3, <1>4, <1>5, <1>6, <1>7

\* The sum of a function whose domain has one element more.
LEMMA SumGrows ==
  ASSUME NEW T, IsFiniteSet(T), NEW b, b \notin T, NEW f \in [T -> Int], NEW g \in [T \union {b} -> Int],
         \A x \in T : g[x] = f[x]
  PROVE  SumFunction(g) = SumFunction(f) + g[b]
<1> DEFINE U == T \union {b}
<1>1. IsFiniteSet(U)
  BY FS_AddElement
<1>2. PICK h : IsSum(h, f, T) /\ h[T] = SumFunction(f)
  BY SumUnfolds
<1>3. PICK k : IsSum(k, g, U) /\ k[U] = SumFunction(g)
  BY <1>1, SumUnfolds
<1> DEFINE C == {s \in SUBSET T : h[s] = k[s]}
<1>4. {} \in C
  BY <1>2, <1>3 DEF IsSum
<1>5. ASSUME NEW s \in SUBSET T, s # {}, \A x \in s : s \ {x} \in C PROVE s \in C
  <2>1. PICK x \in s : TRUE
    BY <1>5
  <2>2. h[s] = f[x] + h[s \ {x}]
    BY <1>2, <2>1 DEF IsSum
  <2>3. k[s] = g[x] + k[s \ {x}]
    BY <1>3, <2>1 DEF IsSum
  <2>4. h[s \ {x}] = k[s \ {x}] /\ g[x] = f[x]
    BY <1>5, <2>1
  <2> QED
    BY <2>2, <2>3, <2>4
<1>6. SUBSET T \subseteq C
  <2> HIDE DEF C
  <2> QED
    BY <1>4, <1>5, SubsetInduction
<1>7. U \ {b} = T /\ b \in U
  OBVIOUS
<1>8. k[U] = g[b] + k[T] /\ k[T] \in Int
  BY <1>3, <1>7 DEF IsSum
<1>9. h[T] = k[T]
  BY <1>6
<1>10. g[b] \in Int
  OBVIOUS
<1> QED
  BY <1>2, <1>3, <1>8, <1>9, <1>10

\* The equation a loop of n rounds over V is defined by.
IsLoop(h, n, V, base, step) ==
  /\ h \in [0..n -> V] /\ h[0] = base
  /\ \A k \in 1..n : h[k] = step[k][h[k - 1]]

\* The function a loop is defined by exists.
LEMMA LoopExists ==
  ASSUME NEW n \in Nat, NEW V, NEW base \in V, NEW step \in [1..n -> [V -> V]]
  PROVE  \E h : IsLoop(h, n, V, base, step)
<1> DEFINE N == {m \in Nat : m <= n => \E h : IsLoop(h, m, V, base, step)}
<1>1. 0 \in N
  <2>1. IsLoop([k \in 0..0 |-> base], 0, V, base, step)
    BY DEF IsLoop
  <2> QED
    BY <2>1
<1>2. ASSUME NEW m \in N PROVE m + 1 \in N
  <2> SUFFICES ASSUME m + 1 <= n PROVE \E h : IsLoop(h, m + 1, V, base, step)
    OBVIOUS
  <2>1. m \in Nat /\ m <= n /\ m + 1 \in 1..n
    OBVIOUS
  <2>2. PICK h : IsLoop(h, m, V, base, step)
    BY <2>1
  <2> DEFINE g == [k \in 0..m + 1 |-> IF k = m + 1 THEN step[m + 1][h[m]] ELSE h[k]]
  <2>3. h[m] \in V /\ step[m + 1] \in [V -> V]
    BY <2>1, <2>2 DEF IsLoop
  <2>4. \A k \in 0..m : g[k] = h[k] /\ h[k] \in V
    BY <2>1, <2>2 DEF IsLoop
  <2>5. g[m + 1] = step[m + 1][h[m]] /\ g[m + 1] \in V
    BY <2>1, <2>3
  <2>6. g \in [0..m + 1 -> V]
    <3>1. \A k \in 0..m + 1 : k = m + 1 \/ k \in 0..m
      BY <2>1
    <3>2. \A k \in 0..m + 1 : g[k] \in V
      BY <3>1, <2>4, <2>5
    <3> QED
      BY <3>2
  <2> HIDE DEF g
  <2>7. g[0] = base
    BY <2>1, <2>2, <2>4 DEF IsLoop
  <2>8. ASSUME NEW k \in 1..m + 1 PROVE g[k] = step[k][g[k - 1]]
    <3>1. CASE k = m + 1
      <4>1. k - 1 = m /\ g[m] = h[m]
        BY <2>1, <2>4, <3>1
      <4> QED
        BY <2>5, <3>1, <4>1
    <3>2. CASE k # m + 1
      <4>1. k \in 1..m /\ k \in 0..m /\ k - 1 \in 0..m
        BY <2>1, <3>2
      <4>2. h[k] = step[k][h[k - 1]]
        BY <2>2, <4>1 DEF IsLoop
      <4> QED
        BY <2>4, <4>1, <4>2
    <3> QED
      BY <3>1, <3>2
  <2> QED
    BY <2>6, <2>7, <2>8 DEF IsLoop
<1>3. N = Nat
  <2> HIDE DEF N
  <2>1. N \subseteq Nat
    BY DEF N
  <2> QED
    BY <1>1, <1>2, <2>1, NatSet
<1>4. n \in N
  BY <1>3
<1> QED
  BY <1>4

\* Induction on the numbers up to n, for a set (the rounds of a loop).
LEMMA RoundInduction ==
  ASSUME NEW n \in Nat, NEW C, 0 \in C, \A k \in 1..n : k - 1 \in C => k \in C
  PROVE  0..n \subseteq C
<1> DEFINE N == {m \in Nat : m <= n => m \in C}
<1>1. 0 \in N
  OBVIOUS
<1>2. ASSUME NEW m \in N PROVE m + 1 \in N
  <2>1. m \in Nat /\ (m + 1) - 1 = m
    OBVIOUS
  <2>2. m + 1 <= n => m \in C /\ m + 1 \in 1..n
    BY <2>1
  <2> QED
    BY <2>1, <2>2
<1>3. N = Nat
  <2> HIDE DEF N
  <2>1. N \subseteq Nat
    BY DEF N
  <2> QED
    BY <1>1, <1>2, <2>1, NatSet
<1> QED
  BY <1>3

\* Numbers that are as many as some number have a bound.
LEMMA BoundExists ==
  ASSUME NEW n \in Nat, NEW f \in [1..n -> Nat]
  PROVE  \E b \in Nat : \A i \in 1..n : f[i] <= b
<1> DEFINE C == {k \in 0..n : \E b \in Nat : \A i \in 1..k : f[i] <= b}
<1>1. 0 \in C
  OBVIOUS
<1>2. ASSUME NEW k \in 1..n, k - 1 \in C PROVE k \in C
  <2>1. PICK b \in Nat : \A i \in 1..k - 1 : f[i] <= b
    BY <1>2
  <2> DEFINE c == IF f[k] > b THEN f[k] ELSE b
  <2>2. c \in Nat /\ f[k] <= c /\ b <= c
    OBVIOUS
  <2> HIDE DEF c
  <2>3. ASSUME NEW i \in 1..k PROVE f[i] <= c
    <3>1. CASE i = k
      BY <2>2, <3>1
    <3>2. CASE i # k
      <4>1. i \in 1..k - 1 /\ f[i] \in Nat
        BY <3>2
      <4>2. f[i] <= b
        BY <2>1, <4>1
      <4> QED
        BY <2>2, <4>1, <4>2
    <3> QED
      BY <3>1, <3>2
  <2>4. k \in 0..n
    OBVIOUS
  <2> QED
    BY <2>2, <2>3, <2>4
<1>3. 0..n \subseteq C
  <2> HIDE DEF C
  <2> QED
    BY <1>1, <1>2, RoundInduction
<1>4. n \in 0..n
  OBVIOUS
<1> QED
  BY <1>3, <1>4


\* Functions that differ at one place differ in all by what they differ by there.
LEMMA SumChange ==
  ASSUME NEW T, IsFiniteSet(T), NEW f \in [T -> Int], NEW g \in [T -> Int], NEW a \in T,
         \A x \in T \ {a} : g[x] = f[x]
  PROVE  SumFunction(g) - SumFunction(f) = g[a] - f[a]
<1> DEFINE R == T \ {a}
           e == [x \in R |-> f[x]]
<1>1. IsFiniteSet(R) /\ a \notin R /\ R \union {a} = T
  BY FS_RemoveElement
<1>2. e \in [R -> Int] /\ \A x \in R : f[x] = e[x] /\ g[x] = e[x]
  OBVIOUS
<1> HIDE DEF R, e
<1>3. f \in [R \union {a} -> Int] /\ g \in [R \union {a} -> Int]
  BY <1>1
<1>4. SumFunction(f) = SumFunction(e) + f[a]
  BY <1>1, <1>2, <1>3, SumGrows
<1>5. SumFunction(g) = SumFunction(e) + g[a]
  BY <1>1, <1>2, <1>3, SumGrows
<1>6. SumFunction(e) \in Int
  BY <1>1, <1>2, SumOfIntegers
<1>7. f[a] \in Int /\ g[a] \in Int
  OBVIOUS
<1> QED
  BY <1>4, <1>5, <1>6, <1>7
=============================================================================

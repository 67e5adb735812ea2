---------------------------- MODULE FoldTheorems ----------------------------
(***************************************************************************)
(* What the proofs need of the folds that add amounts up (MapThenSumSet,   *)
(* FoldLeft): that the function they are defined by exists, that a sum of  *)
(* numbers is a number, and how a sum grows with its set, in whatever      *)
(* order it is taken.  Induction is by a least counterexample.             *)
(***************************************************************************)
EXTENDS Integers, FiniteSets, Functions, FiniteSetTheorems, WellFoundedInduction, TLAPS

Below == OpToRel(<, Nat)

LEMMA BelowIsLess ==
    /\ IsWellFoundedOn(Below, Nat)
    /\ \A x, y \in Nat : <<x, y>> \in Below <=> x < y
<1>1. IsWellFoundedOn(Below, Nat)
  BY NatLessThanWellFounded DEF Below
<1>2. \A x, y \in Nat : <<x, y>> \in Below <=> x < y
  BY DEF Below, OpToRel
<1> QED
  BY <1>1, <1>2

\* Every set of natural numbers has a least one.
LEMMA Least ==
    ASSUME NEW S, S \subseteq Nat, S # {}
    PROVE  \E x \in S : \A y \in S : x <= y
<1>1. IsWellFoundedOn(Below, Nat)
  BY BelowIsLess
<1>2. PICK x \in S : \A y \in S : ~(<<y, x>> \in Below)
  BY <1>1, WFMin
<1>3. ASSUME NEW y \in S PROVE x <= y
  <2>1. ~(y < x)
    BY <1>2, BelowIsLess
  <2> QED
    BY <2>1
<1> QED
  BY <1>3

\* And of those up to n there is a greatest.
LEMMA Greatest ==
    ASSUME NEW n \in Nat, NEW S, S \subseteq 0..n, S # {}
    PROVE  \E x \in S : \A y \in S : y <= x
<1> DEFINE left == {n - x : x \in S}
<1>1. left \subseteq Nat /\ left # {}
  <2>1. \A x \in S : n - x \in Nat
    OBVIOUS
  <2> QED
    BY <2>1
<1>2. PICK k \in left : \A m \in left : k <= m
  BY <1>1, Least
<1>3. PICK x \in S : k = n - x
  OBVIOUS
<1>4. ASSUME NEW y \in S PROVE y <= x
  <2>1. n - x <= n - y
    BY <1>2, <1>3
  <2> QED
    BY <2>1
<1> QED
  BY <1>4

\* Induction on the size of finite sets: of some of a set's subsets one is minimal.
LEMMA Minimal ==
    ASSUME NEW S, IsFiniteSet(S), NEW bad, bad \subseteq SUBSET S, bad # {}
    PROVE  \E s \in bad : \A x \in s : s \ {x} \notin bad
<1>1. \A s \in bad : IsFiniteSet(s) /\ Cardinality(s) \in Nat
  BY FS_Subset, FS_CardinalityType
<1> DEFINE sizes == {Cardinality(s) : s \in bad}
<1>2. sizes \subseteq Nat /\ sizes # {}
  BY <1>1
<1>3. PICK n \in sizes : \A m \in sizes : n <= m
  BY <1>2, Least
<1>4. PICK s \in bad : Cardinality(s) = n
  OBVIOUS
<1>5. ASSUME NEW x \in s PROVE s \ {x} \notin bad
  <2>1. Cardinality(s \ {x}) = n - 1
    BY <1>1, <1>4, FS_RemoveElement
  <2>2. n \in Nat
    BY <1>2
  <2> QED
    BY <1>3, <2>1, <2>2
<1> QED
  BY <1>5
-----------------------------------------------------------------------------
(* A fold exists.                                                           *)

\* What the folds of the library are: a fixed point on the subsets of a set.
Folds(g, S, pick, base, step) ==
    g = [s \in SUBSET S |-> IF s = {} THEN base ELSE step[pick[s], g[s \ {pick[s]}]]]

LEMMA Intervals ==
    \A n \in Nat : IsFiniteSet(1..n)
BY FS_Interval

LEMMA Sizes ==
    ASSUME NEW S, IsFiniteSet(S)
    PROVE  \E size \in [SUBSET S -> Nat] :
              \A s \in SUBSET S :
                 /\ size[s] = Cardinality(s) /\ size[s] <= size[S]
                 /\ size[s] = 0 <=> s = {}
                 /\ \A x \in s : size[s \ {x}] + 1 = size[s]
<1>1. ASSUME NEW s \in SUBSET S
      PROVE  /\ IsFiniteSet(s) /\ Cardinality(s) \in Nat /\ Cardinality(s) <= Cardinality(S)
             /\ Cardinality(s) = 0 <=> s = {}
             /\ \A x \in s : Cardinality(s \ {x}) + 1 = Cardinality(s)
  <2>1. IsFiniteSet(s) /\ Cardinality(s) <= Cardinality(S)
    BY FS_Subset
  <2>2. Cardinality(s) \in Nat /\ (Cardinality(s) = 0 <=> s = {})
    BY <2>1, FS_CardinalityType, FS_EmptySet
  <2>3. \A x \in s : Cardinality(s \ {x}) = Cardinality(s) - 1
    BY <2>1, FS_RemoveElement
  <2> QED
    BY <2>1, <2>2, <2>3
<1>2. PICK size : size = [s \in SUBSET S |-> Cardinality(s)]
  OBVIOUS
<1>3. size \in [SUBSET S -> Nat] /\ \A s \in SUBSET S : size[s] = Cardinality(s)
  BY <1>1, <1>2
<1>4. ASSUME NEW s \in SUBSET S
      PROVE  /\ size[s] = Cardinality(s) /\ size[s] <= size[S]
             /\ size[s] = 0 <=> s = {}
             /\ \A x \in s : size[s \ {x}] + 1 = size[s]
  <2>1. S \in SUBSET S /\ \A x \in s : s \ {x} \in SUBSET S
    OBVIOUS
  <2>2. /\ size[s] = Cardinality(s) /\ size[S] = Cardinality(S)
        /\ \A x \in s : size[s \ {x}] = Cardinality(s \ {x})
    BY <1>3, <2>1
  <2> QED
    BY <1>1, <2>2
<1> QED
  BY <1>3, <1>4

LEMMA FoldExists ==
    ASSUME NEW S, IsFiniteSet(S), NEW V, NEW base \in V, NEW step \in [S \X V -> V],
           NEW pick, \A s \in SUBSET S : s # {} => pick[s] \in s
    PROVE  \E g \in [SUBSET S -> V] : Folds(g, S, pick, base, step)
<1> DEFINE Value(g, s) == IF s = {} THEN base ELSE step[pick[s], g[s \ {pick[s]}]]
<1>1. PICK size \in [SUBSET S -> Nat] :
         \A s \in SUBSET S : /\ size[s] = Cardinality(s) /\ size[s] <= size[S]
                             /\ size[s] = 0 <=> s = {}
                             /\ \A x \in s : size[s \ {x}] + 1 = size[s]
  BY Sizes
<1> DEFINE Small(n) == {s \in SUBSET S : size[s] <= n}
           Good(n) == \E g \in [Small(n) -> V] : \A s \in Small(n) : g[s] = Value(g, s)
           bad == {n \in Nat : ~Good(n)}
<1>2. ASSUME NEW s \in SUBSET S, s # {}, NEW g, g[s \ {pick[s]}] \in V
      PROVE  Value(g, s) \in V
  BY <1>2
<1>3. Good(0)
  <2>1. \A s \in Small(0) : s = {}
    BY <1>1
  <2>2. PICK g : g = [s \in Small(0) |-> base]
    OBVIOUS
  <2>3. g \in [Small(0) -> V] /\ \A s \in Small(0) : g[s] = Value(g, s)
    BY <2>1, <2>2
  <2> QED
    BY <2>3
<1>4. ASSUME NEW n \in Nat, Good(n)
      PROVE  Good(n + 1)
  <2>1. PICK g \in [Small(n) -> V] : \A s \in Small(n) : g[s] = Value(g, s)
    BY <1>4
  <2>2. PICK f : f = [s \in Small(n + 1) |-> IF s \in Small(n) THEN g[s] ELSE Value(g, s)]
    OBVIOUS
  <2>3. \A s \in Small(n + 1) : s # {} => s \ {pick[s]} \in Small(n)
    BY <1>1
  <2>4. \A s \in Small(n) : s \in Small(n + 1)
    BY <1>1
  <2>5. {} \in Small(n)
    BY <1>1
  <2>6. \A s \in Small(n) : f[s] = g[s]
    BY <2>2, <2>4
  <2>7. ASSUME NEW s \in Small(n + 1)
        PROVE  f[s] = Value(f, s) /\ f[s] \in V
    <3>1. f[s] = Value(g, s)
      <4> HIDE DEF Value, Small
      <4> QED
        BY <2>1, <2>2
    <3>2. s # {} => f[s \ {pick[s]}] = g[s \ {pick[s]}] /\ g[s \ {pick[s]}] \in V
      <4> HIDE DEF Small
      <4> QED
        BY <2>1, <2>3, <2>6
    <3>3. Value(f, s) = Value(g, s)
      BY <3>2
    <3>4. Value(g, s) \in V
      BY <1>2, <3>2
    <3> QED
      BY <3>1, <3>3, <3>4
  <2> HIDE DEF Value, Small
  <2>8. f \in [Small(n + 1) -> V]
    BY <2>2, <2>7
  <2> QED
    BY <2>7, <2>8
<1>5. \A n \in Nat : Good(n)
  <2> SUFFICES ASSUME bad # {} PROVE FALSE
    OBVIOUS
  <2> HIDE DEF Good
  <2>1. PICK n \in bad : \A m \in bad : n <= m
    BY Least
  <2>2. n # 0 /\ n \in Nat
    BY <1>3, <2>1
  <2>3. n - 1 \in Nat /\ n - 1 \notin bad
    BY <2>1, <2>2
  <2>4. Good((n - 1) + 1)
    BY <1>4, <2>3
  <2> QED
    BY <2>1, <2>2, <2>4
<1>6. Small(size[S]) = SUBSET S /\ size[S] \in Nat
  BY <1>1
<1>7. PICK g \in [SUBSET S -> V] : \A s \in SUBSET S : g[s] = Value(g, s)
  <2>1. Good(size[S])
    BY <1>5, <1>6
  <2>2. \E g \in [Small(size[S]) -> V] : \A s \in Small(size[S]) : g[s] = Value(g, s)
    BY <2>1
  <2> HIDE DEF Small, Value
  <2> QED
    BY <1>6, <2>2
<1>8. g = [s \in SUBSET S |-> Value(g, s)]
  <2> HIDE DEF Value
  <2> QED
    BY <1>7
<1> QED
  BY <1>8 DEF Folds
-----------------------------------------------------------------------------
(* Sums of integers.                                                        *)

\* How the library picks the next element, and what adding one is.
AnyOf(S) == [s \in SUBSET S |-> CHOOSE x \in s : TRUE]
Plus(f, S) == [p \in S \X Int |-> f[p[1]] + p[2]]

\* The sums of f over the subsets of S, taken in the order pick says.
Sums(g, f, S, pick) ==
    /\ g \in [SUBSET S -> Int] /\ g[{}] = 0
    /\ \A s \in SUBSET S : s # {} => g[s] = f[pick[s]] + g[s \ {pick[s]}]

LEMMA SumsExist ==
    ASSUME NEW S, IsFiniteSet(S), NEW f, \A x \in S : f[x] \in Int,
           NEW pick, \A s \in SUBSET S : s # {} => pick[s] \in s
    PROVE  \E g : Sums(g, f, S, pick) /\ Folds(g, S, pick, 0, Plus(f, S))
<1>1. PICK step \in [S \X Int -> Int] : step = Plus(f, S)
  <2>1. \A p \in S \X Int : p[1] \in S /\ p[2] \in Int
    OBVIOUS
  <2>2. \A p \in S \X Int : f[p[1]] + p[2] \in Int
    BY <2>1
  <2>3. Plus(f, S) \in [S \X Int -> Int]
    BY <2>2 DEF Plus
  <2> QED
    BY <2>3
<1>2. PICK g \in [SUBSET S -> Int] : Folds(g, S, pick, 0, Plus(f, S))
  <2>1. PICK Z, zero : Z = Int /\ zero = 0 /\ zero \in Z /\ step \in [S \X Z -> Z]
    OBVIOUS
  <2>2. \E g \in [SUBSET S -> Z] : Folds(g, S, pick, zero, step)
    BY <2>1, FoldExists
  <2> QED
    BY <1>1, <2>1, <2>2
<1>3. ASSUME NEW s \in SUBSET S
      PROVE  g[s] = IF s = {} THEN 0 ELSE Plus(f, S)[pick[s], g[s \ {pick[s]}]]
  BY <1>2 DEF Folds
<1>4. ASSUME NEW s \in SUBSET S, s # {}
      PROVE  g[s] = f[pick[s]] + g[s \ {pick[s]}]
  <2>1. pick[s] \in S /\ g[s \ {pick[s]}] \in Int
    BY <1>2, <1>4
  <2>2. Plus(f, S)[pick[s], g[s \ {pick[s]}]] = f[pick[s]] + g[s \ {pick[s]}]
    BY <2>1 DEF Plus
  <2> QED
    BY <1>3, <1>4, <2>2
<1> QED
  BY <1>2, <1>3, <1>4 DEF Sums

\* A fold of the library's is a function of this kind.
LEMMA FoldIsSums ==
    ASSUME NEW S, IsFiniteSet(S), NEW f, \A x \in S : f[x] \in Int,
           NEW pick, \A s \in SUBSET S : s # {} => pick[s] \in s,
           NEW g, g = [s \in SUBSET S |-> IF s = {} THEN 0 ELSE f[pick[s]] + g[s \ {pick[s]}]]
    PROVE  Sums(g, f, S, pick)
<1>1. PICK h : Sums(h, f, S, pick)
  BY SumsExist
<1> DEFINE bad == {s \in SUBSET S : g[s] # h[s]}
<1>2. ASSUME NEW s \in SUBSET S
      PROVE  g[s] = IF s = {} THEN 0 ELSE f[pick[s]] + g[s \ {pick[s]}]
  BY Zenon
<1>3. bad = {}
  <2> SUFFICES ASSUME bad # {} PROVE FALSE
    OBVIOUS
  <2>1. PICK s \in bad : \A x \in s : s \ {x} \notin bad
    BY Minimal
  <2>2. CASE s = {}
    BY <1>1, <1>2, <2>1, <2>2 DEF Sums
  <2>3. CASE s # {}
    <3>1. pick[s] \in s /\ s \ {pick[s]} \in SUBSET S
      BY <2>1, <2>3
    <3>2. g[s \ {pick[s]}] = h[s \ {pick[s]}]
      BY <2>1, <3>1
    <3> QED
      BY <1>1, <1>2, <2>1, <2>3, <3>2 DEF Sums
  <2> QED
    BY <2>2, <2>3
<1>4. g = h
  <2>1. h \in [SUBSET S -> Int] /\ \A s \in SUBSET S : g[s] = h[s]
    BY <1>1, <1>3 DEF Sums
  <2>2. DOMAIN g = SUBSET S /\ g = [s \in DOMAIN g |-> g[s]]
    OBVIOUS
  <2> QED
    BY <2>1, <2>2
<1> QED
  BY <1>1, <1>4

\* The order does not matter.
ByAny(g, f, S) == \A s \in SUBSET S : \A x \in s : g[s] = f[x] + g[s \ {x}]

LEMMA SumsByAny ==
    ASSUME NEW S, NEW f, NEW pick, NEW g, Sums(g, f, S, pick), IsFiniteSet(S),
           \A x \in S : f[x] \in Int, \A s \in SUBSET S : s # {} => pick[s] \in s
    PROVE  ByAny(g, f, S)
<1> DEFINE bad == {s \in SUBSET S : \E x \in s : g[s] # f[x] + g[s \ {x}]}
<1> SUFFICES ASSUME bad # {} PROVE FALSE
  BY DEF ByAny
<1>1. PICK s \in bad : \A x \in s : s \ {x} \notin bad
  BY Minimal
<1>2. PICK x \in s : g[s] # f[x] + g[s \ {x}]
  OBVIOUS
<1>3. PICK y \in s : y = pick[s] /\ g[s] = f[y] + g[s \ {y}]
  BY <1>2 DEF Sums
<1>4. x # y
  BY <1>2, <1>3
<1>5. g[s \ {y}] = f[x] + g[(s \ {y}) \ {x}]
  BY <1>1, <1>4
<1>6. g[s \ {x}] = f[y] + g[(s \ {x}) \ {y}]
  BY <1>1, <1>4
<1>7. (s \ {y}) \ {x} = (s \ {x}) \ {y}
  OBVIOUS
<1>8. PICK a \in Int, b \in Int, rest \in Int :
         a = f[x] /\ b = f[y] /\ rest = g[(s \ {x}) \ {y}]
  BY DEF Sums
<1>9. g[s] = b + (a + rest) /\ g[s \ {x}] = b + rest
  BY <1>3, <1>5, <1>6, <1>7, <1>8
<1> QED
  BY <1>2, <1>8, <1>9
-----------------------------------------------------------------------------
(* The sum over a finite set, whatever it is folded by.                     *)

SumOver(f, S) == (CHOOSE g : Sums(g, f, S, AnyOf(S)))[S]

LEMMA AnyIsMember ==
    ASSUME NEW S
    PROVE  \A s \in SUBSET S : s # {} => AnyOf(S)[s] \in s /\ AnyOf(S)[s] = CHOOSE x \in s : TRUE
BY DEF AnyOf

\* Sums of functions that agree on a set agree on its subsets.
LEMMA SumsAgree ==
    ASSUME NEW T, NEW S \in SUBSET T, IsFiniteSet(S),
           NEW f, NEW h, \A x \in S : f[x] = h[x],
           NEW g, Sums(g, f, S, AnyOf(S)), NEW k, Sums(k, h, T, AnyOf(T))
    PROVE  \A s \in SUBSET S : g[s] = k[s]
<1> DEFINE bad == {s \in SUBSET S : g[s] # k[s]}
<1> SUFFICES ASSUME bad # {} PROVE FALSE
  OBVIOUS
<1>1. PICK s \in bad : \A x \in s : s \ {x} \notin bad
  BY Minimal
<1>2. s \in SUBSET S /\ s \in SUBSET T /\ g[s] # k[s]
  BY <1>1
<1>3. CASE s = {}
  BY <1>2, <1>3 DEF Sums
<1>4. CASE s # {}
  <2>1. PICK x \in s : x = AnyOf(S)[s] /\ x = AnyOf(T)[s]
    BY <1>2, <1>4, AnyIsMember
  <2>2. g[s \ {x}] = k[s \ {x}]
    BY <1>1
  <2>3. g[s] = f[x] + g[s \ {x}]
    BY <1>2, <1>4, <2>1 DEF Sums
  <2>4. k[s] = h[x] + k[s \ {x}]
    BY <1>2, <1>4, <2>1 DEF Sums
  <2>5. f[x] = h[x]
    BY <1>2
  <2> QED
    BY <1>2, <2>2, <2>3, <2>4, <2>5
<1> QED
  BY <1>3, <1>4

LEMMA SumOverIsSum ==
    ASSUME NEW S, IsFiniteSet(S), NEW f, \A x \in S : f[x] \in Int
    PROVE  /\ \E g : Sums(g, f, S, AnyOf(S)) /\ SumOver(f, S) = g[S]
           /\ SumOver(f, S) \in Int
<1> DEFINE g == CHOOSE g : Sums(g, f, S, AnyOf(S))
<1>1. \A s \in SUBSET S : s # {} => AnyOf(S)[s] \in s
  BY AnyIsMember
<1>2. \E k : Sums(k, f, S, AnyOf(S))
  BY <1>1, SumsExist
<1>3. Sums(g, f, S, AnyOf(S))
  BY <1>2
<1>4. g[S] \in Int
  BY <1>3 DEF Sums
<1> QED
  BY <1>3, <1>4 DEF SumOver

LEMMA AnyOrder ==
    ASSUME NEW S, NEW f, NEW g, Sums(g, f, S, AnyOf(S)), IsFiniteSet(S),
           \A x \in S : f[x] \in Int
    PROVE  ByAny(g, f, S)
<1>1. PICK pick : pick = AnyOf(S)
  OBVIOUS
<1>2. \A s \in SUBSET S : s # {} => pick[s] \in s
  BY <1>1, AnyIsMember
<1>3. Sums(g, f, S, pick)
  BY <1>1
<1> QED
  BY <1>2, <1>3, SumsByAny

LEMMA SumOverNothing ==
    ASSUME NEW f PROVE SumOver(f, {}) = 0
<1>1. IsFiniteSet({})
  BY FS_EmptySet
<1>2. PICK g : Sums(g, f, {}, AnyOf({})) /\ SumOver(f, {}) = g[{}]
  BY <1>1, SumOverIsSum
<1> QED
  BY <1>2 DEF Sums

\* Only what the function is on the set counts.
LEMMA SumOverSame ==
    ASSUME NEW S, IsFiniteSet(S), NEW f, NEW h, \A x \in S : f[x] \in Int /\ f[x] = h[x]
    PROVE  SumOver(f, S) = SumOver(h, S)
<1>1. PICK g : Sums(g, f, S, AnyOf(S)) /\ SumOver(f, S) = g[S]
  BY SumOverIsSum
<1>2. PICK k : Sums(k, h, S, AnyOf(S)) /\ SumOver(h, S) = k[S]
  BY SumOverIsSum
<1>3. g[S] = k[S]
  BY <1>1, <1>2, SumsAgree
<1> QED
  BY <1>1, <1>2, <1>3

\* One element more.
Grows(f, S, h, T, x) == SumOver(h, T) = h[x] + SumOver(f, S)

LEMMA SumOverOneMore ==
    ASSUME NEW S, NEW x, NEW T, NEW f, NEW h, IsFiniteSet(S), x \notin S, T = S \cup {x},
           \A y \in S : f[y] \in Int /\ h[y] = f[y], h[x] \in Int
    PROVE  IsFiniteSet(T) /\ Grows(f, S, h, T, x)
<1>1. IsFiniteSet(T)
  BY FS_AddElement
<1>2. PICK g : Sums(g, f, S, AnyOf(S)) /\ SumOver(f, S) = g[S]
  BY SumOverIsSum
<1>3. PICK k : Sums(k, h, T, AnyOf(T)) /\ SumOver(h, T) = k[T]
  BY <1>1, SumOverIsSum
<1>4. g[S] = k[S]
  BY <1>2, <1>3, SumsAgree
<1>5. k[T] = h[x] + k[T \ {x}]
  <2>1. \A y \in T : h[y] \in Int
    OBVIOUS
  <2>2. ByAny(k, h, T)
    BY <1>1, <1>3, <2>1, AnyOrder
  <2> QED
    BY <2>2 DEF ByAny
<1>6. T \ {x} = S
  OBVIOUS
<1> QED
  BY <1>1, <1>2, <1>3, <1>4, <1>5, <1>6 DEF Grows

\* Without debts the sum is no debt, and no part of it exceeds it.
LEMMA SumOverIsNat ==
    ASSUME NEW S, IsFiniteSet(S), NEW f, \A x \in S : f[x] \in Nat
    PROVE  /\ SumOver(f, S) \in Nat
           /\ \A x \in S : f[x] <= SumOver(f, S)
<1>1. PICK g : Sums(g, f, S, AnyOf(S)) /\ SumOver(f, S) = g[S]
  BY SumOverIsSum
<1>2. \A s \in SUBSET S : \A y \in s : g[s] = f[y] + g[s \ {y}]
  <2>1. \A y \in S : f[y] \in Int
    OBVIOUS
  <2>2. ByAny(g, f, S)
    BY <1>1, <2>1, AnyOrder
  <2> QED
    BY <2>2 DEF ByAny
<1>3. ASSUME NEW s \in SUBSET S
      PROVE  g[s] \in Nat
  <2> DEFINE bad == {r \in SUBSET S : g[r] \notin Nat}
  <2> SUFFICES ASSUME bad # {} PROVE FALSE
    OBVIOUS
  <2>1. PICK r \in bad : \A x \in r : r \ {x} \notin bad
    BY Minimal
  <2>2. CASE r = {}
    BY <1>1, <2>1, <2>2 DEF Sums
  <2>3. CASE r # {}
    <3>1. PICK x \in r : g[r] = f[x] + g[r \ {x}]
      BY <1>2, <2>1, <2>3
    <3>2. g[r \ {x}] \in Nat /\ f[x] \in Nat
      BY <2>1, <3>1
    <3> QED
      BY <2>1, <3>1, <3>2
  <2> QED
    BY <2>2, <2>3
<1>4. ASSUME NEW x \in S
      PROVE  f[x] <= g[S]
  <2>1. g[S] = f[x] + g[S \ {x}] /\ g[S \ {x}] \in Nat
    BY <1>2, <1>3
  <2> QED
    BY <2>1
<1> QED
  BY <1>1, <1>3, <1>4

\* Nothing adds up to nothing.
LEMMA SumOverZeros ==
    ASSUME NEW S, IsFiniteSet(S), NEW f, \A x \in S : f[x] = 0
    PROVE  SumOver(f, S) = 0
<1>1. \A x \in S : f[x] \in Int
  OBVIOUS
<1>2. PICK g : Sums(g, f, S, AnyOf(S)) /\ SumOver(f, S) = g[S]
  BY <1>1, SumOverIsSum
<1>3. \A s \in SUBSET S : \A x \in s : g[s] = f[x] + g[s \ {x}]
  <2>1. ByAny(g, f, S)
    BY <1>1, <1>2, AnyOrder
  <2> QED
    BY <2>1 DEF ByAny
<1> DEFINE bad == {s \in SUBSET S : g[s] # 0}
<1>4. ASSUME bad # {} PROVE FALSE
  <2>1. PICK s \in bad : \A x \in s : s \ {x} \notin bad
    BY <1>4, Minimal
  <2>2. CASE s = {}
    BY <1>2, <2>1, <2>2 DEF Sums
  <2>3. ASSUME NEW x \in s PROVE FALSE
    <3>1. g[s] = f[x] + g[s \ {x}] /\ f[x] = 0 /\ g[s \ {x}] = 0
      BY <1>3, <2>1
    <3> QED
      BY <2>1, <3>1
  <2> QED
    BY <2>2, <2>3
<1> QED
  BY <1>2, <1>4

\* A part of the set makes no more than the whole.
LEMMA SumOverPart ==
    ASSUME NEW T, IsFiniteSet(T), NEW S \in SUBSET T, NEW f, \A x \in T : f[x] \in Nat
    PROVE  SumOver(f, S) <= SumOver(f, T)
<1> DEFINE bad == {s \in SUBSET (T \ S) : ~(SumOver(f, S) <= SumOver(f, S \cup s))}
<1>1. /\ IsFiniteSet(T \ S) /\ IsFiniteSet(S)
      /\ \A s \in SUBSET (T \ S) : IsFiniteSet(S \cup s)
  BY FS_Subset
<1>2. \A s \in SUBSET (T \ S) : SumOver(f, S \cup s) \in Nat
  BY <1>1, SumOverIsNat
<1>3. SumOver(f, S) \in Nat
  BY <1>1, SumOverIsNat
<1>4. ASSUME bad # {} PROVE FALSE
  <2>1. PICK s \in bad : \A x \in s : s \ {x} \notin bad
    BY <1>1, <1>4, Minimal
  <2>2. s # {}
    <3>1. S \cup {} = S
      OBVIOUS
    <3>2. SumOver(f, S) <= SumOver(f, S)
      BY <1>3
    <3> QED
      BY <2>1, <3>1, <3>2
  <2>3. PICK x \in s : TRUE
    BY <2>2
  <2>4. PICK R : R = S \cup (s \ {x})
    OBVIOUS
  <2>5. SumOver(f, S) <= SumOver(f, R) /\ SumOver(f, R) \in Nat
    BY <1>2, <2>1, <2>3, <2>4
  <2>6. IsFiniteSet(R) /\ x \notin R /\ S \cup s = R \cup {x}
    BY <1>1, <2>1, <2>3, <2>4
  <2>7. Grows(f, R, f, S \cup s, x)
    <3>1. \A y \in R : f[y] \in Int /\ f[y] = f[y]
      BY <2>1, <2>4
    <3>2. f[x] \in Int
      BY <2>1, <2>3
    <3> QED
      BY <2>6, <3>1, <3>2, SumOverOneMore
  <2>8. f[x] \in Nat
    BY <2>1, <2>3
  <2>9. SumOver(f, S) <= SumOver(f, S \cup s)
    BY <1>3, <2>5, <2>7, <2>8 DEF Grows
  <2> QED
    BY <2>1, <2>9
<1>5. T = S \cup (T \ S)
  OBVIOUS
<1> QED
  BY <1>4, <1>5

\* What exceeds another function by k at most sums up to k more for each element.
AtMost(f, k, g, S) == SumOver(f, S) <= k * Cardinality(S) + SumOver(g, S)

LEMMA SumOverAtMost ==
    ASSUME NEW S, IsFiniteSet(S), NEW f, NEW g, NEW k \in Nat,
           \A x \in S : f[x] \in Nat /\ g[x] \in Nat /\ f[x] <= k + g[x]
    PROVE  AtMost(f, k, g, S)
<1> DEFINE bad == {s \in SUBSET S : ~AtMost(f, k, g, s)}
<1>1. \A s \in SUBSET S : IsFiniteSet(s) /\ Cardinality(s) \in Nat
  BY FS_Subset, FS_CardinalityType
<1>2. \A s \in SUBSET S : SumOver(f, s) \in Nat
  BY <1>1, SumOverIsNat
<1>3. \A s \in SUBSET S : SumOver(g, s) \in Nat
  BY <1>1, SumOverIsNat
<1>4. ASSUME bad # {} PROVE FALSE
  <2>1. PICK s \in bad : \A x \in s : s \ {x} \notin bad
    BY <1>4, Minimal
  <2>2. s # {}
    <3>1. SumOver(f, {}) = 0 /\ SumOver(g, {}) = 0 /\ Cardinality({}) = 0
      BY SumOverNothing, FS_EmptySet
    <3>2. AtMost(f, k, g, {})
      BY <3>1 DEF AtMost
    <3> QED
      BY <2>1, <3>2
  <2>3. PICK x \in s : TRUE
    BY <2>2
  <2>4. PICK r : r = s \ {x}
    OBVIOUS
  <2>5. r \in SUBSET S /\ x \notin r /\ s = r \cup {x} /\ IsFiniteSet(r) /\ AtMost(f, k, g, r)
    BY <1>1, <2>1, <2>3, <2>4
  <2>6. Grows(f, r, f, s, x) /\ Grows(g, r, g, s, x)
    <3>1. /\ \A y \in r : f[y] \in Int /\ f[y] = f[y] /\ g[y] \in Int /\ g[y] = g[y]
          /\ f[x] \in Int /\ g[x] \in Int
      BY <2>1, <2>3, <2>5
    <3> QED
      BY <2>5, <3>1, SumOverOneMore
  <2>7. PICK m \in Nat : Cardinality(r) = m /\ Cardinality(s) = m + 1
    BY <1>1, <2>5, FS_AddElement
  <2>8. PICK a \in Nat, b \in Nat, A \in Nat, B \in Nat :
           /\ a = f[x] /\ b = g[x] /\ A = SumOver(f, r) /\ B = SumOver(g, r) /\ a <= k + b
    BY <1>2, <1>3, <2>1, <2>3, <2>5
  <2>9. A <= k * m + B
    BY <2>5, <2>7, <2>8 DEF AtMost
  <2>10. PICK km \in Nat : km = k * m /\ k * (m + 1) = km + k
    OBVIOUS
  <2>11. a + A <= k * (m + 1) + (b + B)
    BY <2>8, <2>9, <2>10
  <2> QED
    BY <2>1, <2>6, <2>7, <2>8, <2>11 DEF AtMost, Grows
<1> QED
  BY <1>4

\* What the library folds f with + by.
Folding(g, f, S) ==
    g = [s \in SUBSET S |-> IF s = {} THEN 0
                            ELSE f[CHOOSE x \in s : TRUE] + g[s \ {CHOOSE x \in s : TRUE}]]

\* What that comes to.
LEMMA FoldIsSumOver ==
    ASSUME NEW S, IsFiniteSet(S), NEW f, \A x \in S : f[x] \in Int, NEW g, Folding(g, f, S)
    PROVE  g[S] = SumOver(f, S)
<1>1. PICK pick : pick = AnyOf(S)
  OBVIOUS
<1>2. \A s \in SUBSET S : s # {} => pick[s] \in s /\ pick[s] = CHOOSE x \in s : TRUE
  BY <1>1, AnyIsMember
<1>3. g = [s \in SUBSET S |-> IF s = {} THEN 0 ELSE f[pick[s]] + g[s \ {pick[s]}]]
  <2>1. ASSUME NEW s \in SUBSET S
        PROVE  g[s] = IF s = {} THEN 0 ELSE f[pick[s]] + g[s \ {pick[s]}]
    <3>1. g[s] = IF s = {} THEN 0
                 ELSE f[CHOOSE x \in s : TRUE] + g[s \ {CHOOSE x \in s : TRUE}]
      BY Zenon DEF Folding
    <3> QED
      BY <1>2, <3>1
  <2>2. DOMAIN g = SUBSET S /\ g = [s \in DOMAIN g |-> g[s]]
    BY DEF Folding
  <2> QED
    BY <2>1, <2>2, Zenon
<1>4. Sums(g, f, S, pick)
  BY <1>2, <1>3, FoldIsSums
<1>5. PICK k : Sums(k, f, S, AnyOf(S)) /\ SumOver(f, S) = k[S]
  BY SumOverIsSum
<1>6. g[S] = k[S]
  BY <1>1, <1>4, <1>5, SumsAgree
<1> QED
  BY <1>5, <1>6

\* And that there is such a folding.
LEMMA SumOverIsFold ==
    ASSUME NEW S, IsFiniteSet(S), NEW f, \A x \in S : f[x] \in Int
    PROVE  \E g : Folding(g, f, S)
<1>1. \A s \in SUBSET S : s # {} => AnyOf(S)[s] \in s
  BY AnyIsMember
<1>2. PICK g : Sums(g, f, S, AnyOf(S))
  BY <1>1, SumsExist
<1>3. ASSUME NEW s \in SUBSET S
      PROVE  g[s] = IF s = {} THEN 0
                    ELSE f[CHOOSE x \in s : TRUE] + g[s \ {CHOOSE x \in s : TRUE}]
  BY <1>2, AnyIsMember DEF Sums
<1>4. g \in [SUBSET S -> Int]
  BY <1>2 DEF Sums
<1>5. Folding(g, f, S)
  BY <1>3, <1>4 DEF Folding
<1> QED
  BY <1>5
=============================================================================

------------------------- MODULE StorageDataProofs -------------------------
(***************************************************************************)
(* What the folds of the storage models compute, for every input: a sum    *)
(* over a finite set does not depend on the order, a batch is the effect   *)
(* of its items one after the other.  The induction theorems of the        *)
(* library take a predicate as a parameter; here a least element does.     *)
(***************************************************************************)
EXTENDS StorageData, FiniteSetTheorems, WellFoundedInduction, TLAPS

----------------------------------------------------------------------------
(* Induction.                                                              *)

\* A set of naturals that is not empty has a least element.
LEMMA LeastNatural ==
    ASSUME NEW Bad \in SUBSET Nat, Bad # {}
    PROVE  \E n \in Bad : \A m \in Bad : n <= m
<1> DEFINE R == {p \in Nat \X Nat : p[1] < p[2]}
<1>1. IsWellFoundedOn(R, Nat)
  BY NatLessThanWellFounded DEF OpToRel
<1>2. PICK n \in Bad : \A m \in Bad : <<m, n>> \notin R
  <2> HIDE DEF R
  <2> QED
    BY <1>1, WFMin
<1>3. \A m \in Bad : ~(m < n)
  BY <1>2
<1> QED
  BY <1>3

\* What holds of 0 and goes from each natural to the next holds of all.
LEMMA NatsByInduction ==
    ASSUME NEW A, 0 \in A, \A n \in Nat : n \in A => n + 1 \in A
    PROVE  Nat \subseteq A
<1>1. SUFFICES ASSUME Nat \ A # {} PROVE FALSE
  OBVIOUS
<1>2. PICK n \in Nat \ A : \A m \in Nat \ A : n <= m
  BY <1>1, LeastNatural, Nat \ A \in SUBSET Nat
<1>3. n - 1 \in Nat
  BY <1>2
<1> QED
  BY <1>2, <1>3

\* A set of subsets of a finite set that is not empty has a minimal element.
LEMMA MinimalSubset ==
    ASSUME NEW S, IsFiniteSet(S), NEW Bad \in SUBSET (SUBSET S), Bad # {}
    PROVE  \E t \in Bad : \A u \in Bad : u \subseteq t => u = t
<1>1. Bad \subseteq FiniteSubsetsOf(S)
  BY FS_Subset DEF FiniteSubsetsOf
<1>2. PICK t \in Bad : \A u \in Bad : <<u, t>> \notin StrictSubsetOrdering(S)
  BY <1>1, FS_StrictSubsetOrderingWellFounded, WFMin
<1> QED
  BY <1>2 DEF StrictSubsetOrdering

----------------------------------------------------------------------------
(* The folds over sets: the recursive function inside MapThenFoldSet.      *)

\* g is the fold over the subsets of S: c chooses the next element of a set, step
\* takes it and the fold of the rest.
IsFold(g, S, base, c, step) ==
    g = [s \in SUBSET S |-> IF s = {} THEN base ELSE step[<<c[s], g[s \ {c[s]}]>>]]

\* There is such a function, so the CHOOSE of its definition is one.
LEMMA FoldExists ==
    ASSUME NEW S, IsFiniteSet(S), NEW V, NEW base \in V,
           NEW step, \A x \in S, v \in V : step[<<x, v>>] \in V,
           NEW c, \A s \in SUBSET S : s # {} => c[s] \in s
    PROVE  \E g \in [SUBSET S -> V] : IsFold(g, S, base, c, step)
<1> DEFINE Upto(n) == {s \in SUBSET S : Cardinality(s) <= n}
           Body(g, s) == IF s = {} THEN base ELSE step[<<c[s], g[s \ {c[s]}]>>]
           A == {n \in Nat : \E g \in [Upto(n) -> V] : \A s \in Upto(n) : g[s] = Body(g, s)}
<1>0. \A s \in SUBSET S : IsFiniteSet(s) /\ Cardinality(s) \in Nat
  BY FS_Subset, FS_CardinalityType
<1>1. 0 \in A
  <2>1. \A s \in Upto(0) : s = {}
    BY <1>0, FS_EmptySet
  <2> DEFINE g == [s \in Upto(0) |-> base]
  <2>2. g \in [Upto(0) -> V] /\ \A s \in Upto(0) : g[s] = Body(g, s)
    BY <2>1
  <2> QED
    BY <2>2
<1>2. ASSUME NEW n \in Nat, n \in A PROVE n + 1 \in A
  <2>1. PICK g \in [Upto(n) -> V] : \A s \in Upto(n) : g[s] = Body(g, s)
    BY <1>2
  <2> DEFINE h == [s \in Upto(n + 1) |-> Body(g, s)]
  <2>2. ASSUME NEW s \in Upto(n + 1), s # {}
        PROVE  s \ {c[s]} \in Upto(n) /\ c[s] \in S
    <3>1. s \in SUBSET S /\ c[s] \in s /\ IsFiniteSet(s) /\ Cardinality(s) \in Nat
      BY <1>0, <2>2
    <3>2. Cardinality(s \ {c[s]}) = Cardinality(s) - 1
      BY <3>1, FS_RemoveElement
    <3> QED
      BY <3>1, <3>2
  <2>3. h \in [Upto(n + 1) -> V]
    <3>1. ASSUME NEW s \in Upto(n + 1) PROVE Body(g, s) \in V
      <4>1. CASE s = {}
        BY <4>1
      <4>2. CASE s # {}
        BY <2>1, <2>2, <4>2
      <4> QED
        BY <4>1, <4>2
    <3> QED
      BY <3>1
  <2>4. ASSUME NEW s \in Upto(n) PROVE s \in Upto(n + 1) /\ h[s] = g[s]
    <3>1. s \in SUBSET S /\ Cardinality(s) <= n /\ Cardinality(s) \in Nat
      BY <1>0, <2>4
    <3>2. s \in Upto(n + 1)
      BY <3>1
    <3> HIDE DEF Upto
    <3> QED
      BY <2>1, <2>4, <3>2
  <2>5. ASSUME NEW s \in Upto(n + 1) PROVE h[s] = Body(h, s)
    BY <2>2, <2>4
  <2>6. n + 1 \in Nat
    OBVIOUS
  <2> HIDE DEF Upto, Body, h
  <2> QED
    BY <2>3, <2>5, <2>6
<1>3. Cardinality(S) \in Nat /\ Upto(Cardinality(S)) = SUBSET S
  BY FS_Subset, FS_CardinalityType
<1>4. Cardinality(S) \in A
  <2> HIDE DEF A
  <2> QED
    BY <1>1, <1>2, <1>3, NatsByInduction
<1>5. PICK g \in [SUBSET S -> V] : \A s \in SUBSET S : g[s] = Body(g, s)
  BY <1>3, <1>4
<1>6. g = [s \in SUBSET S |-> Body(g, s)]
  BY <1>5
<1> QED
  BY <1>6 DEF IsFold

\* On the sets both are defined for, two folds with the same parameters agree.
LEMMA FoldUnique ==
    ASSUME NEW S, IsFiniteSet(S), NEW T \in SUBSET S, NEW base, NEW step,
           NEW c, \A s \in SUBSET S : s # {} => c[s] \in s,
           NEW g, IsFold(g, S, base, c, step), NEW h, IsFold(h, T, base, c, step)
    PROVE  \A s \in SUBSET T : g[s] = h[s]
<1> DEFINE Bad == {s \in SUBSET T : g[s] # h[s]}
<1>1. SUFFICES ASSUME Bad # {} PROVE FALSE
  OBVIOUS
<1>2. PICK t \in Bad : \A u \in Bad : u \subseteq t => u = t
  <2>1. IsFiniteSet(T) /\ Bad \in SUBSET (SUBSET T)
    BY FS_Subset
  <2> HIDE DEF Bad
  <2> QED
    BY <1>1, <2>1, MinimalSubset
<1>3. /\ \A s \in SUBSET S : g[s] = IF s = {} THEN base ELSE step[<<c[s], g[s \ {c[s]}]>>]
      /\ \A s \in SUBSET T : h[s] = IF s = {} THEN base ELSE step[<<c[s], h[s \ {c[s]}]>>]
  <2>1. g = [s \in SUBSET S |-> IF s = {} THEN base ELSE step[<<c[s], g[s \ {c[s]}]>>]]
    BY DEF IsFold
  <2>2. h = [s \in SUBSET T |-> IF s = {} THEN base ELSE step[<<c[s], h[s \ {c[s]}]>>]]
    BY DEF IsFold
  <2> QED
    BY <2>1, <2>2, Zenon
<1>4. t # {} /\ c[t] \in t
  BY <1>2, <1>3
<1>5. t \ {c[t]} \notin Bad /\ t \ {c[t]} \in SUBSET T
  BY <1>2, <1>4
<1>6. g[t \ {c[t]}] = h[t \ {c[t]}]
  BY <1>5
<1> QED
  BY <1>2, <1>3, <1>4, <1>6

----------------------------------------------------------------------------
(* Sums.                                                                   *)

\* The next element of a sum over s.
Chosen(S) == [s \in SUBSET S |-> CHOOSE x \in s : TRUE]
Plus(f, S) == [p \in S \X Int |-> f[p[1]] + p[2]]

\* The sum is the fold of the addition.
LEMMA SumIsFold ==
    ASSUME NEW S, IsFiniteSet(S), NEW T \in SUBSET S, NEW f, \A x \in S : f[x] \in Int
    PROVE  \E g \in [SUBSET T -> Int] :
             IsFold(g, T, 0, Chosen(S), Plus(f, S)) /\ SumFunctionOnSet(f, T) = g[T]
<1> DEFINE next(s) == CHOOSE x \in s : TRUE
           Rest(g) == [s \in SUBSET T |->
                         IF s = {} THEN 0 ELSE f[next(s)] + g[s \ {next(s)}]]
           iter == CHOOSE g : g = Rest(g)
<1>1. SumFunctionOnSet(f, T) = iter[T]
  BY DEF SumFunctionOnSet, FoldFunctionOnSet, MapThenFoldSet
<1>2. \A s \in SUBSET T : s # {} => next(s) \in s /\ Chosen(S)[s] = next(s)
  BY DEF Chosen
<1> HIDE DEF next
<1>3. PICK h \in [SUBSET T -> Int] : IsFold(h, T, 0, Chosen(S), Plus(f, S))
  <2>1. (\A x \in T, v \in Int : Plus(f, S)[<<x, v>>] \in Int) /\ 0 \in Int
    BY DEF Plus
  <2>2. \A s \in SUBSET T : s # {} => Chosen(S)[s] \in s
    BY <1>2
  <2> QED
    BY <2>1, <2>2, FS_Subset, FoldExists
<1>4. h = Rest(h)
  <2>1. ASSUME NEW s \in SUBSET T, s # {}
        PROVE  Plus(f, S)[<<Chosen(S)[s], h[s \ {Chosen(S)[s]}]>>] = f[next(s)] + h[s \ {next(s)}]
    BY <1>2, <2>1 DEF Plus
  <2>2. h = [s \in SUBSET T |-> IF s = {} THEN 0
                               ELSE Plus(f, S)[<<Chosen(S)[s], h[s \ {Chosen(S)[s]}]>>]]
    BY <1>3 DEF IsFold
  <2> QED
    BY <2>1, <2>2
<1>5. iter = Rest(iter)
  <2> HIDE DEF Rest
  <2> QED
    BY <1>4
<1>6. iter[T] = h[T]
  <2> DEFINE Bad == {s \in SUBSET T : iter[s] # h[s]}
  <2>1. SUFFICES ASSUME Bad # {} PROVE FALSE
    OBVIOUS
  <2>2. PICK t \in Bad : \A u \in Bad : u \subseteq t => u = t
    <3> HIDE DEF Bad
    <3>1. Bad \in SUBSET (SUBSET T)
      BY DEF Bad
    <3> QED
      BY <2>1, <3>1, FS_Subset, MinimalSubset
  <2> HIDE DEF iter
  <2>3. /\ iter[t] = IF t = {} THEN 0 ELSE f[next(t)] + iter[t \ {next(t)}]
        /\ h[t] = IF t = {} THEN 0 ELSE f[next(t)] + h[t \ {next(t)}]
    <3>1. t \in SUBSET T
      BY <2>2
    <3>2. Rest(iter)[t] = IF t = {} THEN 0 ELSE f[next(t)] + iter[t \ {next(t)}]
      BY <3>1
    <3>3. Rest(h)[t] = IF t = {} THEN 0 ELSE f[next(t)] + h[t \ {next(t)}]
      BY <3>1
    <3> HIDE DEF Rest
    <3> QED
      BY <1>4, <1>5, <3>2, <3>3
  <2>4. t # {} /\ next(t) \in t /\ t \ {next(t)} \in SUBSET T
    BY <1>2, <2>2, <2>3
  <2>5. iter[t \ {next(t)}] = h[t \ {next(t)}]
    BY <2>2, <2>4
  <2> QED
    BY <2>2, <2>3, <2>4, <2>5
<1>. QED
  BY <1>1, <1>3, <1>6

\* The sum over no element.
LEMMA SumOfNone == \A f : SumFunctionOnSet(f, {}) = 0
<1> SUFFICES ASSUME NEW f PROVE SumFunctionOnSet(f, {}) = 0
  OBVIOUS
<1>1. PICK g \in [SUBSET {} -> Int] :
        IsFold(g, {}, 0, Chosen({}), Plus(f, {})) /\ SumFunctionOnSet(f, {}) = g[{}]
  <2>1. IsFiniteSet({}) /\ {} \in SUBSET {} /\ \A x \in {} : f[x] \in Int
    BY FS_EmptySet
  <2> QED
    BY <2>1, SumIsFold, Zenon
<1> QED
  BY <1>1 DEF IsFold

\* A sum of integers is an integer.
LEMMA SumIsInt ==
    ASSUME NEW S, IsFiniteSet(S), NEW f, \A x \in S : f[x] \in Int
    PROVE  SumFunctionOnSet(f, S) \in Int
<1>1. PICK g \in [SUBSET S -> Int] :
        IsFold(g, S, 0, Chosen(S), Plus(f, S)) /\ SumFunctionOnSet(f, S) = g[S]
  BY SumIsFold
<1> QED
  BY <1>1

\* Any element may be taken out first: addition commutes.
LEMMA SumTakeOut ==
    ASSUME NEW S, IsFiniteSet(S), NEW f, \A x \in S : f[x] \in Int, NEW x \in S
    PROVE  SumFunctionOnSet(f, S) = f[x] + SumFunctionOnSet(f, S \ {x})
<1>1. PICK g \in [SUBSET S -> Int] :
        IsFold(g, S, 0, Chosen(S), Plus(f, S)) /\ SumFunctionOnSet(f, S) = g[S]
  BY SumIsFold
<1>2. PICK h \in [SUBSET (S \ {x}) -> Int] :
        /\ IsFold(h, S \ {x}, 0, Chosen(S), Plus(f, S))
        /\ SumFunctionOnSet(f, S \ {x}) = h[S \ {x}]
  BY SumIsFold
<1> DEFINE c(s) == Chosen(S)[s]
<1>3. \A s \in SUBSET S : s # {} => c(s) \in s
  BY DEF Chosen
<1>4. \A s \in SUBSET S : g[s] = IF s = {} THEN 0 ELSE f[c(s)] + g[s \ {c(s)}]
  BY <1>1, <1>3 DEF IsFold, Plus
<1>5. g[S \ {x}] = h[S \ {x}]
  <2>1. \A s \in SUBSET (S \ {x}) : g[s] = h[s]
    BY <1>1, <1>2, <1>3, FoldUnique
  <2> QED
    BY <2>1
<1> HIDE DEF c
<1> DEFINE Bad == {s \in SUBSET S : \E y \in s : g[s] # f[y] + g[s \ {y}]}
<1>6. Bad = {}
  <2>1. SUFFICES ASSUME Bad # {} PROVE FALSE
    OBVIOUS
  <2>2. PICK t \in Bad : \A u \in Bad : u \subseteq t => u = t
    <3> HIDE DEF Bad
    <3>1. Bad \in SUBSET (SUBSET S)
      BY DEF Bad
    <3> QED
      BY <2>1, <3>1, MinimalSubset
  <2>3. PICK y \in t : g[t] # f[y] + g[t \ {y}]
    BY <2>2
  <2>4. t \in SUBSET S /\ c(t) \in t /\ y \in S /\ c(t) \in S
    BY <1>3, <2>2, <2>3
  <2>5. g[t] = f[c(t)] + g[t \ {c(t)}]
    BY <1>4, <2>3, <2>4
  <2>6. c(t) # y
    BY <2>3, <2>5
  <2>7. t \ {c(t)} \notin Bad /\ t \ {y} \notin Bad
    BY <2>2, <2>3, <2>4
  <2> DEFINE r == (t \ {y}) \ {c(t)}
  <2>8. g[t \ {c(t)}] = f[y] + g[r]
    <3>1. (t \ {c(t)}) \ {y} = r
      OBVIOUS
    <3> HIDE DEF r
    <3> QED
      BY <2>3, <2>4, <2>6, <2>7, <3>1
  <2>9. g[t \ {y}] = f[c(t)] + g[r]
    BY <2>3, <2>4, <2>6, <2>7
  <2>11. f[y] \in Int /\ f[c(t)] \in Int /\ g[r] \in Int
    BY <2>4
  <2> HIDE DEF r
  <2>12. g[t] = f[y] + g[t \ {y}]
    BY <2>5, <2>8, <2>9, <2>11
  <2> QED
    BY <2>3, <2>12
<1>7. g[S] = f[x] + g[S \ {x}]
  BY <1>6
<1> QED
  BY <1>1, <1>2, <1>5, <1>7

\* Only the values on the set count.
LEMMA SumCongruent ==
    ASSUME NEW S, IsFiniteSet(S), NEW f, NEW g,
           \A x \in S : f[x] \in Int /\ g[x] = f[x]
    PROVE  SumFunctionOnSet(f, S) = SumFunctionOnSet(g, S)
<1> DEFINE Bad == {s \in SUBSET S : SumFunctionOnSet(f, s) # SumFunctionOnSet(g, s)}
<1>1. SUFFICES ASSUME Bad # {} PROVE FALSE
  OBVIOUS
<1>2. PICK t \in Bad : \A u \in Bad : u \subseteq t => u = t
  <2> HIDE DEF Bad
  <2>1. Bad \in SUBSET (SUBSET S)
    BY DEF Bad
  <2> QED
    BY <1>1, <2>1, MinimalSubset
<1>3. t # {} /\ IsFiniteSet(t)
  BY <1>2, SumOfNone, FS_Subset
<1>4. PICK x \in t : TRUE
  BY <1>3
<1>5. t \ {x} \in SUBSET S /\ t \ {x} \notin Bad
  BY <1>2
<1>6. /\ SumFunctionOnSet(f, t) = f[x] + SumFunctionOnSet(f, t \ {x})
      /\ SumFunctionOnSet(g, t) = g[x] + SumFunctionOnSet(g, t \ {x})
  <2>1. \A y \in t : f[y] \in Int /\ g[y] \in Int
    BY <1>2
  <2> QED
    BY <1>3, <2>1, SumTakeOut
<1> QED
  BY <1>2, <1>5, <1>6

\* A sum of zeros.
LEMMA SumOfZeros ==
    ASSUME NEW S, IsFiniteSet(S), NEW f, \A x \in S : f[x] = 0
    PROVE  SumFunctionOnSet(f, S) = 0
<1> DEFINE Bad == {s \in SUBSET S : SumFunctionOnSet(f, s) # 0}
<1>1. SUFFICES ASSUME Bad # {} PROVE FALSE
  OBVIOUS
<1>2. PICK t \in Bad : \A u \in Bad : u \subseteq t => u = t
  <2> HIDE DEF Bad
  <2>1. Bad \in SUBSET (SUBSET S)
    BY DEF Bad
  <2> QED
    BY <1>1, <2>1, MinimalSubset
<1>3. t # {} /\ IsFiniteSet(t)
  BY <1>2, SumOfNone, FS_Subset
<1>4. PICK x \in t : TRUE
  BY <1>3
<1>5. t \ {x} \in SUBSET S /\ t \ {x} \notin Bad
  BY <1>2
<1>6. SumFunctionOnSet(f, t) = f[x] + SumFunctionOnSet(f, t \ {x})
  <2>1. \A y \in t : f[y] \in Int
    BY <1>2
  <2> QED
    BY <1>3, <2>1, SumTakeOut
<1> QED
  BY <1>2, <1>5, <1>6

----------------------------------------------------------------------------
(* Items of an update.                                                     *)

\* A sum wrapped around is a machine word.
LEMMA WrapType ==
    ASSUME NEW x \in Int
    PROVE  Wrap(x) \in Word
<1>1. Half \in Nat /\ 2 * Half \in Nat /\ 2 * Half > 0
  BY DataAssumption
<1>2. (x + Half) % (2 * Half) \in 0 .. 2 * Half - 1
  BY <1>1
<1> QED BY <1>1, <1>2 DEF Wrap, Word

\* A counter that is there, or not, plus a delta.
LEMMA SumType ==
    ASSUME NEW x \in Word \cup {Absent}, NEW y \in Word
    PROVE  Wrap(OrZero(x) + y) \in Word
<1>1. OrZero(x) + y \in Int
  BY DataAssumption DEF OrZero, Word
<1> QED BY <1>1, WrapType

\* The store of a counter.
LEMMA StoreType ==
    ASSUME NEW d \in Data, NEW n \in Names, NEW x \in Word
    PROVE  [d EXCEPT !.counter[n] = x] \in Data
BY DEF Data

\* An item leaves the maps maps of their types.
LEMMA ApplyItemType ==
    ASSUME NEW d \in Data, NEW it \in Item
    PROVE  ApplyItem(d, it) \in Data
<1>1. CASE it.val = Nil \/ it.type = "other"
  BY <1>1 DEF ApplyItem
<1>2. CASE it.val # Nil /\ it.type = "gauge"
  <2>1. it.val \in Values /\ it.name \in Names
    BY <1>2 DEF Item
  <2>2. ApplyItem(d, it) = [d EXCEPT !.gauge[it.name] = it.val]
    BY <1>2 DEF ApplyItem
  <2> QED BY <2>1, <2>2 DEF Data
<1>3. CASE it.val # Nil /\ it.type = "counter"
  <2>1. it.val \in Word /\ it.name \in Names
    BY <1>3 DEF Item
  <2>2. d.counter[it.name] \in Word \cup {Absent}
    BY <2>1 DEF Data
  <2>3. Wrap(OrZero(d.counter[it.name]) + it.val) \in Word
    BY <2>1, <2>2, SumType
  <2>4. ApplyItem(d, it)
          = [d EXCEPT !.counter[it.name] = Wrap(OrZero(d.counter[it.name]) + it.val)]
    BY <1>3 DEF ApplyItem
  <2> QED BY <2>1, <2>3, <2>4, StoreType
<1> QED BY <1>1, <1>2, <1>3 DEF Item

\* The greatest of some of the first n indices is one of them.
LEMMA GreatestOfSome ==
    ASSUME NEW n \in Nat, NEW s \in SUBSET (1 .. n), s # {}
    PROVE  Max(s) \in s /\ \A y \in s : Max(s) >= y
<1> DEFINE low == {n - x : x \in s}
<1>1. low \in SUBSET Nat /\ low # {}
  <2>1. \A x \in s : n - x \in Nat
    OBVIOUS
  <2> QED
    BY <2>1
<1>2. PICK m \in low : \A y \in low : m <= y
  <2> HIDE DEF low
  <2> QED
    BY <1>1, LeastNatural
<1>3. PICK x \in s : m = n - x
  OBVIOUS
<1>4. \A y \in s : x >= y
  <2> SUFFICES ASSUME NEW y \in s PROVE x >= y
    OBVIOUS
  <2>1. n - y \in low /\ x \in Int /\ y \in Int
    OBVIOUS
  <2>2. n - x <= n - y
    <3> HIDE DEF low
    <3> QED
      BY <1>2, <1>3, <2>1
  <2> QED
    BY <2>1, <2>2
<1> QED
  BY <1>4 DEF Max

\* f[k] is d after the first k items.
IsRun(f, d, items) ==
    /\ f \in [0 .. Len(items) -> Data] /\ f[0] = d
    /\ \A k \in 1 .. Len(items) : f[k] = ApplyItem(f[k - 1], items[k])

\* An update is a run over its items in order.
LEMMA ApplyAllIsRun ==
    ASSUME NEW d \in Data, NEW items \in Seq(Item)
    PROVE  \E f : IsRun(f, d, items) /\ ApplyAll(d, items) = f[Len(items)]
<1> DEFINE N == 1 .. Len(items)
           op(x, y) == ApplyItem(y, x)
           last(s) == Max(s)
           Rest(g) == [s \in SUBSET N |->
                         IF s = {} THEN d ELSE op(items[last(s)], g[s \ {last(s)}])]
           iter == CHOOSE g : g = Rest(g)
<1>1. ApplyAll(d, items) = iter[N] /\ Len(items) \in Nat /\ IsFiniteSet(N)
  <2>1. DOMAIN items = N /\ Len(items) \in Nat
    OBVIOUS
  <2>2. IsFiniteSet(N)
    BY <2>1, FS_Interval
  <2> QED
    BY <2>1, <2>2 DEF ApplyAll, FoldLeft, MapThenFoldSet
<1>2. ASSUME NEW s \in SUBSET N, s # {} PROVE last(s) \in s /\ \A y \in s : last(s) >= y
  BY <1>1, <1>2, GreatestOfSome
<1> HIDE DEF last
<1> DEFINE c == [s \in SUBSET N |-> last(s)]
           step == [p \in N \X Data |-> op(items[p[1]], p[2])]
<1>3. \A x \in N, v \in Data : step[<<x, v>>] = op(items[x], v) /\ step[<<x, v>>] \in Data
  BY ApplyItemType
<1>4. PICK h \in [SUBSET N -> Data] : IsFold(h, N, d, c, step)
  <2>1. \A x \in N, v \in Data : step[<<x, v>>] \in Data
    BY <1>3
  <2>2. \A s \in SUBSET N : s # {} => c[s] \in s
    BY <1>2
  <2> HIDE DEF N, c, step
  <2> QED
    BY <1>1, <2>1, <2>2, FoldExists
<1>5. h = Rest(h)
  <2>1. ASSUME NEW s \in SUBSET N, s # {}
        PROVE  step[<<c[s], h[s \ {c[s]}]>>] = op(items[last(s)], h[s \ {last(s)}])
    <3>1. c[s] = last(s) /\ last(s) \in N /\ h[s \ {last(s)}] \in Data
      BY <1>2, <2>1
    <3> HIDE DEF step, op, N
    <3> QED
      BY <1>3, <3>1
  <2>2. h = [s \in SUBSET N |-> IF s = {} THEN d ELSE step[<<c[s], h[s \ {c[s]}]>>]]
    BY <1>4 DEF IsFold
  <2> HIDE DEF step, op, N, c
  <2> QED
    BY <2>1, <2>2
<1>6. iter = Rest(iter)
  <2> HIDE DEF Rest
  <2> QED
    BY <1>5
<1> HIDE DEF iter
<1>7. \A s \in SUBSET N : iter[s] = IF s = {} THEN d ELSE op(items[last(s)], iter[s \ {last(s)}])
  <2>1. \A s \in SUBSET N :
           Rest(iter)[s] = IF s = {} THEN d ELSE op(items[last(s)], iter[s \ {last(s)}])
    OBVIOUS
  <2> HIDE DEF Rest, op
  <2> QED
    BY <1>6, <2>1
<1> DEFINE f == [k \in 0 .. Len(items) |-> iter[1 .. k]]
<1>8. f[0] = d
  <2>1. 1 .. 0 = {} /\ {} \in SUBSET N /\ 0 \in 0 .. Len(items)
    BY <1>1
  <2> QED
    BY <1>7, <2>1
<1>9. \A k \in N : f[k] = ApplyItem(f[k - 1], items[k])
  <2> SUFFICES ASSUME NEW k \in N PROVE f[k] = ApplyItem(f[k - 1], items[k])
    OBVIOUS
  <2>1. 1 .. k \in SUBSET N /\ 1 .. k # {} /\ k \in 1 .. k /\ k \in 0 .. Len(items)
        /\ k - 1 \in 0 .. Len(items)
    BY <1>1
  <2>2. last(1 .. k) = k
    <3>1. last(1 .. k) \in 1 .. k /\ last(1 .. k) >= k
      BY <1>2, <2>1
    <3> QED
      BY <3>1
  <2>3. (1 .. k) \ {k} = 1 .. (k - 1)
    OBVIOUS
  <2>4. iter[1 .. k] = op(items[k], iter[1 .. (k - 1)])
    BY <1>7, <2>1, <2>2, <2>3
  <2> QED
    BY <2>1, <2>4
<1>10. f \in [0 .. Len(items) -> Data]
  <2> DEFINE A == {n \in Nat : n <= Len(items) => f[n] \in Data}
  <2> HIDE DEF f
  <2>1. 0 \in A
    BY <1>8
  <2>2. ASSUME NEW n \in Nat, n \in A PROVE n + 1 \in A
    <3>1. CASE n + 1 <= Len(items)
      <4>1. n + 1 \in N /\ (n + 1) - 1 = n /\ items[n + 1] \in Item /\ f[n] \in Data
        BY <1>1, <2>2, <3>1
      <4>2. f[n + 1] = ApplyItem(f[n], items[n + 1])
        <5> HIDE DEF N
        <5> QED
          BY <1>9, <4>1
      <4> QED
        BY <4>1, <4>2, ApplyItemType
    <3> QED
      BY <3>1
  <2>3. Nat \subseteq A
    <3> HIDE DEF A
    <3> QED
      BY <2>1, <2>2, NatsByInduction
  <2>4. \A k \in 0 .. Len(items) : f[k] \in Data
    BY <1>1, <2>3
  <2> QED
    BY <2>4 DEF f
<1>11. ApplyAll(d, items) = f[Len(items)]
  BY <1>1
<1> HIDE DEF f
<1> QED
  BY <1>8, <1>9, <1>10, <1>11 DEF IsRun

\* Runs over the same items from the same data are the same.
LEMMA RunsAgree ==
    ASSUME NEW d, NEW s, NEW t, NEW f, IsRun(f, d, s), NEW g, IsRun(g, d, t),
           NEW n \in Nat, n <= Len(s), n <= Len(t), Len(s) \in Nat, Len(t) \in Nat,
           \A k \in 1 .. n : s[k] = t[k]
    PROVE  f[n] = g[n]
<1> DEFINE A == {k \in Nat : k <= n => f[k] = g[k]}
<1>1. 0 \in A
  BY DEF IsRun
<1>2. ASSUME NEW k \in Nat, k \in A PROVE k + 1 \in A
  <2>1. SUFFICES ASSUME k + 1 <= n PROVE f[k + 1] = g[k + 1]
    OBVIOUS
  <2>2. k + 1 \in 1 .. n /\ k + 1 \in 1 .. Len(s) /\ k + 1 \in 1 .. Len(t) /\ (k + 1) - 1 = k
    BY <2>1
  <2>3. f[k] = g[k]
    BY <1>2, <2>1
  <2>4. f[k + 1] = ApplyItem(f[k], s[k + 1]) /\ g[k + 1] = ApplyItem(g[k], t[k + 1])
    BY <2>2 DEF IsRun
  <2> QED
    BY <2>2, <2>3, <2>4
<1>3. Nat \subseteq A
  <2> HIDE DEF A
  <2> QED
    BY <1>1, <1>2, NatsByInduction
<1> QED
  BY <1>3

\* The data after the first k items of an update.
After(d, items, k) == ApplyAll(d, SubSeq(items, 1, k))

\* An update takes its items one after the other.
LEMMA ApplyAllItems ==
    ASSUME NEW d \in Data, NEW items \in Seq(Item)
    PROVE  /\ \A k \in 0 .. Len(items) : After(d, items, k) \in Data
           /\ After(d, items, 0) = d
           /\ \A k \in 1 .. Len(items) :
                After(d, items, k) = ApplyItem(After(d, items, k - 1), items[k])
           /\ ApplyAll(d, items) = After(d, items, Len(items))
<1>1. PICK f : IsRun(f, d, items) /\ ApplyAll(d, items) = f[Len(items)]
  BY ApplyAllIsRun
<1>2. ASSUME NEW k \in 0 .. Len(items) PROVE After(d, items, k) = f[k]
  <2> DEFINE s == SubSeq(items, 1, k)
  <2>1. s \in Seq(Item) /\ Len(s) = k /\ Len(items) \in Nat /\ k \in Nat
        /\ k <= Len(items) /\ \A i \in 1 .. k : s[i] = items[i]
    OBVIOUS
  <2> HIDE DEF s
  <2>2. PICK g : IsRun(g, d, s) /\ ApplyAll(d, s) = g[Len(s)]
    BY <2>1, ApplyAllIsRun
  <2>3. g[k] = f[k]
    BY <1>1, <2>1, <2>2, RunsAgree
  <2> QED
    BY <2>1, <2>2, <2>3 DEF After, s
<1>3. Len(items) \in Nat
  OBVIOUS
<1>4. f[0] = d /\ \A k \in 0 .. Len(items) : f[k] \in Data
  BY <1>1 DEF IsRun
<1>5. ASSUME NEW k \in 1 .. Len(items)
      PROVE  After(d, items, k) = ApplyItem(After(d, items, k - 1), items[k])
  <2>1. k \in 0 .. Len(items) /\ k - 1 \in 0 .. Len(items)
    BY <1>3
  <2>2. f[k] = ApplyItem(f[k - 1], items[k])
    BY <1>1 DEF IsRun
  <2>3. After(d, items, k) = f[k] /\ After(d, items, k - 1) = f[k - 1]
    BY <1>2, <2>1
  <2> QED
    BY <2>2, <2>3
<1>6. 0 \in 0 .. Len(items) /\ Len(items) \in 0 .. Len(items)
  BY <1>3
<1>7. After(d, items, 0) = d /\ ApplyAll(d, items) = After(d, items, Len(items))
  BY <1>1, <1>2, <1>4, <1>6
<1>8. \A k \in 0 .. Len(items) : After(d, items, k) \in Data
  BY <1>2, <1>4
<1> QED
  BY <1>5, <1>7, <1>8

\* The row an item writes, if it writes one.
WritesRow(it, t, n) == it.val # Nil /\ it.type = t /\ it.name = n

\* An item reads and writes its own row only.
LEMMA ApplyItemRow ==
    ASSUME NEW d \in Data, NEW e \in Data, NEW it \in Item,
           NEW t \in {"gauge", "counter"}, NEW n \in Names
    PROVE  /\ d[t][n] = e[t][n] => ApplyItem(d, it)[t][n] = ApplyItem(e, it)[t][n]
           /\ ~WritesRow(it, t, n) => ApplyItem(d, it)[t][n] = d[t][n]
<1> USE DEF WritesRow
<1>1. CASE it.val = Nil \/ it.type = "other"
  BY <1>1 DEF ApplyItem
<1>2. CASE it.val # Nil /\ it.type = "gauge"
  <2>1. /\ ApplyItem(d, it) = [d EXCEPT !.gauge[it.name] = it.val]
        /\ ApplyItem(e, it) = [e EXCEPT !.gauge[it.name] = it.val]
    BY <1>2 DEF ApplyItem
  <2>2. it.name \in Names
    BY <1>2 DEF Item
  <2> QED BY <1>2, <2>1, <2>2 DEF Data
<1>3. CASE it.val # Nil /\ it.type = "counter"
  <2>1. /\ ApplyItem(d, it)
             = [d EXCEPT !.counter[it.name] = Wrap(OrZero(d.counter[it.name]) + it.val)]
        /\ ApplyItem(e, it)
             = [e EXCEPT !.counter[it.name] = Wrap(OrZero(e.counter[it.name]) + it.val)]
    BY <1>3 DEF ApplyItem
  <2>2. it.name \in Names
    BY <1>3 DEF Item
  <2> QED BY <1>3, <2>1, <2>2 DEF Data
<1> QED BY <1>1, <1>2, <1>3 DEF Item

\* An update does to a row what it does to it in any other data with that row, and
\* nothing when no item writes it.
LEMMA ApplyAllRow ==
    ASSUME NEW d \in Data, NEW e \in Data, NEW items \in Seq(Item),
           NEW t \in {"gauge", "counter"}, NEW n \in Names, NEW m \in 0 .. Len(items)
    PROVE  /\ d[t][n] = e[t][n] => After(d, items, m)[t][n] = After(e, items, m)[t][n]
           /\ (\A i \in 1 .. m : ~WritesRow(items[i], t, n)) => After(d, items, m)[t][n] = d[t][n]
<1> DEFINE Same(k) == d[t][n] = e[t][n] => After(d, items, k)[t][n] = After(e, items, k)[t][n]
           Kept(k) == (\A i \in 1 .. m : ~WritesRow(items[i], t, n)) => After(d, items, k)[t][n] = d[t][n]
           A == {k \in Nat : k <= m => Same(k) /\ Kept(k)}
<1>1. 0 \in A
  BY ApplyAllItems
<1>2. ASSUME NEW k \in Nat, k \in A PROVE k + 1 \in A
  <2>1. SUFFICES ASSUME k + 1 <= m PROVE Same(k + 1) /\ Kept(k + 1)
    OBVIOUS
  <2>2. k + 1 \in 1 .. m /\ k + 1 \in 1 .. Len(items) /\ (k + 1) - 1 = k /\ k \in 0 .. Len(items)
    BY <2>1
  <2>3. Same(k) /\ Kept(k)
    BY <1>2, <2>1
  <2> DEFINE it == items[k + 1]
             dk == After(d, items, k)
             ek == After(e, items, k)
  <2>4. dk \in Data /\ ek \in Data /\ it \in Item
    BY <2>2, ApplyAllItems
  <2>5. After(d, items, k + 1) = ApplyItem(dk, it) /\ After(e, items, k + 1) = ApplyItem(ek, it)
    BY <2>2, ApplyAllItems
  <2>6. /\ dk[t][n] = ek[t][n] => ApplyItem(dk, it)[t][n] = ApplyItem(ek, it)[t][n]
        /\ ~WritesRow(it, t, n) => ApplyItem(dk, it)[t][n] = dk[t][n]
    <3> HIDE DEF dk, ek, it
    <3> QED
      BY <2>4, ApplyItemRow
  <2> QED
    BY <2>2, <2>3, <2>5, <2>6
<1>3. Nat \subseteq A
  <2> HIDE DEF A
  <2> QED
    BY <1>1, <1>2, NatsByInduction
<1> QED
  BY <1>3
=============================================================================

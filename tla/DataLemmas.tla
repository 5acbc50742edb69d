---------------------------- MODULE DataLemmas ------------------------------
(***************************************************************************)
(* Facts about the data the models share.  Induction over numbers and      *)
(* finite sets is stated with sets in place of predicates, so that the     *)
(* provers can use it, and applied to the recursive definitions the models *)
(* take from the community modules.                                        *)
(***************************************************************************)
EXTENDS Filtering, FunctionTheorems, FiniteSetTheorems, SequenceTheorems, TLAPS

\* A set that holds 0 and the successor of each number it holds has every
\* natural number.
LEMMA NaturalsFromZero ==
    ASSUME NEW S, 0 \in S, \A n \in Nat : n \in S => n + 1 \in S
    PROVE  Nat \subseteq S
<1> DEFINE R == {pair \in Nat \X Nat : pair[1] < pair[2]}
           Rest == Nat \ S
<1>1. SUFFICES ASSUME Rest # {} PROVE FALSE
    OBVIOUS
<1>2. PICK x \in Rest : \A y \in Rest : ~(<<y, x>> \in R)
    <2>1. IsWellFoundedOn(R, Nat)
        BY NatLessThanWellFounded DEF OpToRel
    <2>2. Rest \subseteq Nat
        OBVIOUS
    <2> HIDE DEF R, Rest
    <2> QED  BY <1>1, <2>1, <2>2, WFMin
<1>3. x \in Nat /\ x # 0
    OBVIOUS
<1>4. x - 1 \in Nat /\ x - 1 < x
    BY <1>3
<1>5. <<x - 1, x>> \in R
    BY <1>3, <1>4
<1>6. x - 1 \in S
    BY <1>2, <1>4, <1>5
<1>7. (x - 1) + 1 \in S
    BY <1>4, <1>6
<1> QED  BY <1>3, <1>7

\* A nonempty set of natural numbers with a bound has a greatest element.
LEMMA Greatest ==
    ASSUME NEW n \in Nat, NEW S \in SUBSET (0..n), S # {}
    PROVE  \E x \in S : \A y \in S : x >= y
<1> DEFINE Good == {k \in Nat : \A T \in SUBSET (0..k) :
                        T # {} => \E x \in T : \A y \in T : x >= y}
<1>1. 0 \in Good
    <2>1. SUFFICES ASSUME NEW T \in SUBSET (0..0), T # {}
                   PROVE  \E x \in T : \A y \in T : x >= y
        OBVIOUS
    <2>2. \A y \in 0..0 : y = 0
        OBVIOUS
    <2>3. \A y \in T : y = 0
        BY <2>2
    <2>4. 0 >= 0
        OBVIOUS
    <2> QED  BY <2>1, <2>3, <2>4
<1>2. ASSUME NEW k \in Nat, k \in Good PROVE k + 1 \in Good
    <2>1. SUFFICES ASSUME NEW T \in SUBSET (0..k + 1), T # {}
                   PROVE  \E x \in T : \A y \in T : x >= y
        OBVIOUS
    <2>2. CASE k + 1 \in T
        BY <2>2
    <2>3. CASE k + 1 \notin T
        <3>1. T \in SUBSET (0..k)
            BY <2>3
        <3> QED  BY <1>2, <2>1, <3>1
    <2> QED  BY <2>2, <2>3
<1>3. Nat \subseteq Good
    <2> HIDE DEF Good
    <2> QED  BY <1>1, <1>2, NaturalsFromZero
<1> QED  BY <1>3

\* A set of subsets of a finite set that holds each subset whose members,
\* one taken out, it holds, has them all.
LEMMA SubsetsFromSmaller ==
    ASSUME NEW S, IsFiniteSet(S), NEW Holds,
           \A T \in SUBSET S : (\A x \in T : T \ {x} \in Holds) => T \in Holds
    PROVE  SUBSET S \subseteq Holds
<1> DEFINE R == StrictSubsetOrdering(S)
           Rest == (SUBSET S) \ Holds
<1>1. SUFFICES ASSUME Rest # {} PROVE FALSE
    OBVIOUS
<1>2. IsWellFoundedOn(R, SUBSET S)
    BY FS_StrictSubsetOrderingWellFounded, FS_FiniteSubsetsOfFinite
<1>3. PICK T \in Rest : \A U \in Rest : ~(<<U, T>> \in R)
    <2>1. Rest \subseteq SUBSET S
        OBVIOUS
    <2> HIDE DEF R, Rest
    <2> QED  BY <1>1, <1>2, <2>1, WFMin
<1>4. ASSUME NEW x \in T PROVE T \ {x} \in Holds
    <2>1. <<T \ {x}, T>> \in R
        BY DEF StrictSubsetOrdering
    <2> QED  BY <1>3, <2>1
<1> QED  BY <1>4

-----------------------------------------------------------------------------
(* Filtered lists *)

\* The k-th smallest element of a finite set of naturals exists and is unique,
\* and ranks grow with the elements.
LEMMA Ranks ==
    ASSUME NEW S, S \subseteq Nat, IsFiniteSet(S)
    PROVE  /\ Cardinality(S) \in Nat
           /\ \A i \in S : RankIn(S, i) \in 1..Cardinality(S)
           /\ \A i, j \in S : i < j => RankIn(S, i) < RankIn(S, j)
           /\ \A k \in 1..Cardinality(S) : \E i \in S : RankIn(S, i) = k
<1> DEFINE UpTo(i) == {j \in S : j <= i}
           n == Cardinality(S)
           rank == [i \in S |-> RankIn(S, i)]
<1>1. n \in Nat
  BY FS_CardinalityType
<1>2. ASSUME NEW i \in S
      PROVE  IsFiniteSet(UpTo(i)) /\ Cardinality(UpTo(i)) \in 0..n
  <2>1. UpTo(i) \in SUBSET S
    OBVIOUS
  <2>2. IsFiniteSet(UpTo(i)) /\ Cardinality(UpTo(i)) <= n
    BY <2>1, FS_Subset
  <2>3. Cardinality(UpTo(i)) \in Nat
    BY <2>2, FS_CardinalityType
  <2> QED
    BY <1>1, <2>2, <2>3
<1>3. ASSUME NEW i \in S, NEW j \in S, i < j
      PROVE  RankIn(S, i) < RankIn(S, j)
  <2>1. UpTo(i) \in SUBSET UpTo(j) /\ j \in UpTo(j) /\ j \notin UpTo(i)
    <3>1. i \in Nat /\ j \in Nat /\ \A l \in S : l \in Nat
      OBVIOUS
    <3>2. \A l \in S : l <= i => l <= j
      BY <1>3, <3>1
    <3>3. j <= j /\ ~(j <= i)
      BY <1>3, <3>1
    <3> QED
      BY <3>2, <3>3
  <2>2. Cardinality(UpTo(i)) <= Cardinality(UpTo(j))
    BY <1>2, <2>1, FS_Subset
  <2>3. Cardinality(UpTo(i)) # Cardinality(UpTo(j))
    BY <1>2, <2>1, FS_Subset
  <2> QED
    BY <1>2, <2>2, <2>3 DEF RankIn
<1>4. ASSUME NEW i \in S
      PROVE  RankIn(S, i) \in 1..n
  <2>1. i \in UpTo(i)
    BY <1>4
  <2>2. Cardinality(UpTo(i)) # 0
    BY <1>2, <2>1, FS_EmptySet
  <2> QED
    BY <1>1, <1>2, <2>2 DEF RankIn
<1>5. rank \in Injection(S, 1..n)
  <2>1. rank \in [S -> 1..n]
    BY <1>4
  <2>2. \A i, j \in S : rank[i] = rank[j] => i = j
    <3> SUFFICES ASSUME NEW i \in S, NEW j \in S, i # j
                 PROVE  rank[i] # rank[j]
      OBVIOUS
    <3>1. i \in Nat /\ j \in Nat
      OBVIOUS
    <3>2. CASE i < j
      BY <1>3, <1>4, <1>1, <3>2
    <3>3. CASE j < i
      BY <1>3, <1>4, <1>1, <3>3
    <3> QED
      BY <3>1, <3>2, <3>3
  <2> QED
    BY <2>1, <2>2 DEF Injection, IsInjective
<1>6. ASSUME NEW k \in 1..n
      PROVE  \E i \in S : RankIn(S, i) = k
  <2> DEFINE T == {rank[i] : i \in S}
  <2>1. T \in SUBSET (1..n)
    BY <1>4
  <2>2. rank \in Surjection(S, T)
    BY <1>5 DEF Surjection, Injection
  <2>3. rank \in Injection(S, T)
    BY <1>5, <2>2 DEF Surjection, Injection, IsInjective
  <2>4. Cardinality(T) = n
    BY <2>2, <2>3, FS_Surjection
  <2>5. IsFiniteSet(1..n) /\ Cardinality(1..n) = n
    BY <1>1, FS_Interval
  <2>6. T = 1..n
    BY <2>1, <2>4, <2>5, FS_Subset
  <2> QED
    BY <2>6
<1> QED
  BY <1>1, <1>3, <1>4, <1>6

\* What a filter returns: a list made of the entries at the positions given,
\* each at a place that respects their old order.
LEMMA EntriesKept ==
    ASSUME NEW T, NEW list \in Seq(T), NEW S \in SUBSET (1..Len(list))
    PROVE  /\ EntriesAt(list, S) \in Seq(T)
           /\ Cardinality(S) \in Nat /\ Len(EntriesAt(list, S)) = Cardinality(S)
           /\ \A k \in 1..Cardinality(S) :
                 \E i \in S : RankIn(S, i) = k /\ EntriesAt(list, S)[k] = list[i]
           /\ \A i \in S : /\ RankIn(S, i) \in 1..Cardinality(S)
                           /\ EntriesAt(list, S)[RankIn(S, i)] = list[i]
           /\ \A i, j \in S : i < j => RankIn(S, i) < RankIn(S, j)
<1> DEFINE n == Cardinality(S)
           pick(k) == CHOOSE i \in S : RankIn(S, i) = k
           kept == [k \in 1..n |-> list[pick(k)]]
<1>1. IsFiniteSet(1..Len(list))
  BY FS_Interval, LenProperties
<1>2. S \subseteq Nat /\ IsFiniteSet(S)
  <2>1. S \subseteq Nat
    OBVIOUS
  <2> QED
    BY <1>1, <2>1, FS_Subset
<1>3. /\ n \in Nat
      /\ \A i \in S : RankIn(S, i) \in 1..n
      /\ \A i, j \in S : i < j => RankIn(S, i) < RankIn(S, j)
      /\ \A k \in 1..n : \E i \in S : RankIn(S, i) = k
  BY <1>2, Ranks
<1>4. \A i, j \in S : RankIn(S, i) = RankIn(S, j) => i = j
  <2> SUFFICES ASSUME NEW i \in S, NEW j \in S, i # j
               PROVE  RankIn(S, i) # RankIn(S, j)
    OBVIOUS
  <2>1. i \in Nat /\ j \in Nat
    BY <1>2
  <2>2. RankIn(S, i) \in Nat /\ RankIn(S, j) \in Nat
    BY <1>3
  <2> QED
    BY <1>3, <2>1, <2>2
<1>5. ASSUME NEW k \in 1..n
      PROVE  pick(k) \in S /\ RankIn(S, pick(k)) = k
  BY <1>3
<1>6. EntriesAt(list, S) = kept
  BY DEF EntriesAt
<1>7. \A k \in 1..n : kept[k] = list[pick(k)] /\ list[pick(k)] \in T
  BY <1>5, ElementOfSeq
<1>8. kept \in Seq(T) /\ Len(kept) = n
  <2>1. kept \in [1..n -> T]
    BY <1>7
  <2>2. kept \in Seq(T)
    BY <1>3, <2>1, SeqDef
  <2>3. Len(kept) \in Nat /\ 1..Len(kept) = 1..n
    BY <2>1, <2>2, LenProperties
  <2> QED
    BY <1>3, <2>2, <2>3
<1>9. \A i \in S : pick(RankIn(S, i)) = i
  BY <1>3, <1>4, <1>5
<1>10. \A i \in S : kept[RankIn(S, i)] = list[i]
  BY <1>3, <1>7, <1>9
<1> HIDE DEF kept, pick
<1>11. \A k \in 1..n : pick(k) \in S /\ RankIn(S, pick(k)) = k
  BY <1>5
<1> QED
  BY <1>3, <1>6, <1>7, <1>8, <1>10, <1>11

\* Positions listed in increasing order have that order's ranks.
LEMMA RanksInOrder ==
    ASSUME NEW n \in Nat, NEW p \in [1..n -> Nat], NEW S,
           \A i, j \in 1..n : i < j => p[i] < p[j],
           \A k \in 1..n : p[k] \in S,
           \A i \in S : \E k \in 1..n : p[k] = i
    PROVE  /\ Cardinality(S) = n
           /\ \A k \in 1..n : RankIn(S, p[k]) = k
<1>1. \A i, j \in 1..n : p[i] = p[j] => i = j
  <2> SUFFICES ASSUME NEW i \in 1..n, NEW j \in 1..n, i # j PROVE p[i] # p[j]
    OBVIOUS
  <2>1. p[i] \in Nat /\ p[j] \in Nat /\ (i < j \/ j < i)
    OBVIOUS
  <2> QED
    BY <2>1
<1>2. ASSUME NEW k \in 0..n
      PROVE  Cardinality({p[i] : i \in 1..k}) = k
  <2> DEFINE T == {p[i] : i \in 1..k}
             q == [i \in 1..k |-> p[i]]
  <2>1. 1..k \subseteq 1..n
    OBVIOUS
  <2>2. q \in Surjection(1..k, T)
    BY DEF Surjection
  <2>3. q \in Injection(1..k, T)
    BY <1>1, <2>1, <2>2 DEF Surjection, Injection, IsInjective
  <2>4. IsFiniteSet(1..k) /\ Cardinality(1..k) = k
    BY FS_Interval
  <2> QED
    BY <2>2, <2>3, <2>4, FS_Surjection
<1>3. Cardinality(S) = n
  <2>1. S = {p[i] : i \in 1..n}
    OBVIOUS
  <2>2. Cardinality({p[i] : i \in 1..n}) = n
    BY <1>2
  <2> QED
    BY <2>1, <2>2
<1>4. ASSUME NEW k \in 1..n
      PROVE  RankIn(S, p[k]) = k
  <2>1. ASSUME NEW i \in 1..n
        PROVE  p[i] <= p[k] <=> i <= k
    <3>1. p[i] \in Nat /\ p[k] \in Nat /\ (i < k \/ i = k \/ k < i)
      OBVIOUS
    <3> QED
      BY <3>1
  <2>2. {j \in S : j <= p[k]} = {p[i] : i \in 1..k}
    BY <2>1
  <2>3. Cardinality({p[i] : i \in 1..k}) = k
    BY <1>2
  <2> QED
    BY <2>2, <2>3 DEF RankIn
<1> QED
  BY <1>3, <1>4

\* The entries at positions listed in increasing order are in that order.
LEMMA EntriesInOrder ==
    ASSUME NEW T, NEW list \in Seq(T), NEW S \in SUBSET (1..Len(list)),
           NEW n \in Nat, NEW p \in [1..n -> Nat],
           \A i, j \in 1..n : i < j => p[i] < p[j],
           \A k \in 1..n : p[k] \in S,
           \A i \in S : \E k \in 1..n : p[k] = i
    PROVE  /\ EntriesAt(list, S) \in Seq(T) /\ Len(EntriesAt(list, S)) = n
           /\ \A k \in 1..n : EntriesAt(list, S)[k] = list[p[k]]
<1>1. Cardinality(S) = n /\ \A k \in 1..n : RankIn(S, p[k]) = k
  BY RanksInOrder
<1>2. /\ EntriesAt(list, S) \in Seq(T)
      /\ Len(EntriesAt(list, S)) = Cardinality(S)
      /\ \A i \in S : EntriesAt(list, S)[RankIn(S, i)] = list[i]
  BY EntriesKept
<1> QED
  BY <1>1, <1>2

\* Leaving nothing out gives the list itself.
LEMMA EntriesAll ==
    ASSUME NEW T, NEW list \in Seq(T)
    PROVE  EntriesAt(list, 1..Len(list)) = list
<1> DEFINE n == Len(list)
           S == 1..n
           p == [k \in 1..n |-> k]
           kept == EntriesAt(list, S)
<1>1. n \in Nat
  BY LenProperties
<1>2. /\ p \in [1..n -> Nat] /\ \A i, j \in 1..n : i < j => p[i] < p[j]
      /\ \A k \in 1..n : p[k] = k /\ p[k] \in S
      /\ \A i \in S : \E k \in 1..n : p[k] = i
  OBVIOUS
<1> HIDE DEF p
<1>3. S \in SUBSET (1..Len(list))
  OBVIOUS
<1> HIDE DEF S, n
<1>4. kept \in Seq(T) /\ Len(kept) = n /\ \A k \in 1..n : kept[k] = list[p[k]]
  BY <1>1, <1>2, <1>3, EntriesInOrder
<1> HIDE DEF kept
<1>5. kept = list
  BY <1>2, <1>4, SeqEqual DEF n
<1> QED
  BY <1>5 DEF kept, S, n

-----------------------------------------------------------------------------
(* Sums over a finite set *)

Pick(T) == CHOOSE x \in T : TRUE

\* What the function iter of MapThenFoldSet has at a subset when it is used
\* for a sum.
SumStep(f, iter, T) ==
    IF T = {} THEN 0 ELSE f[Pick(T)] + iter[T \ {Pick(T)}]

Sums(f, S) == CHOOSE iter : iter = [T \in SUBSET S |-> SumStep(f, iter, T)]

LEMMA SumIsSums ==
    ASSUME NEW f, NEW S
    PROVE  SumFunctionOnSet(f, S) = Sums(f, S)[S]
BY DEF SumFunctionOnSet, FoldFunctionOnSet, MapThenFoldSet, Sums, SumStep, Pick

\* The recursion of a sum has a solution.
LEMMA SumsDefined ==
    ASSUME NEW f, NEW S, IsFiniteSet(S)
    PROVE  \A T \in SUBSET S : Sums(f, S)[T] = SumStep(f, Sums(f, S), T)
<1> DEFINE Small(n) == {T \in SUBSET S : Cardinality(T) <= n}
           Solves(g, n) == g = [T \in Small(n) |-> SumStep(f, g, T)]
           Solved == {n \in Nat : \E g : Solves(g, n)}
<1>1. ASSUME NEW T \in SUBSET S, T # {}
      PROVE  /\ T \ {Pick(T)} \in SUBSET S
             /\ Cardinality(T) \in Nat
             /\ Cardinality(T \ {Pick(T)}) = Cardinality(T) - 1
    <2>1. Pick(T) \in T
        BY <1>1 DEF Pick
    <2>2. IsFiniteSet(T)
        BY FS_Subset
    <2> QED  BY <2>1, <2>2, FS_RemoveElement, FS_CardinalityType
<1>2. 0 \in Solved
    <2> DEFINE g == [T \in Small(0) |-> 0]
    <2>1. ASSUME NEW T \in Small(0) PROVE T = {}
        <3>1. Cardinality(T) \in Nat /\ IsFiniteSet(T)
            BY FS_Subset, FS_CardinalityType
        <3> QED  BY <3>1, FS_EmptySet
    <2>2. \A T \in Small(0) : SumStep(f, g, T) = 0
        BY <2>1 DEF SumStep
    <2>3. Solves(g, 0)
        BY <2>2
    <2> QED  BY <2>3
<1>3. ASSUME NEW n \in Nat, n \in Solved PROVE n + 1 \in Solved
    <2>1. PICK g : Solves(g, n)
        BY <1>3
    <2> DEFINE h == [T \in Small(n + 1) |-> SumStep(f, g, T)]
    <2>2. \A T \in Small(n) : g[T] = SumStep(f, g, T)
        BY <2>1
    <2>3. Small(n) \subseteq Small(n + 1)
        <3>1. \A T \in SUBSET S : Cardinality(T) \in Nat
            BY FS_Subset, FS_CardinalityType
        <3> QED  BY <3>1
    <2>4. \A T \in Small(n) : h[T] = g[T]
        BY <2>2, <2>3
    <2>5. \A T \in Small(n + 1) : T # {} => T \ {Pick(T)} \in Small(n)
        BY <1>1
    <2>6. \A T \in Small(n + 1) : SumStep(f, g, T) = SumStep(f, h, T)
        BY <2>4, <2>5 DEF SumStep
    <2>7. Solves(h, n + 1)
        BY <2>6
    <2>8. \E solution : Solves(solution, n + 1)
        <3> HIDE DEF h, Solves
        <3> QED  BY <2>7
    <2>9. n + 1 \in Nat
        OBVIOUS
    <2> HIDE DEF Solves, h
    <2> QED  BY <2>8, <2>9
<1>4. Cardinality(S) \in Solved /\ Small(Cardinality(S)) = SUBSET S
    <2>1. Cardinality(S) \in Nat /\ Nat \subseteq Solved
        <3> HIDE DEF Solved
        <3> QED  BY <1>2, <1>3, NaturalsFromZero, FS_CardinalityType
    <2>2. \A T \in SUBSET S : Cardinality(T) <= Cardinality(S)
        BY FS_Subset
    <2> QED  BY <2>1, <2>2
<1>5. \E g : g = [T \in SUBSET S |-> SumStep(f, g, T)]
    BY <1>4
<1> DEFINE iter == Sums(f, S)
<1>6. iter = [T \in SUBSET S |-> SumStep(f, iter, T)]
    BY <1>5 DEF Sums
<1> HIDE DEF iter
<1>7. \A T \in SUBSET S : iter[T] = SumStep(f, iter, T)
    BY <1>6
<1> QED  BY <1>7 DEF iter

LEMMA SumsAt ==
    ASSUME NEW f, NEW S, IsFiniteSet(S), NEW T \in SUBSET S
    PROVE  /\ T = {} => Sums(f, S)[T] = 0
           /\ T # {} => /\ Pick(T) \in T
                        /\ Sums(f, S)[T] = f[Pick(T)] + Sums(f, S)[T \ {Pick(T)}]
<1>1. Sums(f, S)[T] = SumStep(f, Sums(f, S), T)
    BY SumsDefined
<1>2. T # {} => Pick(T) \in T
    BY DEF Pick
<1> QED  BY <1>1, <1>2 DEF SumStep

\* A sum of natural numbers is a natural number.
LEMMA SumType ==
    ASSUME NEW S, IsFiniteSet(S), NEW f \in [S -> Nat]
    PROVE  \A T \in SUBSET S : Sums(f, S)[T] \in Nat
<1> DEFINE Holds == {T \in SUBSET S : Sums(f, S)[T] \in Nat}
<1>1. ASSUME NEW T \in SUBSET S, \A x \in T : T \ {x} \in Holds
      PROVE  T \in Holds
    <2>1. CASE T = {}
        BY <2>1, SumsAt
    <2>2. CASE T # {}
        <3>1. /\ Pick(T) \in T
              /\ Sums(f, S)[T] = f[Pick(T)] + Sums(f, S)[T \ {Pick(T)}]
            BY <2>2, SumsAt
        <3>2. f[Pick(T)] \in Nat /\ Sums(f, S)[T \ {Pick(T)}] \in Nat
            BY <1>1, <3>1
        <3> QED  BY <3>1, <3>2
    <2> QED  BY <2>1, <2>2
<1>2. SUBSET S \subseteq Holds
    <2> HIDE DEF Holds
    <2> QED  BY <1>1, SubsetsFromSmaller
<1> QED  BY <1>2

\* Changing a function in one place changes its sum by as much.
LEMMA SumUpdate ==
    ASSUME NEW S, IsFiniteSet(S), NEW f \in [S -> Nat], NEW g \in [S -> Nat],
           NEW a \in S, \A x \in S : x # a => g[x] = f[x]
    PROVE  \A T \in SUBSET S :
               Sums(g, S)[T] =
                   Sums(f, S)[T] + (IF a \in T THEN g[a] - f[a] ELSE 0)
<1> DEFINE Change(T) == IF a \in T THEN g[a] - f[a] ELSE 0
           Holds == {T \in SUBSET S : Sums(g, S)[T] = Sums(f, S)[T] + Change(T)}
<1>1. ASSUME NEW T \in SUBSET S, \A x \in T : T \ {x} \in Holds
      PROVE  T \in Holds
    <2>2. CASE T = {}
        <3>1. Sums(f, S)[T] = 0 /\ Sums(g, S)[T] = 0
            BY <2>2, SumsAt
        <3> QED  BY <2>2, <3>1
    <2>3. CASE T # {}
        <3> DEFINE c == Pick(T)
                   U == T \ {c}
        <3>1. c \in T /\ U \in SUBSET S
            BY <2>3 DEF Pick
        <3>2. /\ Sums(f, S)[T] = f[c] + Sums(f, S)[U]
              /\ Sums(g, S)[T] = g[c] + Sums(g, S)[U]
            BY <2>3, SumsAt
        <3>3. Sums(g, S)[U] = Sums(f, S)[U] + Change(U)
            BY <1>1, <3>1
        <3>4. /\ Sums(f, S)[U] \in Nat /\ f[c] \in Nat /\ g[c] \in Nat
              /\ f[a] \in Nat /\ g[a] \in Nat
            BY <3>1, SumType
        <3>5. g[c] + Change(U) = f[c] + Change(T)
            BY <3>1, <3>4
        <3> HIDE DEF c, U, Change
        <3>6. Change(U) \in Int /\ Change(T) \in Int
            BY <3>4 DEF Change
        <3> QED  BY <3>2, <3>3, <3>4, <3>5, <3>6
    <2> QED  BY <2>2, <2>3
<1>2. SUBSET S \subseteq Holds
    <2> HIDE DEF Holds
    <2> QED  BY <1>1, SubsetsFromSmaller
<1> QED  BY <1>2

\* The two facts for the sum of all values of a function.
LEMMA TotalType ==
    ASSUME NEW S, IsFiniteSet(S), NEW f \in [S -> Nat]
    PROVE  SumFunction(f) \in Nat
<1>1. DOMAIN f = S /\ S \in SUBSET S
    OBVIOUS
<1>2. SumFunction(f) = Sums(f, S)[S]
    BY <1>1, SumIsSums DEF SumFunction
<1> QED  BY <1>1, <1>2, SumType

LEMMA TotalUpdate ==
    ASSUME NEW S, IsFiniteSet(S), NEW f \in [S -> Nat], NEW g \in [S -> Nat],
           NEW a \in S, \A x \in S : x # a => g[x] = f[x]
    PROVE  SumFunction(g) = SumFunction(f) + (g[a] - f[a])
<1>1. DOMAIN f = S /\ DOMAIN g = S /\ S \in SUBSET S
    OBVIOUS
<1>2. SumFunction(f) = Sums(f, S)[S] /\ SumFunction(g) = Sums(g, S)[S]
    BY <1>1, SumIsSums DEF SumFunction
<1>3. Sums(g, S)[S] = Sums(f, S)[S] + (IF a \in S THEN g[a] - f[a] ELSE 0)
    BY <1>1, SumUpdate
<1> QED  BY <1>2, <1>3

=============================================================================

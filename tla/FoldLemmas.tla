------------------------------ MODULE FoldLemmas ------------------------------
(***************************************************************************)
(* Facts about the folds of the community modules that the models use, and *)
(* the two forms of induction their proofs need: over numbers and over     *)
(* finite sets, each stated for the SET of the numbers, or sets, for which *)
(* a claim holds, which the provers can instantiate.  Both come from the   *)
(* fact that a well-founded relation has minimal elements.                 *)
(***************************************************************************)
EXTENDS Integers, FiniteSets, SequencesExt, FiniteSetsExt, Functions,
        FiniteSetTheorems, WellFoundedInduction, TLAPS

-----------------------------------------------------------------------------
\* Every set of natural numbers that is not empty has a least element.
LEMMA LeastNumber ==
  ASSUME NEW T \in SUBSET Nat, T # {}
  PROVE  \E n \in T : \A m \in T : n <= m
  <1> DEFINE R == {p \in Nat \X Nat : p[1] < p[2]}
  <1>1. IsWellFoundedOn(R, Nat)
    BY NatLessThanWellFounded DEF OpToRel
  <1> HIDE DEF R
  <1>2. PICK n \in T : \A m \in T : ~ (<<m, n>> \in R)
    BY <1>1, WFMin
  <1>3. ASSUME NEW m \in T PROVE n <= m
    <2>1. m \in Nat /\ n \in Nat
      OBVIOUS
    <2>2. ~ (m < n)
      BY <1>2, <2>1 DEF R
    <2> QED BY <2>1, <2>2
  <1> QED BY <1>3

\* Induction up to a bound.
LEMMA UpTo ==
  ASSUME NEW n \in Nat, NEW T, 0 \in T, \A k \in 1 .. n : k - 1 \in T => k \in T
  PROVE  0 .. n \subseteq T
  <1> DEFINE Rest == (0 .. n) \ T
  <1>1. ASSUME Rest # {} PROVE FALSE
    <2>1. Rest \in SUBSET Nat
      OBVIOUS
    <2>2. PICK k \in Rest : \A m \in Rest : k <= m
      BY <1>1, <2>1, LeastNumber
    <2>3. k \in 1 .. n /\ k - 1 \in 0 .. n /\ k - 1 \notin Rest
      BY <2>2
    <2> QED BY <2>3
  <1> QED BY <1>1

\* Induction over the subsets of a finite set, one element at a time.
LEMMA SubsetByElement ==
  ASSUME NEW S, IsFiniteSet(S), NEW T, {} \in T,
         \A s \in SUBSET S : s # {} /\ (\A x \in s : s \ {x} \in T) => s \in T
  PROVE  SUBSET S \subseteq T
  <1> DEFINE Sized(k) == {s \in SUBSET S : Cardinality(s) <= k}
             Held == {k \in Nat : Sized(k) \subseteq T}
             n == Cardinality(S)
  <1>1. n \in Nat /\ \A s \in SUBSET S :
          IsFiniteSet(s) /\ Cardinality(s) \in Nat /\ Cardinality(s) <= n
    BY FS_CardinalityType, FS_Subset
  <1>2. 0 \in Held
    <2>1. ASSUME NEW s \in SUBSET S, Cardinality(s) <= 0 PROVE s \in T
      <3>1. s = {}
        BY <1>1, <2>1, FS_EmptySet
      <3> QED BY <3>1
    <2> QED BY <2>1
  <1>3. ASSUME NEW k \in 1 .. n, k - 1 \in Held PROVE k \in Held
    <2>1. ASSUME NEW s \in SUBSET S, Cardinality(s) <= k PROVE s \in T
      <3>1. CASE s = {}
        BY <3>1
      <3>2. CASE s # {}
        <4>1. ASSUME NEW x \in s PROVE s \ {x} \in T
          <5>1. Cardinality(s \ {x}) = Cardinality(s) - 1
            BY <1>1, FS_RemoveElement
          <5>2. s \ {x} \in Sized(k - 1)
            BY <1>1, <2>1, <5>1
          <5> QED BY <1>3, <5>2
        <4> QED BY <3>2, <4>1
      <3> QED BY <3>1, <3>2
    <2> QED BY <2>1
  <1>4. n \in Held
    <2> HIDE DEF Held, n
    <2> QED BY <1>1, <1>2, <1>3, UpTo
  <1> QED BY <1>1, <1>4

-----------------------------------------------------------------------------
\* The recursion over the subsets of a finite set that takes one element away: how it
\* picks the element, and what solves it.
Picks(pick, S) == \A s \in SUBSET S : s # {} => pick[s] \in s

Solves(f, S, base, g, pick) ==
  \A s \in SUBSET S :
    f[s] = IF s = {} THEN base ELSE g[<<pick[s], f[s \ {pick[s]}]>>]

\* It has a solution, which is what TLA+ chooses when a fold is defined in this way.
LEMMA SubsetRecursion ==
  ASSUME NEW S, IsFiniteSet(S), NEW V, NEW base \in V, NEW g \in [S \X V -> V],
         NEW pick, Picks(pick, S)
  PROVE  \E f \in [SUBSET S -> V] : Solves(f, S, base, g, pick)
  <1> DEFINE Step(f, s) == IF s = {} THEN base ELSE g[<<pick[s], f[s \ {pick[s]}]>>]
             SolvesTo(f, k) == \A s \in SUBSET S : Cardinality(s) <= k => f[s] = Step(f, s)
             Held == {k \in Nat : \E f \in [SUBSET S -> V] : SolvesTo(f, k)}
             n == Cardinality(S)
  <1>1. n \in Nat /\ \A s \in SUBSET S :
          IsFiniteSet(s) /\ Cardinality(s) \in Nat /\ Cardinality(s) <= n
    BY FS_CardinalityType, FS_Subset
  <1>2. 0 \in Held
    <2> DEFINE f == [s \in SUBSET S |-> base]
    <2>1. f \in [SUBSET S -> V]
      OBVIOUS
    <2>2. ASSUME NEW s \in SUBSET S, Cardinality(s) <= 0 PROVE f[s] = Step(f, s)
      <3>1. s = {}
        BY <1>1, <2>2, FS_EmptySet
      <3> QED BY <3>1
    <2> QED BY <2>1, <2>2
  <1>3. ASSUME NEW k \in 1 .. n, k - 1 \in Held PROVE k \in Held
    <2>1. PICK f \in [SUBSET S -> V] : SolvesTo(f, k - 1)
      BY <1>3
    <2> DEFINE h == [s \in SUBSET S |-> Step(f, s)]
    <2>2. h \in [SUBSET S -> V]
      <3>1. ASSUME NEW s \in SUBSET S PROVE Step(f, s) \in V
        <4>1. CASE s # {}
          <5>1. pick[s] \in S /\ f[s \ {pick[s]}] \in V
            BY <4>1 DEF Picks
          <5> QED BY <4>1, <5>1
        <4> QED BY <4>1
      <3> HIDE DEF Step
      <3> QED BY <3>1
    <2>3. ASSUME NEW s \in SUBSET S, Cardinality(s) <= k PROVE h[s] = Step(h, s)
      <3>1. CASE s = {}
        BY <3>1
      <3>2. CASE s # {}
        <4>1. pick[s] \in s /\ s \ {pick[s]} \in SUBSET S
          BY <3>2 DEF Picks
        <4>2. Cardinality(s \ {pick[s]}) = Cardinality(s) - 1
          BY <1>1, <4>1, FS_RemoveElement
        <4>3. Cardinality(s \ {pick[s]}) <= k - 1
          BY <1>1, <2>3, <4>2
        <4>4. f[s \ {pick[s]}] = Step(f, s \ {pick[s]})
          BY <2>1, <4>1, <4>3
        <4>5. h[s \ {pick[s]}] = f[s \ {pick[s]}]
          BY <4>1, <4>4
        <4>6. h[s] = Step(f, s)
          OBVIOUS
        <4> QED BY <3>2, <4>5, <4>6
      <3> QED BY <3>1, <3>2
    <2>4. SolvesTo(h, k)
      BY <2>3
    <2> HIDE DEF h, SolvesTo
    <2> QED BY <2>2, <2>4
  <1>4. n \in Held
    <2> HIDE DEF Held, n
    <2> QED BY <1>1, <1>2, <1>3, UpTo
  <1>5. PICK f \in [SUBSET S -> V] : SolvesTo(f, n)
    BY <1>4
  <1>6. \A s \in SUBSET S : f[s] = Step(f, s)
    BY <1>1, <1>5
  <1> QED BY <1>6 DEF Solves

-----------------------------------------------------------------------------
(***************************************************************************)
(* Folds over sequences take the largest index away.                       *)
(***************************************************************************)
LEMMA MaxInside ==
  ASSUME NEW n \in Nat, NEW s \in SUBSET (1 .. n), s # {}
  PROVE  Max(s) \in s /\ \A x \in s : x <= Max(s)
  <1> DEFINE T == {n - x : x \in s}
  <1>1. T \in SUBSET Nat /\ T # {}
    <2>1. ASSUME NEW x \in s PROVE n - x \in Nat
      OBVIOUS
    <2> QED BY <2>1
  <1>2. PICK d \in T : \A e \in T : d <= e
    BY <1>1, LeastNumber
  <1>3. PICK x \in s : d = n - x
    BY <1>2
  <1>4. ASSUME NEW y \in s PROVE y <= x
    <2>1. n - y \in T
      OBVIOUS
    <2>2. d <= n - y
      BY <1>2, <2>1
    <2>3. x \in Int /\ y \in Int
      OBVIOUS
    <2> QED BY <1>3, <2>2, <2>3
  <1>5. \E x2 \in s : \A y \in s : x2 >= y
    BY <1>4
  <1> QED BY <1>5 DEF Max

LEMMA MaxOfInterval ==
  ASSUME NEW n \in Nat, NEW k \in 1 .. n
  PROVE  /\ Max(1 .. k) = k
         /\ (1 .. k) \ {Max(1 .. k)} = 1 .. k - 1
  <1>1. 1 .. k \in SUBSET (1 .. n) /\ k \in 1 .. k
    OBVIOUS
  <1>2. Max(1 .. k) \in 1 .. k /\ \A x \in 1 .. k : x <= Max(1 .. k)
    BY <1>1, MaxInside
  <1>3. Max(1 .. k) = k
    BY <1>1, <1>2
  <1> QED BY <1>3

\* The recursion of FoldLeft over indices 1 .. n has a solution.
SeqSolves(f, n, base, g) ==
  \A s \in SUBSET (1 .. n) :
    f[s] = IF s = {} THEN base ELSE g[<<Max(s), f[s \ {Max(s)}]>>]

LEMMA SeqRecursion ==
  ASSUME NEW n \in Nat, NEW V, NEW base \in V, NEW g \in [(1 .. n) \X V -> V]
  PROVE  \E f \in [SUBSET (1 .. n) -> V] : SeqSolves(f, n, base, g)
  <1> DEFINE S == 1 .. n
             pick == [s \in SUBSET S |-> Max(s)]
  <1>1. IsFiniteSet(S)
    BY FS_Interval
  <1>2. Picks(pick, S)
    BY MaxInside DEF Picks
  <1>3. g \in [S \X V -> V]
    OBVIOUS
  <1>4. PICK f \in [SUBSET S -> V] : Solves(f, S, base, g, pick)
    <2> HIDE DEF S, pick
    <2> QED BY <1>1, <1>2, <1>3, SubsetRecursion
  <1> QED BY <1>4 DEF Solves, SeqSolves

-----------------------------------------------------------------------------
(***************************************************************************)
(* Sums, which do not depend on the order in which elements are taken.     *)
(***************************************************************************)
First(s) == CHOOSE x \in s : TRUE

SumSolution(f, T) ==
  CHOOSE iter : iter = [s \in SUBSET T |->
                          IF s = {} THEN 0 ELSE f[First(s)] + iter[s \ {First(s)}]]

LEMMA FirstInside == ASSUME NEW s, s # {} PROVE First(s) \in s
  BY DEF First

LEMMA SumUnfolded ==
  ASSUME NEW f, NEW T
  PROVE  SumFunctionOnSet(f, T) = SumSolution(f, T)[T]
  BY DEF SumFunctionOnSet, FoldFunctionOnSet, MapThenFoldSet, SumSolution,
         First

LEMMA SumSolves ==
  ASSUME NEW S, IsFiniteSet(S), NEW f \in [S -> Int], NEW T \in SUBSET S,
         NEW s \in SUBSET T
  PROVE  /\ s = {} => SumSolution(f, T)[s] = 0
         /\ s # {} => SumSolution(f, T)[s] = f[First(s)] + SumSolution(f, T)[s \ {First(s)}]
  <1> DEFINE pick == [u \in SUBSET T |-> First(u)]
             g == [p \in T \X Int |-> f[p[1]] + p[2]]
  <1>1. IsFiniteSet(T)
    BY FS_Subset
  <1>2. g \in [T \X Int -> Int]
    OBVIOUS
  <1>3. Picks(pick, T)
    BY FirstInside DEF Picks
  <1>4. PICK h \in [SUBSET T -> Int] : Solves(h, T, 0, g, pick)
    <2>1. 0 \in Int
      OBVIOUS
    <2> HIDE DEF g, pick
    <2> QED BY <1>1, <1>2, <1>3, <2>1, SubsetRecursion
  <1>5. ASSUME NEW u \in SUBSET T
        PROVE  h[u] = IF u = {} THEN 0
                      ELSE f[First(u)] + h[u \ {First(u)}]
    <2>1. pick[u] = First(u)
      OBVIOUS
    <2> HIDE DEF pick
    <2>2. CASE u = {}
      BY <1>4, <2>2 DEF Solves
    <2>3. CASE u # {}
      <3>1. pick[u] \in T /\ u \ {pick[u]} \in SUBSET T
        BY <1>3, <2>3 DEF Picks
      <3>2. <<pick[u], h[u \ {pick[u]}]>> \in T \X Int
        BY <1>4, <3>1
      <3>3. g[<<pick[u], h[u \ {pick[u]}]>>] = f[pick[u]] + h[u \ {pick[u]}]
        BY <3>2
      <3>4. h[u] = g[<<pick[u], h[u \ {pick[u]}]>>]
        BY <1>4, <2>3 DEF Solves
      <3> QED BY <2>1, <2>3, <3>3, <3>4
    <2> QED BY <2>2, <2>3
  <1>6. h = [u \in SUBSET T |->
              IF u = {} THEN 0
              ELSE f[First(u)] + h[u \ {First(u)}]]
    <2> HIDE DEF g, pick
    <2> QED BY <1>4, <1>5
  <1>7. SumSolution(f, T) = [u \in SUBSET T |->
              IF u = {} THEN 0
              ELSE f[First(u)]
                     + SumSolution(f, T)[u \ {First(u)}]]
    BY <1>6 DEF SumSolution
  <1> QED BY <1>7

\* The first element taken, and the sum of the others.
LEMMA SumFirst ==
  ASSUME NEW S, IsFiniteSet(S), NEW f \in [S -> Int], NEW T \in SUBSET S
  PROVE  SumFunctionOnSet(f, T) =
           IF T = {} THEN 0
           ELSE f[First(T)]
                  + SumFunctionOnSet(f, T \ {First(T)})
  <1> DEFINE y == First(T)
             U == T \ {y}
             Same == {s \in SUBSET U : SumSolution(f, T)[s] = SumSolution(f, U)[s]}
  <1>1. \A W \in SUBSET S : \A s \in SUBSET W :
          /\ s = {} => SumSolution(f, W)[s] = 0
          /\ s # {} => SumSolution(f, W)[s] = f[First(s)] + SumSolution(f, W)[s \ {First(s)}]
    BY SumSolves
  <1>2. IsFiniteSet(U) /\ U \in SUBSET S /\ SUBSET U \subseteq SUBSET T
    BY FS_Subset
  <1>3. {} \in Same
    BY <1>1, <1>2
  <1>4. ASSUME NEW s \in SUBSET U, s # {}, \A x \in s : s \ {x} \in Same
        PROVE  s \in Same
    <2> DEFINE z == First(s)
    <2>1. z \in s
      BY <1>4, FirstInside
    <2>2. SumSolution(f, T)[s \ {z}] = SumSolution(f, U)[s \ {z}]
      BY <1>4, <2>1
    <2>3. s \in SUBSET T
      BY <1>2
    <2>4. SumSolution(f, T)[s] = f[z] + SumSolution(f, T)[s \ {z}]
      BY <1>1, <1>4, <2>3
    <2>5. SumSolution(f, U)[s] = f[z] + SumSolution(f, U)[s \ {z}]
      BY <1>1, <1>2, <1>4
    <2> QED BY <2>2, <2>4, <2>5
  <1>5. SUBSET U \subseteq Same
    <2> HIDE DEF Same, U
    <2> QED BY <1>2, <1>3, <1>4, SubsetByElement
  <1>6. SumSolution(f, T)[U] = SumSolution(f, U)[U]
    BY <1>5
  <1>7. T # {} => SumSolution(f, T)[T] = f[y] + SumSolution(f, T)[U]
    BY <1>1
  <1>8. T = {} => SumSolution(f, T)[T] = 0
    BY <1>1
  <1> QED BY <1>6, <1>7, <1>8, SumUnfolded

LEMMA SumType ==
  ASSUME NEW S, IsFiniteSet(S), NEW f \in [S -> Int], NEW T \in SUBSET S
  PROVE  SumFunctionOnSet(f, T) \in Int
  <1> DEFINE Held == {s \in SUBSET S : SumFunctionOnSet(f, s) \in Int}
  <1>1. {} \in Held
    BY SumFirst
  <1>2. ASSUME NEW s \in SUBSET S, s # {}, \A x \in s : s \ {x} \in Held
        PROVE  s \in Held
    <2> DEFINE z == First(s)
    <2>1. z \in s
      BY <1>2, FirstInside
    <2>2. SumFunctionOnSet(f, s \ {z}) \in Int /\ f[z] \in Int
      BY <1>2, <2>1
    <2>3. SumFunctionOnSet(f, s) = f[z] + SumFunctionOnSet(f, s \ {z})
      BY <1>2, SumFirst
    <2> QED BY <2>2, <2>3
  <1>3. SUBSET S \subseteq Held
    <2> HIDE DEF Held
    <2> QED BY <1>1, <1>2, SubsetByElement
  <1> QED BY <1>3

LEMMA SumEmpty ==
  ASSUME NEW S, IsFiniteSet(S), NEW f \in [S -> Int]
  PROVE  SumFunctionOnSet(f, {}) = 0
  BY SumFirst

\* Any element may be taken first.
LEMMA SumAny ==
  ASSUME NEW S, IsFiniteSet(S), NEW f \in [S -> Int], NEW T \in SUBSET S, NEW x \in T
  PROVE  SumFunctionOnSet(f, T) = f[x] + SumFunctionOnSet(f, T \ {x})
  <1> DEFINE Sum(s) == SumFunctionOnSet(f, s)
             Held == {s \in SUBSET S : \A z \in s : Sum(s) = f[z] + Sum(s \ {z})}
  <1>1. {} \in Held
    OBVIOUS
  <1>2. ASSUME NEW s \in SUBSET S, s # {}, \A z \in s : s \ {z} \in Held,
               NEW z \in s
        PROVE  Sum(s) = f[z] + Sum(s \ {z})
    <2> DEFINE y == First(s)
    <2>1. y \in s /\ f[y] \in Int /\ f[z] \in Int
      BY <1>2, FirstInside
    <2>2. Sum(s) = f[y] + Sum(s \ {y})
      BY <1>2, SumFirst
    <2>3. CASE z = y
      BY <2>2, <2>3
    <2>4. CASE z # y
      <3>1. Sum(s \ {y}) = f[z] + Sum((s \ {y}) \ {z})
        BY <1>2, <2>1, <2>4
      <3>2. Sum(s \ {z}) = f[y] + Sum((s \ {z}) \ {y})
        BY <1>2, <2>1, <2>4
      <3>3. (s \ {y}) \ {z} = (s \ {z}) \ {y}
        OBVIOUS
      <3>4. Sum((s \ {y}) \ {z}) \in Int
        BY SumType
      <3> DEFINE rest == Sum((s \ {y}) \ {z})
      <3>5. rest \in Int /\ Sum(s) = f[y] + (f[z] + rest) /\ Sum(s \ {z}) = f[y] + rest
        BY <2>2, <3>1, <3>2, <3>3, <3>4
      <3> HIDE DEF Sum, y, rest
      <3> QED BY <2>1, <3>5
    <2> QED BY <2>3, <2>4
  <1>3. SUBSET S \subseteq Held
    <2>1. ASSUME NEW s \in SUBSET S, s # {}, \A z \in s : s \ {z} \in Held
          PROVE  s \in Held
      BY <1>2, <2>1
    <2> HIDE DEF Held
    <2> QED BY <1>1, <2>1, SubsetByElement
  <1> QED BY <1>3

\* The same as a predicate, for places where numbers are around.
AnyFirst(f, S) ==
  \A T \in SUBSET S : \A x \in T :
    SumFunctionOnSet(f, T) = f[x] + SumFunctionOnSet(f, T \ {x})

LEMMA SumAnyFirst ==
  ASSUME NEW S, IsFiniteSet(S), NEW f \in [S -> Int]
  PROVE  AnyFirst(f, S)
  <1>1. ASSUME NEW T \in SUBSET S, NEW x \in T
        PROVE  SumFunctionOnSet(f, T) = f[x] + SumFunctionOnSet(f, T \ {x})
    BY SumAny
  <1> QED BY <1>1 DEF AnyFirst

LEMMA SumZero ==
  ASSUME NEW S, IsFiniteSet(S), NEW f \in [S -> Int], NEW T \in SUBSET S,
         \A x \in T : f[x] = 0
  PROVE  SumFunctionOnSet(f, T) = 0
  <1> DEFINE Held == {s \in SUBSET T : SumFunctionOnSet(f, s) = 0}
  <1>1. IsFiniteSet(T)
    BY FS_Subset
  <1>2. {} \in Held
    BY SumEmpty
  <1>3. ASSUME NEW s \in SUBSET T, s # {}, \A x \in s : s \ {x} \in Held
        PROVE  s \in Held
    <2>1. PICK z \in s : TRUE
      BY <1>3
    <2>2. SumFunctionOnSet(f, s) = f[z] + SumFunctionOnSet(f, s \ {z})
      BY SumAny
    <2> QED BY <1>3, <2>2
  <1>4. SUBSET T \subseteq Held
    <2> HIDE DEF Held
    <2> QED BY <1>1, <1>2, <1>3, SubsetByElement
  <1> QED BY <1>4

LEMMA SumNat ==
  ASSUME NEW S, IsFiniteSet(S), NEW f \in [S -> Nat], NEW T \in SUBSET S
  PROVE  SumFunctionOnSet(f, T) \in Nat
  <1> DEFINE Held == {s \in SUBSET S : SumFunctionOnSet(f, s) \in Nat}
  <1>1. f \in [S -> Int]
    OBVIOUS
  <1>2. {} \in Held
    BY <1>1, SumEmpty
  <1>3. ASSUME NEW s \in SUBSET S, s # {}, \A x \in s : s \ {x} \in Held
        PROVE  s \in Held
    <2>1. PICK z \in s : TRUE
      BY <1>3
    <2>2. SumFunctionOnSet(f, s) = f[z] + SumFunctionOnSet(f, s \ {z})
      BY <1>1, SumAny
    <2> QED BY <1>3, <2>2
  <1>4. SUBSET S \subseteq Held
    <2> HIDE DEF Held
    <2> QED BY <1>2, <1>3, SubsetByElement
  <1> QED BY <1>4
\* A sum depends on the values it adds only.
LEMMA SumSame ==
  ASSUME NEW S, IsFiniteSet(S), NEW f \in [S -> Int],
         NEW R, IsFiniteSet(R), NEW h \in [R -> Int],
         NEW T \in SUBSET S, T \in SUBSET R, \A x \in T : f[x] = h[x]
  PROVE  SumFunctionOnSet(f, T) = SumFunctionOnSet(h, T)
  <1> DEFINE Held == {s \in SUBSET T : SumFunctionOnSet(f, s) = SumFunctionOnSet(h, s)}
  <1>1. IsFiniteSet(T)
    BY FS_Subset
  <1>2. {} \in Held
    BY SumEmpty
  <1>3. ASSUME NEW s \in SUBSET T, s # {}, \A x \in s : s \ {x} \in Held
        PROVE  s \in Held
    <2>1. PICK x \in s : TRUE
      BY <1>3
    <2>2. SumFunctionOnSet(f, s) = f[x] + SumFunctionOnSet(f, s \ {x})
      BY SumAny
    <2>3. SumFunctionOnSet(h, s) = h[x] + SumFunctionOnSet(h, s \ {x})
      <3>1. s \in SUBSET R
        OBVIOUS
      <3> QED BY <3>1, SumAny
    <2>4. SumFunctionOnSet(f, s \ {x}) = SumFunctionOnSet(h, s \ {x})
      BY <1>3
    <2> QED BY <2>2, <2>3, <2>4
  <1>4. SUBSET T \subseteq Held
    <2> HIDE DEF Held
    <2> QED BY <1>1, <1>2, <1>3, SubsetByElement
  <1> QED BY <1>4

\* One value changed.
LEMMA SumChange ==
  ASSUME NEW S, IsFiniteSet(S), NEW f \in [S -> Int], NEW h \in [S -> Int],
         NEW T \in SUBSET S, NEW x \in T, \A y \in T \ {x} : f[y] = h[y]
  PROVE  SumFunctionOnSet(h, T) = SumFunctionOnSet(f, T) + (h[x] - f[x])
  <1>1. /\ SumFunctionOnSet(f, T) = f[x] + SumFunctionOnSet(f, T \ {x})
        /\ SumFunctionOnSet(h, T) = h[x] + SumFunctionOnSet(h, T \ {x})
    BY SumAny
  <1>2. SumFunctionOnSet(f, T \ {x}) = SumFunctionOnSet(h, T \ {x})
    <2>1. T \ {x} \in SUBSET S
      OBVIOUS
    <2> QED BY <2>1, SumSame
  <1>3. SumFunctionOnSet(f, T \ {x}) \in Int /\ f[x] \in Int /\ h[x] \in Int
    BY SumType
  <1> QED BY <1>1, <1>2, <1>3

\* The sum over two sets that have nothing in common.
LEMMA SumUnion ==
  ASSUME NEW S, IsFiniteSet(S), NEW f \in [S -> Int],
         NEW A \in SUBSET S, NEW B \in SUBSET S, A \cap B = {}
  PROVE  SumFunctionOnSet(f, A \cup B) = SumFunctionOnSet(f, A) + SumFunctionOnSet(f, B)
  <1> DEFINE Sum(s) == SumFunctionOnSet(f, s)
             Held == {s \in SUBSET B : Sum(A \cup s) = Sum(A) + Sum(s)}
  <1>1. IsFiniteSet(B) /\ Sum(A) \in Int
    BY FS_Subset, SumType
  <1>2. {} \in Held
    <2>1. A \cup {} = A /\ Sum({}) = 0
      BY SumEmpty
    <2> HIDE DEF Sum
    <2> QED BY <1>1, <2>1
  <1>3. ASSUME NEW s \in SUBSET B, s # {}, \A x \in s : s \ {x} \in Held
        PROVE  s \in Held
    <2>1. PICK x \in s : TRUE
      BY <1>3
    <2>2. Sum(s) = f[x] + Sum(s \ {x})
      BY SumAny
    <2>3. Sum(A \cup s) = f[x] + Sum((A \cup s) \ {x})
      <3>1. A \cup s \in SUBSET S /\ x \in A \cup s
        OBVIOUS
      <3> QED BY <3>1, SumAny
    <2>4. Sum((A \cup s) \ {x}) = Sum(A \cup (s \ {x}))
      <3>1. (A \cup s) \ {x} = A \cup (s \ {x})
        OBVIOUS
      <3> HIDE DEF Sum
      <3> QED BY <3>1, Zenon
    <2>5. Sum(A \cup (s \ {x})) = Sum(A) + Sum(s \ {x})
      BY <1>3
    <2>6. f[x] \in Int /\ Sum(s \ {x}) \in Int
      BY SumType
    <2>7. Sum(A \cup s) = Sum(A) + Sum(s)
      <3> HIDE DEF Sum
      <3> QED BY <1>1, <2>2, <2>3, <2>4, <2>5, <2>6
    <2> HIDE DEF Sum
    <2> QED BY <2>7
  <1>4. SUBSET B \subseteq Held
    <2> HIDE DEF Held
    <2> QED BY <1>1, <1>2, <1>3, SubsetByElement
  <1> QED BY <1>4
LEMMA MinInside ==
  ASSUME NEW s \in SUBSET Nat, s # {}
  PROVE  Min(s) \in s /\ \A x \in s : Min(s) <= x
  <1>1. \E x \in s : \A y \in s : x <= y
    BY LeastNumber
  <1> QED BY <1>1 DEF Min
\* The places of a value among the first k of a list.
Occurrences(list, k, c) == {i \in 1 .. k : list[i] = c}

\* One more element adds a place of its own value only.
LEMMA OnceMore ==
  ASSUME NEW list, NEW k \in Nat \ {0}, NEW c
  PROVE  /\ Cardinality(Occurrences(list, k - 1, c)) \in Nat
         /\ Cardinality(Occurrences(list, k, c)) =
              Cardinality(Occurrences(list, k - 1, c)) + IF list[k] = c THEN 1 ELSE 0
  <1> DEFINE Upto(m) == Occurrences(list, m, c)
  <1>1. IsFiniteSet(Upto(k - 1))
    <2>1. k - 1 \in Int
      OBVIOUS
    <2>2. IsFiniteSet(1 .. k - 1)
      BY <2>1, FS_Interval
    <2> QED BY <2>2, FS_Subset DEF Occurrences
  <1>2. k \notin Upto(k - 1)
    BY DEF Occurrences
  <1>3. Upto(k) = IF list[k] = c THEN Upto(k - 1) \cup {k} ELSE Upto(k - 1)
    <2>1. \A i : i \in 1 .. k <=> i \in 1 .. k - 1 \/ i = k
      OBVIOUS
    <2> QED BY <2>1 DEF Occurrences
  <1> HIDE DEF Upto
  <1>4. Cardinality(Upto(k - 1)) \in Nat
    BY <1>1, FS_CardinalityType
  <1>5. Cardinality(Upto(k)) = Cardinality(Upto(k - 1)) + IF list[k] = c THEN 1 ELSE 0
    BY <1>1, <1>2, <1>3, <1>4, FS_AddElement
  <1> QED BY <1>4, <1>5 DEF Upto
\* The sum over the union of sets that have nothing in common.
LEMMA SumFamily ==
  ASSUME NEW S, IsFiniteSet(S), NEW f \in [S -> Int],
         NEW I, IsFiniteSet(I), NEW B \in [I -> SUBSET S],
         \A x, y \in I : x # y => B[x] \cap B[y] = {}
  PROVE  SumFunctionOnSet(f, UNION {B[x] : x \in I})
           = SumFunctionOnSet([x \in I |-> SumFunctionOnSet(f, B[x])], I)
  <1> DEFINE h == [x \in I |-> SumFunctionOnSet(f, B[x])]
             All(s) == UNION {B[x] : x \in s}
             Held == {s \in SUBSET I : SumFunctionOnSet(f, All(s)) = SumFunctionOnSet(h, s)}
  <1>1. h \in [I -> Int]
    <2>1. \A x \in I : SumFunctionOnSet(f, B[x]) \in Int
      BY SumType
    <2> QED BY <2>1
  <1>2. \A x \in I : h[x] = SumFunctionOnSet(f, B[x])
    OBVIOUS
  <1> HIDE DEF h
  <1>3. {} \in Held
    <2>1. All({}) = {}
      OBVIOUS
    <2>2. SumFunctionOnSet(f, {}) = 0 /\ SumFunctionOnSet(h, {}) = 0
      BY <1>1, SumEmpty
    <2> HIDE DEF All
    <2> QED BY <2>1, <2>2
  <1>4. ASSUME NEW s \in SUBSET I, s # {}, \A x \in s : s \ {x} \in Held
        PROVE  s \in Held
    <2>1. PICK z \in s : TRUE
      BY <1>4
    <2>2. SumFunctionOnSet(f, All(s \ {z})) = SumFunctionOnSet(h, s \ {z})
      BY <1>4
    <2>3. SumFunctionOnSet(h, s) = h[z] + SumFunctionOnSet(h, s \ {z})
      BY <1>1, SumAny
    <2>4. All(s) = All(s \ {z}) \cup B[z]
      OBVIOUS
    <2>5. All(s \ {z}) \cap B[z] = {} /\ All(s \ {z}) \in SUBSET S /\ B[z] \in SUBSET S
      OBVIOUS
    <2> HIDE DEF All
    <2>6. SumFunctionOnSet(f, All(s \ {z}) \cup B[z])
            = SumFunctionOnSet(f, All(s \ {z})) + SumFunctionOnSet(f, B[z])
      <3> DEFINE U == All(s \ {z})
                 V == B[z]
      <3>1. U \cap V = {} /\ U \in SUBSET S /\ V \in SUBSET S
        BY <2>5
      <3> HIDE DEF U, V
      <3>2. SumFunctionOnSet(f, U \cup V) = SumFunctionOnSet(f, U) + SumFunctionOnSet(f, V)
        BY <3>1, SumUnion
      <3> QED BY <3>2 DEF U, V
    <2>7. SumFunctionOnSet(f, All(s)) = SumFunctionOnSet(f, All(s \ {z}) \cup B[z])
      BY <2>4, Zenon
    <2>8. SumFunctionOnSet(h, s \ {z}) \in Int /\ h[z] \in Int
      BY <1>1, SumType
    <2>9. SumFunctionOnSet(f, All(s)) = SumFunctionOnSet(h, s)
      BY <1>2, <2>2, <2>3, <2>6, <2>7, <2>8
    <2> QED BY <2>9
  <1>5. SUBSET I \subseteq Held
    <2> HIDE DEF Held
    <2> QED BY <1>3, <1>4, SubsetByElement
  <1> QED BY <1>5 DEF h
=============================================================================

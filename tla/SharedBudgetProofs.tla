------------------------- MODULE SharedBudgetProofs -------------------------
(***************************************************************************)
(* What the shared budget guarantees for every number of workers, every    *)
(* ceiling and every reservation; what the study's reports agree on for    *)
(* every shard (StudyAnalysis); that the p-values they give are exact      *)
(* (SignedRanks).                                                          *)
(*                                                                         *)
(* All three are about sums: over the workers, what is reserved            *)
(* (sum(in_flight.values())), what is still due from the calls under way,  *)
(* the columns of by_owner; over the rows of a shard, the benefit and the  *)
(* harm of the proposals of some kind; over the differences of a test,     *)
(* their ranks, and over the sums of ranks, how many signs give each.      *)
(* Such a sum is a fold, a recursive function on the subsets of what is    *)
(* summed over; the first part shows by induction on those subsets how a   *)
(* sum follows a change of one of its terms and how it adds up over parts  *)
(* and groups, and every later proof uses only that.                       *)
(***************************************************************************)
EXTENDS SharedBudget, StudyAnalysis, SignedRanks, FiniteSetTheorems, TLAPS

-----------------------------------------------------------------------------
\* Sums over a finite set.

\* The element FoldFunction takes from a set of indices.
PickOne(s) == CHOOSE x \in s : TRUE

\* What FoldFunction computes for each set of indices on its way.
SumsFrom(f, sums, s) == IF s = {} THEN 0 ELSE f[PickOne(s)] + sums[s \ {PickOne(s)}]

\* The recursive function itself: the sum of f over each part of its domain.
Sums(f) == CHOOSE sums : sums = [s \in SUBSET DOMAIN f |-> SumsFrom(f, sums, s)]

\* The sum of a function over its domain.
Total(f) == FoldFunction(+, 0, f)

\* The sum is the recursive function at the whole domain.
LEMMA TotalIsSum ==
  ASSUME NEW f
  PROVE  Total(f) = Sums(f)[DOMAIN f]
  BY Zenon DEF Total, FoldFunction, FoldFunctionOnSet, MapThenFoldSet, Sums, SumsFrom, PickOne

\* A set of natural numbers that is not empty has a least one.
LEMMA LeastNumber ==
  ASSUME NEW T, T \subseteq Nat, T # {}
  PROVE  \E n \in T : \A m \in T : n <= m
<1>1. PICK n \in T : \A m \in T : ~(<<m, n>> \in OpToRel(<, Nat))
  BY NatLessThanWellFounded, WFMin, Zenon
<1>2. ASSUME NEW m \in T PROVE n <= m
  <2>1. <<m, n>> \in Nat \X Nat
    OBVIOUS
  <2>2. ~(m < n)
    BY <1>1, <2>1 DEF OpToRel
  <2>3. QED
    BY <2>2
<1>3. QED
  BY <1>2

\* Among subsets of a finite set there is one that contains no other: what is
\* not so for some subset fails first for one whose own subsets are fine.
LEMMA SmallestSubset ==
  ASSUME NEW S, IsFiniteSet(S), NEW T, T \subseteq SUBSET S, T # {}
  PROVE  \E s \in T : \A r \in T : r \subseteq s => r = s
<1>1. IsWellFoundedOn(StrictSubsetOrdering(S), SUBSET S)
  BY FS_StrictSubsetOrderingWellFounded, FS_FiniteSubsetsOfFinite
<1>2. PICK s \in T : \A r \in T : ~(<<r, s>> \in StrictSubsetOrdering(S))
  BY <1>1, WFMin, Zenon
<1>3. \A r \in T : r \subseteq s => r = s
  BY <1>2 DEF StrictSubsetOrdering
<1>4. QED
  BY <1>3

\* A set that is not empty has the element picked from it.
LEMMA PickOneIn ==
  ASSUME NEW s, s # {}
  PROVE  PickOne(s) \in s
BY DEF PickOne

\* The recursion has a solution on the subsets of a finite set, by induction on
\* their size.
LEMMA SumsExist ==
  ASSUME NEW f, IsFiniteSet(DOMAIN f)
  PROVE  Sums(f) = [s \in SUBSET DOMAIN f |-> SumsFrom(f, Sums(f), s)]
<1> DEFINE D == DOMAIN f
           Small(n) == {s \in SUBSET D : Cardinality(s) <= n}
           Defined(n) == \E g : g = [s \in Small(n) |-> SumsFrom(f, g, s)]
           bad == {n \in Nat : ~Defined(n)}
<1>1. \A s \in SUBSET D : /\ IsFiniteSet(s)
                          /\ Cardinality(s) \in Nat /\ Cardinality(s) <= Cardinality(D)
  BY FS_Subset, FS_CardinalityType
<1>2. \A s \in SUBSET D : s # {} =>
          /\ s \ {PickOne(s)} \in SUBSET D
          /\ Cardinality(s \ {PickOne(s)}) = Cardinality(s) - 1
  BY <1>1, FS_RemoveElement, PickOneIn
<1>3. Defined(0)
  <2>1. Small(0) = {{}}
    BY <1>1, FS_EmptySet
  <2>2. [s \in Small(0) |-> 0] = [s \in Small(0) |-> SumsFrom(f, [t \in Small(0) |-> 0], s)]
    BY <2>1 DEF SumsFrom
  <2>3. QED
    BY <2>2
<1>4. ASSUME NEW n \in Nat, Defined(n) PROVE Defined(n + 1)
  <2>1. PICK g : g = [s \in Small(n) |-> SumsFrom(f, g, s)]
    BY <1>4
  <2> DEFINE h == [s \in Small(n + 1) |-> SumsFrom(f, g, s)]
  <2>2. \A s \in Small(n) : s \in Small(n + 1) /\ h[s] = g[s]
    <3>1. \A s \in Small(n) : s \in Small(n + 1)
      BY <1>1
    <3>2. QED
      BY <2>1, <3>1
  <2>3. ASSUME NEW s \in Small(n + 1) PROVE SumsFrom(f, g, s) = SumsFrom(f, h, s)
    <3>1. CASE s = {}
      BY <3>1 DEF SumsFrom
    <3>2. CASE s # {}
      <4>1. s \ {PickOne(s)} \in Small(n)
        BY <1>1, <1>2, <3>2
      <4>2. h[s \ {PickOne(s)}] = g[s \ {PickOne(s)}]
        BY <4>1, <2>2
      <4> HIDE DEF h, Small
      <4>3. QED
        BY <4>2, <3>2 DEF SumsFrom
    <3>3. QED
      BY <3>1, <3>2
  <2>4. h = [s \in Small(n + 1) |-> SumsFrom(f, h, s)]
    BY <2>3
  <2>5. QED
    BY <2>4
<1>5. bad = {}
  <2>1. SUFFICES ASSUME bad # {} PROVE FALSE
    OBVIOUS
  <2>2. PICK n \in bad : \A m \in bad : n <= m
    <3>1. bad \subseteq Nat
      OBVIOUS
    <3> HIDE DEF bad
    <3>2. QED
      BY <2>1, <3>1, LeastNumber
  <2>3. n \in Nat /\ ~Defined(n)
    OBVIOUS
  <2> HIDE DEF Defined
  <2>4. n # 0
    BY <1>3, <2>3
  <2>5. n - 1 \in Nat /\ n - 1 \notin bad
    BY <2>2, <2>3, <2>4
  <2>6. Defined(n - 1)
    BY <2>5
  <2>7. Defined((n - 1) + 1)
    BY <1>4, <2>5, <2>6
  <2>8. QED
    BY <2>3, <2>7
<1>6. Defined(Cardinality(D))
  <2> HIDE DEF Defined
  <2>1. QED
    BY <1>5, <1>1
<1>7. Small(Cardinality(D)) = SUBSET D
  BY <1>1
<1>8. \E g : g = [s \in SUBSET D |-> SumsFrom(f, g, s)]
  BY <1>6, <1>7
<1>9. QED
  BY <1>8, Zenon DEF Sums

\* sums holds the sum of f over each subset of D, whatever element comes last.
AddsUp(sums, f, D) ==
    /\ sums[{}] = 0
    /\ \A s \in SUBSET D : sums[s] \in Int /\ \A x \in s : sums[s] = f[x] + sums[s \ {x}]

\* Whatever order the elements are taken in, the sum is the same.
LEMMA SumsAddUp ==
  ASSUME NEW D, IsFiniteSet(D), NEW f \in [D -> Int]
  PROVE  AddsUp(Sums(f), f, D)
<1> DEFINE S(t) == Sums(f)[t]
           Good(t) == S(t) \in Int /\ \A x \in t : S(t) = f[x] + S(t \ {x})
           bad == {t \in SUBSET D : ~Good(t)}
<1>1. \A t \in SUBSET D : S(t) = IF t = {} THEN 0 ELSE f[PickOne(t)] + S(t \ {PickOne(t)})
  BY SumsExist DEF SumsFrom
<1> HIDE DEF S
<1>2. bad = {}
  <2>1. SUFFICES ASSUME bad # {} PROVE FALSE
    OBVIOUS
  <2>2. PICK t \in bad : \A r \in bad : r \subseteq t => r = t
    <3>1. bad \subseteq SUBSET D
      OBVIOUS
    <3> HIDE DEF bad
    <3>2. QED
      BY <2>1, <3>1, SmallestSubset
  <2>3. \A r \in SUBSET t : r # t => Good(r)
    BY <2>2
  <2>4. t # {}
    <3>1. S({}) = 0 /\ ~Good(t)
      BY <1>1, <2>2
    <3>2. ASSUME t = {} PROVE Good(t)
      BY <3>1, <3>2
    <3>3. QED
      BY <3>1, <3>2
  <2> DEFINE y == PickOne(t)
  <2>5. y \in t
    BY <2>4, PickOneIn
  <2> HIDE DEF y
  <2>6. S(t) = f[y] + S(t \ {y})
    BY <1>1, <2>4, <2>2 DEF y
  <2>7. \A x \in t : Good(t \ {x})
    BY <2>3
  <2>8. S(t) \in Int
    BY <2>5, <2>6, <2>7, <2>2
  <2>9. ASSUME NEW x \in t PROVE S(t) = f[x] + S(t \ {x})
    <3>1. CASE x = y
      BY <3>1, <2>6
    <3>2. CASE x # y
      <4>1. S(t \ {y}) = f[x] + S((t \ {y}) \ {x})
        BY <3>2, <2>7, <2>5
      <4>2. S(t \ {x}) = f[y] + S((t \ {x}) \ {y})
        BY <3>2, <2>7, <2>5
      <4>3. (t \ {y}) \ {x} = (t \ {x}) \ {y}
        OBVIOUS
      <4>4. Good((t \ {x}) \ {y})
        BY <2>3, <2>5
      <4>5. f[x] \in Int /\ f[y] \in Int /\ S((t \ {x}) \ {y}) \in Int
        BY <4>4, <2>5, <2>2
      <4>6. S(t) = f[y] + (f[x] + S((t \ {x}) \ {y}))
        BY <4>1, <4>3, <2>6
      <4>7. QED
        BY <4>2, <4>5, <4>6
    <3>3. QED
      BY <3>1, <3>2
  <2>10. QED
    BY <2>8, <2>9, <2>2
<1>3. S({}) = 0
  BY <1>1
<1>4. QED
  BY <1>2, <1>3 DEF S, AddsUp

\* Sums compare as their terms do, up to a constant for each term.
LEMMA SumsBound ==
  ASSUME NEW D, IsFiniteSet(D), NEW f \in [D -> Int], NEW g \in [D -> Int],
         NEW c \in Int, NEW s \in SUBSET D, \A x \in s : f[x] <= g[x] + c
  PROVE  Sums(f)[s] <= Sums(g)[s] + c * Cardinality(s)
<1> DEFINE S(t) == Sums(f)[t]
           T(t) == Sums(g)[t]
           N(t) == Cardinality(t)
           Good(t) == S(t) <= T(t) + c * N(t)
           bad == {t \in SUBSET s : ~Good(t)}
<1>1. \A t \in SUBSET D : /\ S(t) \in Int
                          /\ \A x \in t : S(t) = f[x] + S(t \ {x})
  <2>1. AddsUp(Sums(f), f, D)
    BY SumsAddUp
  <2>2. QED
    BY <2>1 DEF AddsUp
<1>2. \A t \in SUBSET D : /\ T(t) \in Int
                          /\ \A x \in t : T(t) = g[x] + T(t \ {x})
  <2>1. AddsUp(Sums(g), g, D)
    BY SumsAddUp
  <2>2. QED
    BY <2>1 DEF AddsUp
<1>3. \A t \in SUBSET D : /\ N(t) \in Nat
                          /\ \A x \in t : N(t \ {x}) = N(t) - 1
  BY FS_Subset, FS_CardinalityType, FS_RemoveElement
<1>4. S({}) = 0 /\ T({}) = 0 /\ N({}) = 0
  BY SumsAddUp, FS_EmptySet DEF AddsUp
<1> HIDE DEF S, T, N
<1>5. bad = {}
  <2>1. SUFFICES ASSUME bad # {} PROVE FALSE
    OBVIOUS
  <2>2. PICK t \in bad : \A r \in bad : r \subseteq t => r = t
    <3>1. bad \subseteq SUBSET D
      OBVIOUS
    <3> HIDE DEF bad
    <3>2. QED
      BY <2>1, <3>1, SmallestSubset
  <2>3. t \in SUBSET D /\ t \in SUBSET s /\ ~Good(t)
    BY <2>2
  <2>4. PICK x \in t : TRUE
    <3>1. Good({})
      BY <1>4
    <3>2. QED
      BY <2>3, <3>1
  <2>5. Good(t \ {x})
    BY <2>2, <2>3
  <2>6. f[x] \in Int /\ g[x] \in Int /\ f[x] <= g[x] + c
    BY <2>3
  <2>7. c * (N(t) - 1) = c * N(t) - c
    BY <1>3, <2>3
  <2>8. S(t \ {x}) \in Int /\ T(t \ {x}) \in Int /\ c * N(t) \in Int
    BY <1>1, <1>2, <1>3, <2>3
  <2>9. S(t) <= T(t) + c * N(t)
    BY <1>1, <1>2, <1>3, <2>3, <2>5, <2>6, <2>7, <2>8
  <2>10. QED
    BY <2>3, <2>9
<1>6. Good(s)
  BY <1>5
<1>7. QED
  BY <1>6 DEF S, T, N

\* A sum of integers is an integer.
LEMMA TotalType ==
  ASSUME NEW D, IsFiniteSet(D), NEW f \in [D -> Int]
  PROVE  Total(f) \in Int
<1>1. DOMAIN f = D
  OBVIOUS
<1>2. QED
  BY <1>1, TotalIsSum, SumsAddUp DEF AddsUp

\* The same bound for the whole domain.
LEMMA TotalBound ==
  ASSUME NEW D, IsFiniteSet(D), NEW f \in [D -> Int], NEW g \in [D -> Int],
         NEW c \in Int, \A x \in D : f[x] <= g[x] + c
  PROVE  Total(f) <= Total(g) + c * Cardinality(D)
<1>1. DOMAIN f = D /\ DOMAIN g = D
  OBVIOUS
<1>2. Sums(f)[D] <= Sums(g)[D] + c * Cardinality(D)
  BY SumsBound
<1>3. QED
  BY <1>1, <1>2, TotalIsSum

\* A sum follows a change of one of its terms.
LEMMA TotalExcept ==
  ASSUME NEW D, IsFiniteSet(D), NEW f \in [D -> Int], NEW g \in [D -> Int],
         NEW x \in D, \A y \in D : y # x => g[y] = f[y]
  PROVE  Total(g) = Total(f) - f[x] + g[x]
<1> DEFINE r == D \ {x}
<1>1. g \in [D -> Int] /\ \A y \in r : g[y] = f[y]
  OBVIOUS
<1>2. Sums(g)[r] = Sums(f)[r]
  <2>1. Cardinality(r) \in Nat
    BY FS_Subset, FS_CardinalityType
  <2>2. 0 * Cardinality(r) = 0
    BY <2>1
  <2>3. Sums(g)[r] \in Int /\ Sums(f)[r] \in Int
    BY <1>1, SumsAddUp DEF AddsUp
  <2>4. (\A y \in r : g[y] <= f[y] + 0) /\ (\A y \in r : f[y] <= g[y] + 0)
    BY <1>1
  <2> HIDE DEF r
  <2>5. Sums(g)[r] <= Sums(f)[r] + 0 * Cardinality(r)
    BY <1>1, <2>4, SumsBound DEF r
  <2>6. Sums(f)[r] <= Sums(g)[r] + 0 * Cardinality(r)
    BY <1>1, <2>4, SumsBound DEF r
  <2>7. QED
    BY <2>2, <2>3, <2>5, <2>6
<1>3. DOMAIN f = D /\ DOMAIN g = D
  OBVIOUS
<1>4. Sums(f)[D] = f[x] + Sums(f)[r] /\ Sums(f)[r] \in Int
  <2>1. AddsUp(Sums(f), f, D)
    BY SumsAddUp
  <2>2. QED
    BY <2>1 DEF AddsUp
<1>5. Sums(g)[D] = g[x] + Sums(g)[r]
  <2>1. AddsUp(Sums(g), g, D)
    BY <1>1, SumsAddUp
  <2>2. QED
    BY <2>1 DEF AddsUp
<1>6. Total(g) = Sums(g)[D] /\ Total(f) = Sums(f)[D]
  BY <1>3, TotalIsSum
<1> HIDE DEF r
<1>7. f[x] \in Int /\ g[x] \in Int
  OBVIOUS
<1>8. QED
  BY <1>1, <1>2, <1>4, <1>5, <1>6, <1>7

\* A sum of zeros is zero.
LEMMA TotalZero ==
  ASSUME NEW D, IsFiniteSet(D), NEW z \in [D -> Int], \A x \in D : z[x] = 0
  PROVE  Total(z) = 0
<1> DEFINE S(t) == Sums(z)[t]
           bad == {t \in SUBSET D : S(t) # 0}
<1>1. AddsUp(Sums(z), z, D)
  BY SumsAddUp
<1>2. \A t \in SUBSET D : \A x \in t : S(t) = z[x] + S(t \ {x})
  BY <1>1 DEF AddsUp
<1>3. S({}) = 0
  BY <1>1 DEF AddsUp
<1>4. DOMAIN z = D
  OBVIOUS
<1>5. Total(z) = S(D)
  BY <1>4, TotalIsSum
<1> HIDE DEF S
<1>6. bad = {}
  <2>1. SUFFICES ASSUME bad # {} PROVE FALSE
    OBVIOUS
  <2>2. PICK t \in bad : \A r \in bad : r \subseteq t => r = t
    <3>1. bad \subseteq SUBSET D
      OBVIOUS
    <3> HIDE DEF bad
    <3>2. QED
      BY <2>1, <3>1, SmallestSubset
  <2>3. t \in SUBSET D /\ S(t) # 0
    OBVIOUS
  <2>4. PICK x \in t : TRUE
    BY <1>3, <2>3
  <2>5. S(t \ {x}) = 0
    BY <2>2, <2>3
  <2>6. S(t) = z[x] + S(t \ {x})
    BY <1>2, <2>3
  <2>7. QED
    BY <2>3, <2>5, <2>6
<1>7. QED
  BY <1>5, <1>6

\* Sums of two functions over the same set are equal where the functions are,
\* whatever the rest of their domains.
LEMMA SumsAgree ==
  ASSUME NEW D, IsFiniteSet(D), NEW f \in [D -> Int],
         NEW E, IsFiniteSet(E), NEW g \in [E -> Int],
         NEW s \in SUBSET D, s \subseteq E, \A x \in s : f[x] = g[x]
  PROVE  Sums(f)[s] = Sums(g)[s]
<1> DEFINE A(t) == Sums(f)[t]
           B(t) == Sums(g)[t]
           bad == {t \in SUBSET s : A(t) # B(t)}
<1>1. A({}) = B({})
  BY SumsAddUp DEF AddsUp
<1>2. \A t \in SUBSET s : \A x \in t : A(t) = f[x] + A(t \ {x}) /\ B(t) = f[x] + B(t \ {x})
  <2>1. AddsUp(Sums(f), f, D) /\ AddsUp(Sums(g), g, E)
    BY SumsAddUp
  <2>2. QED
    BY <2>1 DEF AddsUp
<1> HIDE DEF A, B
<1>3. bad = {}
  <2>1. SUFFICES ASSUME bad # {} PROVE FALSE
    OBVIOUS
  <2>2. PICK t \in bad : \A r \in bad : r \subseteq t => r = t
    <3>1. bad \subseteq SUBSET D
      OBVIOUS
    <3> HIDE DEF bad
    <3>2. QED
      BY <2>1, <3>1, SmallestSubset
  <2>3. t \in SUBSET s /\ A(t) # B(t)
    BY <2>2
  <2>4. PICK x \in t : TRUE
    BY <1>1, <2>3
  <2>5. A(t \ {x}) = B(t \ {x})
    BY <2>2, <2>3
  <2>6. QED
    BY <1>2, <2>3, <2>5
<1>4. QED
  BY <1>3 DEF A, B

\* The sum of a function on part of its domain.
LEMMA SumOfPart ==
  ASSUME NEW D, IsFiniteSet(D), NEW f \in [D -> Int], NEW s \in SUBSET D
  PROVE  SumFunction([x \in s |-> f[x]]) = Sums(f)[s]
<1> DEFINE g == [x \in s |-> f[x]]
<1>1. IsFiniteSet(s) /\ g \in [s -> Int] /\ DOMAIN g = s
  BY FS_Subset
<1>2. SumFunction(g) = Total(g)
  BY Zenon DEF SumFunction, SumFunctionOnSet, Total, FoldFunction
<1>3. Sums(f)[s] = Sums(g)[s]
  BY <1>1, SumsAgree
<1>4. QED
  BY <1>1, <1>2, <1>3, TotalIsSum

\* The sum over two sets that have nothing in common.
LEMMA SumOfUnion ==
  ASSUME NEW D, IsFiniteSet(D), NEW f \in [D -> Int],
         NEW s \in SUBSET D, NEW t \in SUBSET D, s \cap t = {}
  PROVE  Sums(f)[s \cup t] = Sums(f)[s] + Sums(f)[t]
<1> DEFINE A(u) == Sums(f)[u]
           bad == {u \in SUBSET t : A(s \cup u) # A(s) + A(u)}
<1>1. A({}) = 0 /\ \A u \in SUBSET D : A(u) \in Int /\ \A x \in u : A(u) = f[x] + A(u \ {x})
  <2>1. AddsUp(Sums(f), f, D)
    BY SumsAddUp
  <2>2. QED
    BY <2>1 DEF AddsUp
<1> HIDE DEF A
<1>2. bad = {}
  <2>1. SUFFICES ASSUME bad # {} PROVE FALSE
    OBVIOUS
  <2>2. PICK u \in bad : \A r \in bad : r \subseteq u => r = u
    <3>1. bad \subseteq SUBSET D
      OBVIOUS
    <3> HIDE DEF bad
    <3>2. QED
      BY <2>1, <3>1, SmallestSubset
  <2>3. u \in SUBSET t /\ A(s \cup u) # A(s) + A(u)
    BY <2>2
  <2>4. PICK x \in u : TRUE
    <3>1. s \cup {} = s /\ A(s) \in Int
      BY <1>1
    <3>2. A(s) = A(s) + 0
      BY <3>1
    <3>3. u # {}
      BY <1>1, <2>3, <3>1, <3>2
    <3>4. QED
      BY <3>3
  <2>5. A(s \cup (u \ {x})) = A(s) + A(u \ {x})
    BY <2>2, <2>3
  <2>6. (s \cup u) \ {x} = s \cup (u \ {x})
    BY <2>3
  <2>7. A(s \cup u) = f[x] + A(s \cup (u \ {x})) /\ A(u) = f[x] + A(u \ {x})
    <3>1. s \cup u \in SUBSET D /\ u \in SUBSET D /\ x \in s \cup u
      BY <2>3
    <3>2. A(s \cup u) = f[x] + A((s \cup u) \ {x}) /\ A(u) = f[x] + A(u \ {x})
      BY <1>1, <3>1
    <3>3. QED
      BY <2>6, <3>2
  <2>8. f[x] \in Int /\ A(s) \in Int /\ A(u \ {x}) \in Int
    BY <1>1, <2>3
  <2>9. QED
    BY <2>3, <2>5, <2>7, <2>8
<1>3. QED
  BY <1>2 DEF A

\* The sum of a difference is the difference of the sums.
LEMMA SumOfDifference ==
  ASSUME NEW D, IsFiniteSet(D), NEW f \in [D -> Int], NEW g \in [D -> Int],
         NEW h \in [D -> Int], NEW s \in SUBSET D, \A x \in s : h[x] = f[x] - g[x]
  PROVE  Sums(h)[s] = Sums(f)[s] - Sums(g)[s]
<1> DEFINE A(u) == Sums(f)[u]
           B(u) == Sums(g)[u]
           C(u) == Sums(h)[u]
           bad == {u \in SUBSET s : C(u) # A(u) - B(u)}
<1>1. A({}) = 0 /\ \A u \in SUBSET D : A(u) \in Int /\ \A x \in u : A(u) = f[x] + A(u \ {x})
  BY SumsAddUp DEF AddsUp
<1>2. B({}) = 0 /\ \A u \in SUBSET D : B(u) \in Int /\ \A x \in u : B(u) = g[x] + B(u \ {x})
  BY SumsAddUp DEF AddsUp
<1>3. C({}) = 0 /\ \A u \in SUBSET D : C(u) \in Int /\ \A x \in u : C(u) = h[x] + C(u \ {x})
  BY SumsAddUp DEF AddsUp
<1> HIDE DEF A, B, C
<1>4. bad = {}
  <2>1. SUFFICES ASSUME bad # {} PROVE FALSE
    OBVIOUS
  <2>2. PICK u \in bad : \A r \in bad : r \subseteq u => r = u
    <3>1. bad \subseteq SUBSET D
      OBVIOUS
    <3> HIDE DEF bad
    <3>2. QED
      BY <2>1, <3>1, SmallestSubset
  <2>3. u \in SUBSET s /\ C(u) # A(u) - B(u)
    BY <2>2
  <2>4. PICK x \in u : TRUE
    <3>1. C({}) = A({}) - B({})
      BY <1>1, <1>2, <1>3
    <3>2. u # {}
      BY <2>3, <3>1
    <3>3. QED
      BY <3>2
  <2>5. C(u \ {x}) = A(u \ {x}) - B(u \ {x})
    BY <2>2, <2>3
  <2>6. /\ A(u) = f[x] + A(u \ {x}) /\ B(u) = g[x] + B(u \ {x}) /\ C(u) = h[x] + C(u \ {x})
        /\ h[x] = f[x] - g[x]
        /\ f[x] \in Int /\ g[x] \in Int /\ A(u \ {x}) \in Int /\ B(u \ {x}) \in Int
    BY <1>1, <1>2, <1>3, <2>3
  <2>7. QED
    BY <2>3, <2>5, <2>6
<1>5. QED
  BY <1>4 DEF A, B, C

\* Terms that are zero add nothing.
LEMMA SumOfZeros ==
  ASSUME NEW D, IsFiniteSet(D), NEW f \in [D -> Int], NEW s \in SUBSET D,
         \A x \in s : f[x] = 0
  PROVE  Sums(f)[s] = 0
<1>1. Sums(f)[s] = Sums(f)[s] - Sums(f)[s]
  BY SumOfDifference
<1>2. Sums(f)[s] \in Int
  BY SumsAddUp DEF AddsUp
<1>3. QED
  BY <1>1, <1>2

\* A set has as many elements as the sum of a one for each.
LEMMA SumOfOnes ==
  ASSUME NEW D, IsFiniteSet(D), NEW s \in SUBSET D
  PROVE  Cardinality(s) = Sums([x \in D |-> 1])[s]
<1> DEFINE f == [x \in D |-> 1]
           N(u) == Cardinality(u)
           A(u) == Sums(f)[u]
           bad == {u \in SUBSET s : N(u) # A(u)}
<1>1. A({}) = 0 /\ \A u \in SUBSET D : A(u) \in Int /\ \A x \in u : A(u) = 1 + A(u \ {x})
  <2>1. f \in [D -> Int]
    OBVIOUS
  <2>2. AddsUp(Sums(f), f, D)
    BY <2>1, SumsAddUp
  <2>3. QED
    BY <2>2 DEF AddsUp
<1>2. N({}) = 0 /\ \A u \in SUBSET D : N(u) \in Nat /\ \A x \in u : N(u \ {x}) = N(u) - 1
  BY FS_Subset, FS_CardinalityType, FS_RemoveElement, FS_EmptySet
<1> HIDE DEF A, N
<1>3. bad = {}
  <2>1. SUFFICES ASSUME bad # {} PROVE FALSE
    OBVIOUS
  <2>2. PICK u \in bad : \A r \in bad : r \subseteq u => r = u
    <3>1. bad \subseteq SUBSET D
      OBVIOUS
    <3> HIDE DEF bad
    <3>2. QED
      BY <2>1, <3>1, SmallestSubset
  <2>3. u \in SUBSET s /\ N(u) # A(u)
    BY <2>2
  <2>4. PICK x \in u : TRUE
    BY <1>1, <1>2, <2>3
  <2>5. N(u \ {x}) = A(u \ {x})
    BY <2>2, <2>3
  <2>6. A(u) = 1 + A(u \ {x}) /\ N(u \ {x}) = N(u) - 1 /\ N(u) \in Nat
    BY <1>1, <1>2, <2>3
  <2>7. QED
    BY <2>3, <2>5, <2>6
<1>4. QED
  BY <1>3 DEF A, N

\* A sum can be taken group by group.
GroupSums(f, C, key, R) == [a \in R |-> Sums(f)[{x \in C : key[x] = a}]]

\* The sum over a set is the sum of the sums over the groups it falls into.
LEMMA SumByGroup ==
  ASSUME NEW D, IsFiniteSet(D), NEW f \in [D -> Int], NEW C \in SUBSET D,
         NEW R, IsFiniteSet(R), NEW key \in [C -> R]
  PROVE  SumFunction(GroupSums(f, C, key, R)) = Sums(f)[C]
<1> DEFINE h == [a \in R |-> Sums(f)[{x \in C : key[x] = a}]]
           H(u) == Sums(h)[u]
           A(u) == Sums(f)[u]
           Of(u) == {x \in C : key[x] \in u}
           bad == {u \in SUBSET R : H(u) # A(Of(u))}
<1>1. A({}) = 0 /\ \A u \in SUBSET D : A(u) \in Int
  BY SumsAddUp DEF AddsUp
<1>2. h \in [R -> Int] /\ \A a \in R : h[a] = A({x \in C : key[x] = a})
  BY <1>1
<1>3. H({}) = 0 /\ \A u \in SUBSET R : H(u) \in Int /\ \A a \in u : H(u) = h[a] + H(u \ {a})
  <2> HIDE DEF h
  <2>1. AddsUp(Sums(h), h, R)
    BY <1>2, SumsAddUp
  <2>2. QED
    BY <2>1 DEF AddsUp
<1>4. \A u \in SUBSET R : \A a \in u : A(Of(u)) = A(Of(u \ {a})) + A({x \in C : key[x] = a})
  <2> SUFFICES ASSUME NEW u \in SUBSET R, NEW a \in u
               PROVE  A(Of(u)) = A(Of(u \ {a})) + A({x \in C : key[x] = a})
    OBVIOUS
  <2>1. Of(u) = Of(u \ {a}) \cup {x \in C : key[x] = a}
    OBVIOUS
  <2> DEFINE s == Of(u \ {a})
             t == {x \in C : key[x] = a}
  <2>2. s \in SUBSET D /\ t \in SUBSET D
    OBVIOUS
  <2>3. s \cap t = {}
    OBVIOUS
  <2> HIDE DEF Of, s, t
  <2>4. Sums(f)[s \cup t] = Sums(f)[s] + Sums(f)[t]
    BY <2>2, <2>3, SumOfUnion
  <2>5. QED
    BY <2>1, <2>4 DEF s, t
<1>5. \A u \in SUBSET R : A(Of(u)) \in Int
  BY <1>1
<1>6. Of({}) = {} /\ Of(R) = C
  OBVIOUS
<1>7. SumFunction(h) = H(R)
  <2>1. DOMAIN h = R
    OBVIOUS
  <2> HIDE DEF h
  <2>2. SumFunction(h) = Total(h)
    BY Zenon DEF SumFunction, SumFunctionOnSet, Total, FoldFunction
  <2>3. QED
    BY <2>1, <2>2, TotalIsSum
<1> HIDE DEF A, H, h, Of
<1>8. bad = {}
  <2>1. SUFFICES ASSUME bad # {} PROVE FALSE
    OBVIOUS
  <2>2. PICK u \in bad : \A r \in bad : r \subseteq u => r = u
    <3>1. bad \subseteq SUBSET R
      OBVIOUS
    <3> HIDE DEF bad
    <3>2. QED
      BY <2>1, <3>1, SmallestSubset
  <2>3. u \in SUBSET R /\ H(u) # A(Of(u))
    BY <2>2
  <2>4. PICK a \in u : TRUE
    BY <1>1, <1>3, <1>6, <2>3
  <2>5. H(u \ {a}) = A(Of(u \ {a}))
    BY <2>2, <2>3
  <2>6. H(u) = h[a] + H(u \ {a}) /\ A(Of(u)) = A(Of(u \ {a})) + h[a] /\ h[a] \in Int
    BY <1>2, <1>3, <1>4, <2>3
  <2>7. H(u \ {a}) \in Int
    BY <1>3, <2>3
  <2>8. QED
    BY <2>3, <2>5, <2>6, <2>7
<1>9. H(R) = A(Of(R))
  BY <1>8
<1>10. QED
  BY <1>6, <1>7, <1>9 DEF A, h, GroupSums

\* A sum of natural numbers is one.
LEMMA SumOfNats ==
  ASSUME NEW D, IsFiniteSet(D), NEW f \in [D -> Nat], NEW s \in SUBSET D
  PROVE  Sums(f)[s] \in Nat
<1> DEFINE z == [x \in D |-> 0]
<1>1. f \in [D -> Int] /\ z \in [D -> Int] /\ \A x \in s : z[x] <= f[x] + 0 /\ z[x] = 0
  OBVIOUS
<1> HIDE DEF z
<1>2. Sums(z)[s] = 0
  BY <1>1, SumOfZeros
<1>3. Sums(z)[s] <= Sums(f)[s] + 0 * Cardinality(s)
  BY <1>1, SumsBound
<1>4. Sums(f)[s] \in Int /\ Cardinality(s) \in Nat
  BY <1>1, SumsAddUp, FS_Subset, FS_CardinalityType DEF AddsUp
<1>5. QED
  BY <1>2, <1>3, <1>4

\* It does not decrease when terms are added.
LEMMA SumOfMore ==
  ASSUME NEW D, IsFiniteSet(D), NEW f \in [D -> Nat], NEW s \in SUBSET D, NEW t \in SUBSET s
  PROVE  Sums(f)[t] <= Sums(f)[s]
<1>1. Sums(f)[t] \in Nat /\ Sums(f)[s \ t] \in Nat
  BY SumOfNats
<1>2. f \in [D -> Int] /\ t \in SUBSET D /\ s \ t \in SUBSET D
  OBVIOUS
<1>3. t \cup (s \ t) = s
  OBVIOUS
<1>4. t \cap (s \ t) = {}
  OBVIOUS
<1>5. Sums(f)[t \cup (s \ t)] = Sums(f)[t] + Sums(f)[s \ t]
  <2> DEFINE r == s \ t
  <2>1. r \in SUBSET D /\ t \cap r = {}
    BY <1>2, <1>4
  <2> HIDE DEF r
  <2>2. Sums(f)[t \cup r] = Sums(f)[t] + Sums(f)[r]
    BY <1>2, <2>1, SumOfUnion
  <2>3. QED
    BY <2>2 DEF r
<1>6. Sums(f)[s] = Sums(f)[t] + Sums(f)[s \ t]
  BY <1>3, <1>5
<1>7. QED
  BY <1>1, <1>6

\* Equal terms add up to a multiple.
LEMMA SumOfEquals ==
  ASSUME NEW D, IsFiniteSet(D), NEW f \in [D -> Int], NEW s \in SUBSET D, NEW c \in Int,
         \A x \in s : f[x] = c
  PROVE  Sums(f)[s] = c * Cardinality(s)
<1> DEFINE z == [x \in D |-> 0]
<1>1. /\ z \in [D -> Int] /\ -c \in Int
      /\ \A x \in s : f[x] <= z[x] + c /\ z[x] <= f[x] + (-c) /\ z[x] = 0
  OBVIOUS
<1> HIDE DEF z
<1>2. Sums(z)[s] = 0
  BY <1>1, SumOfZeros
<1>3. Sums(f)[s] <= Sums(z)[s] + c * Cardinality(s)
  BY <1>1, SumsBound
<1>4. Sums(z)[s] <= Sums(f)[s] + (-c) * Cardinality(s)
  BY <1>1, SumsBound
<1>5. Sums(f)[s] \in Int /\ Cardinality(s) \in Nat
  BY <1>1, SumsAddUp, FS_Subset, FS_CardinalityType DEF AddsUp
<1>6. c * Cardinality(s) \in Int /\ (-c) * Cardinality(s) = -(c * Cardinality(s))
  BY <1>5
<1>7. QED
  BY <1>2, <1>3, <1>4, <1>5, <1>6

\* The parts of U whose sum is w.
Parts(f, U, w) == {S \in SUBSET U : Sums(f)[S] = w}

\* With one more element, a part either leaves it out or is a part without it
\* whose sum falls short by its term.
LEMMA PartsSplit ==
  ASSUME NEW D, IsFiniteSet(D), NEW f \in [D -> Int], NEW U \in SUBSET D,
         NEW x \in D, x \notin U, NEW w \in Int
  PROVE  Cardinality(Parts(f, U \cup {x}, w))
             = Cardinality(Parts(f, U, w)) + Cardinality(Parts(f, U, w - f[x]))
<1> DEFINE A == Parts(f, U, w)
           B == Parts(f, U, w - f[x])
           C == {S \in Parts(f, U \cup {x}, w) : x \in S}
           add == [S \in B |-> S \cup {x}]
<1>1. \A S \in SUBSET U : /\ Sums(f)[S] \in Int
                          /\ Sums(f)[S \cup {x}] = f[x] + Sums(f)[S]
  <2> SUFFICES ASSUME NEW S \in SUBSET U
               PROVE  Sums(f)[S] \in Int /\ Sums(f)[S \cup {x}] = f[x] + Sums(f)[S]
    OBVIOUS
  <2>1. S \in SUBSET D /\ S \cup {x} \in SUBSET D /\ x \in S \cup {x}
    OBVIOUS
  <2>2. (S \cup {x}) \ {x} = S
    OBVIOUS
  <2>3. AddsUp(Sums(f), f, D)
    BY SumsAddUp
  <2>4. Sums(f)[S \cup {x}] = f[x] + Sums(f)[(S \cup {x}) \ {x}]
    BY <2>1, <2>3, Zenon DEF AddsUp
  <2>5. Sums(f)[S] \in Int
    BY <2>1, <2>3, Zenon DEF AddsUp
  <2>6. QED
    BY <2>2, <2>4, <2>5
<1>2. f[x] \in Int
  OBVIOUS
<1>3. C = {S \cup {x} : S \in B}
  <2>1. ASSUME NEW S \in C PROVE S \in {s \cup {x} : s \in B}
    <3>1. S \ {x} \in SUBSET U /\ (S \ {x}) \cup {x} = S /\ Sums(f)[S] = w
      BY <2>1 DEF Parts
    <3>2. w = f[x] + Sums(f)[S \ {x}] /\ Sums(f)[S \ {x}] \in Int
      BY <1>1, <3>1
    <3>3. Sums(f)[S \ {x}] = w - f[x]
      BY <1>2, <3>2
    <3>4. S \ {x} \in B
      BY <3>1, <3>3 DEF Parts
    <3>5. QED
      BY <3>1, <3>4
  <2>2. ASSUME NEW s \in B PROVE s \cup {x} \in C
    <3>1. s \in SUBSET U /\ Sums(f)[s] = w - f[x]
      BY <2>2 DEF Parts
    <3>2. Sums(f)[s \cup {x}] = w
      <4>1. Sums(f)[s \cup {x}] = f[x] + (w - f[x])
        BY <1>1, <3>1, Zenon
      <4>2. QED
        BY <1>2, <4>1
    <3>3. s \cup {x} \in SUBSET (U \cup {x}) /\ x \in s \cup {x}
      BY <3>1
    <3>4. QED
      BY <3>2, <3>3, Zenon DEF Parts
  <2>3. QED
    BY <2>1, <2>2
<1>4. add \in Bijection(B, C)
  <2>1. add \in [B -> C] /\ \A t \in C : \E s \in B : add[s] = t
    BY <1>3
  <2>2. \A s, t \in B : add[s] = add[t] => s = t
    <3> SUFFICES ASSUME NEW s \in B, NEW t \in B, add[s] = add[t] PROVE s = t
      OBVIOUS
    <3>1. x \notin s /\ x \notin t /\ s \cup {x} = t \cup {x}
      BY DEF Parts
    <3>2. QED
      BY <3>1
  <2>3. QED
    BY <2>1, <2>2 DEF Bijection, Injection, Surjection, IsInjective
<1>5. IsFiniteSet(A) /\ IsFiniteSet(B) /\ IsFiniteSet(C)
  <2>1. IsFiniteSet(SUBSET D)
    BY FS_SUBSET
  <2>2. A \in SUBSET SUBSET D /\ B \in SUBSET SUBSET D /\ C \in SUBSET SUBSET D
    BY DEF Parts
  <2>3. QED
    BY <2>1, <2>2, FS_Subset
<1>6. Cardinality(C) = Cardinality(B)
  BY <1>4, <1>5, FS_Bijection DEF ExistsBijection
<1>7. A \cap C = {}
  BY DEF Parts
<1>8. Parts(f, U \cup {x}, w) = A \cup C
  <2>1. \A S \in SUBSET (U \cup {x}) : x \notin S <=> S \in SUBSET U
    OBVIOUS
  <2>2. SUBSET U \subseteq SUBSET (U \cup {x})
    OBVIOUS
  <2>3. QED
    BY <2>1, <2>2 DEF Parts
<1> HIDE DEF A, B, C
<1>9. Cardinality(A \cup C) = Cardinality(A) + Cardinality(C) - Cardinality(A \cap C)
  BY <1>5, FS_Union
<1>10. Cardinality(A \cap C) = 0 /\ Cardinality(A) \in Nat /\ Cardinality(C) \in Nat
  BY <1>5, <1>7, FS_EmptySet, FS_CardinalityType
<1>11. Cardinality(A \cup C) = Cardinality(A) + Cardinality(B)
  BY <1>6, <1>9, <1>10
<1>12. QED
  BY <1>8, <1>11, Zenon DEF A, B

\* The parts whose sum is in W, counted sum by sum.
LEMMA PartsCounted ==
  ASSUME NEW D, IsFiniteSet(D), NEW f \in [D -> Int], NEW W, IsFiniteSet(W)
  PROVE  SumFunction([w \in W |-> Cardinality(Parts(f, D, w))])
             = Cardinality({S \in SUBSET D : Sums(f)[S] \in W})
<1> DEFINE P == SUBSET D
           C == {S \in P : Sums(f)[S] \in W}
           one == [S \in P |-> 1]
           key == [S \in C |-> Sums(f)[S]]
<1>1. IsFiniteSet(P)
  BY FS_SUBSET
<1>2. one \in [P -> Int] /\ C \in SUBSET P /\ key \in [C -> W]
  OBVIOUS
<1>3. \A w \in W : {S \in C : key[S] = w} = Parts(f, D, w) /\ Parts(f, D, w) \in SUBSET P
  BY DEF Parts
<1> HIDE DEF C, key, P
<1>4. SumFunction(GroupSums(one, C, key, W)) = Sums(one)[C]
  BY <1>1, <1>2, SumByGroup
<1>5. \A s \in SUBSET P : Sums(one)[s] = Cardinality(s)
  BY <1>1, SumOfOnes
<1>6. GroupSums(one, C, key, W) = [w \in W |-> Cardinality(Parts(f, D, w))]
  BY <1>3, <1>5 DEF GroupSums
<1>7. QED
  BY <1>2, <1>4, <1>5, <1>6 DEF C, P

-----------------------------------------------------------------------------
\* Charging keeps the counters and the owner's row natural numbers.
LEMMA ChargeTyped ==
  ASSUME TypeOK, NEW o \in Owner, NEW n \in Nat, NEW u \in Nat, Charge(o, n, u)
  PROVE  tokens' \in Nat /\ uncertain' \in Nat /\ usage' \in [Owner -> Usage]
<1>1. tokens' \in Nat /\ uncertain' \in Nat
  BY DEF TypeOK, Charge
<1>2. usage[o] \in Usage /\ usage[o].tokens + n \in Nat
      /\ usage[o].uncertain + u \in Nat
  BY DEF TypeOK, Usage
<1> DEFINE first == [usage[o] EXCEPT !.tokens = @ + n]
<1>3. first \in Usage /\ first.uncertain + u \in Nat
  BY <1>2 DEF Usage
<1>4. [first EXCEPT !.uncertain = first.uncertain + u] \in Usage
  BY <1>3 DEF Usage
<1>5. [usage EXCEPT ![o].tokens = @ + n] = [usage EXCEPT ![o] = first]
  BY DEF TypeOK
<1>6. usage' = [usage EXCEPT ![o] = [first EXCEPT !.uncertain = first.uncertain + u]]
  BY <1>5 DEF TypeOK, Charge
<1>7. QED
  BY <1>1, <1>4, <1>6 DEF TypeOK

\* Every variable keeps its type: the ledger's counters never go negative
\* (SharedBudgetGuard._load would refuse such a ledger).
LEMMA Typing == Spec => []TypeOK
<1>1. Init => TypeOK
  <2>1. NoUsage \in Usage /\ NoCall \in Call
    BY DEF NoUsage, Usage, NoCall, Call
  <2>2. Init => blocked \in BOOLEAN
    BY DEF Init
  <2>3. Init => reserved \in [Owner -> Nat] /\ pc \in [Owner -> Place]
    BY DEF Init, Place
  <2>4. Init => usage \in [Owner -> Usage] /\ call \in [Owner -> Call]
    BY <2>1 DEF Init
  <2>5. Init => /\ calls \in Nat /\ tokens \in Nat /\ uncertain \in Nat
                /\ spent \in Nat /\ hidden \in Nat /\ metered \in Nat
                /\ inFlight \subseteq Owner
    BY DEF Init
  <2>6. QED
    BY <2>2, <2>3, <2>4, <2>5 DEF TypeOK
<1>2. TypeOK /\ [Next]_vars => TypeOK'
  <2> SUFFICES ASSUME TypeOK, [Next]_vars PROVE TypeOK'
    OBVIOUS
  <2> USE DEF TypeOK, Usage, Call, Place
  <2>1. ASSUME NEW o \in Owner, Start(o) PROVE TypeOK'
    BY <2>1 DEF Start, ledger
  <2>2. ASSUME NEW o \in Owner, ChargeCall(o) PROVE TypeOK'
    <3>1. PICK r \in Reservation :
            /\ calls' = calls + 1
            /\ usage' = [usage EXCEPT ![o].calls = @ + 1]
            /\ Reserve(o, r)
            /\ pc' = [pc EXCEPT ![o] = "calling"]
            /\ call' = [call EXCEPT ![o] = [NoCall EXCEPT !.reserve = r, !.attempt = 1]]
            /\ UNCHANGED <<tokens, uncertain, blocked, spent, hidden, metered>>
      BY <2>2 DEF ChargeCall
    <3>2. r \in Nat
      BY BudgetAssumption
    <3>3. [NoCall EXCEPT !.reserve = r, !.attempt = 1] \in Call
      BY <3>2 DEF NoCall
    <3>4. call' \in [Owner -> Call]
      BY <3>1, <3>3
    <3>5. inFlight' \subseteq Owner /\ reserved' \in [Owner -> Nat]
      BY <3>1, <3>2 DEF Reserve
    <3>6. usage' \in [Owner -> Usage] /\ pc' \in [Owner -> Place]
      BY <3>1
    <3>7. QED
      BY <3>1, <3>4, <3>5, <3>6
  <2>3. ASSUME NEW o \in Owner, RetryAttempt(o) PROVE TypeOK'
    BY <2>3 DEF RetryAttempt, ledger
  <2>4. ASSUME NEW o \in Owner, Answer(o) PROVE TypeOK'
    <3>1. PICK u \in 0 .. call[o].reserve + Overrun, c \in Complete :
            \E n \in (IF c THEN {u} ELSE 0 .. call[o].reserve + Overrun) :
              /\ spent' = spent + u
              /\ hidden' = hidden + (IF u > n THEN u - n ELSE 0)
              /\ pc' = [pc EXCEPT ![o] = "answered"]
              /\ call' = [call EXCEPT ![o].count = n, ![o].complete = c]
              /\ UNCHANGED <<ledger, metered>>
      BY <2>4 DEF Answer
    <3>2. c \in BOOLEAN
      BY BudgetAssumption
    <3>3. PICK n \in 0 .. call[o].reserve + Overrun :
              /\ spent' = spent + u
              /\ hidden' = hidden + (IF u > n THEN u - n ELSE 0)
              /\ pc' = [pc EXCEPT ![o] = "answered"]
              /\ call' = [call EXCEPT ![o].count = n, ![o].complete = c]
              /\ UNCHANGED <<ledger, metered>>
      <4>1. CASE c
        BY <3>1, <4>1
      <4>2. CASE ~c
        BY <3>1, <4>2
      <4>3. QED
        BY <4>1, <4>2
    <3>4. u \in Nat /\ n \in Nat
      BY BudgetAssumption
    <3>5. [call[o] EXCEPT !.count = n, !.complete = c] \in Call
      BY <3>2, <3>4
    <3>6. call' \in [Owner -> Call]
      BY <3>3, <3>5
    <3>7. QED
      BY <3>3, <3>4, <3>6 DEF ledger
  <2>5. ASSUME NEW o \in Owner, Fail(o) PROVE TypeOK'
    BY <2>5 DEF Fail, ledger
  <2>6. ASSUME NEW o \in Owner, Journal(o) PROVE TypeOK'
    BY <2>6 DEF Journal, ledger
  <2>7. ASSUME NEW o \in Owner, ChargeTokens(o) PROVE TypeOK'
    <3>1. call[o].count \in Nat
      OBVIOUS
    <3>2. inFlight' \subseteq Owner /\ reserved' \in [Owner -> Nat]
      BY <2>7 DEF ChargeTokens, Reserve, Release
    <3>3. tokens' \in Nat /\ uncertain' \in Nat /\ usage' \in [Owner -> Usage]
      BY <2>7, <3>1, ChargeTyped DEF ChargeTokens
    <3>4. QED
      BY <2>7, <3>2, <3>3 DEF ChargeTokens
  <2>8. ASSUME NEW o \in Owner, SettleFailedCall(o) PROVE TypeOK'
    <3>1. tokens' \in Nat /\ uncertain' \in Nat /\ usage' \in [Owner -> Usage]
      BY <2>8, ChargeTyped DEF SettleFailedCall
    <3>2. inFlight' \subseteq Owner /\ reserved' \in [Owner -> Nat]
      BY <2>8 DEF SettleFailedCall, Release
    <3>3. pc' \in [Owner -> Place]
      BY <2>8 DEF SettleFailedCall
    <3>4. QED
      BY <2>8, <3>1, <3>2, <3>3 DEF SettleFailedCall
  <2>9. ASSUME NEW o \in Owner, Block(o) PROVE TypeOK'
    BY <2>9 DEF Block
  <2>10. ASSUME NEW o \in Owner, Crash(o) PROVE TypeOK'
    <3>1. \E u \in Nat : spent' = spent + u
      BY <2>10 DEF Crash
    <3>2. QED
      BY <2>10, <3>1 DEF Crash, ledger, NoCall
  <2>11. CASE UNCHANGED vars
    BY <2>11 DEF vars
  <2>12. QED
    BY <2>1, <2>2, <2>3, <2>4, <2>5, <2>6, <2>7, <2>8, <2>9, <2>10, <2>11
       DEF Next, Worker
<1>3. QED
  BY <1>1, <1>2, PTL DEF Spec

\* Write-ahead reservation: no request runs, and no outcome waits to be
\* charged, without its reservation standing in the ledger.
THEOREM LedgerPrecedesRequest == Spec => []CallOnLedger
<1>1. Init => CallOnLedger
  BY DEF Init, CallOnLedger
<1>2. TypeOK /\ CallOnLedger /\ [Next]_vars => CallOnLedger'
  <2> SUFFICES ASSUME TypeOK, CallOnLedger, [Next]_vars PROVE CallOnLedger'
    OBVIOUS
  <2> USE DEF TypeOK, CallOnLedger, Place, Call
  <2>1. ASSUME NEW o \in Owner, Start(o) PROVE CallOnLedger'
    BY <2>1 DEF Start, ledger
  <2>2. ASSUME NEW o \in Owner, ChargeCall(o) PROVE CallOnLedger'
    BY <2>2 DEF ChargeCall, Reserve, NoCall
  <2>3. ASSUME NEW o \in Owner, RetryAttempt(o) PROVE CallOnLedger'
    BY <2>3 DEF RetryAttempt, ledger
  <2>4. ASSUME NEW o \in Owner, Answer(o) PROVE CallOnLedger'
    BY <2>4 DEF Answer, ledger
  <2>5. ASSUME NEW o \in Owner, Fail(o) PROVE CallOnLedger'
    BY <2>5 DEF Fail, ledger
  <2>6. ASSUME NEW o \in Owner, Journal(o) PROVE CallOnLedger'
    BY <2>6 DEF Journal, ledger
  <2>7. ASSUME NEW o \in Owner, ChargeTokens(o) PROVE CallOnLedger'
    BY <2>7 DEF ChargeTokens, Reserve, Release
  <2>8. ASSUME NEW o \in Owner, SettleFailedCall(o) PROVE CallOnLedger'
    BY <2>8 DEF SettleFailedCall, Release
  <2>9. ASSUME NEW o \in Owner, Block(o) PROVE CallOnLedger'
    BY <2>9 DEF Block
  <2>10. ASSUME NEW o \in Owner, Crash(o) PROVE CallOnLedger'
    BY <2>10 DEF Crash, ledger
  <2>11. CASE UNCHANGED vars
    BY <2>11 DEF vars
  <2>12. QED
    BY <2>1, <2>2, <2>3, <2>4, <2>5, <2>6, <2>7, <2>8, <2>9, <2>10, <2>11
       DEF Next, Worker
<1>3. QED
  BY <1>1, <1>2, Typing, PTL DEF Spec

-----------------------------------------------------------------------------
\* The granted calls stay within the ceiling, the uncertain tokens within the
\* charged ones, and each owner's row within the totals.
WithinTotals ==
    /\ calls <= MaxCalls
    /\ uncertain <= tokens
    /\ \A o \in Owner : /\ usage[o].calls <= calls
                        /\ usage[o].tokens <= tokens
                        /\ usage[o].uncertain <= usage[o].tokens

\* The global ledger bounds every owner's row, and max_calls bounds it, for
\* any interleaving of the workers' transactions and crashes.
THEOREM TotalsBoundRows == Spec => []WithinTotals
<1>1. Init => WithinTotals
  BY BudgetAssumption DEF Init, WithinTotals, NoUsage
<1>2. TypeOK /\ WithinTotals /\ [Next]_vars => WithinTotals'
  <2> SUFFICES ASSUME TypeOK, WithinTotals, [Next]_vars PROVE WithinTotals'
    OBVIOUS
  <2> USE DEF TypeOK, WithinTotals, Usage, Call
  <2>1. ASSUME UNCHANGED ledger PROVE WithinTotals'
    BY <2>1 DEF ledger
  <2>2. ASSUME NEW o \in Owner, ChargeCall(o) PROVE WithinTotals'
    BY <2>2, BudgetAssumption DEF ChargeCall, MayCharge
  <2>3. ASSUME NEW o \in Owner, ChargeTokens(o) PROVE WithinTotals'
    BY <2>3, BudgetAssumption DEF ChargeTokens, Charge
  <2>4. ASSUME NEW o \in Owner, SettleFailedCall(o) PROVE WithinTotals'
    BY <2>4, BudgetAssumption DEF SettleFailedCall, Charge
  <2>5. ASSUME NEW o \in Owner, Block(o) PROVE WithinTotals'
    BY <2>5 DEF Block
  <2>6. ASSUME NEW o \in Owner,
               Start(o) \/ RetryAttempt(o) \/ Answer(o) \/ Fail(o) \/ Journal(o)
                 \/ Crash(o) \/ UNCHANGED vars
        PROVE  UNCHANGED ledger
    BY <2>6 DEF Start, RetryAttempt, Answer, Fail, Journal, Crash, vars, ledger
  <2>7. CASE UNCHANGED vars
    BY <2>1, <2>7 DEF vars, ledger
  <2>8. QED
    BY <2>1, <2>2, <2>3, <2>4, <2>5, <2>6, <2>7, Zenon DEF Next, Worker
<1>3. QED
  BY <1>1, <1>2, Typing, PTL DEF Spec

-----------------------------------------------------------------------------
\* A worker whose last call is unresolved never makes another one, whatever
\* the other workers do and however often it restarts.
THEOREM UnresolvedFailsClosed == Spec => FailsClosed
<1> DEFINE Stays(o) == o \in inFlight /\ pc[o] \in {"down", "ready"} =>
                         o \in inFlight' /\ pc'[o] \in {"down", "ready"}
<1>1. TypeOK /\ [Next]_vars => \A o \in Owner : Stays(o)
  <2> SUFFICES ASSUME TypeOK, [Next]_vars, NEW o \in Owner,
                      o \in inFlight, pc[o] \in {"down", "ready"}
               PROVE  o \in inFlight' /\ pc'[o] \in {"down", "ready"}
    OBVIOUS
  <2> USE DEF TypeOK, Place
  <2>1. ASSUME NEW p \in Owner, Worker(p)
        PROVE  o \in inFlight' /\ pc'[o] \in {"down", "ready"}
    <3>1. CASE p = o
      BY <2>1, <3>1 DEF Worker, Start, ChargeCall, MayCharge, RetryAttempt, Answer,
         Fail, Journal, ChargeTokens, SettleFailedCall, Block, ledger
    <3>2. CASE p # o
      BY <2>1, <3>2 DEF Worker, Start, ChargeCall, RetryAttempt, Answer, Fail,
         Journal, ChargeTokens, SettleFailedCall, Block, Reserve, Release, ledger
    <3>3. QED
      BY <3>1, <3>2
  <2>2. ASSUME NEW p \in Owner, Crash(p)
        PROVE  o \in inFlight' /\ pc'[o] \in {"down", "ready"}
    BY <2>2 DEF Crash, ledger
  <2>3. CASE UNCHANGED vars
    BY <2>3 DEF vars
  <2>4. QED
    BY <2>1, <2>2, <2>3 DEF Next
<1>2. QED
  BY <1>1, Typing, PTL DEF Spec, FailsClosed

\* After one worker has opened the circuit no call is granted to any worker.
THEOREM CircuitStopsEveryone == Spec => BlockStopsEveryone
<1>1. [Next]_vars => [blocked => blocked' /\ calls' = calls]_vars
  <2> SUFFICES ASSUME [Next]_vars, blocked PROVE blocked' /\ calls' = calls
    OBVIOUS
  <2>1. ASSUME NEW o \in Owner, Worker(o) PROVE blocked' /\ calls' = calls
    BY <2>1 DEF Worker, Start, ChargeCall, MayCharge, RetryAttempt, Answer, Fail,
       Journal, ChargeTokens, SettleFailedCall, Block, ledger
  <2>2. ASSUME NEW o \in Owner, Crash(o) PROVE blocked' /\ calls' = calls
    BY <2>2 DEF Crash, ledger
  <2>3. QED
    BY <2>1, <2>2 DEF Next, vars
<1>2. QED
  BY <1>1, PTL DEF Spec, BlockStopsEveryone

\* The requests still to be accounted for: what an owner's call will add to the
\* ledger when it is settled, and the most a killed one may have cost.
Due == [o \in Owner |->
    IF pc[o] \in {"answered", "logged"} THEN call[o].count
    ELSE IF pc[o] = "calling" \/ o \notin inFlight THEN 0
    ELSE reserved[o] + (IF pc[o] = "failed" THEN 0 ELSE Overrun)]

\* An answer reports no more than its reservation and the overrun, and an owner
\* without a key in in_flight has nothing reserved.
WithinReport == \A o \in Owner :
    /\ pc[o] \in {"answered", "logged"} => call[o].count <= call[o].reserve + Overrun
    /\ o \notin inFlight => reserved[o] = 0

\* Answer with the three choices side by side.
LEMMA AnswerReports ==
  ASSUME NEW o \in Owner, Answer(o)
  PROVE  \E u, n \in 0 .. call[o].reserve + Overrun, c \in Complete :
            /\ pc[o] = "calling"
            /\ spent' = spent + u
            /\ hidden' = hidden + (IF u > n THEN u - n ELSE 0)
            /\ pc' = [pc EXCEPT ![o] = "answered"]
            /\ call' = [call EXCEPT ![o].count = n, ![o].complete = c]
            /\ UNCHANGED <<ledger, metered>>
<1>1. PICK u \in 0 .. call[o].reserve + Overrun, c \in Complete :
        \E n \in (IF c THEN {u} ELSE 0 .. call[o].reserve + Overrun) :
            /\ pc[o] = "calling"
            /\ spent' = spent + u
            /\ hidden' = hidden + (IF u > n THEN u - n ELSE 0)
            /\ pc' = [pc EXCEPT ![o] = "answered"]
            /\ call' = [call EXCEPT ![o].count = n, ![o].complete = c]
            /\ UNCHANGED <<ledger, metered>>
  BY DEF Answer
<1>2. CASE c
  BY <1>1, <1>2
<1>3. CASE ~c
  BY <1>1, <1>3
<1>4. QED
  BY <1>2, <1>3

\* No step makes a report larger than what was reserved for it allows.
LEMMA ReportsBounded == Spec => []WithinReport
<1>1. Init => WithinReport
  BY DEF Init, WithinReport
<1>2. TypeOK /\ WithinReport /\ [Next]_vars => WithinReport'
  <2> SUFFICES ASSUME TypeOK, WithinReport, [Next]_vars PROVE WithinReport'
    OBVIOUS
  <2> USE DEF TypeOK, WithinReport, Place, Call
  <2>1. ASSUME NEW o \in Owner, Answer(o) PROVE WithinReport'
    <3>1. PICK u, n \in 0 .. call[o].reserve + Overrun, c \in Complete :
            /\ pc[o] = "calling"
            /\ spent' = spent + u
            /\ hidden' = hidden + (IF u > n THEN u - n ELSE 0)
            /\ pc' = [pc EXCEPT ![o] = "answered"]
            /\ call' = [call EXCEPT ![o].count = n, ![o].complete = c]
            /\ UNCHANGED <<ledger, metered>>
      BY <2>1, AnswerReports
    <3>2. UNCHANGED <<inFlight, reserved>>
      BY <3>1 DEF ledger
    <3>3. n <= call[o].reserve + Overrun
      BY <3>1, BudgetAssumption
    <3>4. call'[o].count = n /\ call'[o].reserve = call[o].reserve
          /\ \A p \in Owner : p # o => call'[p] = call[p] /\ pc'[p] = pc[p]
      BY <3>1
    <3>5. QED
      BY <3>1, <3>2, <3>3, <3>4
  <2>2. ASSUME NEW o \in Owner,
               \/ Start(o) \/ ChargeCall(o) \/ RetryAttempt(o) \/ Fail(o) \/ Journal(o)
               \/ ChargeTokens(o) \/ SettleFailedCall(o) \/ Block(o) \/ Crash(o)
        PROVE  WithinReport'
    <3>1. CASE Start(o)
      BY <3>1 DEF Start, ledger
    <3>2. CASE ChargeCall(o)
      BY <3>2 DEF ChargeCall, Reserve
    <3>3. CASE RetryAttempt(o)
      BY <3>3 DEF RetryAttempt, ledger
    <3>4. CASE Fail(o)
      BY <3>4 DEF Fail, ledger
    <3>5. CASE Journal(o)
      BY <3>5 DEF Journal, ledger
    <3>6. CASE ChargeTokens(o)
      BY <3>6 DEF ChargeTokens, Reserve, Release
    <3>7. CASE SettleFailedCall(o)
      BY <3>7 DEF SettleFailedCall, Release
    <3>8. CASE Block(o)
      BY <3>8 DEF Block
    <3>9. CASE Crash(o)
      BY <3>9 DEF Crash, ledger
    <3>10. QED
      BY <2>2, <3>1, <3>2, <3>3, <3>4, <3>5, <3>6, <3>7, <3>8, <3>9
  <2>3. CASE UNCHANGED vars
    BY <2>3 DEF vars
  <2>4. QED
    BY <2>1, <2>2, <2>3 DEF Next, Worker
<1>3. QED
  BY <1>1, <1>2, Typing, PTL DEF Spec

\* What the accounts below rest on.
LedgerInv == TypeOK /\ CallOnLedger /\ WithinReport

\* It holds in every state.
LEMMA LedgerInvariance == Spec => []LedgerInv
  BY Typing, LedgerPrecedesRequest, ReportsBounded, PTL DEF LedgerInv

-----------------------------------------------------------------------------
\* sum(in_flight.values()) is a sum over the owners.
LEMMA CommittedIsTotal == Committed = Total(reserved) /\ Committed' = Total(reserved')
  BY Zenon DEF Committed, Total, FoldFunction, FoldFunctionOnSet, MapThenFoldSet

\* The reservations are part of their sum.
LEMMA ReservationsAdd ==
  ASSUME NEW r \in [Owner -> Nat]
  PROVE  Total(r) \in Nat /\ \A o \in Owner : r[o] <= Total(r)
<1>1. \A g \in [Owner -> Nat] : Total(g) \in Nat
  <2> SUFFICES ASSUME NEW g \in [Owner -> Nat] PROVE Total(g) \in Nat
    OBVIOUS
  <2> DEFINE z == [o \in Owner |-> 0]
  <2>1. /\ z \in [Owner -> Int] /\ g \in [Owner -> Int]
        /\ \A o \in Owner : z[o] = 0 /\ z[o] <= g[o] + 0
    OBVIOUS
  <2> HIDE DEF z
  <2>2. Total(z) = 0
    BY <2>1, TotalZero, BudgetAssumption
  <2>3. Total(z) <= Total(g) + 0 * Cardinality(Owner)
    BY <2>1, TotalBound, BudgetAssumption
  <2>4. Total(g) \in Int /\ Cardinality(Owner) \in Nat
    BY <2>1, TotalType, FS_CardinalityType, BudgetAssumption
  <2>5. QED
    BY <2>2, <2>3, <2>4
<1>2. ASSUME NEW o \in Owner PROVE r[o] <= Total(r)
  <2> DEFINE g == [r EXCEPT ![o] = 0]
  <2>1. /\ g \in [Owner -> Nat] /\ g \in [Owner -> Int] /\ r \in [Owner -> Int]
        /\ \A p \in Owner : p # o => g[p] = r[p]
        /\ g[o] = 0
    OBVIOUS
  <2> HIDE DEF g
  <2>2. Total(g) = Total(r) - r[o] + g[o]
    BY <2>1, TotalExcept, BudgetAssumption
  <2>3. Total(g) \in Nat /\ Total(r) \in Nat
    BY <1>1, <2>1
  <2>4. QED
    BY <2>1, <2>2, <2>3
<1>3. QED
  BY <1>1, <1>2

\* A sum over the owners changes as the entry of one owner does.
LEMMA OneOwnerChanges ==
  ASSUME NEW o \in Owner, NEW f \in [Owner -> Nat], NEW g \in [Owner -> Nat],
         \A p \in Owner : p # o => g[p] = f[p]
  PROVE  Total(g) = Total(f) - f[o] + g[o]
<1>1. f \in [Owner -> Int] /\ g \in [Owner -> Int]
  OBVIOUS
<1>2. QED
  BY <1>1, TotalExcept, BudgetAssumption

\* What is committed follows the reservation of one owner.
LEMMA CommittedChanges ==
  ASSUME TypeOK, NEW o \in Owner, NEW r \in Nat, reserved' = [reserved EXCEPT ![o] = r]
  PROVE  Committed' = Committed - reserved[o] + r
<1>1. /\ reserved \in [Owner -> Nat] /\ reserved' \in [Owner -> Nat]
      /\ \A p \in Owner : p # o => reserved'[p] = reserved[p]
      /\ reserved'[o] = r
  BY DEF TypeOK
<1>2. Total(reserved') = Total(reserved) - reserved[o] + reserved'[o]
  BY <1>1, OneOwnerChanges
<1>3. QED
  BY <1>1, <1>2, CommittedIsTotal

-----------------------------------------------------------------------------
\* Each transaction on the ledger is a step of the contract: charge_call grants
\* within the ceiling, a settled call adds at most the overrun beyond what was
\* reserved for it, block closes, and everything else leaves the ledger alone.
LEMMA StepKeepsContract ==
  ASSUME LedgerInv, LedgerInv', [Next]_vars
  PROVE  [Contract!Next]_(Contract!vars)
<1> DEFINE exposure == tokens + Committed
<1> USE DEF LedgerInv
<1>1. Committed \in Nat /\ Committed' \in Nat /\ \A o \in Owner : reserved[o] <= Committed
  <2>1. reserved \in [Owner -> Nat] /\ reserved' \in [Owner -> Nat]
    BY DEF TypeOK
  <2>2. QED
    BY <2>1, ReservationsAdd, CommittedIsTotal
<1>2. tokens \in Nat /\ tokens' \in Nat /\ reserved \in [Owner -> Nat]
  BY DEF TypeOK
<1>3. ASSUME UNCHANGED <<calls, tokens, reserved, blocked>>
      PROVE  UNCHANGED Contract!vars
  <2>1. Committed' = Committed
    BY <1>3, CommittedIsTotal
  <2>2. QED
    BY <1>3, <2>1 DEF Contract!vars
<1>4. ASSUME NEW o \in Owner, ChargeCall(o) PROVE Contract!Grant
  <2>1. PICK r \in Reservation :
          /\ MayCharge(o, r)
          /\ calls' = calls + 1
          /\ Reserve(o, r)
          /\ UNCHANGED <<tokens, blocked>>
    BY <1>4 DEF ChargeCall
  <2>2. r \in Nat
    BY BudgetAssumption
  <2>3. reserved[o] = 0
    BY <2>1 DEF MayCharge, WithinReport
  <2>4. Committed' = Committed - reserved[o] + r
    BY <2>1, <2>2, CommittedChanges DEF Reserve
  <2>5. exposure' \in exposure .. MaxTokens
    BY <1>1, <1>2, <2>1, <2>2, <2>3, <2>4, BudgetAssumption DEF MayCharge
  <2>6. ~blocked /\ calls < MaxCalls /\ calls' = calls + 1 /\ blocked' = blocked
    BY <2>1, BudgetAssumption DEF MayCharge, TypeOK
  <2>7. QED
    BY <2>5, <2>6 DEF Contract!Grant
<1>5. ASSUME NEW o \in Owner, ChargeTokens(o) PROVE Contract!Settle
  <2>1. reserved' = [reserved EXCEPT ![o] = 0]
    BY <1>5 DEF ChargeTokens, Reserve, Release
  <2>2. Committed' = Committed - reserved[o] + 0
    BY <2>1, CommittedChanges
  <2>3. tokens' = tokens + call[o].count /\ calls' = calls /\ blocked' = blocked
    BY <1>5 DEF ChargeTokens, Charge
  <2>4. call[o].count \in Nat /\ call[o].count <= reserved[o] + Overrun
    BY <1>5 DEF ChargeTokens, TypeOK, Call, CallOnLedger, WithinReport
  <2>5. exposure' \in 0 .. exposure + Overrun
    BY <1>1, <1>2, <2>2, <2>3, <2>4, BudgetAssumption
  <2>6. QED
    BY <2>3, <2>5 DEF Contract!Settle
<1>6. ASSUME NEW o \in Owner, SettleFailedCall(o) PROVE Contract!Settle
  <2>1. reserved' = [reserved EXCEPT ![o] = 0]
    BY <1>6 DEF SettleFailedCall, Release
  <2>2. Committed' = Committed - reserved[o] + 0
    BY <2>1, CommittedChanges
  <2>3. tokens' = tokens + reserved[o] /\ calls' = calls /\ blocked' = blocked
    BY <1>6 DEF SettleFailedCall, Charge
  <2>4. exposure' \in 0 .. exposure + Overrun
    BY <1>1, <1>2, <2>2, <2>3, BudgetAssumption
  <2>5. QED
    BY <2>3, <2>4 DEF Contract!Settle
<1>7. ASSUME NEW o \in Owner, Block(o) PROVE Contract!Close
  <2>1. Committed' = Committed
    BY <1>7, CommittedIsTotal DEF Block
  <2>2. QED
    BY <1>7, <2>1 DEF Block, Contract!Close
<1>8. ASSUME NEW o \in Owner,
             \/ Start(o) \/ RetryAttempt(o) \/ Answer(o) \/ Fail(o) \/ Journal(o) \/ Crash(o)
             \/ UNCHANGED vars
      PROVE  UNCHANGED <<calls, tokens, reserved, blocked>>
  BY <1>8 DEF Start, RetryAttempt, Answer, Fail, Journal, Crash, vars, ledger
<1>9. CASE UNCHANGED vars
  BY <1>3, <1>9 DEF vars
<1>10. QED
  BY <1>3, <1>4, <1>5, <1>6, <1>7, <1>8, <1>9 DEF Next, Worker, Contract!Next

\* The ledger is a CallBudget for any number of workers: calls are granted one
\* at a time and within both ceilings, what is charged and reserved together
\* passes the ceiling by at most the overrun of the settled calls, and a blocked
\* ledger never opens again (budget.py, SharedBudgetGuard).
THEOREM GuardKeepsContract == Spec => ImplementsCallBudget
<1>1. Init => Contract!Init
  <2> SUFFICES ASSUME Init PROVE Contract!Init
    OBVIOUS
  <2>1. Committed = Total(reserved)
    BY CommittedIsTotal
  <2>2. reserved \in [Owner -> Int] /\ \A o \in Owner : reserved[o] = 0
    BY DEF Init
  <2>3. Committed = 0
    BY <2>1, <2>2, TotalZero, BudgetAssumption
  <2>4. QED
    BY <2>3 DEF Init, Contract!Init
<1>2. QED
  BY <1>1, StepKeepsContract, LedgerInvariance, PTL DEF Spec, ImplementsCallBudget, Contract!Spec

-----------------------------------------------------------------------------
\* The provider's bill, but for what it hides, is on the ledger or due to it.
ReportedDue == spent - hidden <= tokens + Total(Due)

\* What is due is a number for every owner.
LEMMA DueType == TypeOK => Due \in [Owner -> Nat]
  BY BudgetAssumption DEF Due, TypeOK, Call, Place

\* The sum of what is due in the next state.
LEMMA DueIsTotal == Total(Due)' = Total(Due')
  BY Zenon DEF Total, FoldFunction, FoldFunctionOnSet, MapThenFoldSet

\* A step of o that leaves the others alone changes the dues by its own.
LEMMA DueChanges ==
  ASSUME TypeOK, TypeOK', NEW o \in Owner,
         \A p \in Owner \ {o} : /\ pc'[p] = pc[p] /\ call'[p] = call[p]
                               /\ reserved'[p] = reserved[p]
                               /\ (p \in inFlight <=> p \in inFlight')
  PROVE  /\ Total(Due') = Total(Due) - Due[o] + Due'[o]
         /\ Due[o] \in Nat /\ Due'[o] \in Nat
         /\ Total(Due) \in Nat /\ Total(Due') \in Nat
<1>1. Due \in [Owner -> Nat] /\ Due' \in [Owner -> Nat]
  BY DueType, BudgetAssumption DEF Due, TypeOK, Call, Place
<1>2. ASSUME NEW p \in Owner, p # o PROVE Due'[p] = Due[p]
  <2>1. /\ pc'[p] = pc[p] /\ call'[p] = call[p] /\ reserved'[p] = reserved[p]
        /\ (p \in inFlight <=> p \in inFlight')
    BY <1>2
  <2>2. QED
    BY <2>1 DEF Due
<1> HIDE DEF Due
<1>3. Total(Due') = Total(Due) - Due[o] + Due'[o]
  BY <1>1, <1>2, OneOwnerChanges
<1>4. QED
  BY <1>1, <1>3, ReservationsAdd

\* Every step of a worker keeps the bill covered: what it adds to the bill it
\* adds to what is due, and what is no longer due has been charged.
LEMMA DueInvariance == Spec => []ReportedDue
<1>1. Init => ReportedDue
  <2> SUFFICES ASSUME Init PROVE ReportedDue
    OBVIOUS
  <2>1. Due \in [Owner -> Int] /\ \A o \in Owner : Due[o] = 0
    BY DEF Due, Init
  <2> HIDE DEF Due
  <2>2. Total(Due) = 0
    BY <2>1, TotalZero, BudgetAssumption
  <2>3. QED
    BY <2>2 DEF Init, ReportedDue
<1>2. LedgerInv /\ LedgerInv' /\ ReportedDue /\ [Next]_vars => ReportedDue'
  <2> SUFFICES ASSUME LedgerInv, LedgerInv', ReportedDue, [Next]_vars PROVE ReportedDue'
    OBVIOUS
  <2> DEFINE d(o) == Due[o]
             e(o) == Due'[o]
  <2>1. \A o \in Owner : d(o) =
            IF pc[o] \in {"answered", "logged"} THEN call[o].count
            ELSE IF pc[o] = "calling" \/ o \notin inFlight THEN 0
            ELSE reserved[o] + (IF pc[o] = "failed" THEN 0 ELSE Overrun)
    BY DEF Due
  <2>2. \A o \in Owner : e(o) =
            IF pc'[o] \in {"answered", "logged"} THEN call'[o].count
            ELSE IF pc'[o] = "calling" \/ o \notin inFlight' THEN 0
            ELSE reserved'[o] + (IF pc'[o] = "failed" THEN 0 ELSE Overrun)
    BY DEF Due
  <2>3. ASSUME NEW o \in Owner, Worker(o) \/ Crash(o)
        PROVE  \A p \in Owner \ {o} : /\ pc'[p] = pc[p] /\ call'[p] = call[p]
                                     /\ reserved'[p] = reserved[p]
                                     /\ (p \in inFlight <=> p \in inFlight')
    <3> USE DEF LedgerInv, TypeOK
    <3>1. CASE Start(o)
      BY <3>1 DEF Start, ledger
    <3>2. CASE ChargeCall(o)
      BY <3>2 DEF ChargeCall, Reserve
    <3>3. CASE RetryAttempt(o)
      BY <3>3 DEF RetryAttempt, ledger
    <3>4. CASE Answer(o)
      BY <3>4 DEF Answer, ledger
    <3>5. CASE Fail(o)
      BY <3>5 DEF Fail, ledger
    <3>6. CASE Journal(o)
      BY <3>6 DEF Journal, ledger
    <3>7. CASE ChargeTokens(o)
      BY <3>7 DEF ChargeTokens, Reserve, Release
    <3>8. CASE SettleFailedCall(o)
      BY <3>8 DEF SettleFailedCall, Release
    <3>9. CASE Block(o)
      BY <3>9 DEF Block
    <3>10. CASE Crash(o)
      BY <3>10 DEF Crash, ledger
    <3>11. QED
      BY <2>3, <3>1, <3>2, <3>3, <3>4, <3>5, <3>6, <3>7, <3>8, <3>9, <3>10 DEF Worker
  <2>4. ASSUME NEW o \in Owner, Worker(o) \/ Crash(o)
        PROVE  /\ Total(Due') = Total(Due) - d(o) + e(o)
               /\ d(o) \in Nat /\ e(o) \in Nat
               /\ Total(Due) \in Nat /\ Total(Due') \in Nat
    BY <2>3, <2>4, DueChanges DEF LedgerInv
  <2>5. /\ spent \in Nat /\ hidden \in Nat /\ tokens \in Nat
        /\ spent' \in Nat /\ hidden' \in Nat /\ tokens' \in Nat
    BY DEF LedgerInv, TypeOK
  <2>6. spent - hidden <= tokens + Total(Due)
    BY DEF ReportedDue
  <2> HIDE DEF d, e
  <2>7. ASSUME NEW o \in Owner, Worker(o) \/ Crash(o),
               (spent' - hidden') - (spent - hidden) <= (tokens' - tokens) + (e(o) - d(o))
        PROVE  spent' - hidden' <= tokens' + Total(Due')
    BY <2>4, <2>5, <2>6, <2>7
  <2> USE DEF LedgerInv, TypeOK, Place, Call
  <2>8. ASSUME NEW o \in Owner, Answer(o)
        PROVE  (spent' - hidden') - (spent - hidden) <= (tokens' - tokens) + (e(o) - d(o))
    <3>1. PICK u, n \in 0 .. call[o].reserve + Overrun, c \in Complete :
            /\ pc[o] = "calling"
            /\ spent' = spent + u
            /\ hidden' = hidden + (IF u > n THEN u - n ELSE 0)
            /\ pc' = [pc EXCEPT ![o] = "answered"]
            /\ call' = [call EXCEPT ![o].count = n, ![o].complete = c]
            /\ UNCHANGED <<ledger, metered>>
      BY <2>8, AnswerReports
    <3>2. d(o) = 0 /\ e(o) = n /\ tokens' = tokens
      BY <2>1, <2>2, <3>1 DEF ledger
    <3>3. u \in Nat /\ n \in Nat
      BY BudgetAssumption
    <3>4. QED
      BY <2>5, <3>1, <3>2, <3>3
  <2>9. ASSUME NEW o \in Owner, Crash(o)
        PROVE  (spent' - hidden') - (spent - hidden) <= (tokens' - tokens) + (e(o) - d(o))
    <3>1. PICK u \in (IF pc[o] = "calling" THEN 0 .. call[o].reserve ELSE {0}) :
            spent' = spent + u
      BY <2>9 DEF Crash
    <3>2. pc'[o] = "down" /\ tokens' = tokens /\ hidden' = hidden /\ reserved' = reserved
          /\ inFlight' = inFlight
      BY <2>9 DEF Crash, ledger
    <3>3. u \in Nat /\ (u > 0 => pc[o] = "calling" /\ u <= call[o].reserve)
      BY <3>1
    <3>4. u <= e(o) - d(o)
      BY <2>1, <2>2, <3>2, <3>3, BudgetAssumption DEF CallOnLedger, WithinReport
    <3>5. QED
      BY <2>4, <2>5, <2>9, <3>1, <3>2, <3>3, <3>4
  <2>10. ASSUME NEW o \in Owner, Fail(o)
        PROVE  (spent' - hidden') - (spent - hidden) <= (tokens' - tokens) + (e(o) - d(o))
    <3>1. PICK u \in 0 .. call[o].reserve :
            spent' = spent + u /\ pc[o] = "calling" /\ pc' = [pc EXCEPT ![o] = "failed"]
      BY <2>10 DEF Fail
    <3>2. tokens' = tokens /\ hidden' = hidden /\ reserved' = reserved /\ inFlight' = inFlight
      BY <2>10 DEF Fail, ledger
    <3>3. d(o) = 0 /\ e(o) = reserved[o] /\ reserved[o] = call[o].reserve
      BY <2>1, <2>2, <3>1, <3>2 DEF CallOnLedger
    <3>4. QED
      BY <2>5, <3>1, <3>2, <3>3
  <2>11. ASSUME NEW o \in Owner, ChargeTokens(o)
        PROVE  (spent' - hidden') - (spent - hidden) <= (tokens' - tokens) + (e(o) - d(o))
    <3>1. d(o) = call[o].count /\ tokens' = tokens + call[o].count
          /\ spent' = spent /\ hidden' = hidden
      BY <2>1, <2>11 DEF ChargeTokens, Charge
    <3>2. e(o) \in Nat
      BY <2>4, <2>11 DEF Worker
    <3>3. QED
      BY <2>5, <3>1, <3>2
  <2>12. ASSUME NEW o \in Owner, SettleFailedCall(o)
        PROVE  (spent' - hidden') - (spent - hidden) <= (tokens' - tokens) + (e(o) - d(o))
    <3>1. d(o) = reserved[o] /\ tokens' = tokens + reserved[o]
          /\ spent' = spent /\ hidden' = hidden
      BY <2>1, <2>12 DEF SettleFailedCall, Charge, CallOnLedger
    <3>2. e(o) \in Nat
      BY <2>4, <2>12 DEF Worker
    <3>3. QED
      BY <2>5, <3>1, <3>2
  <2>13. ASSUME NEW o \in Owner, ChargeCall(o)
        PROVE  (spent' - hidden') - (spent - hidden) <= (tokens' - tokens) + (e(o) - d(o))
    <3>1. d(o) = 0 /\ tokens' = tokens /\ spent' = spent /\ hidden' = hidden
      BY <2>1, <2>13 DEF ChargeCall, MayCharge
    <3>2. e(o) \in Nat
      BY <2>4, <2>13 DEF Worker
    <3>3. QED
      BY <2>5, <3>1, <3>2
  <2>14. ASSUME NEW o \in Owner, Start(o) \/ Journal(o) \/ Block(o) \/ RetryAttempt(o)
        PROVE  (spent' - hidden') - (spent - hidden) <= (tokens' - tokens) + (e(o) - d(o))
    <3>1. e(o) = d(o)
      BY <2>1, <2>2, <2>14 DEF Start, Journal, Block, RetryAttempt, ledger
    <3>2. \E u \in Nat : /\ spent' = spent + u /\ hidden' = hidden + u
                         /\ tokens' = tokens
      <4>1. CASE RetryAttempt(o)
        BY <4>1 DEF RetryAttempt, ledger
      <4>2. CASE Start(o) \/ Journal(o) \/ Block(o)
        BY <2>5, <4>2 DEF Start, Journal, Block, ledger
      <4>3. QED
        BY <2>14, <4>1, <4>2
    <3>3. d(o) \in Nat
      BY <2>4, <2>14 DEF Worker
    <3>4. QED
      BY <2>5, <3>1, <3>2, <3>3
  <2>15. CASE UNCHANGED vars
    <3>1. Due' = Due /\ spent' = spent /\ hidden' = hidden /\ tokens' = tokens
      BY <2>15 DEF vars, Due
    <3>2. QED
      BY <2>6, <3>1, DueIsTotal DEF ReportedDue
  <2>16. ASSUME NEW o \in Owner, Worker(o) \/ Crash(o) PROVE ReportedDue'
    <3>1. spent' - hidden' <= tokens' + Total(Due')
      BY <2>7, <2>8, <2>9, <2>10, <2>11, <2>12, <2>13, <2>14, <2>16 DEF Worker
    <3>2. QED
      BY <3>1, DueIsTotal DEF ReportedDue
  <2>17. QED
    BY <2>15, <2>16 DEF Next
<1>3. QED
  BY <1>1, <1>2, LedgerInvariance, PTL DEF Spec

\* However the workers interleave and whenever they are killed, the tokens billed
\* and reported are on the ledger or reserved on it, but for one overrun for
\* each worker (charge_tokens and settle_failed_call of SharedBudgetGuard).
THEOREM BillIsCovered == Spec => []ReportedCovered
<1>1. LedgerInv /\ ReportedDue => ReportedCovered
  <2> SUFFICES ASSUME LedgerInv, ReportedDue PROVE ReportedCovered
    OBVIOUS
  <2>1. Due \in [Owner -> Int] /\ reserved \in [Owner -> Int]
    BY DueType DEF LedgerInv, TypeOK
  <2>2. \A o \in Owner : Due[o] <= reserved[o] + Overrun
    BY BudgetAssumption DEF Due, LedgerInv, CallOnLedger, WithinReport, TypeOK, Call, Place
  <2> HIDE DEF Due
  <2>3. Total(Due) <= Total(reserved) + Overrun * Cardinality(Owner)
    BY <2>1, <2>2, TotalBound, BudgetAssumption
  <2>4. Overrun * Cardinality(Owner) \in Nat
    BY FS_CardinalityType, BudgetAssumption
  <2>5. Total(Due) \in Int /\ Total(reserved) \in Int
    BY <2>1, TotalType, BudgetAssumption
  <2> DEFINE slack == Overrun * Cardinality(Owner)
  <2> HIDE DEF slack
  <2>6. spent \in Nat /\ hidden \in Nat /\ tokens \in Nat
    BY DEF LedgerInv, TypeOK
  <2>7. spent - hidden <= tokens + Total(reserved) + slack
    BY <2>3, <2>4, <2>5, <2>6 DEF ReportedDue, slack
  <2>8. QED
    BY <2>7, CommittedIsTotal DEF ReportedCovered, slack
<1>2. QED
  BY <1>1, DueInvariance, LedgerInvariance, PTL

-----------------------------------------------------------------------------
\* One column of by_owner.
Column(field) == [o \in Owner |-> usage[o][field]]

\* Each of the ledger's totals is the sum of its column.
ColumnsAdd ==
    /\ calls = Total(Column("calls"))
    /\ tokens = Total(Column("tokens"))
    /\ uncertain = Total(Column("uncertain"))

\* The sum of a column in the next state.
LEMMA ColumnPrimed ==
  ASSUME NEW field
  PROVE  Total(Column(field))' = Total(Column(field)')
  BY Zenon DEF Total, FoldFunction, FoldFunctionOnSet, MapThenFoldSet

\* That is what status compares.
LEMMA StatusSumsAdd == ColumnsAdd =>
    [calls |-> calls, tokens |-> tokens, uncertain |-> uncertain] = StatusSums
<1>1. \A field \in {"calls", "tokens", "uncertain"} :
          StatusSums[field] = Total(Column(field))
  BY Zenon DEF StatusSums, Total, Column
<1>2. StatusSums = [field \in {"calls", "tokens", "uncertain"} |-> StatusSums[field]]
  BY Zenon DEF StatusSums
<1>3. ASSUME ColumnsAdd
      PROVE  [calls |-> calls, tokens |-> tokens, uncertain |-> uncertain] = StatusSums
  <2>1. StatusSums["calls"] = calls /\ StatusSums["tokens"] = tokens
        /\ StatusSums["uncertain"] = uncertain
    BY <1>1, <1>3 DEF ColumnsAdd
  <2>2. QED
    BY <1>2, <2>1
<1>4. QED
  BY <1>3

\* One entry of a column grows by n.
LEMMA ColumnGrows ==
  ASSUME NEW c \in [Owner -> Nat], NEW d \in [Owner -> Nat], NEW o \in Owner, NEW n \in Nat,
         d[o] = c[o] + n, \A p \in Owner : p # o => d[p] = c[p]
  PROVE  Total(d) = Total(c) + n
<1>1. Total(d) = Total(c) - c[o] + d[o]
  BY OneOwnerChanges
<1>2. Total(c) \in Nat
  BY ReservationsAdd
<1>3. QED
  BY <1>1, <1>2

\* The columns hold numbers.
LEMMA ColumnType ==
  TypeOK => /\ Column("calls") \in [Owner -> Nat]
            /\ Column("tokens") \in [Owner -> Nat]
            /\ Column("uncertain") \in [Owner -> Nat]
  BY DEF Column, TypeOK, Usage

\* A charge enters the totals and the owner's row alike.
LEMMA ChargeAdds ==
  ASSUME TypeOK, TypeOK', ColumnsAdd, NEW o \in Owner, NEW n \in Nat, NEW u \in Nat,
         Charge(o, n, u), UNCHANGED calls
  PROVE  ColumnsAdd'
<1>1. \A p \in Owner :
        /\ usage'[p].calls = usage[p].calls
        /\ usage'[p].tokens = usage[p].tokens + (IF p = o THEN n ELSE 0)
        /\ usage'[p].uncertain = usage[p].uncertain + (IF p = o THEN u ELSE 0)
  BY DEF Charge, TypeOK, Usage
<1> DEFINE c1 == Column("calls")      d1 == Column("calls")'
           c2 == Column("tokens")     d2 == Column("tokens")'
           c3 == Column("uncertain")  d3 == Column("uncertain")'
<1>2. /\ c2 \in [Owner -> Nat] /\ d2 \in [Owner -> Nat]
      /\ c3 \in [Owner -> Nat] /\ d3 \in [Owner -> Nat]
  BY DEF Column, TypeOK, Usage
<1>3. d1 = c1
  BY <1>1 DEF Column
<1>4. d2[o] = c2[o] + n /\ \A p \in Owner : p # o => d2[p] = c2[p]
  BY <1>1 DEF Column, TypeOK, Usage
<1>5. d3[o] = c3[o] + u /\ \A p \in Owner : p # o => d3[p] = c3[p]
  BY <1>1 DEF Column, TypeOK, Usage
<1>6. tokens' = tokens + n /\ uncertain' = uncertain + u /\ calls' = calls
  BY DEF Charge
<1>7. calls = Total(c1) /\ tokens = Total(c2) /\ uncertain = Total(c3)
  BY DEF ColumnsAdd
<1> HIDE DEF c1, c2, c3, d1, d2, d3
<1>8. Total(d2) = Total(c2) + n /\ Total(d3) = Total(c3) + u
  BY <1>2, <1>4, <1>5, ColumnGrows
<1>9. calls' = Total(d1) /\ tokens' = Total(d2) /\ uncertain' = Total(d3)
  BY <1>3, <1>6, <1>7, <1>8
<1>10. QED
  BY <1>9, ColumnPrimed DEF ColumnsAdd, d1, d2, d3

\* The columns add up whichever owner writes.
LEMMA ColumnsInvariance == Spec => []ColumnsAdd
<1>1. Init => ColumnsAdd
  <2> SUFFICES ASSUME Init PROVE ColumnsAdd
    OBVIOUS
  <2>1. ASSUME NEW field \in {"calls", "tokens", "uncertain"}
        PROVE  Total(Column(field)) = 0
    <3>1. Column(field) \in [Owner -> Int] /\ \A o \in Owner : Column(field)[o] = 0
      BY DEF Init, Column, NoUsage
    <3> HIDE DEF Column
    <3>2. QED
      BY <3>1, TotalZero, BudgetAssumption
  <2>2. QED
    BY <2>1 DEF Init, ColumnsAdd
<1>2. TypeOK /\ TypeOK' /\ ColumnsAdd /\ [Next]_vars => ColumnsAdd'
  <2> SUFFICES ASSUME TypeOK, TypeOK', ColumnsAdd, [Next]_vars PROVE ColumnsAdd'
    OBVIOUS
  <2>1. ASSUME NEW o \in Owner, ChargeCall(o) PROVE ColumnsAdd'
    <3> DEFINE c == Column("calls")
               d == Column("calls")'
    <3>1. usage' = [usage EXCEPT ![o].calls = @ + 1]
          /\ calls' = calls + 1 /\ tokens' = tokens /\ uncertain' = uncertain
      BY <2>1 DEF ChargeCall
    <3>2. \A p \in Owner : /\ usage'[p].calls = usage[p].calls + (IF p = o THEN 1 ELSE 0)
                          /\ usage'[p].tokens = usage[p].tokens
                          /\ usage'[p].uncertain = usage[p].uncertain
      BY <3>1 DEF TypeOK, Usage
    <3>3. Column("tokens")' = Column("tokens") /\ Column("uncertain")' = Column("uncertain")
      BY <3>2 DEF Column
    <3>4. c \in [Owner -> Nat] /\ d \in [Owner -> Nat]
      BY DEF Column, TypeOK, Usage
    <3>5. d[o] = c[o] + 1 /\ \A p \in Owner : p # o => d[p] = c[p]
      BY <3>2 DEF Column, TypeOK, Usage
    <3> HIDE DEF c, d
    <3>6. Total(d) = Total(c) + 1
      BY <3>4, <3>5, ColumnGrows
    <3>7. calls' = Total(d)
      BY <3>1, <3>6 DEF ColumnsAdd, c
    <3>8. QED
      BY <3>1, <3>3, <3>7, ColumnPrimed DEF ColumnsAdd, d
  <2>2. ASSUME NEW o \in Owner, ChargeTokens(o) PROVE ColumnsAdd'
    <3>1. call[o].count \in Nat
      BY DEF TypeOK, Call
    <3>2. Charge(o, call[o].count, 0) /\ UNCHANGED calls
      BY <2>2 DEF ChargeTokens
    <3>3. QED
      BY <3>1, <3>2, ChargeAdds
  <2>3. ASSUME NEW o \in Owner, SettleFailedCall(o) PROVE ColumnsAdd'
    <3>1. reserved[o] \in Nat
      BY DEF TypeOK
    <3>2. Charge(o, reserved[o], reserved[o]) /\ UNCHANGED calls
      BY <2>3 DEF SettleFailedCall
    <3>3. QED
      BY <3>1, <3>2, ChargeAdds
  <2>4. ASSUME UNCHANGED <<calls, tokens, uncertain, usage>> PROVE ColumnsAdd'
    <3>1. \A field : Column(field)' = Column(field)
      BY <2>4 DEF Column
    <3>2. QED
      BY <2>4, <3>1, ColumnPrimed DEF ColumnsAdd
  <2>5. ASSUME NEW o \in Owner,
               \/ Start(o) \/ RetryAttempt(o) \/ Answer(o) \/ Fail(o) \/ Journal(o)
               \/ Block(o) \/ Crash(o)
        PROVE  UNCHANGED <<calls, tokens, uncertain, usage>>
    BY <2>5 DEF Start, RetryAttempt, Answer, Fail, Journal, Block, Crash, ledger
  <2>6. CASE UNCHANGED vars
    BY <2>4, <2>6 DEF vars
  <2>7. QED
    BY <2>1, <2>2, <2>3, <2>4, <2>5, <2>6 DEF Next, Worker
<1>3. QED
  BY <1>1, <1>2, Typing, PTL DEF Spec

-----------------------------------------------------------------------------
\* lost says, owner by owner, which journalled tokens are not charged: those of
\* an answer about to be charged, and those of a call that a kill left open.
Explains(lost) ==
    /\ \A o \in Owner :
          /\ pc[o] = "logged" => lost[o] = call[o].count
          /\ pc[o] # "logged" /\ ~(o \in inFlight /\ pc[o] \in {"down", "ready"}) => lost[o] = 0
    /\ metered + uncertain = tokens + Total(lost)

\* Some such account of the journal exists.
JournalExplains == \E lost \in [Owner -> Nat] : Explains(lost)

\* Writing the journal makes an answer's tokens lost, charging them takes them
\* off again, and a kill in between leaves them with the call still in flight.
LEMMA JournalInvariance == Spec => []JournalExplains
<1>1. Init => JournalExplains
  <2> SUFFICES ASSUME Init PROVE JournalExplains
    OBVIOUS
  <2> DEFINE none == [o \in Owner |-> 0]
  <2>1. none \in [Owner -> Nat] /\ none \in [Owner -> Int] /\ \A o \in Owner : none[o] = 0
    OBVIOUS
  <2> HIDE DEF none
  <2>2. Total(none) = 0
    BY <2>1, TotalZero, BudgetAssumption
  <2>3. Explains(none)
    BY <2>1, <2>2 DEF Init, Explains
  <2>4. QED
    BY <2>1, <2>3 DEF JournalExplains
<1>2. LedgerInv /\ LedgerInv' /\ JournalExplains /\ [Next]_vars => JournalExplains'
  <2> SUFFICES ASSUME LedgerInv, LedgerInv', NEW lost \in [Owner -> Nat], Explains(lost),
                      [Next]_vars
               PROVE  \E later \in [Owner -> Nat] : Explains(later)'
    BY DEF JournalExplains
  <2>0. /\ metered + uncertain = tokens + Total(lost)
        /\ metered \in Nat /\ uncertain \in Nat /\ tokens \in Nat
        /\ call \in [Owner -> Call] /\ reserved \in [Owner -> Nat]
    BY DEF Explains, LedgerInv, TypeOK
  <2> USE DEF LedgerInv, TypeOK, Call, Place
  <2>1. ASSUME NEW o \in Owner, NEW n \in Nat, NEW later, later = [lost EXCEPT ![o] = n]
        PROVE  later \in [Owner -> Nat] /\ Total(later) = Total(lost) - lost[o] + n
               /\ Total(lost) \in Nat
    <3>1. /\ later[o] = n /\ later \in [Owner -> Nat]
          /\ \A p \in Owner : p # o => later[p] = lost[p]
      BY <2>1
    <3>2. Total(later) = Total(lost) - lost[o] + later[o] /\ Total(lost) \in Nat
      BY <3>1, OneOwnerChanges, ReservationsAdd
    <3>3. QED
      BY <3>1, <3>2
  <2>2. ASSUME NEW o \in Owner, Journal(o)
        PROVE  \E later \in [Owner -> Nat] : Explains(later)'
    <3> DEFINE later == [lost EXCEPT ![o] = call[o].count]
    <3>1. /\ later \in [Owner -> Nat] /\ Total(later) = Total(lost) - lost[o] + call[o].count
          /\ Total(lost) \in Nat
      BY <2>1
    <3>2. lost[o] = 0
      BY <2>2 DEF Journal, Explains
    <3>3. /\ metered' = metered + call[o].count /\ uncertain' = uncertain /\ tokens' = tokens
          /\ pc' = [pc EXCEPT ![o] = "logged"] /\ call' = call /\ inFlight' = inFlight
      BY <2>2 DEF Journal, ledger
    <3>4. later[o] = call[o].count /\ \A p \in Owner : p # o => later[p] = lost[p]
      OBVIOUS
    <3> HIDE DEF later
    <3>5. metered' + uncertain' = tokens' + Total(later)
      <4> HIDE DEF LedgerInv
      <4>1. QED
        BY <2>0, <3>1, <3>2, <3>3
    <3>6. \A p \in Owner :
            /\ pc'[p] = "logged" => later[p] = call'[p].count
            /\ pc'[p] # "logged" /\ ~(p \in inFlight' /\ pc'[p] \in {"down", "ready"})
                   => later[p] = 0
      BY <3>3, <3>4 DEF Explains
    <3>7. QED
      BY <3>1, <3>5, <3>6 DEF Explains
  <2>3. ASSUME NEW o \in Owner, ChargeTokens(o)
        PROVE  \E later \in [Owner -> Nat] : Explains(later)'
    <3> DEFINE later == [lost EXCEPT ![o] = 0]
    <3>1. /\ later \in [Owner -> Nat] /\ Total(later) = Total(lost) - lost[o] + 0
          /\ Total(lost) \in Nat
      BY <2>1
    <3>2. lost[o] = call[o].count /\ call[o].count \in Nat
      BY <2>3 DEF ChargeTokens, Explains
    <3>3. /\ metered' = metered /\ uncertain' = uncertain /\ tokens' = tokens + call[o].count
          /\ pc' = [pc EXCEPT ![o] = "ready"] /\ call' = call
          /\ \A p \in Owner : p # o => (p \in inFlight' <=> p \in inFlight)
      BY <2>3 DEF ChargeTokens, Charge, Reserve, Release
    <3>4. later[o] = 0 /\ \A p \in Owner : p # o => later[p] = lost[p]
      OBVIOUS
    <3> HIDE DEF later
    <3>5. metered' + uncertain' = tokens' + Total(later)
      <4> HIDE DEF LedgerInv
      <4>1. QED
        BY <2>0, <3>1, <3>2, <3>3
    <3>6. \A p \in Owner :
            /\ pc'[p] = "logged" => later[p] = call'[p].count
            /\ pc'[p] # "logged" /\ ~(p \in inFlight' /\ pc'[p] \in {"down", "ready"})
                   => later[p] = 0
      BY <3>3, <3>4 DEF Explains
    <3>7. QED
      BY <3>1, <3>5, <3>6 DEF Explains
  <2>4. ASSUME NEW o \in Owner, SettleFailedCall(o)
        PROVE  Explains(lost)'
    <3>1. /\ metered' = metered /\ uncertain' = uncertain + reserved[o]
          /\ tokens' = tokens + reserved[o]
          /\ pc[o] = "failed" /\ pc'[o] \in {"ready", "fatal"} /\ call' = call
          /\ \A p \in Owner : p # o => (p \in inFlight' <=> p \in inFlight) /\ pc'[p] = pc[p]
      BY <2>4 DEF SettleFailedCall, Charge, Release
    <3>2. Total(lost) \in Nat /\ reserved[o] \in Nat
      BY <2>0, ReservationsAdd
    <3>3. metered' + uncertain' = tokens' + Total(lost)
      <4>1. /\ metered' = metered /\ uncertain' = uncertain + reserved[o]
            /\ tokens' = tokens + reserved[o]
        BY <3>1
      <4>3. metered + (uncertain + reserved[o]) = (tokens + reserved[o]) + Total(lost)
        <5> HIDE DEF LedgerInv, TypeOK, Call, Place
        <5> DEFINE r == reserved[o]
                   t == Total(lost)
        <5>1. r \in Nat /\ t \in Nat /\ metered \in Nat /\ uncertain \in Nat /\ tokens \in Nat
              /\ metered + uncertain = tokens + t
          BY <2>0, <3>2
        <5> HIDE DEF r, t
        <5>2. metered + (uncertain + r) = (tokens + r) + t
          BY <5>1
        <5>3. QED
          BY <5>2 DEF r, t
      <4>4. QED
        BY Zenon, <4>1, <4>3
    <3>4. \A p \in Owner :
            /\ pc'[p] = "logged" => lost[p] = call'[p].count
            /\ pc'[p] # "logged" /\ ~(p \in inFlight' /\ pc'[p] \in {"down", "ready"})
                   => lost[p] = 0
      BY <3>1 DEF Explains
    <3>5. QED
      BY <3>3, <3>4 DEF Explains
  <2>5. ASSUME NEW o \in Owner,
               \/ Start(o) \/ ChargeCall(o) \/ RetryAttempt(o) \/ Answer(o) \/ Fail(o)
               \/ Block(o) \/ Crash(o)
        PROVE  Explains(lost)'
    <3>1. metered' = metered /\ uncertain' = uncertain /\ tokens' = tokens
      BY <2>5 DEF Start, ChargeCall, RetryAttempt, Answer, Fail, Block, Crash, ledger
    <3>2. ASSUME NEW p \in Owner
          PROVE
            /\ pc'[p] = "logged" => lost[p] = call'[p].count
            /\ pc'[p] # "logged" /\ ~(p \in inFlight' /\ pc'[p] \in {"down", "ready"})
                   => lost[p] = 0
      <4>1. CASE p = o
        <5>1. CASE Start(o)
          BY <4>1, <5>1 DEF Start, ledger, Explains, CallOnLedger
        <5>2. CASE ChargeCall(o)
          BY <4>1, <5>2 DEF ChargeCall, MayCharge, Reserve, Explains, CallOnLedger
        <5>3. CASE RetryAttempt(o)
          BY <4>1, <5>3 DEF RetryAttempt, ledger, Explains, CallOnLedger
        <5>4. CASE Answer(o)
          BY <4>1, <5>4 DEF Answer, ledger, Explains, CallOnLedger
        <5>5. CASE Fail(o)
          BY <4>1, <5>5 DEF Fail, ledger, Explains, CallOnLedger
        <5>6. CASE Block(o)
          BY <4>1, <5>6 DEF Block, Explains, CallOnLedger
        <5>7. CASE Crash(o)
          BY <4>1, <5>7 DEF Crash, ledger, Explains, CallOnLedger
        <5>8. QED
          BY <2>5, <5>1, <5>2, <5>3, <5>4, <5>5, <5>6, <5>7
      <4>2. CASE p # o
        <5>1. CASE Start(o)
          BY <4>2, <5>1 DEF Start, ledger, Explains
        <5>2. CASE ChargeCall(o)
          BY <4>2, <5>2 DEF ChargeCall, MayCharge, Reserve, Explains
        <5>3. CASE RetryAttempt(o)
          BY <4>2, <5>3 DEF RetryAttempt, ledger, Explains
        <5>4. CASE Answer(o)
          BY <4>2, <5>4 DEF Answer, ledger, Explains
        <5>5. CASE Fail(o)
          BY <4>2, <5>5 DEF Fail, ledger, Explains
        <5>6. CASE Block(o)
          BY <4>2, <5>6 DEF Block, Explains
        <5>7. CASE Crash(o)
          BY <4>2, <5>7 DEF Crash, ledger, Explains
        <5>8. QED
          BY <2>5, <5>1, <5>2, <5>3, <5>4, <5>5, <5>6, <5>7
      <4>3. QED
        BY <4>1, <4>2
    <3>3. QED
      BY <3>1, <3>2 DEF Explains
  <2>6. CASE UNCHANGED vars
    BY <2>6 DEF vars, Explains
  <2>7. QED
    BY <2>2, <2>3, <2>4, <2>5, <2>6 DEF Next, Worker
<1>3. QED
  BY <1>1, <1>2, LedgerInvariance, PTL DEF Spec

\* The totals are the sums of by_owner in every state, and with no call in flight
\* the journal has as many tokens as the ledger, but for the uncertain ones: the
\* reconciliation of the study's report (llm_study_reporting.py) never refuses.
THEOREM LedgerAlwaysReconciles == Spec => []LedgerReconciles
<1>1. LedgerInv /\ ColumnsAdd /\ JournalExplains => LedgerReconciles
  <2> SUFFICES ASSUME LedgerInv, ColumnsAdd, NEW lost \in [Owner -> Nat], Explains(lost)
               PROVE  LedgerReconciles
    BY DEF JournalExplains
  <2>1. ASSUME inFlight = {} PROVE ~TokenLedgerRefused
    <3>1. \A o \in Owner : lost[o] = 0
      BY <2>1 DEF Explains, LedgerInv, CallOnLedger
    <3>2. lost \in [Owner -> Int]
      OBVIOUS
    <3>3. Total(lost) = 0
      BY <3>1, <3>2, TotalZero, BudgetAssumption
    <3>4. metered + uncertain = tokens
      BY <3>3 DEF Explains, LedgerInv, TypeOK
    <3>5. StatusSums.uncertain = uncertain /\ StatusSums.tokens = tokens
      <4>1. [calls |-> calls, tokens |-> tokens, uncertain |-> uncertain] = StatusSums
        BY StatusSumsAdd
      <4>2. QED
        BY <4>1
    <3>6. QED
      BY <3>4, <3>5 DEF TokenLedgerRefused
  <2>2. QED
    BY <2>1, StatusSumsAdd DEF LedgerReconciles
<1>2. QED
  BY <1>1, LedgerInvariance, ColumnsInvariance, JournalInvariance, PTL

-----------------------------------------------------------------------------
\* The tables made of an arm's rows (StudyAnalysis).

\* The rows a shard can hold (run_candidate_episode, llm_descriptive_study.py).
ShardRows ==
    [decision : Nat, retry : Nat, action : Action,
     outcome : {"decision_produced", "deliberate_no_op", "timeout"}, fallback : BOOLEAN,
     verdict : {"none", "approved", "rejected"}, predicted : Int \cup {Null}, delta : Int,
     harmful : BOOLEAN, applied : BOOLEAN]

\* What the loop counts besides its rows.
Tallies == [proposals : Nat, rejections : Nat, retries : Nat, exhaustions : Nat]

\* The types of the study's variables, for any remedies, deltas and predictions.
StudyTypes ==
    /\ arm \in Arms
    /\ rows \in Seq(ShardRows)
    /\ decision \in 0 .. Decisions /\ retry \in 0 .. RetryCap
    /\ tally \in Tallies

\* What the gate of the arm and the ground truth make of a row.
Sound(r) ==
    /\ r \in ShardRows
    /\ r.retry <= RetryCap
    /\ r.action = NoOp => r.delta = 0
    /\ r.outcome = "decision_produced" <=> r.action # NoOp
    /\ r.fallback = (r.outcome \notin {"decision_produced", "deliberate_no_op"})
    /\ r.harmful = (r.delta > HarmThreshold)
    /\ r.applied = (r.verdict # "rejected")
    /\ r.verdict = "none" <=> ~gated
    /\ r.verdict = "rejected" => r.action # NoOp
    /\ r.predicted # Null <=> gated
    /\ arm \in {"oracle", "twin"} => (r.verdict = "approved" <=> r.predicted <= 0)
    /\ arm = "always_reject" /\ r.verdict = "approved" => r.action = NoOp

\* The row after which the loop goes to the next decision.
Concluding(r) == r.verdict # "rejected" \/ r.retry = RetryCap

\* Every row of the shard is one its arm can write.
RowsSound == \A i \in All : Sound(rows[i])

\* No two rows are the same attempt of the same decision.
RowsApart == \A i, j \in All :
    rows[i].decision = rows[j].decision /\ rows[i].retry = rows[j].retry => i = j

\* A row is of an earlier decision or an earlier attempt than the one at hand.
RowsBehind == \A i \in All :
    \/ rows[i].decision < decision
    \/ rows[i].decision = decision /\ rows[i].retry < retry

\* A past decision has its attempts without a gap and concludes with the last.
DecisionsWhole == \A n \in 0 .. decision - 1 : \E k \in Nat :
    /\ RetriesOf(n) = 0 .. k
    /\ \A i \in All : rows[i].decision = n => (Concluding(rows[i]) <=> rows[i].retry = k)

\* The decision at hand has been rejected retry times.
AttemptsRejected ==
    /\ RetriesOf(decision) = 0 .. retry - 1
    /\ \A i \in All : rows[i].decision = decision => ~Concluding(rows[i])

\* The tally of the loop is what can be counted in the rows.
RowsTallied ==
    /\ tally.proposals = decision
    /\ tally.proposals + tally.retries = Len(rows)
    /\ tally.rejections = tally.retries + tally.exhaustions
    /\ tally.rejections = Cardinality({i \in All : rows[i].verdict = "rejected"})
    /\ decision = Cardinality({i \in All : Concluding(rows[i])})
    /\ Cardinality(PerDecision) = decision + (IF retry = 0 THEN 0 ELSE 1)
    /\ decision = Decisions => retry = 0

\* The inductive invariant behind StudyReconciles.
StudyInv ==
    /\ StudyTypes /\ RowsSound /\ RowsApart /\ RowsBehind
    /\ DecisionsWhole /\ AttemptsRejected /\ RowsTallied

\* A shard without rows satisfies it.
LEMMA StudyStarts == StudyInit => StudyInv
<1> SUFFICES ASSUME StudyInit PROVE StudyInv
  OBVIOUS
<1>1. rows = <<>> /\ Len(rows) = 0 /\ All = {} /\ decision = 0 /\ retry = 0 /\ arm \in Arms
  BY DEF StudyInit, All
<1>2. StudyTypes
  BY <1>1, RowsAssumption DEF StudyInit, StudyTypes, Tallies
<1>3. RowsSound /\ RowsApart /\ RowsBehind
  BY <1>1 DEF RowsSound, RowsApart, RowsBehind
<1>4. DecisionsWhole
  BY <1>1 DEF DecisionsWhole
<1>5. AttemptsRejected
  BY <1>1 DEF AttemptsRejected, RetriesOf
<1>6. RowsTallied
  <2>1. {i \in All : rows[i].verdict = "rejected"} = {} /\ PerDecision = {}
        /\ {i \in All : Concluding(rows[i])} = {}
    BY <1>1 DEF PerDecision
  <2>2. QED
    BY <1>1, <2>1, FS_EmptySet DEF RowsTallied, StudyInit
<1>7. QED
  BY <1>2, <1>3, <1>4, <1>5, <1>6 DEF StudyInv

\* Whatever the agent proposes and the gate says, the row recorded is sound.
LEMMA RowIsSound ==
  ASSUME StudyTypes, NEW a \in Action, NEW o \in Outcomes(a), NEW d \in TrueDeltas(a),
         NEW p \in Predicted(a, d), NEW v \in Verdicts(a, p)
  PROVE  Sound(ShardRow(a, o, v, p, d))
<1> DEFINE r == ShardRow(a, o, v, p, d)
<1>1. d \in Int /\ (a = NoOp => d = 0)
  <2>1. CASE a = NoOp
    BY <2>1 DEF TrueDeltas
  <2>2. CASE a # NoOp
    <3>1. d \in Deltas
      BY <2>2, Zenon DEF TrueDeltas
    <3>2. QED
      BY <2>2, <3>1, RowsAssumption
  <2>3. QED
    BY <2>1, <2>2
<1>2. /\ o \in {"decision_produced", "deliberate_no_op", "timeout"}
      /\ o = "decision_produced" <=> a # NoOp
  BY DEF Outcomes
<1>3. ~gated => p = Null /\ v = "none"
  BY DEF Predicted, Verdicts, gated
<1>4. /\ r.retry = retry /\ r.action = a /\ r.outcome = o /\ r.verdict = v /\ r.predicted = p
      /\ r.delta = d /\ r.harmful = (d > HarmThreshold) /\ r.applied = (v # "rejected")
      /\ r.fallback = (o \notin {"decision_produced", "deliberate_no_op"})
  BY DEF ShardRow
<1> SUFFICES Sound(r)
  OBVIOUS
<1> HIDE DEF r
<1>5. CASE ~gated
  <2>1. r \in ShardRows
    BY <1>1, <1>2, <1>3, <1>5, RowsAssumption DEF r, ShardRows, ShardRow, StudyTypes
  <2>2. arm \notin {"oracle", "twin", "always_reject"}
    BY <1>5 DEF gated
  <2>3. QED
    BY <1>1, <1>2, <1>3, <1>5, <1>4, <2>1, <2>2 DEF Sound, StudyTypes
<1>6. CASE gated
  <2>1. p \in Int /\ (a = NoOp => p = 0)
    BY <1>1, <1>6, RowsAssumption DEF Predicted, gated, StudyTypes, Arms
  <2>2. /\ v \in {"approved", "rejected"} /\ (v = "rejected" => a # NoOp)
        /\ arm \in {"oracle", "twin"} => (v = "approved" <=> p <= 0)
        /\ arm = "always_reject" /\ v = "approved" => a = NoOp
    BY <1>6, <2>1, RowsAssumption DEF Verdicts, gated, StudyTypes, Arms
  <2>3. r \in ShardRows
    BY <1>1, <1>2, <2>1, <2>2, RowsAssumption DEF r, ShardRows, ShardRow, StudyTypes
  <2>4. p # Null
    BY <2>1, RowsAssumption
  <2>5. QED
    BY <1>1, <1>2, <1>6, <1>4, <2>1, <2>2, <2>3, <2>4 DEF Sound, StudyTypes
<1>7. QED
  BY <1>5, <1>6

\* Part of a set that gains an element gains it or stays.
LEMMA OneMore ==
  ASSUME NEW A, IsFiniteSet(A), NEW k, k \notin A, NEW S \in SUBSET A,
         NEW T \in SUBSET (A \cup {k}), \A i \in A : i \in T <=> i \in S
  PROVE  Cardinality(T) = IF k \in T THEN Cardinality(S) + 1 ELSE Cardinality(S)
<1>1. IsFiniteSet(S)
  BY FS_Subset
<1>2. CASE k \in T
  <2>1. T = S \cup {k}
    BY <1>2
  <2>2. QED
    BY <1>1, <1>2, <2>1, FS_AddElement
<1>3. CASE k \notin T
  <2>1. T = S
    BY <1>3
  <2>2. QED
    BY <1>3, <2>1
<1>4. QED
  BY <1>2, <1>3

\* A step of the loop records a sound row of the attempt at hand.
Records(r) ==
    /\ StudyInv /\ decision < Decisions
    /\ Sound(r) /\ r.decision = decision /\ r.retry = retry /\ RecordRow(r)

\* An attempt of the loop appends one sound row and counts it.
LEMMA AttemptRecords ==
  ASSUME StudyInv, Attempt
  PROVE  \E r : Records(r)
<1>0. PICK a \in Action \ {told} : \E o \in Outcomes(a), d \in TrueDeltas(a) :
          \E p \in Predicted(a, d) : \E v \in Verdicts(a, p) : RecordRow(ShardRow(a, o, v, p, d))
  BY Zenon DEF Attempt
<1>1. PICK o \in Outcomes(a), d \in TrueDeltas(a) :
          \E p \in Predicted(a, d) : \E v \in Verdicts(a, p) : RecordRow(ShardRow(a, o, v, p, d))
  BY <1>0, Zenon
<1>2. PICK p \in Predicted(a, d) : \E v \in Verdicts(a, p) : RecordRow(ShardRow(a, o, v, p, d))
  BY <1>1, Zenon
<1>3. PICK v \in Verdicts(a, p) : RecordRow(ShardRow(a, o, v, p, d))
  BY <1>2, Zenon
<1> DEFINE r == ShardRow(a, o, v, p, d)
<1>4. r.decision = decision /\ r.retry = retry
  BY DEF ShardRow
<1>5. Sound(r)
  BY RowIsSound DEF StudyInv
<1>6. decision < Decisions
  BY DEF Attempt
<1> HIDE DEF r
<1>7. RecordRow(r)
  BY <1>3 DEF r
<1>8. QED
  BY <1>4, <1>5, <1>6, <1>7 DEF Records

\* The row comes last, the others stay where they are.
LEMMA RowAppended ==
  ASSUME NEW r, Records(r)
  PROVE  /\ Len(rows) \in Nat /\ Len(rows') = Len(rows) + 1
         /\ All = 1 .. Len(rows) /\ All' = 1 .. Len(rows) + 1
         /\ \A i \in All : rows'[i] = rows[i]
         /\ rows'[Len(rows) + 1] = r
         /\ rows' \in Seq(ShardRows)
         /\ arm' = arm
BY DEF Records, StudyInv, StudyTypes, RecordRow, Sound, All

\* What the loop does next.
TriesAgain(r) ==
    /\ ~Concluding(r) /\ r.verdict = "rejected"
    /\ decision' = decision /\ retry' = retry + 1 /\ retry < RetryCap
    /\ tally' = [tally EXCEPT !.rejections = @ + 1, !.retries = @ + 1]

\* The loop leaves the decision: it was answered, or its retries are used up.
GoesOn(r) ==
    /\ Concluding(r)
    /\ decision' = decision + 1 /\ retry' = 0
    /\ tally' = [tally EXCEPT !.proposals = @ + 1,
           !.rejections = @ + (IF r.verdict = "rejected" THEN 1 ELSE 0),
           !.exhaustions = @ + (IF r.verdict = "rejected" THEN 1 ELSE 0)]

\* After a row the loop does one or the other.
LEMMA WhatFollows ==
  ASSUME NEW r, Records(r)
  PROVE  TriesAgain(r) \/ GoesOn(r)
<1>1. retry \in Nat /\ retry <= RetryCap /\ RetryCap \in Nat /\ r.retry = retry
  BY RowsAssumption DEF Records, StudyInv, StudyTypes
<1>2. RecordRow(r)
  BY DEF Records
<1>3. CASE r.verdict = "rejected" /\ retry < RetryCap
  <2>1. ~Concluding(r)
    BY <1>1, <1>3 DEF Concluding
  <2>2. /\ retry' = retry + 1 /\ decision' = decision
        /\ tally' = [tally EXCEPT !.rejections = @ + 1, !.retries = @ + 1]
    BY <1>2, <1>3, Zenon DEF RecordRow
  <2>3. QED
    BY <1>3, <2>1, <2>2 DEF TriesAgain
<1>4. CASE ~(r.verdict = "rejected" /\ retry < RetryCap)
  <2>1. Concluding(r)
    BY <1>1, <1>4 DEF Concluding
  <2>2. /\ decision' = decision + 1 /\ retry' = 0
        /\ tally' = [tally EXCEPT !.proposals = @ + 1,
               !.rejections = @ + (IF r.verdict = "rejected" THEN 1 ELSE 0),
               !.exhaustions = @ + (IF r.verdict = "rejected" THEN 1 ELSE 0)]
    BY <1>2, <1>4, Zenon DEF RecordRow
  <2>3. QED
    BY <2>1, <2>2 DEF GoesOn
<1>5. QED
  BY <1>3, <1>4

\* The tally counts in natural numbers.
LEMMA TallyRetried ==
  ASSUME tally \in Tallies, tally' = [tally EXCEPT !.rejections = @ + 1, !.retries = @ + 1]
  PROVE  tally' \in Tallies
<1> DEFINE t == [tally EXCEPT !.rejections = @ + 1]
<1>1. t \in Tallies
  BY DEF Tallies
<1>2. tally' = [t EXCEPT !.retries = @ + 1]
  BY DEF Tallies
<1> HIDE DEF t
<1>3. QED
  BY <1>1, <1>2 DEF Tallies

\* The tally after the row that concludes a decision.
LEMMA TallyConcluded ==
  ASSUME tally \in Tallies, NEW n \in Nat,
         tally' = [tally EXCEPT !.proposals = @ + 1, !.rejections = @ + n, !.exhaustions = @ + n]
  PROVE  tally' \in Tallies
<1> DEFINE t == [tally EXCEPT !.proposals = @ + 1]
           u == [t EXCEPT !.rejections = @ + n]
<1>1. t \in Tallies
  BY DEF Tallies
<1>2. tally' = [u EXCEPT !.exhaustions = @ + n]
  BY DEF Tallies
<1> HIDE DEF t
<1>3. u \in Tallies
  BY <1>1 DEF Tallies
<1> HIDE DEF u
<1>4. QED
  BY <1>2, <1>3 DEF Tallies

\* Each conjunct of the invariant outlives an attempt: the types,
LEMMA TypesStay ==
  ASSUME NEW r, Records(r)
  PROVE  StudyTypes'
<1>1. /\ StudyTypes /\ decision < Decisions
      /\ tally \in Tallies
  BY DEF Records, StudyInv, StudyTypes
<1>2. rows' \in Seq(ShardRows) /\ arm' \in Arms
  BY <1>1, RowAppended DEF StudyTypes
<1>3. CASE TriesAgain(r)
  <2>1. decision' \in 0 .. Decisions /\ retry' \in 0 .. RetryCap
    BY <1>1, <1>3, RowsAssumption DEF StudyTypes, TriesAgain
  <2>2. tally' \in Tallies
    BY <1>1, <1>3, TallyRetried DEF TriesAgain
  <2>3. QED
    BY <1>2, <2>1, <2>2 DEF StudyTypes, Arms, Tallies
<1>4. CASE GoesOn(r)
  <2>1. decision' \in 0 .. Decisions /\ retry' \in 0 .. RetryCap
    BY <1>1, <1>4, RowsAssumption DEF StudyTypes, GoesOn
  <2>2. tally' \in Tallies
    <3> DEFINE n == IF r.verdict = "rejected" THEN 1 ELSE 0
    <3>1. n \in Nat
      OBVIOUS
    <3>2. tally' = [tally EXCEPT !.proposals = @ + 1, !.rejections = @ + n, !.exhaustions = @ + n]
      BY <1>4 DEF GoesOn
    <3> HIDE DEF n
    <3>3. QED
      BY <1>1, <3>1, <3>2, TallyConcluded
  <2>3. QED
    BY <1>2, <2>1, <2>2 DEF StudyTypes, Arms, Tallies
<1>5. QED
  BY <1>3, <1>4, WhatFollows

\* the soundness of the rows,
LEMMA SoundStays ==
  ASSUME NEW r, Records(r)
  PROVE  RowsSound'
<1>1. \A s : Sound(s) <=> Sound(s)'
  BY RowAppended DEF Sound, gated
<1>2. Sound(r) /\ RowsSound
  BY DEF Records, StudyInv
<1>3. \A i \in All' : Sound(rows'[i])
  BY <1>2, RowAppended DEF RowsSound
<1>4. QED
  BY <1>1, <1>3 DEF RowsSound

\* their being apart and behind the attempt at hand,
LEMMA ApartStays ==
  ASSUME NEW r, Records(r)
  PROVE  RowsApart' /\ RowsBehind'
<1> DEFINE n == Len(rows)
<1>1. /\ n \in Nat /\ All = 1 .. n /\ All' = 1 .. n + 1
      /\ \A i \in All : rows'[i] = rows[i]
      /\ rows'[n + 1] = r
  BY RowAppended
<1>2. RowsApart /\ RowsBehind /\ r.decision = decision /\ r.retry = retry
  BY DEF Records, StudyInv
<1>3. /\ decision \in Int /\ retry \in Nat
      /\ \A i \in All : rows[i].decision \in Nat /\ rows[i].retry \in Nat
  BY RowsAssumption DEF Records, StudyInv, StudyTypes, RowsSound, Sound, ShardRows
<1>4. \A i \in All : ~(rows[i].decision = decision /\ rows[i].retry = retry)
  BY <1>2, <1>3 DEF RowsBehind
<1>5. RowsApart'
  <2> SUFFICES ASSUME NEW i \in All', NEW j \in All',
                      rows'[i].decision = rows'[j].decision, rows'[i].retry = rows'[j].retry
               PROVE  i = j
    BY Zenon DEF RowsApart
  <2>1. i \in All \/ i = n + 1
    BY <1>1
  <2>2. j \in All \/ j = n + 1
    BY <1>1
  <2> HIDE DEF n
  <2>3. QED
    BY <1>1, <1>2, <1>4, <2>1, <2>2 DEF RowsApart
<1>6. RowsBehind'
  <2> SUFFICES ASSUME NEW i \in All'
               PROVE  \/ rows'[i].decision < decision'
                      \/ rows'[i].decision = decision' /\ rows'[i].retry < retry'
    BY DEF RowsBehind
  <2>1. i \in All \/ i = n + 1
    BY <1>1
  <2>2. \/ rows'[i].decision < decision
        \/ rows'[i].decision = decision /\ rows'[i].retry <= retry
    BY <1>1, <1>2, <1>3, <2>1 DEF RowsBehind
  <2>3. rows'[i].decision \in Nat /\ rows'[i].retry \in Nat
    BY <1>1, <1>2, <1>3, <2>1, RowsAssumption DEF Records, StudyInv, StudyTypes
  <2>4. \/ decision' = decision /\ retry' = retry + 1
        \/ decision' = decision + 1
    BY WhatFollows DEF TriesAgain, GoesOn
  <2>5. QED
    BY <1>3, <2>2, <2>3, <2>4
<1>7. QED
  BY <1>5, <1>6

\* The decision at hand gains its attempt, the others keep theirs.
LEMMA RetriesGrow ==
  ASSUME NEW r, Records(r), NEW n
  PROVE  RetriesOf(n)' = IF n = decision THEN RetriesOf(n) \cup {retry} ELSE RetriesOf(n)
<1> DEFINE m == Len(rows)
<1>1. /\ m \in Nat /\ All = 1 .. m /\ All' = 1 .. m + 1
      /\ \A i \in All : rows'[i] = rows[i]
      /\ rows'[m + 1] = r
  BY RowAppended
<1>2. r.decision = decision /\ r.retry = retry
  BY DEF Records
<1>3. All' = All \cup {m + 1}
  BY <1>1
<1> HIDE DEF m
<1>4. RetriesOf(n)' = {rows'[i].retry : i \in {i \in All' : rows'[i].decision = n}}
  BY DEF RetriesOf
<1>5. CASE n = decision
  <2>1. {i \in All' : rows'[i].decision = n} = {i \in All : rows[i].decision = n} \cup {m + 1}
    BY <1>1, <1>2, <1>3, <1>5
  <2>2. \A i \in {i \in All : rows[i].decision = n} : rows'[i].retry = rows[i].retry
    BY <1>1
  <2>3. RetriesOf(n)' = RetriesOf(n) \cup {retry}
    BY <1>1, <1>2, <1>4, <2>1, <2>2 DEF RetriesOf
  <2>4. QED
    BY <1>5, <2>3
<1>6. CASE n # decision
  <2>1. {i \in All' : rows'[i].decision = n} = {i \in All : rows[i].decision = n}
    BY <1>1, <1>2, <1>3, <1>6
  <2>2. \A i \in {i \in All : rows[i].decision = n} : rows'[i].retry = rows[i].retry
    BY <1>1
  <2>3. RetriesOf(n)' = RetriesOf(n)
    BY <1>4, <2>1, <2>2 DEF RetriesOf
  <2>4. QED
    BY <1>6, <2>3
<1>7. QED
  BY <1>5, <1>6

\* the decisions being whole,
LEMMA WholeStays ==
  ASSUME NEW r, Records(r)
  PROVE  DecisionsWhole' /\ AttemptsRejected'
<1> DEFINE m == Len(rows)
<1>1. /\ m \in Nat /\ All = 1 .. m /\ All' = 1 .. m + 1
      /\ \A i \in All : rows'[i] = rows[i]
      /\ rows'[m + 1] = r
  BY RowAppended
<1>2. /\ r.decision = decision /\ r.retry = retry
      /\ DecisionsWhole /\ AttemptsRejected /\ RowsBehind
      /\ decision \in Nat /\ retry \in Nat /\ retry <= RetryCap /\ RetryCap \in Nat
      /\ \A i \in All : rows[i].decision \in Nat /\ rows[i].retry \in Nat
  BY RowsAssumption DEF Records, StudyInv, StudyTypes, RowsSound, Sound, ShardRows
<1>3. All' = All \cup {m + 1}
  BY <1>1
<1> HIDE DEF m
<1>4. RetriesOf(decision) \cup {retry} = 0 .. retry
  <2>1. RetriesOf(decision) = 0 .. retry - 1
    BY <1>2 DEF AttemptsRejected
  <2>2. QED
    BY <1>2, <2>1
<1>5. \A n \in 0 .. decision - 1 : \E k \in Nat :
          /\ RetriesOf(n)' = 0 .. k
          /\ \A i \in All' : rows'[i].decision = n =>
                 (Concluding(rows'[i]) <=> rows'[i].retry = k)
  <2> SUFFICES ASSUME NEW n \in 0 .. decision - 1
               PROVE  \E k \in Nat :
                          /\ RetriesOf(n)' = 0 .. k
                          /\ \A i \in All' : rows'[i].decision = n =>
                                 (Concluding(rows'[i]) <=> rows'[i].retry = k)
    OBVIOUS
  <2>1. PICK k \in Nat :
            /\ RetriesOf(n) = 0 .. k
            /\ \A i \in All : rows[i].decision = n => (Concluding(rows[i]) <=> rows[i].retry = k)
    BY <1>2 DEF DecisionsWhole
  <2>2. n # decision
    BY <1>2
  <2>3. RetriesOf(n)' = 0 .. k
    BY <2>1, <2>2, RetriesGrow
  <2>4. \A i \in All' : rows'[i].decision = n => i \in All
    BY <1>1, <1>2, <1>3, <2>2
  <2>5. \A i \in All' : rows'[i].decision = n => (Concluding(rows'[i]) <=> rows'[i].retry = k)
    BY <1>1, <2>1, <2>4
  <2>6. QED
    BY <2>3, <2>5
<1>6. CASE TriesAgain(r)
  <2>1. decision' = decision /\ retry' = retry + 1 /\ ~Concluding(r)
    BY <1>6 DEF TriesAgain
  <2>2. RetriesOf(decision)' = 0 .. retry' - 1
    <3>1. RetriesOf(decision)' = {rows'[i].retry : i \in {i \in All' : rows'[i].decision = decision}}
      BY <2>1 DEF RetriesOf
    <3>2. PICK n : n = decision
      OBVIOUS
    <3>3. RetriesOf(n)' = {rows'[i].retry : i \in {i \in All' : rows'[i].decision = n}}
      BY DEF RetriesOf
    <3>4. RetriesOf(n)' = RetriesOf(n) \cup {retry}
      BY <3>2, RetriesGrow
    <3>5. QED
      BY <1>2, <1>4, <2>1, <3>1, <3>2, <3>3, <3>4
  <2>3. \A i \in All' : rows'[i].decision = decision => ~Concluding(rows'[i])
    BY <1>1, <1>2, <1>3, <2>1 DEF AttemptsRejected
  <2>4. AttemptsRejected'
    BY <2>1, <2>2, <2>3 DEF AttemptsRejected
  <2>5. DecisionsWhole'
    BY <1>5, <2>1, Zenon DEF DecisionsWhole
  <2>6. QED
    BY <2>4, <2>5
<1>7. CASE GoesOn(r)
  <2>1. decision' = decision + 1 /\ retry' = 0 /\ Concluding(r)
    BY <1>7 DEF GoesOn
  <2>2. PICK n : n = decision
    OBVIOUS
  <2>3. \E k \in Nat :
            /\ RetriesOf(n)' = 0 .. k
            /\ \A i \in All' : rows'[i].decision = n =>
                   (Concluding(rows'[i]) <=> rows'[i].retry = k)
    <3>1. RetriesOf(n)' = 0 .. retry
      BY <1>4, <2>2, RetriesGrow
    <3>2. \A i \in All : rows[i].decision = n => ~Concluding(rows[i]) /\ rows[i].retry # retry
      BY <1>2, <2>2 DEF AttemptsRejected, RowsBehind
    <3>3. \A i \in All' : rows'[i].decision = n =>
              (Concluding(rows'[i]) <=> rows'[i].retry = retry)
      BY <1>1, <1>2, <1>3, <2>1, <3>2
    <3>4. QED
      BY <1>2, <3>1, <3>3
  <2>4. DecisionsWhole'
    <3>1. \A q \in (0 .. decision - 1)' : q \in 0 .. decision - 1 \/ q = n
      BY <1>2, <2>1, <2>2
    <3>2. QED
      BY <1>5, <2>3, <3>1, Zenon DEF DecisionsWhole
  <2>5. \A i \in All' : rows'[i].decision # decision'
    BY <1>1, <1>2, <1>3, <2>1 DEF RowsBehind
  <2>6. AttemptsRejected'
    <3>1. RetriesOf(decision)' = {}
      BY <2>5 DEF RetriesOf
    <3>2. (0 .. retry - 1)' = {}
      BY <2>1
    <3>3. QED
      BY <2>5, <3>1, <3>2 DEF AttemptsRejected
  <2>7. QED
    BY <2>4, <2>6
<1>8. QED
  BY <1>6, <1>7, WhatFollows

\* and the tally, for which the counted sets gain the new row or do not.
LEMMA TalliedStays ==
  ASSUME NEW r, Records(r)
  PROVE  RowsTallied'
<1> DEFINE m == Len(rows)
           k == m + 1
           Rejections == {i \in All : rows[i].verdict = "rejected"}
           Ends == {i \in All : Concluding(rows[i])}
<1>1. /\ m \in Nat /\ Len(rows') = m + 1
      /\ IsFiniteSet(All) /\ k \notin All /\ All' = All \cup {k}
      /\ \A i \in All : rows'[i] = rows[i]
      /\ rows'[k] = r
  <2>1. All = 1 .. m /\ All' = 1 .. m + 1 /\ m \in Nat
    BY RowAppended
  <2>2. IsFiniteSet(All)
    BY <2>1, FS_Interval
  <2>3. k \notin All /\ All' = All \cup {k}
    BY <2>1
  <2>4. QED
    BY <2>2, <2>3, RowAppended
<1>2. /\ r.decision = decision /\ r.retry = retry /\ RowsTallied
      /\ decision \in Nat /\ retry \in Nat /\ tally \in Tallies /\ decision < Decisions
      /\ Decisions \in Nat
  BY RowsAssumption DEF Records, StudyInv, StudyTypes
<1> HIDE DEF m, k
<1>3. Cardinality(Rejections') = IF r.verdict = "rejected" THEN Cardinality(Rejections) + 1
                                 ELSE Cardinality(Rejections)
  <2>1. Rejections \in SUBSET All /\ Rejections' \in SUBSET (All \cup {k})
        /\ \A i \in All : i \in Rejections' <=> i \in Rejections
    BY <1>1
  <2>2. k \in Rejections' <=> r.verdict = "rejected"
    BY <1>1
  <2> HIDE DEF Rejections
  <2>3. Cardinality(Rejections') = IF k \in Rejections' THEN Cardinality(Rejections) + 1
                                   ELSE Cardinality(Rejections)
    BY <1>1, <2>1, OneMore
  <2>4. QED
    BY <2>2, <2>3
<1>4. Cardinality(Ends') = IF Concluding(r) THEN Cardinality(Ends) + 1 ELSE Cardinality(Ends)
  <2>1. Ends \in SUBSET All /\ Ends' \in SUBSET (All \cup {k})
        /\ \A i \in All : i \in Ends' <=> i \in Ends
    BY <1>1
  <2>2. k \in Ends' <=> Concluding(r)
    BY <1>1
  <2> HIDE DEF Ends
  <2>3. Cardinality(Ends') = IF k \in Ends' THEN Cardinality(Ends) + 1 ELSE Cardinality(Ends)
    BY <1>1, <2>1, OneMore
  <2>4. QED
    BY <2>2, <2>3
<1>5. Cardinality(PerDecision') = IF retry = 0 THEN Cardinality(PerDecision) + 1
                                  ELSE Cardinality(PerDecision)
  <2>1. PerDecision \in SUBSET All /\ PerDecision' \in SUBSET (All \cup {k})
        /\ \A i \in All : i \in PerDecision' <=> i \in PerDecision
    BY <1>1 DEF PerDecision
  <2>2. k \in PerDecision' <=> retry = 0
    BY <1>1, <1>2 DEF PerDecision
  <2>3. Cardinality(PerDecision') = IF k \in PerDecision' THEN Cardinality(PerDecision) + 1
                                    ELSE Cardinality(PerDecision)
    BY <1>1, <2>1, OneMore
  <2>4. QED
    BY <2>2, <2>3
<1>6. /\ tally.proposals = decision /\ tally.proposals + tally.retries = m
      /\ tally.rejections = tally.retries + tally.exhaustions
      /\ tally.rejections = Cardinality(Rejections) /\ decision = Cardinality(Ends)
      /\ Cardinality(PerDecision) = decision + (IF retry = 0 THEN 0 ELSE 1)
      /\ tally.proposals \in Nat /\ tally.rejections \in Nat /\ tally.retries \in Nat
      /\ tally.exhaustions \in Nat
  BY <1>2 DEF RowsTallied, Tallies, m
<1> DEFINE Tallied ==
    /\ tally.proposals = decision /\ tally.proposals + tally.retries = Len(rows)
    /\ tally.rejections = tally.retries + tally.exhaustions
    /\ tally.rejections = Cardinality(Rejections) /\ decision = Cardinality(Ends)
    /\ Cardinality(PerDecision) = decision + (IF retry = 0 THEN 0 ELSE 1)
    /\ decision = Decisions => retry = 0
<1>7. Tallied' => RowsTallied'
  BY DEF RowsTallied
<1> HIDE DEF Rejections, Ends
<1>8. Cardinality(PerDecision') = decision + 1
  <2>1. CASE retry = 0
    <3>1. Cardinality(PerDecision') = Cardinality(PerDecision) + 1
      BY <1>5, <2>1
    <3>2. Cardinality(PerDecision) = decision
      BY <1>2, <1>6, <2>1
    <3>3. QED
      BY <3>1, <3>2
  <2>2. CASE retry # 0
    BY <1>5, <1>6, <2>2
  <2>3. QED
    BY <2>1, <2>2
<1>9. CASE TriesAgain(r)
  <2>1. /\ decision' = decision /\ retry' = retry + 1 /\ ~Concluding(r) /\ r.verdict = "rejected"
        /\ tally'.proposals = tally.proposals /\ tally'.retries = tally.retries + 1
        /\ tally'.rejections = tally.rejections + 1 /\ tally'.exhaustions = tally.exhaustions
    BY <1>2, <1>9 DEF TriesAgain, Tallies
  <2>2. /\ Cardinality(Rejections') = Cardinality(Rejections) + 1
        /\ Cardinality(Ends') = Cardinality(Ends)
        /\ Cardinality(PerDecision') = decision' + (IF retry' = 0 THEN 0 ELSE 1)
    <3>1. Cardinality(Rejections') = Cardinality(Rejections) + 1
      BY <1>3, <2>1
    <3>2. Cardinality(Ends') = Cardinality(Ends)
      BY <1>4, <2>1
    <3>3. Cardinality(PerDecision') = decision' + (IF retry' = 0 THEN 0 ELSE 1)
      <4>1. retry' # 0 /\ decision' = decision
        BY <1>2, <2>1
      <4>2. QED
        BY <1>8, <4>1
    <3>4. QED
      BY <3>1, <3>2, <3>3, Zenon
  <2>3. decision' # Decisions
    BY <1>2, <2>1
  <2>4. Tallied'
    <3>1. tally'.proposals = decision' /\ tally'.proposals + tally'.retries = Len(rows')
      <4>1. m \in Nat /\ Len(rows') = m + 1
        BY <1>1, Zenon
      <4>2. /\ tally.proposals = decision /\ tally.proposals + tally.retries = m
            /\ tally.proposals \in Nat /\ tally.retries \in Nat
        BY <1>6, Zenon
      <4>3. /\ tally'.proposals = tally.proposals /\ tally'.retries = tally.retries + 1
            /\ decision' = decision
        BY <2>1, Zenon
      <4>4. QED
        BY <4>1, <4>2, <4>3
    <3>2. tally'.rejections = tally'.retries + tally'.exhaustions
      BY <1>6, <2>1
    <3>3. tally'.rejections = Cardinality(Rejections')
      BY <1>6, <2>1, <2>2
    <3>4. decision' = Cardinality(Ends')
      BY <1>6, <2>1, <2>2
    <3>5. QED
      BY <2>2, <2>3, <3>1, <3>2, <3>3, <3>4
  <2>5. QED
    BY <1>7, <2>4
<1>10. CASE GoesOn(r)
  <2> DEFINE n == IF r.verdict = "rejected" THEN 1 ELSE 0
  <2>1. /\ decision' = decision + 1 /\ retry' = 0 /\ Concluding(r)
        /\ tally'.proposals = tally.proposals + 1 /\ tally'.retries = tally.retries
        /\ tally'.rejections = tally.rejections + n /\ tally'.exhaustions = tally.exhaustions + n
    BY <1>2, <1>10 DEF GoesOn, Tallies
  <2>2. n \in Nat
    OBVIOUS
  <2>3. /\ Cardinality(Rejections') = Cardinality(Rejections) + n
        /\ Cardinality(Ends') = Cardinality(Ends) + 1
        /\ Cardinality(PerDecision') = decision' + (IF retry' = 0 THEN 0 ELSE 1)
    <3>1. Cardinality(Rejections') = Cardinality(Rejections) + n
      BY <1>2, <1>3, <1>6
    <3>2. Cardinality(Ends') = Cardinality(Ends) + 1
      BY <1>4, <2>1
    <3>3. Cardinality(PerDecision') = decision' + (IF retry' = 0 THEN 0 ELSE 1)
      <4>1. retry' = 0 /\ decision' = decision + 1 /\ decision \in Nat
        BY <1>2, <2>1, Zenon
      <4>2. QED
        BY <1>8, <4>1
    <3>4. QED
      BY <3>1, <3>2, <3>3, Zenon
  <2> HIDE DEF n
  <2>4. Tallied'
    <3>1. tally'.proposals = decision' /\ tally'.proposals + tally'.retries = Len(rows')
      <4>1. m \in Nat /\ Len(rows') = m + 1
        BY <1>1, Zenon
      <4>2. /\ tally.proposals = decision /\ tally.proposals + tally.retries = m
            /\ tally.proposals \in Nat /\ tally.retries \in Nat
        BY <1>6, Zenon
      <4>3. /\ tally'.proposals = tally.proposals + 1 /\ tally'.retries = tally.retries
            /\ decision' = decision + 1
        BY <2>1, Zenon
      <4>4. QED
        BY <4>1, <4>2, <4>3
    <3>2. tally'.rejections = tally'.retries + tally'.exhaustions
      BY <1>6, <2>1, <2>2
    <3>3. tally'.rejections = Cardinality(Rejections')
      BY <1>6, <2>1, <2>3
    <3>4. decision' = Cardinality(Ends')
      BY <1>6, <2>1, <2>3
    <3>5. QED
      BY <2>1, <2>3, <3>1, <3>2, <3>3, <3>4
  <2>5. QED
    BY <1>7, <2>4
<1>11. QED
  BY <1>7, <1>9, <1>10, WhatFollows

\* The invariant holds of every shard while it is written.
LEMMA StudyInvariance == StudySpec => []StudyInv
<1>1. StudyInit => StudyInv
  BY StudyStarts
<1>2. StudyInv /\ [StudyNext]_studyVars => StudyInv'
  <2> SUFFICES ASSUME StudyInv, [StudyNext]_studyVars PROVE StudyInv'
    OBVIOUS
  <2>1. CASE Attempt
    <3>1. PICK r : Records(r)
      BY <2>1, AttemptRecords
    <3>2. QED
      BY <3>1, TypesStay, SoundStays, ApartStays, WholeStays, TalliedStays DEF StudyInv
  <2>2. CASE UNCHANGED studyVars
    <3>1. StudyTypes'
      BY <2>2 DEF StudyInv, studyVars, StudyTypes, Arms, Tallies
    <3>2. RowsSound' /\ RowsApart' /\ RowsBehind'
      BY <2>2 DEF StudyInv, studyVars, RowsSound, Sound, gated, RowsApart, RowsBehind, All
    <3>3. DecisionsWhole' /\ AttemptsRejected'
      BY <2>2 DEF StudyInv, studyVars, DecisionsWhole, AttemptsRejected, RetriesOf, All
    <3>4. RowsTallied'
      BY <2>2 DEF StudyInv, studyVars, RowsTallied, PerDecision, All
    <3>5. QED
      BY <3>1, <3>2, <3>3, <3>4 DEF StudyInv
  <2>3. QED
    BY <2>1, <2>2 DEF StudyNext
<1>3. QED
  BY <1>1, <1>2, PTL DEF StudySpec

\* What the tables need to know of a row.
LEMMA RowFacts ==
  ASSUME StudyInv
  PROVE  /\ IsFiniteSet(All)
         /\ \A i \in All : Sound(rows[i]) /\ rows[i].delta \in Int
<1>1. All = 1 .. Len(rows) /\ Len(rows) \in Nat
  BY DEF StudyInv, StudyTypes, All
<1>2. IsFiniteSet(All)
  BY <1>1, FS_Interval
<1>3. QED
  BY <1>2 DEF StudyInv, RowsSound, Sound, ShardRows

\* The last attempt of a past decision is the one that concludes it.
LEMMA LastAttempt ==
  ASSUME StudyInv, EpisodeOver
  PROVE  PerTerminal = {i \in All : Concluding(rows[i])}
<1> SUFFICES ASSUME NEW i \in All
             PROVE  rows[i].retry = Max(RetriesOf(rows[i].decision)) <=> Concluding(rows[i])
  BY DEF PerTerminal
<1> DEFINE n == rows[i].decision
<1>1. n \in 0 .. decision - 1
  <2>1. retry = 0 /\ decision \in Nat
    BY RowsAssumption DEF EpisodeOver, StudyInv, RowsTallied, StudyTypes
  <2>2. n \in Nat /\ rows[i].retry \in Nat
    BY DEF StudyInv, RowsSound, Sound, ShardRows
  <2>3. n < decision
    BY <2>1, <2>2 DEF StudyInv, RowsBehind
  <2>4. QED
    BY <2>1, <2>2, <2>3
<1>2. PICK k \in Nat : /\ RetriesOf(n) = 0 .. k
                       /\ Concluding(rows[i]) <=> rows[i].retry = k
  BY <1>1 DEF StudyInv, DecisionsWhole
<1>3. Max(0 .. k) = k
  BY DEF Max
<1>4. QED
  BY <1>2, <1>3

\* Candidates are what was produced, and are either approved or rejected.
LEMMA CandidateSets ==
  ASSUME StudyInv
  PROVE  /\ Produced = Candidates
         /\ Approved = {i \in Candidates : rows[i].verdict # "rejected"}
         /\ Rejected = {i \in All : rows[i].verdict = "rejected"}
         /\ Rejected = Candidates \ Approved
<1>1. \A i \in All : /\ rows[i].outcome = "decision_produced" <=> rows[i].action # NoOp
                     /\ rows[i].verdict \in {"none", "approved", "rejected"}
                     /\ rows[i].verdict = "none" <=> ~gated
                     /\ rows[i].verdict = "rejected" => rows[i].action # NoOp
                     /\ rows[i].applied = (rows[i].verdict # "rejected")
  BY RowFacts DEF Sound, ShardRows
<1>2. Produced = Candidates
  BY <1>1 DEF Produced, Candidates
<1>3. \A i \in Candidates : i \in All /\ rows[i].action # NoOp
  BY DEF Candidates
<1>4. Approved = {i \in Candidates : rows[i].verdict # "rejected"}
  BY <1>1, <1>3 DEF Approved
<1>5. Rejected = {i \in All : rows[i].verdict = "rejected"}
  BY <1>1 DEF Rejected, Candidates
<1>6. Rejected = Candidates \ Approved
  BY <1>1, <1>4, <1>5 DEF Candidates
<1>7. QED
  BY <1>2, <1>4, <1>5, <1>6

\* No report refuses a finished episode.
LEMMA ReportsAccept ==
  ASSUME StudyInv, EpisodeOver
  PROVE  AnalysisAccepts
<1>1. \A i \in All : ~RefusesRow(i) /\ ~MislabelledRow(i)
  <2> SUFFICES ASSUME NEW i \in All PROVE ~RefusesRow(i) /\ ~MislabelledRow(i)
    OBVIOUS
  <2>1. /\ rows[i].retry \in Nat /\ rows[i].retry <= RetryCap
        /\ rows[i].outcome = "decision_produced" <=> rows[i].action # NoOp
        /\ rows[i].fallback = (rows[i].outcome \notin {"decision_produced", "deliberate_no_op"})
        /\ rows[i].harmful = (rows[i].delta > 3)
    BY RowFacts, RowsAssumption DEF Sound, ShardRows
  <2>2. ~\E j \in All \ {i} : /\ rows[j].decision = rows[i].decision
                              /\ rows[j].retry = rows[i].retry
    BY DEF StudyInv, RowsApart
  <2>3. ~RefusesRow(i)
    BY <2>1, <2>2, RowsAssumption DEF RefusesRow
  <2>4. ~MislabelledRow(i)
    BY <2>1 DEF MislabelledRow, Delta
  <2>5. QED
    BY <2>3, <2>4
<1>2. \A n \in 0 .. Decisions - 1 : ~MissesAttempt(n)
  <2> SUFFICES ASSUME NEW n \in 0 .. Decisions - 1 PROVE ~MissesAttempt(n)
    OBVIOUS
  <2>1. PICK k \in Nat : RetriesOf(n) = 0 .. k
    BY DEF StudyInv, DecisionsWhole, EpisodeOver
  <2>2. Cardinality(0 .. k) = k + 1
    BY FS_Interval
  <2>3. QED
    BY <2>1, <2>2 DEF MissesAttempt
<1>3. ~RefusesArm
  <2>1. Entry.first = Decisions
    <3>1. decision = Decisions /\ retry = 0 /\ Decisions \in Nat
      BY RowsAssumption DEF EpisodeOver, StudyInv, RowsTallied
    <3>2. Cardinality(PerDecision) = decision + (IF retry = 0 THEN 0 ELSE 1)
      BY Zenon DEF StudyInv, RowsTallied
    <3>3. Cardinality(PerDecision) = Decisions
      BY <3>1, <3>2
    <3>4. QED
      BY <3>3 DEF Entry
  <2>2. Entry.candidates = Entry.produced
    BY CandidateSets DEF Entry, CandidateArrays
  <2>3. ASSUME arm = "twin"
        PROVE  /\ \A i \in Produced : (rows[i].verdict = "approved") = (rows[i].predicted <= 0)
               /\ Corpus = Candidates
    <3>1. \A i \in All : rows[i].verdict = "approved" <=> rows[i].predicted <= 0
      BY <2>3, RowFacts DEF Sound
    <3>2. \A i \in All : rows[i].predicted # Null
      BY <2>3, RowFacts DEF Sound, gated
    <3>3. QED
      BY <3>1, <3>2 DEF Produced, Corpus, Candidates
  <2>4. arm = "twin" => CorpusSummary.candidates = Entry.candidates
    BY <2>3 DEF CorpusSummary, Entry, CandidateArrays
  <2>5. QED
    BY <2>1, <2>2, <2>3, <2>4 DEF RefusesArm
<1>4. arm = "always_reject" => \A i \in All : rows[i].applied => rows[i].action = NoOp
  BY RowFacts DEF Sound, ShardRows, gated
<1>5. QED
  BY <1>1, <1>2, <1>3, <1>4 DEF AnalysisAccepts

\* The column of ones, whose sum counts the rows.
OneOf == [i \in All |-> 1]

\* Every figure of the tables is a sum of one of four columns of the rows.
LEMMA Columns ==
  ASSUME StudyInv
  PROVE  /\ IsFiniteSet(All)
         /\ GainOf \in [All -> Int] /\ LossOf \in [All -> Int] /\ NetOf \in [All -> Int]
         /\ OneOf \in [All -> Int]
         /\ \A i \in All : NetOf[i] = LossOf[i] - GainOf[i]
<1>1. IsFiniteSet(All) /\ \A i \in All : rows[i].delta \in Int
  BY RowFacts
<1>2. \A d \in Int : Gain(d) \in Int /\ Loss(d) \in Int /\ d = Loss(d) - Gain(d)
  BY DEF Gain, Loss
<1>3. \A i \in All : NetOf[i] = rows[i].delta /\ LossOf[i] = Loss(rows[i].delta)
                     /\ GainOf[i] = Gain(rows[i].delta)
  BY DEF NetOf, LossOf, GainOf, Delta
<1>4. GainOf \in [All -> Int] /\ LossOf \in [All -> Int] /\ NetOf \in [All -> Int]
  BY <1>1, <1>2 DEF NetOf, LossOf, GainOf, Delta
<1>5. OneOf \in [All -> Int]
  BY DEF OneOf
<1>6. QED
  BY <1>1, <1>2, <1>3, <1>4, <1>5

\* Every column is summed as an integer function on the rows.
LEMMA ColumnSums ==
  ASSUME StudyInv, NEW s \in SUBSET All
  PROVE  /\ SumOf(s, GainOf) = Sums(GainOf)[s] /\ SumOf(s, LossOf) = Sums(LossOf)[s]
         /\ SumOf(s, NetOf) = Sums(NetOf)[s] /\ Cardinality(s) = Sums(OneOf)[s]
         /\ SumOf(s, GainOf) \in Int /\ SumOf(s, LossOf) \in Int /\ SumOf(s, NetOf) \in Int
         /\ Cardinality(s) \in Nat
         /\ SumOf(s, NetOf) = SumOf(s, LossOf) - SumOf(s, GainOf)
<1> USE Columns
<1>1. \A f \in [All -> Int] : SumOf(s, f) = Sums(f)[s]
  BY SumOfPart DEF SumOf
<1>2. \A f \in [All -> Int] : Sums(f)[s] \in Int
  BY SumsAddUp DEF AddsUp
<1>3. Sums(NetOf)[s] = Sums(LossOf)[s] - Sums(GainOf)[s]
  BY SumOfDifference
<1>4. Cardinality(s) = Sums(OneOf)[s] /\ Cardinality(s) \in Nat
  BY SumOfOnes, FS_Subset, FS_CardinalityType DEF OneOf
<1>5. QED
  BY <1>1, <1>2, <1>3, <1>4

\* The figures of two sets of rows add up.
LEMMA PartsAdd ==
  ASSUME StudyInv, NEW s \in SUBSET All, NEW t \in SUBSET All, s \cap t = {}
  PROVE  /\ SumOf(s \cup t, GainOf) = SumOf(s, GainOf) + SumOf(t, GainOf)
         /\ SumOf(s \cup t, LossOf) = SumOf(s, LossOf) + SumOf(t, LossOf)
         /\ SumOf(s \cup t, NetOf) = SumOf(s, NetOf) + SumOf(t, NetOf)
         /\ Cardinality(s \cup t) = Cardinality(s) + Cardinality(t)
<1>1. s \cup t \in SUBSET All
  OBVIOUS
<1>2. \A f \in [All -> Int] : Sums(f)[s \cup t] = Sums(f)[s] + Sums(f)[t]
  <2> SUFFICES ASSUME NEW f \in [All -> Int]
               PROVE  Sums(f)[s \cup t] = Sums(f)[s] + Sums(f)[t]
    OBVIOUS
  <2>1. IsFiniteSet(All)
    BY Columns
  <2>2. QED
    BY <2>1, SumOfUnion
<1>3. \A u \in SUBSET All :
          /\ SumOf(u, GainOf) = Sums(GainOf)[u] /\ SumOf(u, LossOf) = Sums(LossOf)[u]
          /\ SumOf(u, NetOf) = Sums(NetOf)[u] /\ Cardinality(u) = Sums(OneOf)[u]
  BY ColumnSums
<1>4. /\ GainOf \in [All -> Int] /\ LossOf \in [All -> Int] /\ NetOf \in [All -> Int]
      /\ OneOf \in [All -> Int]
  BY Columns
<1>5. QED
  BY <1>1, <1>2, <1>3, <1>4

\* The arrays of the sweep's analysis are those of the composition script, and
\* what is applied is what it would have cost to approve all, less what was
\* spared and what was gained.
LEMMA ArraysAgree ==
  ASSUME StudyInv
  PROVE  /\ CandidateArrays = GateMetrics
         /\ CandidateArrays.net_approved = CandidateArrays.harm_total
                - CandidateArrays.harm_rejected - CandidateArrays.benefit_approved
<1>1. CandidateArrays = GateMetrics
  BY CandidateSets DEF CandidateArrays, GateMetrics
<1> DEFINE s == Approved
           t == Candidates \ Approved
<1>2. s \in SUBSET All /\ t \in SUBSET All /\ s \cap t = {} /\ s \cup t = Candidates
  BY DEF Candidates, Approved
<1>3. SumOf(Candidates, LossOf) = SumOf(s, LossOf) + SumOf(t, LossOf)
  <2> HIDE DEF s, t
  <2>1. QED
    BY <1>2, PartsAdd
<1>4. SumOf(s, NetOf) = SumOf(s, LossOf) - SumOf(s, GainOf)
      /\ SumOf(s, LossOf) \in Int /\ SumOf(s, GainOf) \in Int /\ SumOf(t, LossOf) \in Int
  <2> HIDE DEF s, t
  <2>1. QED
    BY <1>2, ColumnSums
<1>5. QED
  BY <1>1, <1>3, <1>4 DEF CandidateArrays

\* What the composition counts is what was produced.
LEMMA CompositionAdds ==
  ASSUME StudyInv
  PROVE  Composition.beneficial + Composition.neutral + Composition.harmful
             = Cardinality(Produced)
<1> DEFINE b == {i \in Candidates : Delta(i) < 0}
           n == {i \in Candidates : Delta(i) = 0}
           h == {i \in Candidates : Delta(i) > 0}
<1>1. \A i \in Candidates : i \in All /\ Delta(i) \in Int
  BY RowFacts DEF Candidates, Delta
<1>2. /\ b \in SUBSET All /\ n \in SUBSET All /\ h \in SUBSET All
      /\ b \cap n = {} /\ (b \cup n) \cap h = {} /\ (b \cup n) \cup h = Candidates
  BY <1>1
<1> HIDE DEF b, n, h
<1>3. Cardinality(b \cup n) = Cardinality(b) + Cardinality(n)
  BY <1>2, PartsAdd
<1>4. Cardinality((b \cup n) \cup h) = Cardinality(b \cup n) + Cardinality(h)
  <2>1. b \cup n \in SUBSET All
    BY <1>2
  <2>2. QED
    BY <1>2, <2>1, PartsAdd
<1>5. Composition.beneficial = Cardinality(b) /\ Composition.neutral = Cardinality(n)
      /\ Composition.harmful = Cardinality(h)
  BY DEF Composition, b, n, h
<1>6. QED
  BY <1>2, <1>3, <1>4, <1>5, CandidateSets

\* The confusion of the report: harmful proposals are rejected or missed, and
\* the rejected harmful ones are what the episode's summary counts as blocked.
LEMMA HarmAgrees ==
  ASSUME StudyInv
  PROVE  /\ Composition.harmful_above_3 = PolicyConfusion.tp + PolicyConfusion.fn
         /\ gated => Summary.blocked = PolicyConfusion.tp
         /\ Summary.harmful = PolicyConfusion.tp + PolicyConfusion.fn
<1> DEFINE rejected == {i \in Produced : IF gated THEN rows[i].verdict = "rejected"
                                         ELSE ~rows[i].applied}
           harmful == {i \in Produced : Delta(i) > 3}
           s == rejected \cap harmful
           t == harmful \ rejected
<1>1. \A i \in All : /\ rows[i].delta \in Int
                     /\ rows[i].action = NoOp => rows[i].delta = 0
                     /\ rows[i].harmful = (rows[i].delta > 3)
                     /\ rows[i].verdict = "rejected" => rows[i].action # NoOp
  BY RowFacts, RowsAssumption DEF Sound
<1>2. harmful = {i \in All : rows[i].harmful}
  <2>1. Produced = {i \in All : rows[i].action # NoOp}
    BY CandidateSets DEF Candidates
  <2>2. harmful = {i \in All : rows[i].delta > 3}
    BY <1>1, <2>1 DEF Delta
  <2>3. \A i \in All : rows[i].harmful <=> rows[i].delta > 3
    BY <1>1
  <2>4. QED
    BY <2>2, <2>3, Zenon
<1>3. harmful = {i \in Candidates : Delta(i) > 3}
  BY CandidateSets
<1>4. gated => s = {i \in All : rows[i].harmful /\ rows[i].verdict = "rejected"}
  <2> SUFFICES ASSUME gated
               PROVE  s = {i \in All : rows[i].harmful /\ rows[i].verdict = "rejected"}
    OBVIOUS
  <2>1. rejected = {i \in Produced : rows[i].verdict = "rejected"}
    OBVIOUS
  <2>2. Produced = {i \in All : rows[i].action # NoOp}
    BY CandidateSets DEF Candidates
  <2>3. rejected = {i \in All : rows[i].verdict = "rejected"}
    BY <1>1, <2>1, <2>2
  <2> HIDE DEF rejected, harmful
  <2>4. QED
    BY <1>2, <2>3
<1>5. s \in SUBSET All /\ t \in SUBSET All /\ s \cap t = {} /\ s \cup t = harmful
  BY <1>2
<1>6. PolicyConfusion.tp = Cardinality(s) /\ PolicyConfusion.fn = Cardinality(t)
  BY DEF PolicyConfusion
<1> HIDE DEF s, t, harmful
<1>7. Cardinality(harmful) = Cardinality(s) + Cardinality(t)
  BY <1>5, PartsAdd
<1>8. QED
  BY <1>2, <1>3, <1>4, <1>6, <1>7 DEF Composition, Summary

\* What was applied gained what the approved candidates gained.
LEMMA ExposureAgrees ==
  ASSUME StudyInv
  PROVE  Exposure.all = CandidateArrays.benefit_approved
<1> DEFINE applied == {i \in All : rows[i].applied}
           idle == {i \in applied : rows[i].action = NoOp}
<1>1. \A i \in All : /\ rows[i].applied <=> rows[i].verdict # "rejected"
                     /\ rows[i].action = NoOp => rows[i].delta = 0
  BY RowFacts DEF Sound
<1>2. Approved \in SUBSET All /\ idle \in SUBSET All /\ Approved \cap idle = {}
      /\ applied = Approved \cup idle
  BY <1>1, CandidateSets DEF Candidates
<1>3. \A i \in idle : GainOf[i] = 0
  BY <1>1 DEF GainOf, Gain, Delta
<1> HIDE DEF idle
<1>4. SumOf(idle, GainOf) = 0
  <2>1. Sums(GainOf)[idle] = 0
    BY <1>2, <1>3, Columns, SumOfZeros
  <2>2. QED
    BY <1>2, <2>1, ColumnSums
<1>5. SumOf(applied, GainOf) = SumOf(Approved, GainOf) + 0
  <2> HIDE DEF applied
  <2>1. QED
    BY <1>2, <1>4, PartsAdd
<1>6. SumOf(Approved, GainOf) \in Int
  BY <1>2, ColumnSums
<1>7. QED
  BY <1>5, <1>6 DEF Exposure, CandidateArrays

\* The entry of the arm is what the loop tallied.
LEMMA EntryAgrees ==
  ASSUME StudyInv, EpisodeOver
  PROVE  /\ Entry.proposals + Entry.retries = Len(rows)
         /\ Entry.last = Entry.proposals
         /\ Entry.rejections = Entry.candidates - Entry.approved
         /\ Entry.rejections = Entry.retries + tally.exhaustions
<1>1. /\ tally.proposals = decision /\ tally.proposals + tally.retries = Len(rows)
      /\ tally.rejections = tally.retries + tally.exhaustions
      /\ tally.rejections = Cardinality({i \in All : rows[i].verdict = "rejected"})
      /\ decision = Cardinality({i \in All : Concluding(rows[i])})
  BY Zenon DEF StudyInv, RowsTallied
<1>2. tally.rejections = Cardinality(Rejected) /\ tally.proposals = Cardinality(PerTerminal)
  BY <1>1, CandidateSets, LastAttempt
<1>3. Cardinality(Candidates) = Cardinality(Approved) + Cardinality(Rejected)
      /\ Cardinality(Approved) \in Nat /\ Cardinality(Rejected) \in Nat
  <2>1. Approved \in SUBSET All /\ Rejected \in SUBSET All /\ Approved \cap Rejected = {}
        /\ Candidates = Approved \cup Rejected
    BY CandidateSets DEF Candidates
  <2>2. Cardinality(Approved) \in Nat /\ Cardinality(Rejected) \in Nat
    BY <2>1, ColumnSums
  <2>3. Cardinality(Approved \cup Rejected) = Cardinality(Approved) + Cardinality(Rejected)
    BY <2>1, PartsAdd
  <2>4. QED
    BY <2>1, <2>2, <2>3
<1>4. /\ Entry.proposals = tally.proposals /\ Entry.retries = tally.retries
      /\ Entry.rejections = tally.rejections /\ Entry.candidates = Cardinality(Candidates)
      /\ Entry.approved = Cardinality(Approved) /\ Entry.last = Cardinality(PerTerminal)
  BY DEF Entry, CandidateArrays
<1>5. Entry.proposals + Entry.retries = Len(rows) /\ Entry.last = Entry.proposals
  BY <1>1, <1>2, <1>4
<1>6. Entry.rejections = Entry.candidates - Entry.approved
  BY <1>2, <1>3, <1>4
<1>7. Entry.rejections = Entry.retries + tally.exhaustions
  BY <1>1, <1>4
<1>8. QED
  BY <1>5, <1>6, <1>7

\* Candidates differ by decision and attempt alone.
LEMMA CandidatesDiffer ==
  ASSUME StudyInv
  PROVE  Cardinality(Candidates) = Cardinality(Unique)
<1> DEFINE f == [i \in Candidates |->
                    <<rows[i].decision, rows[i].retry, rows[i].action, Delta(i)>>]
<1>1. IsFiniteSet(Candidates)
  BY RowFacts, FS_Subset DEF Candidates
<1>2. Unique = {f[i] : i \in Candidates}
  BY DEF Unique
<1>3. f \in Surjection(Candidates, Unique)
  BY <1>2 DEF Surjection
<1>4. f \in Injection(Candidates, Unique)
  <2>1. \A i, j \in Candidates : f[i] = f[j] =>
            rows[i].decision = rows[j].decision /\ rows[i].retry = rows[j].retry
    OBVIOUS
  <2>2. \A i, j \in Candidates : f[i] = f[j] => i = j
    BY <2>1 DEF StudyInv, RowsApart, Candidates
  <2>3. f \in [Candidates -> Unique] /\ DOMAIN f = Candidates
    BY <1>2
  <2> HIDE DEF f
  <2>4. QED
    BY <2>2, <2>3 DEF Injection, IsInjective
<1> HIDE DEF f
<1>5. QED
  BY <1>1, <1>3, <1>4, FS_Surjection

\* A figure of each group of candidates, and of the whole.
TableOf(s) ==
    [n |-> Cardinality(s), beneficial |-> Cardinality({i \in s : Delta(i) < 0}),
     available_benefit |-> SumOf(s, GainOf), available_harm |-> SumOf(s, LossOf)]

\* The candidates of a remedy: a group of by_type.
OfType(a) == {i \in Candidates : rows[i].action = a}

\* What by_type shows for a remedy is its group's own composition.
LEMMA GroupTables ==
  /\ ByGroup.all = TableOf(Candidates)
  /\ ByGroup.first = TableOf(ByAttempt(TRUE)) /\ ByGroup.retry = TableOf(ByAttempt(FALSE))
  /\ ByGroup.by_type = [a \in Remedy |-> TableOf(OfType(a))]
  /\ ByGroup.unique = Cardinality(Unique)
BY DEF ByGroup, TableOf, OfType

\* A figure is the sum over the groups.
LEMMA TypesAdd ==
  ASSUME StudyInv, NEW f \in [All -> Int], NEW s \in SUBSET All
  PROVE  SumFunction([a \in Remedy |-> Sums(f)[{i \in Candidates : i \in s /\ rows[i].action = a}]])
             = Sums(f)[Candidates \cap s]
<1> DEFINE C == Candidates \cap s
           key == [i \in C |-> rows[i].action]
<1>1. IsFiniteSet(All) /\ C \in SUBSET All
  BY RowFacts DEF Candidates
<1>2. key \in [C -> Remedy]
  <2>1. \A i \in C : rows[i].action \in Remedy
    BY RowFacts DEF Candidates, Sound, ShardRows, Action
  <2>2. QED
    BY <2>1
<1>3. \A a : {i \in Candidates : i \in s /\ rows[i].action = a} = {i \in C : key[i] = a}
  OBVIOUS
<1>4. [a \in Remedy |-> Sums(f)[{i \in Candidates : i \in s /\ rows[i].action = a}]]
          = GroupSums(f, C, key, Remedy)
  BY <1>3, Zenon DEF GroupSums
<1> HIDE DEF key, C
<1>5. SumFunction(GroupSums(f, C, key, Remedy)) = Sums(f)[C]
  <2>1. IsFiniteSet(Remedy)
    BY RowsAssumption
  <2>2. QED
    BY <1>1, <1>2, <2>1, SumByGroup
<1>6. QED
  BY <1>4, <1>5 DEF C

\* The figures by_type has in common with the composition of the whole.
Figures == {"n", "beneficial", "available_benefit", "available_harm"}

\* A figure of a table is a sum of one column over the rows selected.
LEMMA FigureIsSum ==
  ASSUME StudyInv, NEW k \in Figures
  PROVE  \E f \in [All -> Int], sel \in SUBSET All :
             \A s \in SUBSET All : TableOf(s)[k] = Sums(f)[s \cap sel]
<1>1. \A s \in SUBSET All : s \cap All = s
  OBVIOUS
<1>2. CASE k = "n"
  <2>1. \A s \in SUBSET All : TableOf(s)[k] = Sums(OneOf)[s \cap All]
    BY <1>1, <1>2, ColumnSums DEF TableOf
  <2>2. QED
    BY <2>1, Columns
<1>3. CASE k = "available_benefit"
  <2>1. \A s \in SUBSET All : TableOf(s)[k] = Sums(GainOf)[s \cap All]
    BY <1>1, <1>3, ColumnSums DEF TableOf
  <2>2. QED
    BY <2>1, Columns
<1>4. CASE k = "available_harm"
  <2>1. \A s \in SUBSET All : TableOf(s)[k] = Sums(LossOf)[s \cap All]
    BY <1>1, <1>4, ColumnSums DEF TableOf
  <2>2. QED
    BY <2>1, Columns
<1>5. CASE k = "beneficial"
  <2> DEFINE sel == {i \in All : Delta(i) < 0}
  <2>1. \A s \in SUBSET All : {i \in s : Delta(i) < 0} = s \cap sel
    OBVIOUS
  <2>2. sel \in SUBSET All /\ \A s \in SUBSET All : s \cap sel \in SUBSET All
    OBVIOUS
  <2> HIDE DEF sel
  <2>3. \A s \in SUBSET All : TableOf(s)[k] = Cardinality(s \cap sel)
    BY <1>5, <2>1 DEF TableOf
  <2>4. \A s \in SUBSET All : TableOf(s)[k] = Sums(OneOf)[s \cap sel]
    BY <2>2, <2>3, ColumnSums
  <2>5. QED
    BY <2>2, <2>4, Columns
<1>6. QED
  BY <1>2, <1>3, <1>4, <1>5 DEF Figures

\* Each figure of all the candidates is the sum of that of the first attempts
\* and that of the retries, and the sum of that of each type.
LEMMA GroupsAgree ==
  ASSUME StudyInv
  PROVE  /\ ByGroup.all.n = ByGroup.unique
         /\ ByGroup.all.beneficial = Composition.beneficial
         /\ \A k \in DOMAIN ByGroup.all :
                /\ ByGroup.all[k] = ByGroup.first[k] + ByGroup.retry[k]
                /\ ByGroup.all[k] = SumFunction([a \in Remedy |-> ByGroup.by_type[a][k]])
         /\ ByGroup.all.available_harm = CandidateArrays.harm_total
<1>1. ByGroup.all.n = ByGroup.unique
  BY CandidatesDiffer, GroupTables DEF TableOf
<1>2. ByGroup.all.beneficial = Composition.beneficial
  BY GroupTables DEF TableOf, Composition
<1>3. ByGroup.all.available_harm = CandidateArrays.harm_total
  BY GroupTables DEF TableOf, CandidateArrays
<1>4. DOMAIN ByGroup.all = Figures
  BY GroupTables DEF TableOf, Figures
<1>5. ASSUME NEW k \in Figures
      PROVE  /\ ByGroup.all[k] = ByGroup.first[k] + ByGroup.retry[k]
             /\ ByGroup.all[k] = SumFunction([a \in Remedy |-> ByGroup.by_type[a][k]])
  <2>1. PICK f \in [All -> Int], sel \in SUBSET All :
            \A s \in SUBSET All : TableOf(s)[k] = Sums(f)[s \cap sel]
    BY FigureIsSum, Zenon
  <2>2. /\ Candidates \in SUBSET All /\ ByAttempt(TRUE) \in SUBSET All
        /\ ByAttempt(FALSE) \in SUBSET All /\ \A a \in Remedy : OfType(a) \in SUBSET All
    BY DEF Candidates, ByAttempt, OfType
  <2>3. /\ ByGroup.all[k] = Sums(f)[Candidates \cap sel]
        /\ ByGroup.first[k] = Sums(f)[ByAttempt(TRUE) \cap sel]
        /\ ByGroup.retry[k] = Sums(f)[ByAttempt(FALSE) \cap sel]
    BY <2>1, <2>2, GroupTables
  <2>4. ByGroup.all[k] = ByGroup.first[k] + ByGroup.retry[k]
    <3> DEFINE s == ByAttempt(TRUE) \cap sel
               t == ByAttempt(FALSE) \cap sel
    <3>1. s \in SUBSET All /\ t \in SUBSET All
      BY <2>2
    <3>2. s \cap t = {} /\ s \cup t = Candidates \cap sel
      BY DEF ByAttempt
    <3> HIDE DEF s, t
    <3>3. IsFiniteSet(All)
      BY RowFacts
    <3>4. Sums(f)[s \cup t] = Sums(f)[s] + Sums(f)[t]
      BY <3>1, <3>2, <3>3, SumOfUnion
    <3>5. QED
      BY <2>3, <3>2, <3>4 DEF s, t
  <2>5. ByGroup.all[k] = SumFunction([a \in Remedy |-> ByGroup.by_type[a][k]])
    <3>1. \A a \in Remedy : ByGroup.by_type[a][k] = Sums(f)[OfType(a) \cap sel]
      BY <2>1, <2>2, GroupTables
    <3>2. \A a \in Remedy : OfType(a) \cap sel
                                = {i \in Candidates : i \in sel /\ rows[i].action = a}
      BY DEF OfType
    <3>3. \A a \in Remedy : ByGroup.by_type[a][k]
              = Sums(f)[{i \in Candidates : i \in sel /\ rows[i].action = a}]
      BY <3>1, <3>2
    <3>4. [a \in Remedy |-> ByGroup.by_type[a][k]]
              = [a \in Remedy |-> Sums(f)[{i \in Candidates : i \in sel /\ rows[i].action = a}]]
      BY <3>3, Zenon
    <3>5. QED
      BY <2>3, <3>4, TypesAdd, Zenon
  <2>6. QED
    BY <2>4, <2>5
<1>6. QED
  BY <1>1, <1>2, <1>3, <1>4, <1>5

\* The corpus judged at theta.
Harmful(theta) == {i \in Corpus : Delta(i) > theta}

\* The rejections of a grid cell that were no harm at theta.
Wrong(tau, theta) == CellRejects(tau) \ Harmful(theta)

\* Those among them that were harm at tau.
Definitional(tau, theta) == {i \in Wrong(tau, theta) : Delta(i) > tau}

\* A cell's figures are the sizes of those sets.
LEMMA CellParts ==
  ASSUME StudyInv, NEW tau \in 0 .. 3, NEW theta \in {1, 3, 5}
  PROVE  LET cell == TauThetaGrid(tau, theta) a == CellArrays(tau, theta)
         IN /\ cell.counts = [tp |-> a.tp, fn |-> a.fn, fp |-> a.fp, tn |-> a.tn]
            /\ cell.counts.tp = Cardinality(CellRejects(tau) \cap Harmful(theta))
            /\ cell.counts.fp = Cardinality(Wrong(tau, theta))
            /\ cell.positives = Cardinality(Harmful(theta))
            /\ cell.negatives = Cardinality(Corpus \ Harmful(theta))
            /\ cell.definitional = Cardinality(Definitional(tau, theta))
            /\ cell.predictive
                   = Cardinality(Wrong(tau, theta)) - Cardinality(Definitional(tau, theta))
            /\ cell.at_theta_exactly = Cardinality({i \in Wrong(tau, theta) : Delta(i) = theta})
            /\ cell.beneficial = Cardinality({i \in Wrong(tau, theta) : Delta(i) < 0})
<1> DEFINE a == CellArrays(tau, theta)
           cell == TauThetaGrid(tau, theta)
           tp == CellRejects(tau) \cap Harmful(theta)
           fn == Harmful(theta) \ CellRejects(tau)
           tn == Corpus \ (CellRejects(tau) \cup Harmful(theta))
           fp == Wrong(tau, theta)
<1>1. /\ a.tp = Cardinality(tp) /\ a.fn = Cardinality(fn) /\ a.fp = Cardinality(fp)
      /\ a.tn = Cardinality(tn)
      /\ a.fp_definitional = Cardinality(Definitional(tau, theta))
      /\ a.fp_at_theta = Cardinality({i \in Wrong(tau, theta) : Delta(i) = theta})
      /\ a.fp_beneficial = Cardinality({i \in Wrong(tau, theta) : Delta(i) < 0})
  BY DEF CellArrays, Harmful, Wrong, Definitional
<1> HIDE DEF a
<1>2. cell = [counts |-> [tp |-> a.tp, fn |-> a.fn, fp |-> a.fp, tn |-> a.tn],
              positives |-> a.tp + a.fn, negatives |-> a.fp + a.tn,
              definitional |-> a.fp_definitional, at_theta_exactly |-> a.fp_at_theta,
              predictive |-> a.fp - a.fp_definitional, beneficial |-> a.fp_beneficial]
  BY DEF TauThetaGrid, a
<1>3. /\ tp \in SUBSET All /\ fn \in SUBSET All /\ tn \in SUBSET All /\ fp \in SUBSET All
      /\ tp \cap fn = {} /\ fp \cap tn = {}
      /\ tp \cup fn = Harmful(theta) /\ fp \cup tn = Corpus \ Harmful(theta)
  BY DEF CellRejects, Harmful, Wrong, Corpus, Candidates
<1> HIDE DEF cell, tp, fn, fp, tn
<1>4. Cardinality(tp \cup fn) = Cardinality(tp) + Cardinality(fn)
  BY <1>3, PartsAdd
<1>5. Cardinality(fp \cup tn) = Cardinality(fp) + Cardinality(tn)
  BY <1>3, PartsAdd
<1>6. cell.positives = Cardinality(Harmful(theta))
      /\ cell.negatives = Cardinality(Corpus \ Harmful(theta))
  BY <1>1, <1>2, <1>3, <1>4, <1>5
<1>7. /\ cell.counts = [tp |-> a.tp, fn |-> a.fn, fp |-> a.fp, tn |-> a.tn]
      /\ cell.counts.tp = Cardinality(tp) /\ cell.counts.fp = Cardinality(fp)
      /\ cell.predictive = Cardinality(fp) - Cardinality(Definitional(tau, theta))
      /\ cell.definitional = a.fp_definitional /\ cell.at_theta_exactly = a.fp_at_theta
      /\ cell.beneficial = a.fp_beneficial
  BY <1>1, <1>2
<1>8. QED
  BY <1>1, <1>6, <1>7 DEF a, cell, tp, fp

\* Part of the rows is no more than the whole.
LEMMA PartIsLess ==
  ASSUME StudyInv, NEW t \in SUBSET All, NEW s \in SUBSET t
  PROVE  Cardinality(s) <= Cardinality(t)
<1>1. IsFiniteSet(t)
  BY RowFacts, FS_Subset
<1>2. QED
  BY <1>1, FS_Subset

\* A larger tau rejects fewer rows and a larger theta calls fewer of them harmful.
LEMMA GridIsMonotone ==
  ASSUME StudyInv
  PROVE  GridMonotone
<1> SUFFICES ASSUME NEW theta \in {1, 3, 5}, NEW tau \in 0 .. 2
             PROVE  LET low == TauThetaGrid(tau, theta) high == TauThetaGrid(tau + 1, theta)
                    IN /\ low.positives = high.positives /\ low.negatives = high.negatives
                       /\ high.counts.tp <= low.counts.tp /\ high.counts.fp <= low.counts.fp
                       /\ tau < theta => low.at_theta_exactly <= low.definitional
                       /\ tau = theta => low.definitional = 0
                       /\ low.beneficial <= low.predictive
  BY DEF GridMonotone
<1> DEFINE low == TauThetaGrid(tau, theta)
           high == TauThetaGrid(tau + 1, theta)
           exact == {i \in Wrong(tau, theta) : Delta(i) = theta}
           gains == {i \in Wrong(tau, theta) : Delta(i) < 0}
           rest == Wrong(tau, theta) \ Definitional(tau, theta)
<1>1. tau \in 0 .. 3 /\ tau + 1 \in 0 .. 3 /\ tau \in Nat /\ theta \in Nat
  OBVIOUS
<1>2. \A i \in Corpus : i \in All /\ rows[i].predicted \in Int /\ Delta(i) \in Int
  BY RowFacts DEF Corpus, Candidates, Sound, ShardRows, Delta
<1>3. CellRejects(tau + 1) \subseteq CellRejects(tau) /\ CellRejects(tau) \subseteq Corpus
  BY <1>1, <1>2 DEF CellRejects
<1>4. /\ CellRejects(tau + 1) \cap Harmful(theta) \subseteq CellRejects(tau) \cap Harmful(theta)
      /\ Wrong(tau + 1, theta) \subseteq Wrong(tau, theta)
      /\ CellRejects(tau) \cap Harmful(theta) \subseteq All /\ Wrong(tau, theta) \subseteq All
  BY <1>2, <1>3 DEF Wrong
<1>5. \A i \in Wrong(tau, theta) : i \in Corpus /\ Delta(i) <= theta
  BY <1>2, <1>3 DEF Wrong, Harmful
<1>6. /\ Definitional(tau, theta) \subseteq Wrong(tau, theta)
      /\ tau < theta => exact \subseteq Definitional(tau, theta)
      /\ tau = theta => Definitional(tau, theta) = {}
      /\ gains \subseteq rest
  BY <1>1, <1>2, <1>5 DEF Definitional
<1>7. /\ low.positives = Cardinality(Harmful(theta))
      /\ low.negatives = Cardinality(Corpus \ Harmful(theta))
      /\ low.counts.tp = Cardinality(CellRejects(tau) \cap Harmful(theta))
      /\ low.counts.fp = Cardinality(Wrong(tau, theta))
      /\ low.at_theta_exactly = Cardinality(exact)
      /\ low.definitional = Cardinality(Definitional(tau, theta))
      /\ low.beneficial = Cardinality(gains)
      /\ low.predictive = Cardinality(Wrong(tau, theta)) - Cardinality(Definitional(tau, theta))
  BY <1>1, CellParts
<1>8. /\ high.positives = Cardinality(Harmful(theta))
      /\ high.negatives = Cardinality(Corpus \ Harmful(theta))
      /\ high.counts.tp = Cardinality(CellRejects(tau + 1) \cap Harmful(theta))
      /\ high.counts.fp = Cardinality(Wrong(tau + 1, theta))
  <2> DEFINE up == tau + 1
  <2>1. up \in 0 .. 3
    BY <1>1
  <2> HIDE DEF up
  <2>2. LET cell == TauThetaGrid(up, theta)
        IN /\ cell.positives = Cardinality(Harmful(theta))
           /\ cell.negatives = Cardinality(Corpus \ Harmful(theta))
           /\ cell.counts.tp = Cardinality(CellRejects(up) \cap Harmful(theta))
           /\ cell.counts.fp = Cardinality(Wrong(up, theta))
    BY <2>1, CellParts
  <2>3. QED
    BY <2>2 DEF up
<1> HIDE DEF low, high, exact, gains
<1>9. high.counts.tp <= low.counts.tp /\ high.counts.fp <= low.counts.fp
  <2>1. Cardinality(CellRejects(tau + 1) \cap Harmful(theta))
            <= Cardinality(CellRejects(tau) \cap Harmful(theta))
    BY <1>4, PartIsLess
  <2>2. Cardinality(Wrong(tau + 1, theta)) <= Cardinality(Wrong(tau, theta))
    BY <1>4, PartIsLess
  <2>3. QED
    BY <1>7, <1>8, <2>1, <2>2
<1>10. tau < theta => low.at_theta_exactly <= low.definitional
  BY <1>4, <1>6, <1>7, PartIsLess
<1>11. tau = theta => low.definitional = 0
  BY <1>6, <1>7, FS_EmptySet
<1>12. low.beneficial <= low.predictive
  <2>1. rest \in SUBSET All /\ Definitional(tau, theta) \in SUBSET All
        /\ rest \cap Definitional(tau, theta) = {}
        /\ rest \cup Definitional(tau, theta) = Wrong(tau, theta)
    BY <1>4, <1>6
  <2> HIDE DEF rest
  <2>2. Cardinality(Wrong(tau, theta))
            = Cardinality(rest) + Cardinality(Definitional(tau, theta))
    BY <2>1, PartsAdd
  <2>3. Cardinality(rest) \in Nat /\ Cardinality(Definitional(tau, theta)) \in Nat
    BY <2>1, ColumnSums
  <2>4. Cardinality(gains) <= Cardinality(rest)
    BY <1>6, <2>1, PartIsLess
  <2>5. low.predictive = Cardinality(rest)
    BY <1>7, <2>2, <2>3
  <2>6. QED
    BY <1>7, <2>4, <2>5
<1>13. QED
  BY <1>7, <1>8, <1>9, <1>10, <1>11, <1>12 DEF low, high

\* At the gate's own threshold the grid is the report, for the gates that
\* decide by their prediction.
LEMMA CorpusAgrees ==
  ASSUME StudyInv
  PROVE  /\ \A theta \in {1, 3, 5} :
                TauThetaGrid(0, theta).positives = CorpusSummary.harmful_gt[theta]
         /\ arm \in {"twin", "oracle"} =>
                LET cell == CellArrays(0, 3)
                IN /\ CorpusSummary.matches = CorpusSummary.candidates
                   /\ TauThetaGrid(0, 3).counts = PolicyConfusion
                   /\ cell.harm_rejected = CandidateArrays.harm_rejected
                   /\ cell.benefit_approved = CandidateArrays.benefit_approved
                   /\ cell.net_approved = CandidateArrays.net_approved
<1>1. ASSUME NEW theta \in {1, 3, 5}
      PROVE  TauThetaGrid(0, theta).positives = CorpusSummary.harmful_gt[theta]
  <2>1. TauThetaGrid(0, theta).positives = Cardinality(Harmful(theta))
    BY CellParts
  <2>2. CorpusSummary.harmful_gt[theta] = Cardinality(Harmful(theta))
    BY DEF CorpusSummary, Harmful
  <2>3. QED
    BY <2>1, <2>2
<1>2. ASSUME arm \in {"twin", "oracle"}
      PROVE  LET cell == CellArrays(0, 3)
             IN /\ CorpusSummary.matches = CorpusSummary.candidates
                /\ TauThetaGrid(0, 3).counts = PolicyConfusion
                /\ cell.harm_rejected = CandidateArrays.harm_rejected
                /\ cell.benefit_approved = CandidateArrays.benefit_approved
                /\ cell.net_approved = CandidateArrays.net_approved
  <2>1. gated
    BY <1>2 DEF gated
  <2>2. \A i \in All : /\ rows[i].predicted # Null /\ rows[i].predicted \in Int
                       /\ rows[i].verdict = "approved" <=> rows[i].predicted <= 0
                       /\ rows[i].verdict \in {"approved", "rejected"}
    BY <1>2, <2>1, RowFacts DEF Sound, ShardRows
  <2>3. Corpus = Candidates /\ Corpus = Produced
    BY <2>2, CandidateSets DEF Corpus, Candidates
  <2>4. \A i \in Corpus : rows[i].predicted > 0 <=> rows[i].verdict = "rejected"
    BY <2>2 DEF Corpus, Candidates
  <2>5. CellRejects(0) = {i \in Produced : rows[i].verdict = "rejected"}
    BY <2>3, <2>4 DEF CellRejects
  <2>6. CellRejects(0) = Rejected
    BY <2>1, <2>3, <2>5 DEF Rejected
  <2>7. CellRejects(0) = Candidates \ Approved /\ Corpus \ CellRejects(0) = Approved
    BY <2>3, <2>6, CandidateSets DEF Approved
  <2>8. CorpusSummary.matches = CorpusSummary.candidates
    <3>1. {i \in Corpus : rows[i].predicted > 0 <=> rows[i].verdict = "rejected"} = Corpus
      BY <2>4
    <3>2. QED
      BY <3>1 DEF CorpusSummary
  <2>9. TauThetaGrid(0, 3).counts = PolicyConfusion
    <3> DEFINE a == CellArrays(0, 3)
               rejected == {i \in Produced : IF gated THEN rows[i].verdict = "rejected"
                                             ELSE ~rows[i].applied}
               harmful == {i \in Produced : Delta(i) > 3}
    <3>1. rejected = CellRejects(0)
      BY <2>1, <2>5
    <3>2. harmful = Harmful(3)
      BY <2>3 DEF Harmful
    <3>3. /\ a.tp = Cardinality(rejected \cap harmful) /\ a.fn = Cardinality(harmful \ rejected)
          /\ a.fp = Cardinality(rejected \ harmful)
          /\ a.tn = Cardinality(Produced \ (rejected \cup harmful))
      BY <2>3, <3>1, <3>2 DEF CellArrays, Harmful
    <3>4. TauThetaGrid(0, 3).counts = [tp |-> a.tp, fn |-> a.fn, fp |-> a.fp, tn |-> a.tn]
      BY CellParts
    <3>5. PolicyConfusion = [tp |-> Cardinality(rejected \cap harmful),
                             fn |-> Cardinality(harmful \ rejected),
                             fp |-> Cardinality(rejected \ harmful),
                             tn |-> Cardinality(Produced \ (rejected \cup harmful))]
      BY DEF PolicyConfusion
    <3> HIDE DEF a, rejected, harmful
    <3>6. QED
      BY <3>3, <3>4, <3>5
  <2>10. /\ CellArrays(0, 3).harm_rejected = CandidateArrays.harm_rejected
         /\ CellArrays(0, 3).benefit_approved = CandidateArrays.benefit_approved
         /\ CellArrays(0, 3).net_approved = CandidateArrays.net_approved
    BY <2>7 DEF CellArrays, CandidateArrays
  <2>11. QED
    BY <2>8, <2>9, <2>10
<1>3. QED
  BY <1>1, <1>2

\* Whatever an episode does in whatever arm, the report accepts its rows and
\* the programs that read them agree on every figure.
THEOREM ReportsReconcile == StudySpec => []StudyReconciles
<1>1. StudyInv => StudyReconciles
  <2> SUFFICES ASSUME StudyInv, EpisodeOver
               PROVE  AnalysisAccepts /\ TablesAgree /\ GridMonotone
    BY DEF StudyReconciles
  <2>1. TablesAgree
    BY ArraysAgree, CompositionAdds, HarmAgrees, ExposureAgrees, EntryAgrees, GroupsAgree,
       CorpusAgrees DEF TablesAgree
  <2>2. QED
    BY <2>1, ReportsAccept, GridIsMonotone
<1>2. QED
  BY <1>1, StudyInvariance, PTL

-----------------------------------------------------------------------------
\* The signed-rank tests and Holm's adjustment (SignedRanks).

\* The doubled ranks as a function.
RankOf == [i \in DOMAIN diffs |-> DoubledRank(i)]

\* The types of the test's variables.
RanksTyped ==
    /\ \E n \in Nat : diffs \in [1 .. n -> (-Largest .. Largest) \ {0}]
    /\ taken \in 0 .. Len(diffs)
    /\ counts \in [0 .. TotalRank -> Nat]
    /\ pvalues \in [1 .. Tests -> 0 .. One]

\* The loop has counted the signs of the ranks it has taken.
SignsCounted == \A w \in 0 .. TotalRank :
    counts[w] = Cardinality(Parts(RankOf, 1 .. taken, w))

\* The inductive invariant.
RanksInv == RanksTyped /\ SignsCounted

\* The differences, their ranks and the sums of these.
LEMMA RankSums ==
  ASSUME \E n \in Nat : diffs \in [1 .. n -> (-Largest .. Largest) \ {0}]
  PROVE  /\ Len(diffs) \in Nat /\ DOMAIN diffs = 1 .. Len(diffs)
         /\ IsFiniteSet(DOMAIN diffs)
         /\ RankOf \in [DOMAIN diffs -> Nat]
         /\ \A S \in SUBSET DOMAIN diffs : /\ RankSum(S) = Sums(RankOf)[S]
                                           /\ RankSum(S) \in 0 .. TotalRank
         /\ TotalRank \in Nat
<1> DEFINE D == DOMAIN diffs
<1>1. Len(diffs) \in Nat /\ D = 1 .. Len(diffs) /\ IsFiniteSet(D)
  <2>1. PICK n \in Nat : diffs \in [1 .. n -> (-Largest .. Largest) \ {0}]
    OBVIOUS
  <2>2. Len(diffs) = n /\ D = 1 .. n
    BY <2>1
  <2>3. QED
    BY <2>1, <2>2, FS_Interval
<1>2. RankOf \in [D -> Nat]
  <2> SUFFICES ASSUME NEW i \in D PROVE DoubledRank(i) \in Nat
    BY DEF RankOf
  <2> DEFINE less == {j \in DOMAIN diffs : Abs(diffs[j]) < Abs(diffs[i])}
             upto == {j \in DOMAIN diffs : Abs(diffs[j]) <= Abs(diffs[i])}
  <2>1. less \in SUBSET D /\ upto \in SUBSET D
    OBVIOUS
  <2>2. Cardinality(less) \in Nat /\ Cardinality(upto) \in Nat
    BY <1>1, <2>1, FS_Subset, FS_CardinalityType
  <2>3. DoubledRank(i) = Cardinality(less) + Cardinality(upto) + 1
    BY DEF DoubledRank
  <2> HIDE DEF less, upto
  <2>4. QED
    BY <2>2, <2>3
<1>3. RankOf \in [D -> Int]
  BY <1>2
<1>4. ASSUME NEW S \in SUBSET D PROVE RankSum(S) = Sums(RankOf)[S]
  <2>1. [i \in S |-> DoubledRank(i)] = [i \in S |-> RankOf[i]]
    BY DEF RankOf
  <2>2. QED
    BY <1>1, <1>3, <2>1, SumOfPart DEF RankSum
<1>5. TotalRank = Sums(RankOf)[D]
  BY <1>4 DEF TotalRank
<1>6. ASSUME NEW S \in SUBSET D PROVE RankSum(S) \in 0 .. TotalRank
  <2>1. Sums(RankOf)[S] \in Nat /\ Sums(RankOf)[D] \in Nat
    BY <1>1, <1>2, SumOfNats
  <2>2. Sums(RankOf)[S] <= Sums(RankOf)[D]
    BY <1>1, <1>2, SumOfMore
  <2>3. QED
    BY <1>4, <1>5, <2>1, <2>2
<1>7. TotalRank \in Nat
  BY <1>1, <1>2, <1>5, SumOfNats
<1>8. QED
  BY <1>1, <1>2, <1>4, <1>6, <1>7

\* Before the loop there is one choice of signs, of sum zero.
LEMMA RanksStart == RanksInit => RanksInv
<1> SUFFICES ASSUME RanksInit PROVE RanksInv
  OBVIOUS
<1>1. \E n \in Nat : diffs \in [1 .. n -> (-Largest .. Largest) \ {0}]
  BY RanksAssumption DEF RanksInit
<1>2. /\ TotalRank \in Nat /\ Len(diffs) \in Nat /\ DOMAIN diffs = 1 .. Len(diffs)
      /\ IsFiniteSet(DOMAIN diffs) /\ RankOf \in [DOMAIN diffs -> Nat]
  BY <1>1, RankSums
<1>3. RanksTyped
  <2>1. counts \in [0 .. TotalRank -> Nat]
    BY DEF RanksInit
  <2>2. taken \in 0 .. Len(diffs) /\ pvalues \in [1 .. Tests -> 0 .. One]
    BY <1>2 DEF RanksInit
  <2>3. QED
    BY <1>1, <2>1, <2>2, Zenon DEF RanksTyped
<1>4. SignsCounted
  <2> SUFFICES ASSUME NEW w \in 0 .. TotalRank
               PROVE  counts[w] = Cardinality(Parts(RankOf, 1 .. taken, w))
    BY DEF SignsCounted
  <2>1. 1 .. taken = {} /\ counts[w] = IF w = 0 THEN 1 ELSE 0
    BY DEF RanksInit
  <2>2. RankOf \in [DOMAIN diffs -> Int]
    BY <1>2
  <2>3. Sums(RankOf)[{}] = 0
    BY <1>2, <2>2, SumsAddUp DEF AddsUp
  <2>4. Parts(RankOf, {}, w) = IF w = 0 THEN {{}} ELSE {}
    BY <2>3 DEF Parts
  <2>5. Cardinality({{}}) = 1 /\ Cardinality({}) = 0
    BY FS_Singleton, FS_EmptySet
  <2>6. QED
    BY <2>1, <2>4, <2>5
<1>5. QED
  BY <1>3, <1>4 DEF RanksInv

\* Taking a rank counts every choice twice: with the rank and without it.
LEMMA RankTaken ==
  ASSUME RanksInv, TakeRank
  PROVE  RanksInv'
<1> DEFINE x == taken + 1
           U == 1 .. taken
           D == DOMAIN diffs
<1>1. /\ Len(diffs) \in Nat /\ D = 1 .. Len(diffs)
      /\ IsFiniteSet(D) /\ RankOf \in [D -> Nat] /\ TotalRank \in Nat
  BY RankSums DEF RanksInv, RanksTyped
<1>2. /\ taken \in Nat /\ taken < Len(diffs) /\ taken' = x
      /\ diffs' = diffs /\ pvalues' = pvalues
  BY <1>1 DEF RanksInv, RanksTyped, TakeRank
<1>3. /\ TotalRank' = TotalRank /\ RankOf' = RankOf
      /\ DoubledRank(taken') = RankOf[x] /\ RankOf[x] \in Nat
  <2>1. x \in D
    BY <1>1, <1>2
  <2>2. QED
    BY <1>1, <1>2, <2>1 DEF TotalRank, RankSum, RankOf, DoubledRank
<1>4. counts \in [0 .. TotalRank -> Nat]
  BY DEF RanksInv, RanksTyped
<1>5. counts' = [w \in 0 .. TotalRank |->
                     counts[w] + IF w >= RankOf[x] THEN counts[w - RankOf[x]] ELSE 0]
  BY <1>3, <1>4 DEF TakeRank
<1>6. RanksTyped'
  <2>1. counts' \in [0 .. TotalRank -> Nat]
    <3> SUFFICES ASSUME NEW w \in 0 .. TotalRank
                 PROVE  counts[w] + (IF w >= RankOf[x] THEN counts[w - RankOf[x]] ELSE 0) \in Nat
      BY <1>5
    <3>1. w >= RankOf[x] => w - RankOf[x] \in 0 .. TotalRank
      BY <1>1, <1>3
    <3>2. counts[w] \in Nat /\ (w >= RankOf[x] => counts[w - RankOf[x]] \in Nat)
      BY <1>4, <3>1
    <3>3. QED
      BY <3>2
  <2>2. taken' \in 0 .. Len(diffs')
    BY <1>1, <1>2
  <2>3. QED
    BY <1>2, <1>3, <2>1, <2>2 DEF RanksInv, RanksTyped
<1>7. ASSUME NEW w \in 0 .. TotalRank
      PROVE  counts'[w] = Cardinality(Parts(RankOf, 1 .. taken', w))
  <2>1. /\ U \in SUBSET D /\ x \in D /\ x \notin U /\ w \in Int
        /\ RankOf \in [D -> Int]
    BY <1>1, <1>2
  <2>2. 1 .. taken' = U \cup {x}
    BY <1>2
  <2>3. Cardinality(Parts(RankOf, U \cup {x}, w))
            = Cardinality(Parts(RankOf, U, w)) + Cardinality(Parts(RankOf, U, w - RankOf[x]))
    <3> HIDE DEF U, D, x
    <3>1. IsFiniteSet(D)
      BY <1>1
    <3>2. U \in SUBSET D /\ x \in D /\ x \notin U /\ w \in Int
      BY <2>1
    <3>3. RankOf \in [D -> Int]
      BY <2>1
    <3>4. QED
      BY <3>1, <3>2, <3>3, PartsSplit
  <2>4. counts[w] = Cardinality(Parts(RankOf, U, w))
    BY DEF RanksInv, SignsCounted
  <2>5. Cardinality(Parts(RankOf, U, w - RankOf[x]))
            = IF w >= RankOf[x] THEN counts[w - RankOf[x]] ELSE 0
    <3>1. CASE w >= RankOf[x]
      <4>1. w - RankOf[x] \in 0 .. TotalRank
        BY <1>1, <1>3, <3>1
      <4>2. QED
        BY <3>1, <4>1 DEF RanksInv, SignsCounted
    <3>2. CASE ~(w >= RankOf[x])
      <4>1. \A S \in SUBSET U : Sums(RankOf)[S] \in Nat
        BY <1>1, <2>1, SumOfNats
      <4>2. w - RankOf[x] \notin Nat
        BY <1>1, <1>3, <3>2
      <4>3. Parts(RankOf, U, w - RankOf[x]) = {}
        BY <4>1, <4>2 DEF Parts
      <4>4. QED
        BY <3>2, <4>3, FS_EmptySet
    <3>3. QED
      BY <3>1, <3>2
  <2>6. counts'[w] = counts[w] + IF w >= RankOf[x] THEN counts[w - RankOf[x]] ELSE 0
    BY <1>5
  <2>7. QED
    BY <2>2, <2>3, <2>4, <2>5, <2>6
<1>8. SignsCounted'
  BY <1>3, <1>7 DEF SignsCounted
<1>9. QED
  BY <1>6, <1>8 DEF RanksInv

\* The invariant holds throughout the loop.
LEMMA RanksInvariance == RanksSpec => []RanksInv
<1>1. RanksInv /\ [RanksNext]_ranksVars => RanksInv'
  <2> SUFFICES ASSUME RanksInv, [RanksNext]_ranksVars PROVE RanksInv'
    OBVIOUS
  <2>1. CASE TakeRank
    BY <2>1, RankTaken
  <2>2. CASE UNCHANGED ranksVars
    <3>1. diffs' = diffs /\ taken' = taken /\ counts' = counts /\ pvalues' = pvalues
      BY <2>2 DEF ranksVars
    <3>2. TotalRank' = TotalRank /\ RankOf' = RankOf
      BY <3>1 DEF TotalRank, RankSum, RankOf, DoubledRank
    <3>3. QED
      BY <3>1, <3>2 DEF RanksInv, RanksTyped, SignsCounted
  <2>3. QED
    BY <2>1, <2>2 DEF RanksNext
<1>2. QED
  BY <1>1, RanksStart, PTL DEF RanksSpec

\* A whole distribution has as many signs as there are, its tail the extreme ones.
LEMMA DistributionExact ==
  ASSUME RanksInv, taken = Len(diffs)
  PROVE  /\ SumFunction(counts) = 2 ^ Len(diffs)
         /\ SumFunction([w \in {w \in DOMAIN counts : Extreme(w)} |-> counts[w]]) = ExtremeSigns
<1> DEFINE D == DOMAIN diffs
           W == 0 .. TotalRank
           E == {w \in W : Extreme(w)}
           OfSum(R) == {S \in SUBSET D : Sums(RankOf)[S] \in R}
<1>1. /\ Len(diffs) \in Nat /\ D = 1 .. Len(diffs) /\ TotalRank \in Nat /\ IsFiniteSet(D)
      /\ RankOf \in [D -> Nat]
      /\ \A S \in SUBSET D : RankSum(S) = Sums(RankOf)[S] /\ RankSum(S) \in W
  BY RankSums DEF RanksInv, RanksTyped
<1>2. counts \in [W -> Nat] /\ \A w \in W : counts[w] = Cardinality(Parts(RankOf, D, w))
  BY <1>1 DEF RanksInv, RanksTyped, SignsCounted
<1>3. IsFiniteSet(W) /\ IsFiniteSet(E)
  <2>1. IsFiniteSet(W)
    BY <1>1, FS_Interval
  <2>2. E \in SUBSET W
    OBVIOUS
  <2>3. QED
    BY <2>1, <2>2, FS_Subset
<1>4. ASSUME NEW R, IsFiniteSet(R)
      PROVE  SumFunction([w \in R |-> Cardinality(Parts(RankOf, D, w))]) = Cardinality(OfSum(R))
  <2>1. RankOf \in [D -> Int] /\ IsFiniteSet(D)
    BY <1>1
  <2>2. QED
    BY <1>4, <2>1, PartsCounted
<1>5. SumFunction(counts) = 2 ^ Len(diffs)
  <2>1. counts = [w \in W |-> Cardinality(Parts(RankOf, D, w))]
    BY <1>2
  <2>2. OfSum(W) = SUBSET D
    BY <1>1
  <2>3. Cardinality(SUBSET D) = 2 ^ Cardinality(D)
    BY <1>1, FS_SUBSET
  <2>4. Cardinality(D) = Len(diffs)
    <3>1. \A n \in Nat : Cardinality(1 .. n) = n
      BY FS_Interval
    <3>2. QED
      BY <1>1, <3>1, Zenon
  <2>5. SumFunction(counts) = Cardinality(OfSum(W))
    <3> HIDE DEF W, OfSum
    <3>1. SumFunction([w \in W |-> Cardinality(Parts(RankOf, D, w))]) = Cardinality(OfSum(W))
      BY <1>3, <1>4
    <3>2. QED
      BY <2>1, <3>1
  <2>6. QED
    BY <2>2, <2>3, <2>4, <2>5, Zenon
<1>6. SumFunction([w \in E |-> counts[w]]) = ExtremeSigns
  <2>1. [w \in E |-> counts[w]] = [w \in E |-> Cardinality(Parts(RankOf, D, w))]
    BY <1>2
  <2>2. OfSum(E) = {S \in SUBSET D : Extreme(RankSum(S))}
    BY <1>1
  <2>3. SumFunction([w \in E |-> counts[w]]) = Cardinality(OfSum(E))
    BY <1>3, <1>4, <2>1, Zenon
  <2>4. QED
    BY <2>2, <2>3 DEF ExtremeSigns
<1>7. DOMAIN counts = W
  BY <1>2
<1>8. QED
  BY <1>5, <1>6, <1>7

-----------------------------------------------------------------------------
\* What a group of t tied ranks above a others adds to both variances.
LEMMA TiesAdd ==
  ASSUME NEW a \in Nat, NEW t \in Nat
  PROVE  2 * (a + t) * (a + t + 1) * (2 * (a + t) + 1) - (t * t * t - t)
             = 2 * a * (a + 1) * (2 * a + 1)
               + 3 * (((2 * a + t + 1) * (2 * a + t + 1)) * t)
<1> DEFINE P == a * a * a
           Q == a * a * t
           R == a * (t * t)
           S == t * t * t
           A == a * a
           B == a * t
           C == t * t
           s == a + t
<1>1. \A m \in Nat : 2 * m * (m + 1) * (2 * m + 1) = 4 * (m * m * m) + 6 * (m * m) + 2 * m
  OBVIOUS
<1>2. s \in Nat /\ s * s = A + 2 * B + C
  OBVIOUS
<1>3. s * s * s = P + 3 * Q + 3 * R + S
  OBVIOUS
<1>4. 3 * (((2 * a + t + 1) * (2 * a + t + 1)) * t)
          = 12 * Q + 12 * R + 3 * S + 12 * B + 6 * C + 3 * t
  OBVIOUS
<1>5. 2 * s * (s + 1) * (2 * s + 1) = 4 * (s * s * s) + 6 * (s * s) + 2 * s
  BY <1>1, <1>2, Zenon
<1>6. 2 * a * (a + 1) * (2 * a + 1) = 4 * P + 6 * A + 2 * a
  BY <1>1
<1>7. P \in Int /\ Q \in Int /\ R \in Int /\ S \in Int /\ A \in Int /\ B \in Int /\ C \in Int
  OBVIOUS
<1>8. t * t * t = S
  OBVIOUS
<1>9. s = a + t
  OBVIOUS
<1> HIDE DEF P, Q, R, S, A, B, C, s
<1>10. 2 * s * (s + 1) * (2 * s + 1) - (S - t)
           = 2 * a * (a + 1) * (2 * a + 1)
             + 3 * (((2 * a + t + 1) * (2 * a + t + 1)) * t)
  <2>1. 2 * s * (s + 1) * (2 * s + 1) - (S - t)
            = (4 * (P + 3 * Q + 3 * R + S) + 6 * (A + 2 * B + C) + 2 * (a + t)) - (S - t)
    <3> DEFINE X == 2 * s * (s + 1) * (2 * s + 1)
               Y == s * s
               Z == s * s * s
    <3>1. X = 4 * Z + 6 * Y + 2 * s /\ Y = A + 2 * B + C /\ Z = P + 3 * Q + 3 * R + S
      BY <1>2, <1>3, <1>5, Zenon
    <3> HIDE DEF X, Y, Z
    <3>2. X = 4 * (P + 3 * Q + 3 * R + S) + 6 * (A + 2 * B + C) + 2 * s
      <4>1. X = 4 * Z + 6 * Y + 2 * s
        BY <3>1
      <4>2. Y = A + 2 * B + C
        BY <3>1
      <4>3. Z = P + 3 * Q + 3 * R + S
        BY <3>1
      <4>4. QED
        BY <4>1, <4>2, <4>3, Zenon
    <3>3. X = 4 * (P + 3 * Q + 3 * R + S) + 6 * (A + 2 * B + C) + 2 * (a + t)
      BY <1>9, <3>2, Zenon
    <3>4. QED
      BY <3>3, Zenon DEF X
  <2>2. 2 * a * (a + 1) * (2 * a + 1) + 3 * (((2 * a + t + 1) * (2 * a + t + 1)) * t)
            = 4 * P + 6 * A + 2 * a + (12 * Q + 12 * R + 3 * S + 12 * B + 6 * C + 3 * t)
    BY <1>4, <1>6
  <2>3. (4 * (P + 3 * Q + 3 * R + S) + 6 * (A + 2 * B + C) + 2 * (a + t)) - (S - t)
            = 4 * P + 6 * A + 2 * a + (12 * Q + 12 * R + 3 * S + 12 * B + 6 * C + 3 * t)
    BY <1>7
  <2>4. QED
    BY <2>1, <2>2, <2>3, Zenon
<1>11. QED
  BY <1>8, <1>9, <1>10

\* A set of natural numbers up to b that is not empty has a greatest one.
LEMMA GreatestNumber ==
  ASSUME NEW b \in Nat, NEW T \in SUBSET (0 .. b), T # {}
  PROVE  \E n \in T : \A m \in T : m <= n
<1> DEFINE R == {b - m : m \in T}
<1>1. R \subseteq Nat /\ R # {}
  <2>1. \A m \in T : b - m \in Nat
    OBVIOUS
  <2>2. QED
    BY <2>1, Zenon
<1>2. PICK r \in R : \A m \in R : r <= m
  BY <1>1, LeastNumber
<1>3. PICK n \in T : r = b - n
  OBVIOUS
<1>4. ASSUME NEW m \in T PROVE m <= n
  <2>1. r <= b - m
    BY <1>2
  <2>2. QED
    BY <1>3, <2>1
<1>5. QED
  BY <1>4

\* Max and Min are the greatest and the least element where there is one.
LEMMA GreatestIsMax ==
  ASSUME NEW S \in SUBSET Int, NEW m \in S, \A y \in S : y <= m
  PROVE  Max(S) = m
<1>1. \A x \in S : (\A y \in S : x >= y) => x = m
  OBVIOUS
<1>2. \A y \in S : m >= y
  OBVIOUS
<1>3. QED
  BY <1>1, <1>2, Zenon DEF Max

\* The same for the least.
LEMMA LeastIsMin ==
  ASSUME NEW S \in SUBSET Int, NEW m \in S, \A y \in S : m <= y
  PROVE  Min(S) = m
<1>1. \A x \in S : (\A y \in S : x <= y) => x = m
  OBVIOUS
<1>2. QED
  BY <1>1, Zenon DEF Min
-----------------------------------------------------------------------------
\* The induction over the absolute values compares, up to v, the variance without
\* ties less what the tied groups take off with the sum of the squared ranks.

\* The differences up to v and those of v, which share a rank.
Within(v) == {i \in DOMAIN diffs : Abs(diffs[i]) <= v}
Tied(v) == {i \in DOMAIN diffs : Abs(diffs[i]) = v}

\* The variance of m ranks without ties, and what a group of ties takes off.
Cubic(m) == 2 * m * (m + 1) * (2 * m + 1)
TieOf == [v \in 1 .. Largest |->
    Cardinality(Tied(v)) * Cardinality(Tied(v)) * Cardinality(Tied(v)) - Cardinality(Tied(v))]

\* The squared ranks.
SquareOf == [i \in DOMAIN diffs |-> DoubledRank(i) * DoubledRank(i)]

\* The variance of the approximation is that of the distribution, ties or not.
LEMMA VarianceExact ==
  ASSUME RanksInv
  PROVE  Variance48 = 3 * SumFunction([i \in DOMAIN diffs |-> DoubledRank(i) * DoubledRank(i)])
<1> DEFINE D == DOMAIN diffs
           b(v) == Cardinality(Within(v))
           Good(v) == Cubic(b(v)) - Sums(TieOf)[1 .. v] = 3 * Sums(SquareOf)[Within(v)]
           bad == {v \in 0 .. Largest : ~Good(v)}
<1>1. /\ Len(diffs) \in Nat /\ D = 1 .. Len(diffs) /\ IsFiniteSet(D)
      /\ \A i \in D : DoubledRank(i) \in Nat
  BY RankSums DEF RanksInv, RanksTyped, RankOf
<1>2. \A i \in D : Abs(diffs[i]) \in 1 .. Largest
  BY RanksAssumption DEF RanksInv, RanksTyped, Abs
<1>3. \A v : /\ Within(v) \in SUBSET D /\ Tied(v) \in SUBSET D
             /\ b(v) \in Nat /\ Cardinality(Tied(v)) \in Nat
  <2> SUFFICES ASSUME NEW v
               PROVE  /\ Within(v) \in SUBSET D /\ Tied(v) \in SUBSET D
                      /\ b(v) \in Nat /\ Cardinality(Tied(v)) \in Nat
    OBVIOUS
  <2>1. Within(v) \in SUBSET D /\ Tied(v) \in SUBSET D
    BY DEF Within, Tied
  <2>2. QED
    BY <1>1, <2>1, FS_Subset, FS_CardinalityType
<1>4. /\ IsFiniteSet(1 .. Largest) /\ TieOf \in [1 .. Largest -> Int]
      /\ SquareOf \in [D -> Int]
  <2>1. IsFiniteSet(1 .. Largest)
    BY RanksAssumption, FS_Interval
  <2>2. \A t \in Nat : t * t * t - t \in Int
    OBVIOUS
  <2>3. \A v \in 1 .. Largest : TieOf[v] \in Int
    BY <1>3, <2>2 DEF TieOf
  <2>4. \A r \in Nat : r * r \in Int
    OBVIOUS
  <2>5. QED
    BY <1>1, <2>1, <2>3, <2>4 DEF TieOf, SquareOf
<1>5. Good(0)
  <2>1. Within(0) = {} /\ 1 .. 0 = {}
    BY <1>2 DEF Within
  <2>2. Sums(TieOf)[{}] = 0 /\ Sums(SquareOf)[{}] = 0
    BY <1>1, <1>4, SumsAddUp DEF AddsUp
  <2>3. Cardinality({}) = 0
    BY FS_EmptySet
  <2>4. QED
    BY <2>1, <2>2, <2>3 DEF Cubic
<1>6. ASSUME NEW v \in 1 .. Largest, Good(v - 1)
      PROVE  Good(v)
  <2> DEFINE a == b(v - 1)
             t == Cardinality(Tied(v))
             low == Within(v - 1)
  <2>1. a \in Nat /\ t \in Nat
    BY <1>3
  <2>2. Within(v) = low \cup Tied(v) /\ low \cap Tied(v) = {}
    BY <1>2 DEF Within, Tied
  <2>3. b(v) = a + t
    <3>1. low \in SUBSET D /\ Tied(v) \in SUBSET D
      BY <1>3
    <3>2. IsFiniteSet(low) /\ IsFiniteSet(Tied(v))
      BY <1>1, <3>1, FS_Subset
    <3> HIDE DEF low
    <3>3. Cardinality(low \cup Tied(v)) = Cardinality(low) + Cardinality(Tied(v))
                                           - Cardinality(low \cap Tied(v))
      BY <3>2, FS_Union
    <3>4. Cardinality(low \cap Tied(v)) = 0
      BY <2>2, FS_EmptySet
    <3>5. Cardinality(low) = a
      BY DEF low
    <3>6. QED
      BY <2>1, <2>2, <3>3, <3>4, <3>5
  <2>4. \A i \in Tied(v) : SquareOf[i] = (2 * a + t + 1) * (2 * a + t + 1)
    <3> SUFFICES ASSUME NEW i \in Tied(v) PROVE DoubledRank(i) = 2 * a + t + 1
      BY <1>3 DEF SquareOf
    <3>1. i \in D /\ Abs(diffs[i]) = v
      BY DEF Tied
    <3>2. {j \in D : Abs(diffs[j]) < Abs(diffs[i])} = low
      BY <1>2, <3>1 DEF Within
    <3>3. {j \in D : Abs(diffs[j]) <= Abs(diffs[i])} = Within(v)
      BY <3>1 DEF Within
    <3>4. DoubledRank(i) = a + b(v) + 1
      BY <3>2, <3>3 DEF DoubledRank
    <3>5. QED
      BY <2>1, <2>3, <3>4
  <2>5. Sums(SquareOf)[Within(v)]
            = Sums(SquareOf)[low] + ((2 * a + t + 1) * (2 * a + t + 1)) * t
    <3> DEFINE c == (2 * a + t + 1) * (2 * a + t + 1)
    <3>1. c \in Int
      BY <2>1
    <3>2. \A i \in Tied(v) : SquareOf[i] = c
      BY <2>4
    <3>3. low \in SUBSET D /\ Tied(v) \in SUBSET D
      BY <1>3
    <3> HIDE DEF c, low
    <3>4. Sums(SquareOf)[Tied(v)] = c * Cardinality(Tied(v))
      BY <1>1, <1>4, <3>1, <3>2, <3>3, SumOfEquals
    <3>5. Sums(SquareOf)[low \cup Tied(v)] = Sums(SquareOf)[low] + Sums(SquareOf)[Tied(v)]
      <4>1. low \cap Tied(v) = {} /\ IsFiniteSet(D) /\ SquareOf \in [D -> Int]
        BY <1>1, <1>4, <2>2
      <4>2. QED
        BY <3>3, <4>1, SumOfUnion
    <3>6. QED
      BY <2>2, <3>4, <3>5 DEF c
  <2>6. Sums(TieOf)[1 .. v] = Sums(TieOf)[1 .. v - 1] + (t * t * t - t)
    <3>1. v \in 1 .. v /\ (1 .. v) \ {v} = 1 .. v - 1 /\ 1 .. v \in SUBSET (1 .. Largest)
      BY RanksAssumption
    <3>2. AddsUp(Sums(TieOf), TieOf, 1 .. Largest)
      BY <1>4, SumsAddUp
    <3>3. Sums(TieOf)[1 .. v] = TieOf[v] + Sums(TieOf)[(1 .. v) \ {v}]
      BY <3>1, <3>2, Zenon DEF AddsUp
    <3>4. 1 .. v - 1 \in SUBSET (1 .. Largest)
      BY RanksAssumption
    <3>5. Sums(TieOf)[1 .. v - 1] \in Int /\ TieOf[v] \in Int
      BY <1>4, <3>2, <3>4 DEF AddsUp
    <3>6. TieOf[v] = t * t * t - t
      BY DEF TieOf
    <3>7. Sums(TieOf)[1 .. v] = Sums(TieOf)[1 .. v - 1] + TieOf[v]
      <4>1. Sums(TieOf)[1 .. v] = TieOf[v] + Sums(TieOf)[1 .. v - 1]
        BY <3>1, <3>3, Zenon
      <4>2. QED
        BY <3>5, <4>1
    <3>8. QED
      BY <3>6, <3>7, Zenon
  <2>7. Cubic(a + t) - (t * t * t - t)
            = Cubic(a) + 3 * (((2 * a + t + 1) * (2 * a + t + 1)) * t)
    <3> HIDE DEF a, t
    <3>1. QED
      BY <2>1, TiesAdd DEF Cubic
  <2>8. Cubic(a) - Sums(TieOf)[1 .. v - 1] = 3 * Sums(SquareOf)[low]
    BY <1>6
  <2>9. /\ Cubic(a) \in Int /\ Cubic(a + t) \in Int /\ t * t * t - t \in Int
        /\ ((2 * a + t + 1) * (2 * a + t + 1)) * t \in Int
        /\ Sums(TieOf)[1 .. v - 1] \in Int /\ Sums(SquareOf)[low] \in Int
    <3>1. 1 .. v - 1 \in SUBSET (1 .. Largest) /\ low \in SUBSET D
      BY <1>3, RanksAssumption
    <3>2. Sums(TieOf)[1 .. v - 1] \in Int
      BY <1>4, <3>1, SumsAddUp DEF AddsUp
    <3>3. Sums(SquareOf)[low] \in Int
      BY <1>1, <1>4, <3>1, SumsAddUp DEF AddsUp
    <3> HIDE DEF a, t
    <3>4. \A m \in Nat : Cubic(m) \in Int
      BY DEF Cubic
    <3>5. t * t * t - t \in Int /\ ((2 * a + t + 1) * (2 * a + t + 1)) * t \in Int
      BY <2>1
    <3>6. QED
      BY <2>1, <3>2, <3>3, <3>4, <3>5
  <2> DEFINE C1 == Cubic(a)
             C2 == Cubic(a + t)
             k == t * t * t - t
             q == ((2 * a + t + 1) * (2 * a + t + 1)) * t
             ties == Sums(TieOf)[1 .. v - 1]
             squares == Sums(SquareOf)[low]
  <2>10. /\ C1 \in Int /\ C2 \in Int /\ k \in Int /\ q \in Int /\ ties \in Int /\ squares \in Int
         /\ C2 - k = C1 + 3 * q /\ C1 - ties = 3 * squares
    BY <2>7, <2>8, <2>9
  <2>11. /\ Cubic(b(v)) = C2 /\ Sums(TieOf)[1 .. v] = ties + k
         /\ Sums(SquareOf)[Within(v)] = squares + q
    BY <2>3, <2>5, <2>6
  <2> HIDE DEF C1, C2, k, q, ties, squares
  <2>12. QED
    BY <2>10, <2>11
<1>7. Good(Largest)
  <2>1. SUFFICES ASSUME bad # {} PROVE FALSE
    BY RanksAssumption
  <2>2. bad \subseteq Nat
    OBVIOUS
  <2> HIDE DEF Good
  <2>3. PICK v \in bad : \A u \in bad : v <= u
    BY <2>1, <2>2, LeastNumber
  <2>4. v # 0
    BY <1>5
  <2>5. v \in 1 .. Largest /\ v - 1 \in 0 .. Largest /\ v - 1 \notin bad
    BY <2>3, <2>4, RanksAssumption
  <2>6. Good(v - 1)
    BY <2>5
  <2>7. QED
    BY <1>6, <2>3, <2>5, <2>6
<1>8. Within(Largest) = D /\ Cardinality(D) = Len(diffs)
  <2>1. Within(Largest) = D
    BY <1>2 DEF Within
  <2>2. \A n \in Nat : Cardinality(1 .. n) = n
    BY FS_Interval
  <2>3. Cardinality(D) = Len(diffs)
    BY <1>1, <2>2, Zenon
  <2>4. QED
    BY <2>1, <2>3
<1>9. Variance48 = Cubic(Len(diffs)) - SumFunction([v \in 1 .. Largest |-> TieOf[v]])
  <2>1. [v \in 1 .. Largest |-> TieOf[v]]
            = [v \in 1 .. Largest |->
                   Cardinality({i \in D : Abs(diffs[i]) = v})
                   * Cardinality({i \in D : Abs(diffs[i]) = v})
                   * Cardinality({i \in D : Abs(diffs[i]) = v})
                   - Cardinality({i \in D : Abs(diffs[i]) = v})]
    BY DEF TieOf, Tied
  <2>2. QED
    BY <2>1, Zenon DEF Variance48, Cubic
<1>10. SumFunction([v \in 1 .. Largest |-> TieOf[v]]) = Sums(TieOf)[1 .. Largest]
  <2> DEFINE V == 1 .. Largest
  <2>1. IsFiniteSet(V) /\ TieOf \in [V -> Int] /\ V \in SUBSET V
    BY <1>4
  <2> HIDE DEF V
  <2>2. SumFunction([v \in V |-> TieOf[v]]) = Sums(TieOf)[V]
    BY <2>1, SumOfPart
  <2>3. QED
    BY <2>2 DEF V
<1>11. SumFunction([i \in D |-> SquareOf[i]]) = Sums(SquareOf)[D]
  BY <1>1, <1>4, SumOfPart
<1>12. [i \in D |-> SquareOf[i]] = [i \in D |-> DoubledRank(i) * DoubledRank(i)]
  BY DEF SquareOf
<1>13. QED
  BY <1>7, <1>8, <1>9, <1>10, <1>11, <1>12

-----------------------------------------------------------------------------
\* Holm's adjustment.

\* The order in which holm passes the p-values.
Before(j, i) == pvalues[j] < pvalues[i] \/ (pvalues[j] = pvalues[i] /\ j < i)
\* What is left when holm comes to i, i included.
From(i) == {j \in DOMAIN pvalues : ~Before(j, i)}

\* The p-value Bonferroni gives an intersection of hypotheses.
Bonferroni(S) == Min({One} \cup {Cardinality(S) * pvalues[j] : j \in S})

\* The term holm takes the maximum of.
Term(i) == Min({One, (Tests - Position(i)) * pvalues[i]})

\* Where pvalues has a place in the order, and what comes from there on.
LEMMA Positions ==
  ASSUME pvalues \in [1 .. Tests -> 0 .. One], NEW i \in 1 .. Tests
  PROVE  /\ Position(i) \in 0 .. Tests
         /\ From(i) \in SUBSET (1 .. Tests) /\ i \in From(i)
         /\ Cardinality(From(i)) = Tests - Position(i)
         /\ \A j \in 1 .. Tests : Position(i) <= Position(j) => j \in From(i)
<1> DEFINE N == 1 .. Tests
           Earlier(k) == {j \in N : Before(j, k)}
<1>1. IsFiniteSet(N) /\ Cardinality(N) = Tests /\ DOMAIN pvalues = N
  BY RanksAssumption, FS_Interval
<1>2. \A j \in N : pvalues[j] \in Int /\ j \in Int
  BY RanksAssumption
<1>3. ASSUME NEW k \in N
      PROVE  /\ Earlier(k) \in SUBSET N /\ Position(k) = Cardinality(Earlier(k))
             /\ IsFiniteSet(Earlier(k))
             /\ Position(k) \in 0 .. Tests /\ From(k) = N \ Earlier(k) /\ k \notin Earlier(k)
  <2>1. Earlier(k) \in SUBSET N
    OBVIOUS
  <2>2. Position(k) = Cardinality(Earlier(k))
    BY <1>1 DEF Position, Before
  <2>3. Cardinality(Earlier(k)) <= Cardinality(N) /\ IsFiniteSet(Earlier(k))
    BY <1>1, <2>1, FS_Subset
  <2>4. Cardinality(Earlier(k)) \in Nat
    BY <2>3, FS_CardinalityType
  <2>5. From(k) = N \ Earlier(k)
    BY <1>1 DEF From
  <2>6. k \notin Earlier(k)
    BY <1>2 DEF Before
  <2>7. QED
    BY <1>1, <2>1, <2>2, <2>3, <2>4, <2>5, <2>6, RanksAssumption
<1>4. Cardinality(From(i)) = Tests - Position(i)
  <2>1. N \cap Earlier(i) = Earlier(i)
    BY <1>3
  <2>2. Cardinality(N \ Earlier(i)) = Cardinality(N) - Cardinality(N \cap Earlier(i))
    BY <1>1, FS_Difference
  <2> HIDE DEF N, Earlier
  <2>3. QED
    BY <1>1, <1>3, <2>1, <2>2 DEF N
<1>5. ASSUME NEW j \in N, Position(i) <= Position(j)
      PROVE  j \in From(i)
  <2>1. SUFFICES ASSUME Before(j, i) PROVE FALSE
    BY <1>1 DEF From
  <2>2. Earlier(j) \subseteq Earlier(i)
    <3> SUFFICES ASSUME NEW k \in N, Before(k, j) PROVE Before(k, i)
      OBVIOUS
    <3>1. /\ pvalues[i] \in Int /\ pvalues[j] \in Int /\ pvalues[k] \in Int
          /\ i \in Int /\ j \in Int /\ k \in Int
      BY <1>2
    <3>2. QED
      BY <2>1, <3>1 DEF Before
  <2>3. j \in Earlier(i) /\ j \notin Earlier(j)
    BY <1>3, <2>1
  <2> HIDE DEF Earlier
  <2>4. Earlier(j) \in SUBSET Earlier(i) /\ IsFiniteSet(Earlier(i)) /\ Earlier(i) # Earlier(j)
    BY <1>3, <2>2, <2>3
  <2>5. /\ Cardinality(Earlier(j)) <= Cardinality(Earlier(i))
        /\ Cardinality(Earlier(i)) # Cardinality(Earlier(j))
    BY <2>4, FS_Subset
  <2>6. QED
    BY <1>3, <1>5, <2>5, RanksAssumption
<1>6. QED
  BY <1>1, <1>3, <1>4, <1>5

\* A p-value of an intersection is the least of its terms.
LEMMA BonferroniIsLeast ==
  ASSUME pvalues \in [1 .. Tests -> 0 .. One], NEW S \in SUBSET (1 .. Tests)
  PROVE  /\ Bonferroni(S) \in 0 .. One
         /\ Bonferroni(S) = One \/ \E j \in S : Bonferroni(S) = Cardinality(S) * pvalues[j]
         /\ \A j \in S : Bonferroni(S) <= Cardinality(S) * pvalues[j]
<1> DEFINE X == {One} \cup {Cardinality(S) * pvalues[j] : j \in S}
<1>1. Cardinality(S) \in Nat
  <2>1. IsFiniteSet(1 .. Tests)
    BY RanksAssumption, FS_Interval
  <2>2. IsFiniteSet(S)
    BY <2>1, FS_Subset
  <2>3. QED
    BY <2>2, FS_CardinalityType
<1>2. \A j \in S : Cardinality(S) * pvalues[j] \in Nat
  <2>1. \A c, p \in Nat : c * p \in Nat
    OBVIOUS
  <2>2. \A j \in S : pvalues[j] \in Nat
    BY RanksAssumption
  <2>3. QED
    BY <1>1, <2>1, <2>2
<1>3. X \subseteq Nat /\ One \in X
  BY <1>2, RanksAssumption
<1>4. PICK m \in X : \A y \in X : m <= y
  <2> HIDE DEF X
  <2>1. X # {}
    BY <1>3
  <2>2. QED
    BY <1>3, <2>1, LeastNumber
<1>5. Bonferroni(S) = m
  <2>1. X \in SUBSET Int
    BY <1>3
  <2>2. Min(X) = m
    <3> HIDE DEF X
    <3>1. QED
      BY <1>4, <2>1, LeastIsMin
  <2>3. QED
    BY <2>2 DEF Bonferroni
<1>6. m \in Nat /\ m <= One
  BY <1>3, <1>4
<1>7. m = One \/ \E j \in S : m = Cardinality(S) * pvalues[j]
  BY <1>4
<1>8. \A j \in S : m <= Cardinality(S) * pvalues[j]
  BY <1>4
<1>9. QED
  BY <1>5, <1>6, <1>7, <1>8, RanksAssumption

\* The term of i is the p-value of the intersection of what comes from i on.
LEMMA TermCloses ==
  ASSUME pvalues \in [1 .. Tests -> 0 .. One], NEW i \in 1 .. Tests
  PROVE  /\ Term(i) = Bonferroni(From(i)) /\ Term(i) \in 0 .. One
         /\ \A y \in Int : y <= One /\ y <= (Tests - Position(i)) * pvalues[i] => y <= Term(i)
<1> DEFINE c == Tests - Position(i)
           p == pvalues[i]
<1>1. /\ Position(i) \in 0 .. Tests /\ From(i) \in SUBSET (1 .. Tests) /\ i \in From(i)
      /\ Cardinality(From(i)) = c
  BY Positions
<1>2. c \in Nat /\ p \in Nat /\ One \in Nat
  BY <1>1, RanksAssumption
<1>3. c * p \in Nat
  BY <1>2
<1>4. ASSUME NEW j \in From(i) PROVE c * p <= c * pvalues[j]
  <2>1. j \in 1 .. Tests /\ ~Before(j, i)
    BY <1>1 DEF From
  <2>2. pvalues[j] \in Nat /\ p <= pvalues[j]
    BY <1>2, <2>1, RanksAssumption DEF Before
  <2>3. \A a, x, y \in Nat : x <= y => a * x <= a * y
    OBVIOUS
  <2> HIDE DEF c, p
  <2>4. QED
    BY <1>2, <2>2, <2>3
<1> DEFINE b == Bonferroni(From(i))
<1>5. /\ b \in 0 .. One /\ (b = One \/ \E j \in From(i) : b = c * pvalues[j])
      /\ \A j \in From(i) : b <= c * pvalues[j]
  BY <1>1, BonferroniIsLeast
<1>6. b <= c * p
  BY <1>1, <1>5
<1>7. b = One \/ b = c * p
  <2>1. CASE b # One
    <3>1. PICK j \in From(i) : b = c * pvalues[j]
      BY <1>5, <2>1
    <3>2. c * p <= b
      BY <1>4, <3>1
    <3> HIDE DEF b, c, p
    <3>3. b \in Int /\ c * p \in Int
      BY <1>2, <1>3, <1>5
    <3>4. QED
      BY <1>6, <3>2, <3>3
  <2>2. QED
    BY <2>1
<1> HIDE DEF b
<1>8. Term(i) = b
  <2> DEFINE T == {One, c * p}
  <2>1. b \in T /\ T \in SUBSET Int /\ \A y \in T : b <= y
    BY <1>2, <1>3, <1>5, <1>6, <1>7
  <2>2. Min(T) = b
    <3> HIDE DEF T
    <3>1. QED
      BY <2>1, LeastIsMin
  <2>3. QED
    BY <2>2 DEF Term
<1>9. ASSUME NEW y \in Int, y <= One, y <= c * p PROVE y <= b
  BY <1>7, <1>9
<1>10. QED
  BY <1>5, <1>8, <1>9 DEF b

\* Holm's adjusted p-value is that of the closed test.
LEMMA HolmExact ==
  ASSUME pvalues \in [1 .. Tests -> 0 .. One]
  PROVE  HolmCloses
<1> DEFINE N == 1 .. Tests
<1>1. DOMAIN pvalues = N /\ N \subseteq Nat
  BY RanksAssumption
<1> SUFFICES ASSUME NEW i \in N
             PROVE  Holm(i) = Max({Bonferroni(S) : S \in {S \in SUBSET N : i \in S}})
  BY <1>1 DEF HolmCloses, Bonferroni
<1> DEFINE J == {j \in N : Position(j) <= Position(i)}
           H == {Term(j) : j \in J}
           closed == {S \in SUBSET N : i \in S}
           C == {Bonferroni(S) : S \in closed}
<1>2. \A j \in N : /\ Position(j) \in 0 .. Tests /\ From(j) \in SUBSET N
                   /\ Cardinality(From(j)) = Tests - Position(j)
                   /\ \A k \in N : Position(j) <= Position(k) => k \in From(j)
  BY Positions
<1>3. H \in SUBSET (0 .. One) /\ H # {}
  <2>1. \A j \in N : Term(j) \in 0 .. One
    BY TermCloses
  <2>2. i \in J
    BY <1>2, RanksAssumption
  <2>3. QED
    BY <2>1, <2>2
<1>4. PICK m \in H : \A y \in H : y <= m
  <2> HIDE DEF H
  <2>1. One \in Nat
    BY RanksAssumption
  <2>2. QED
    BY <1>3, <2>1, GreatestNumber
<1>5. Holm(i) = m
  <2>1. H \in SUBSET Int
    BY <1>3, RanksAssumption
  <2>2. Max(H) = m
    <3> HIDE DEF H
    <3>1. QED
      BY <1>4, <2>1, GreatestIsMax
  <2>3. QED
    BY <1>1, <2>2 DEF Holm, Term
<1>6. m \in C
  <2>1. PICK j \in J : m = Term(j)
    BY <1>4
  <2>2. m = Bonferroni(From(j))
    BY <2>1, TermCloses
  <2>3. From(j) \in closed
    BY <1>2
  <2>4. QED
    BY <2>2, <2>3
<1>7. ASSUME NEW S \in closed
      PROVE  Bonferroni(S) \in Int /\ Bonferroni(S) <= m
  <2> DEFINE places == {Position(k) : k \in S}
             v == Bonferroni(S)
  <2>1. S \in SUBSET N /\ i \in S
    OBVIOUS
  <2>2. places \subseteq Nat /\ places # {}
    <3>1. \A k \in S : Position(k) \in Nat
      BY <1>2, <2>1, RanksAssumption
    <3>2. QED
      BY <2>1, <3>1
  <2>3. PICK j \in S : \A k \in S : Position(j) <= Position(k)
    <3> HIDE DEF places
    <3>1. PICK n \in places : \A q \in places : n <= q
      BY <2>2, LeastNumber
    <3>2. QED
      BY <3>1 DEF places
  <2>4. j \in N /\ j \in J /\ S \subseteq From(j)
    BY <1>2, <2>1, <2>3
  <2>5. /\ Cardinality(S) \in Nat /\ Tests - Position(j) \in Nat
        /\ Cardinality(S) <= Tests - Position(j)
    <3>1. IsFiniteSet(From(j))
      <4>1. IsFiniteSet(N)
        BY RanksAssumption, FS_Interval
      <4>2. QED
        BY <1>2, <2>4, <4>1, FS_Subset
    <3>2. Cardinality(S) <= Cardinality(From(j)) /\ IsFiniteSet(S)
      BY <2>4, <3>1, FS_Subset
    <3>3. Cardinality(S) \in Nat /\ Cardinality(From(j)) \in Nat
      BY <3>1, <3>2, FS_CardinalityType
    <3>4. QED
      BY <1>2, <2>4, <3>2, <3>3
  <2>6. v \in 0 .. One /\ v <= Cardinality(S) * pvalues[j]
    BY <2>1, <2>3, BonferroniIsLeast
  <2>7. /\ Cardinality(S) * pvalues[j] <= (Tests - Position(j)) * pvalues[j]
        /\ Cardinality(S) * pvalues[j] \in Int /\ (Tests - Position(j)) * pvalues[j] \in Int
    <3>1. \A a, b, p \in Nat : a <= b => a * p <= b * p /\ a * p \in Int /\ b * p \in Int
      OBVIOUS
    <3>2. pvalues[j] \in Nat
      BY <2>4, RanksAssumption
    <3>3. QED
      BY <2>5, <3>1, <3>2
  <2> HIDE DEF v
  <2>8. v \in Int /\ v <= One /\ v <= (Tests - Position(j)) * pvalues[j]
    BY <2>6, <2>7, RanksAssumption
  <2>9. v <= Term(j) /\ Term(j) \in 0 .. One
    BY <2>4, <2>8, TermCloses
  <2>10. Term(j) <= m
    BY <1>4, <2>4
  <2>11. m \in Int
    BY <1>3, <1>4
  <2>12. QED
    BY <2>8, <2>9, <2>10, <2>11, RanksAssumption DEF v
<1>8. Max(C) = m
  <2>1. C \in SUBSET Int /\ \A y \in C : y <= m
    BY <1>7
  <2> HIDE DEF C
  <2>2. QED
    BY <1>6, <2>1, GreatestIsMax
<1>9. QED
  BY <1>5, <1>8

\* For every number of differences and of tests: the loop over the ranks finds
\* the p-value of the enumeration, the approximation has its variance, and
\* Holm's adjustment is the closed test.
THEOREM ReportedPValuesExact == RanksSpec => []PValuesExact
<1>1. RanksInv => PValuesExact
  <2> SUFFICES ASSUME RanksInv PROVE WilcoxonExact /\ HolmCloses
    BY DEF PValuesExact
  <2>1. WilcoxonExact
    BY DistributionExact, VarianceExact DEF WilcoxonExact
  <2>2. HolmCloses
    BY HolmExact DEF RanksInv, RanksTyped
  <2>3. QED
    BY <2>1, <2>2
<1>2. QED
  BY <1>1, RanksInvariance, PTL
=============================================================================

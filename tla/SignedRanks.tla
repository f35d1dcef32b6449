---------------------------- MODULE SignedRanks ----------------------------
(***************************************************************************)
(* The paired tests of the evaluation (gateway_uncertainty_ablation.py):   *)
(* the signed-rank statistic with average ranks for ties, its exact null   *)
(* distribution by a loop over the ranks (wilcoxon_exact_dp) and by        *)
(* enumerating all signs (wilcoxon_exact), its variance under the normal   *)
(* approximation, and Holm's adjustment of several p-values.               *)
(*                                                                         *)
(* Ranks are doubled, so that averages are integers; frequencies are       *)
(* counts, which the code divides by their sum.  A p-value is a multiple   *)
(* of 1 / One.                                                             *)
(***************************************************************************)
EXTENDS Integers, Sequences, FiniteSetsExt, Functions

CONSTANTS
    Samples,     \* the most differences of a test
    Largest,     \* their largest absolute value
    Tests,       \* the p-values adjusted together
    One          \* the p-value one

ASSUME RanksAssumption ==
    /\ Samples \in Nat /\ Largest \in Nat
    /\ Tests \in Nat /\ One \in Nat

VARIABLES
    diffs,      \* the differences, zeros dropped
    taken,      \* the ranks added to the distribution so far
    counts,     \* how many signs give each doubled sum of ranks
    pvalues     \* the p-values of a family of tests

ranksVars == <<diffs, taken, counts, pvalues>>

Abs(x) == IF x < 0 THEN -x ELSE x

\* average_ranks, doubled: tied values share the middle of their positions.
DoubledRank(i) ==
    Cardinality({j \in DOMAIN diffs : Abs(diffs[j]) < Abs(diffs[i])})
    + Cardinality({j \in DOMAIN diffs : Abs(diffs[j]) <= Abs(diffs[i])}) + 1

RankSum(S) == SumFunction([i \in S |-> DoubledRank(i)])
TotalRank == RankSum(DOMAIN diffs)
WPlus == RankSum({i \in DOMAIN diffs : diffs[i] > 0})

\* A sum at least as far from the middle as the observed one.
Extreme(w) == Abs(2 * w - TotalRank) >= Abs(2 * WPlus - TotalRank)

RanksInit ==
    /\ diffs \in UNION {[1 .. n -> (-Largest .. Largest) \ {0}] : n \in 1 .. Samples}
    /\ pvalues \in [1 .. Tests -> 0 .. One]
    /\ taken = 0
    /\ counts = [w \in 0 .. TotalRank |-> IF w = 0 THEN 1 ELSE 0]

\* Mutated: a sum that is the rank itself is left out.
TakeRankShort ==
    /\ taken < Len(diffs)
    /\ taken' = taken + 1
    /\ counts' = [w \in DOMAIN counts |->
           LET r == DoubledRank(taken')
           IN counts[w] + IF w > r THEN counts[w - r] ELSE 0]
    /\ UNCHANGED <<diffs, pvalues>>

\* The next rank is positive or negative: the distribution and its shift.
TakeRank ==
    /\ taken < Len(diffs)
    /\ taken' = taken + 1
    /\ counts' = [w \in DOMAIN counts |->
           LET r == DoubledRank(taken')
           IN counts[w] + IF w >= r THEN counts[w - r] ELSE 0]
    /\ UNCHANGED <<diffs, pvalues>>

RanksNext == TakeRank

RanksSpec == RanksInit /\ [][RanksNext]_ranksVars

-----------------------------------------------------------------------------
\* wilcoxon_normal_p: 48 times the variance of the sum of positive ranks.
Variance48 ==
    LET m == Len(diffs)
        tied(v) == Cardinality({i \in DOMAIN diffs : Abs(diffs[i]) = v})
    IN 2 * m * (m + 1) * (2 * m + 1)
           - SumFunction([v \in 1 .. Largest |-> tied(v) * tied(v) * tied(v) - tied(v)])

\* holm: in increasing order, each times the number of those not yet passed,
\* and never below the one before it.
Position(i) == Cardinality({j \in DOMAIN pvalues :
    pvalues[j] < pvalues[i] \/ (pvalues[j] = pvalues[i] /\ j < i)})

Holm(i) == Max({Min({One, (Tests - Position(j)) * pvalues[j]}) :
    j \in {j \in DOMAIN pvalues : Position(j) <= Position(i)}})

-----------------------------------------------------------------------------
\* wilcoxon_exact: the signs that give an extreme sum, counted one by one.
ExtremeSigns == Cardinality({S \in SUBSET DOMAIN diffs : Extreme(RankSum(S))})

\* The loop over the ranks counts every choice of signs once and finds the same
\* p-value as the enumeration, ties or not; the variance of the approximation
\* is that of the enumerated distribution.
WilcoxonExact == taken = Len(diffs) =>
    /\ SumFunction(counts) = 2 ^ Len(diffs)
    /\ SumFunction([w \in {w \in DOMAIN counts : Extreme(w)} |-> counts[w]]) = ExtremeSigns
    /\ Variance48 = 3 * SumFunction([i \in DOMAIN diffs |-> DoubledRank(i) * DoubledRank(i)])

\* Holm's adjustment is the closed test with Bonferroni's: a hypothesis is as
\* significant as the least significant intersection that contains it.
HolmCloses == \A i \in DOMAIN pvalues :
    Holm(i) = Max({Min({One} \cup {Cardinality(S) * pvalues[j] : j \in S}) :
                   S \in {S \in SUBSET DOMAIN pvalues : i \in S}})

\* The reported p-values are what their definitions say.
PValuesExact == WilcoxonExact /\ HolmCloses
=============================================================================

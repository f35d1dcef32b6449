--------------------------- MODULE StudyAnalysis ---------------------------
(***************************************************************************)
(* The rows an arm of a study records, and the tables made of them.        *)
(* run_single turns every proposal of the decision graph into a row: the   *)
(* verdict of the arm's gate, the deltas the twin predicted and the ground *)
(* truth found, whether it was applied.  Four programs read these rows     *)
(* (outcome_distributions, the sweep's and the study's analysis, the       *)
(* composition script), each with its own way to tell a candidate, an      *)
(* approval and a harmful proposal.                                        *)
(*                                                                         *)
(* An episode is a seed's, and every figure here is a sum over seeds, so   *)
(* one seed is enough.  Bootstrap intervals, quantiles and percentages are *)
(* functions of these figures and left out.                                *)
(***************************************************************************)
EXTENDS Integers, Sequences, FiniteSetsExt, Functions

CONSTANTS
    Remedy, NoOp, Null,
    Migrations,     \* the remedies of type migrate_service
    Decisions,      \* scheduled decisions of an episode
    RetryCap,
    Deltas,         \* true deltas of a remedy: violation ticks against no-op's
    Predictions,    \* what a twin short of fidelity may say of it
    HarmThreshold   \* evaluation.harm_threshold_ticks; the reports say 3

\* A no-op has no deltas of its own, and the absence of a prediction is not a
\* prediction.  Both studies build their EvaluationConfig with a threshold of 3.
ASSUME RowsAssumption ==
    /\ IsFiniteSet(Remedy) /\ NoOp \notin Remedy /\ Migrations \subseteq Remedy
    /\ Null \notin Int
    /\ Decisions \in Nat /\ RetryCap \in Nat
    /\ Deltas \subseteq Int /\ Predictions \subseteq Int
    /\ HarmThreshold = 3

VARIABLES
    arm,
    rows,        \* the records of the shard
    decision,    \* the decision at hand, from 0
    retry,       \* len(runtime.proposals)
    told,        \* the action just rejected
    tally        \* the episode's proposals, rejections, retries, exhaustions

studyVars == <<arm, rows, decision, retry, told, tally>>

Action == Remedy \cup {NoOp}
Arms == {"ungated", "always_reject", "random", "reject_migrate", "oracle", "twin"}
gated == arm # "ungated"

StudyInit ==
    /\ arm \in Arms
    /\ rows = <<>> /\ decision = 0 /\ retry = 0 /\ told = Null
    /\ tally = [proposals |-> 0, rejections |-> 0, retries |-> 0, exhaustions |-> 0]

-----------------------------------------------------------------------------
\* The agent's trace: a remedy has been produced, a no-op was meant or is a
\* fallback, here for want of time.
Outcomes(a) == IF a = NoOp THEN {"deliberate_no_op", "timeout"} ELSE {"decision_produced"}

\* The ground truth starts from the decision's own state, so that an action
\* proposed again has the delta it had.
TrueDeltas(a) ==
    IF a = NoOp THEN {0}
    ELSE {d \in Deltas : \A i \in DOMAIN rows :
              rows[i].decision = decision /\ rows[i].action = a => rows[i].delta = d}

\* The ablation gates predict nothing (0 against 0), the oracle the truth.
Predicted(a, d) ==
    CASE ~gated -> {Null}
      [] gated /\ (arm \in {"always_reject", "random", "reject_migrate"} \/ a = NoOp) -> {0}
      [] arm = "oracle" /\ a # NoOp -> {d}
      [] arm = "twin" /\ a # NoOp -> Predictions

Verdicts(a, p) ==
    CASE ~gated -> {"none"}
      [] arm = "always_reject" -> {IF a = NoOp THEN "approved" ELSE "rejected"}
      [] arm = "random" -> {"approved"} \cup (IF a = NoOp THEN {} ELSE {"rejected"})
      [] arm = "reject_migrate" -> {IF a \in Migrations THEN "rejected" ELSE "approved"}
      [] arm \in {"oracle", "twin"} -> {IF p <= 0 THEN "approved" ELSE "rejected"}

ShardRow(a, o, v, p, d) ==
    [decision |-> decision, retry |-> retry, action |-> a,
     outcome |-> o, fallback |-> o \notin {"decision_produced", "deliberate_no_op"},
     verdict |-> v, predicted |-> p, delta |-> d, harmful |-> d > HarmThreshold,
     applied |-> v # "rejected"]

\* What follows from a row: the next attempt, or the next decision.
RecordRow(row) ==
    /\ rows' = Append(rows, row)
    /\ IF row.verdict = "rejected" /\ retry < RetryCap
       THEN /\ retry' = retry + 1 /\ told' = row.action
            /\ tally' = [tally EXCEPT !.rejections = @ + 1, !.retries = @ + 1]
            /\ UNCHANGED decision
       ELSE /\ retry' = 0 /\ told' = Null /\ decision' = decision + 1
            /\ tally' = [tally EXCEPT
                   !.proposals = @ + 1,
                   !.rejections = @ + (IF row.verdict = "rejected" THEN 1 ELSE 0),
                   !.exhaustions = @ + (IF row.verdict = "rejected" THEN 1 ELSE 0)]
    /\ UNCHANGED arm

\* The agent does not repeat what has just been rejected.
Attempt ==
    /\ decision < Decisions
    /\ \E a \in Action \ {told} : \E o \in Outcomes(a), d \in TrueDeltas(a) :
       \E p \in Predicted(a, d) : \E v \in Verdicts(a, p) :
           RecordRow(ShardRow(a, o, v, p, d))

EpisodeOver == decision = Decisions

StudyNext == Attempt

StudySpec == StudyInit /\ [][StudyNext]_studyVars

-----------------------------------------------------------------------------
\* The tables.  A set of rows is given by their positions.
All == DOMAIN rows

SumOf(S, f) == SumFunction([i \in S |-> f[i]])
Gain(d) == IF d < 0 THEN -d ELSE 0
Loss(d) == IF d > 0 THEN d ELSE 0
Delta(i) == rows[i].delta
GainOf == [i \in All |-> Gain(Delta(i))]
LossOf == [i \in All |-> Loss(Delta(i))]
NetOf == [i \in All |-> Delta(i)]

\* outcome_distributions: what it refuses, and its units.
RefusesRow(i) ==
    \/ rows[i].retry > RetryCap
    \/ \E j \in All \ {i} : /\ rows[j].decision = rows[i].decision
                            /\ rows[j].retry = rows[i].retry
    \/ rows[i].outcome = "decision_produced" <=> rows[i].action = NoOp
    \/ rows[i].fallback # (rows[i].outcome \notin {"decision_produced", "deliberate_no_op"})

RetriesOf(n) == {rows[i].retry : i \in {i \in All : rows[i].decision = n}}
MissesAttempt(n) == RetriesOf(n) # 0 .. Cardinality(RetriesOf(n)) - 1

PerDecision == {i \in All : rows[i].retry = 0}
PerTerminal == {i \in All : rows[i].retry = Max(RetriesOf(rows[i].decision))}

\* action_mix.
Produced == {i \in All : rows[i].outcome = "decision_produced"}

\* per_seed_candidate_arrays: a candidate is what is not of type no_op.
Candidates == {i \in All : rows[i].action # NoOp}
Approved == {i \in Candidates : IF gated THEN rows[i].verdict = "approved" ELSE rows[i].applied}

CandidateArrays ==
    [n |-> Cardinality(Candidates), approved |-> Cardinality(Approved),
     benefit_total |-> SumOf(Candidates, GainOf), benefit_approved |-> SumOf(Approved, GainOf),
     harm_total |-> SumOf(Candidates, LossOf),
     harm_rejected |-> SumOf(Candidates \ Approved, LossOf),
     net_approved |-> SumOf(Approved, NetOf)]

\* gate_metrics: rejected is what has a verdict against it.
Rejected == {i \in Candidates : IF gated THEN rows[i].verdict = "rejected" ELSE ~rows[i].applied}

GateMetrics ==
    [n |-> Cardinality(Candidates), approved |-> Cardinality(Approved),
     benefit_total |-> SumOf(Candidates, GainOf), benefit_approved |-> SumOf(Approved, GainOf),
     harm_total |-> SumOf(Candidates, LossOf), harm_rejected |-> SumOf(Rejected, LossOf),
     net_approved |-> SumOf(Approved, NetOf)]

\* composition_detail and composition.
Composition ==
    [beneficial |-> Cardinality({i \in Candidates : Delta(i) < 0}),
     neutral |-> Cardinality({i \in Candidates : Delta(i) = 0}),
     harmful |-> Cardinality({i \in Candidates : Delta(i) > 0}),
     harmful_above_3 |-> Cardinality({i \in Candidates : Delta(i) > 3})]

\* composition: by attempt, and over the candidates that differ.
ByAttempt(first) == {i \in Candidates : (rows[i].retry = 0) = first}

Unique == {<<rows[i].decision, rows[i].retry, rows[i].action, Delta(i)>> : i \in Candidates}

ByGroup ==
    LET table(S) ==
            [n |-> Cardinality(S),
             beneficial |-> Cardinality({i \in S : Delta(i) < 0}),
             available_benefit |-> SumOf(S, GainOf), available_harm |-> SumOf(S, LossOf)]
    IN [all |-> table(Candidates), first |-> table(ByAttempt(TRUE)),
        retry |-> table(ByAttempt(FALSE)),
        by_type |-> [a \in Remedy |-> table({i \in Candidates : rows[i].action = a})],
        unique |-> Cardinality(Unique)]

\* candidate_corpus, corpus_summary: the candidates that have a prediction.
Corpus == {i \in Candidates : rows[i].predicted # Null}

\* Mutated: the gate's comparison is not strict.
CellRejectsAtTau(tau) == {i \in Corpus : rows[i].predicted >= tau}

\* _cell_arrays: the corpus decided again at tau and judged at theta.
CellRejects(tau) == {i \in Corpus : rows[i].predicted > tau}

CellArrays(tau, theta) ==
    LET rejected == CellRejects(tau)
        harmful == {i \in Corpus : Delta(i) > theta}
        wrong == rejected \ harmful
    IN [tp |-> Cardinality(rejected \cap harmful), fn |-> Cardinality(harmful \ rejected),
        fp |-> Cardinality(wrong), tn |-> Cardinality(Corpus \ (rejected \cup harmful)),
        fp_definitional |-> Cardinality({i \in wrong : Delta(i) > tau}),
        fp_at_theta |-> Cardinality({i \in wrong : Delta(i) = theta}),
        fp_beneficial |-> Cardinality({i \in wrong : Delta(i) < 0}),
        harm_rejected |-> SumOf(rejected, LossOf),
        benefit_approved |-> SumOf(Corpus \ rejected, GainOf),
        net_approved |-> SumOf(Corpus \ rejected, NetOf)]

\* tau_theta_grid: what the cell of a tau in 0 .. 3 and a theta in {1, 3, 5}
\* reports of its arrays, ratios left out.
TauThetaGrid(tau, theta) ==
    LET a == CellArrays(tau, theta)
    IN [counts |-> [tp |-> a.tp, fn |-> a.fn, fp |-> a.fp, tn |-> a.tn],
        positives |-> a.tp + a.fn, negatives |-> a.fp + a.tn,
        definitional |-> a.fp_definitional, at_theta_exactly |-> a.fp_at_theta,
        predictive |-> a.fp - a.fp_definitional, beneficial |-> a.fp_beneficial]

\* corpus_summary, with the verdicts that the predictions explain.
CorpusSummary ==
    [candidates |-> Cardinality(Corpus),
     harmful_gt |-> [theta \in {1, 3, 5} |-> Cardinality({i \in Corpus : Delta(i) > theta})],
     matches |-> Cardinality({i \in Corpus :
                     rows[i].predicted > 0 <=> rows[i].verdict = "rejected"})]

\* What command_analyze and analyze_shards enter for the arm.
Entry ==
    [proposals |-> tally.proposals, rejections |-> tally.rejections, retries |-> tally.retries,
     candidates |-> CandidateArrays.n, approved |-> CandidateArrays.approved,
     produced |-> Cardinality(Produced), first |-> Cardinality(PerDecision),
     last |-> Cardinality(PerTerminal)]

\* policy_confusion: over what was produced, at the threshold of the report.
PolicyConfusion ==
    LET rejected == {i \in Produced : IF gated THEN rows[i].verdict = "rejected"
                                      ELSE ~rows[i].applied}
        harmful == {i \in Produced : Delta(i) > 3}
    IN [tp |-> Cardinality(rejected \cap harmful), fn |-> Cardinality(harmful \ rejected),
        fp |-> Cardinality(rejected \ harmful),
        tn |-> Cardinality(Produced \ (rejected \cup harmful))]

\* migration_exposure: the benefit of what was applied, by type.
Exposure ==
    LET applied == {i \in All : rows[i].applied}
        migrations == {i \in applied : rows[i].action \in Migrations}
    IN [all |-> SumOf(applied, GainOf), migrations |-> SumOf(migrations, GainOf),
        net_migrations |-> -SumOf(migrations, NetOf)]

\* The counters of episode_summary.
Summary ==
    [harmful |-> Cardinality({i \in All : rows[i].harmful}),
     blocked |-> Cardinality({i \in All : rows[i].harmful /\ rows[i].verdict = "rejected"})]

\* enrich_analysis raises: a row that contradicts its own ground truth or its
\* own outcome, or an arm that does not add up.
MislabelledRow(i) ==
    \/ rows[i].harmful # (Delta(i) > 3)
    \/ rows[i].outcome = "decision_produced" <=> rows[i].action = NoOp

RefusesArm ==
    \/ Entry.first # Decisions
    \/ Entry.candidates # Entry.produced
    \/ /\ arm = "twin"
       /\ \/ \E i \in Produced : (rows[i].verdict = "approved") # (rows[i].predicted <= 0)
          \/ CorpusSummary.candidates # Entry.candidates

-----------------------------------------------------------------------------
\* The checks of command_analyze and enrich_analysis hold for whatever the
\* decision loop records: no finished study is refused by its own report.  Nor
\* by its first one, that reject-all reproduces an episode without an agent:
\* that gate lets nothing through but no-ops.
AnalysisAccepts ==
    /\ \A i \in All : ~RefusesRow(i) /\ ~MislabelledRow(i)
    /\ \A n \in 0 .. Decisions - 1 : ~MissesAttempt(n)
    /\ ~RefusesArm
    /\ arm = "always_reject" => \A i \in All : rows[i].applied => rows[i].action = NoOp

\* Figures that two programs compute, or that follow from each other, agree.
TablesAgree ==
    /\ CandidateArrays = GateMetrics
    /\ LET c == CandidateArrays
       IN c.net_approved = c.harm_total - c.harm_rejected - c.benefit_approved
    /\ Composition.beneficial + Composition.neutral + Composition.harmful
           = Cardinality(Produced)
    /\ Composition.harmful_above_3 = PolicyConfusion.tp + PolicyConfusion.fn
    /\ gated => Summary.blocked = PolicyConfusion.tp
    /\ Summary.harmful = PolicyConfusion.tp + PolicyConfusion.fn
    /\ Exposure.all = CandidateArrays.benefit_approved
    /\ Entry.proposals + Entry.retries = Len(rows)
    /\ Entry.last = Entry.proposals
    /\ Entry.rejections = Entry.candidates - Entry.approved
    /\ Entry.rejections = Entry.retries + tally.exhaustions
    /\ ByGroup.all.n = ByGroup.unique
    /\ ByGroup.all.beneficial = Composition.beneficial
    /\ \A k \in DOMAIN ByGroup.all :
           /\ ByGroup.all[k] = ByGroup.first[k] + ByGroup.retry[k]
           /\ ByGroup.all[k] = SumFunction([a \in Remedy |-> ByGroup.by_type[a][k]])
    /\ ByGroup.all.available_harm = CandidateArrays.harm_total
    /\ \A theta \in {1, 3, 5} :
           TauThetaGrid(0, theta).positives = CorpusSummary.harmful_gt[theta]
    /\ arm \in {"twin", "oracle"} =>
           LET cell == CellArrays(0, 3)
           IN /\ CorpusSummary.matches = CorpusSummary.candidates
              /\ TauThetaGrid(0, 3).counts = PolicyConfusion
              /\ cell.harm_rejected = CandidateArrays.harm_rejected
              /\ cell.benefit_approved = CandidateArrays.benefit_approved
              /\ cell.net_approved = CandidateArrays.net_approved

\* A later threshold of the gate rejects less and never changes what counts as
\* harmful; at tau = theta no false positive is one by definition.
GridMonotone == \A theta \in {1, 3, 5} : \A tau \in 0 .. 2 :
    LET low == TauThetaGrid(tau, theta) high == TauThetaGrid(tau + 1, theta)
    IN /\ low.positives = high.positives /\ low.negatives = high.negatives
       /\ high.counts.tp <= low.counts.tp /\ high.counts.fp <= low.counts.fp
       /\ tau < theta => low.at_theta_exactly <= low.definitional
       /\ tau = theta => low.definitional = 0
       /\ low.beneficial <= low.predictive

\* A finished episode's rows are accepted and its tables agree.
StudyReconciles == EpisodeOver => AnalysisAccepts /\ TablesAgree /\ GridMonotone
=============================================================================

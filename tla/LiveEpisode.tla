----------------------------- MODULE LiveEpisode -----------------------------
(***************************************************************************)
(* An episode of the dashboard, in its two implementations.  run_stream of *)
(* dashboard/live.py is a generator that steps the simulator, runs the     *)
(* decision loop on every decision tick and yields an event after each of  *)
(* its parts, sent to one client by the handler of scripts/live_server.py; *)
(* the client may be gone at any of them, and the generator is dropped     *)
(* where it stands.  run_instrumented_episode of dashboard/driver.py is    *)
(* the same loop without events, always with ground truth, which it takes  *)
(* before it executes the action and not after.                            *)
(***************************************************************************)
EXTENDS TwinForks, FiniteSets

CONSTANTS
    RetryCap,      \* graph.retry_cap
    Interval,      \* graph.decision_interval_ticks
    EpisodeTicks,  \* sim.episode_ticks
    Scenarios      \* the scenarios an episode may take place in

ASSUME LiveAssumption ==
    /\ RetryCap \in Nat /\ Interval \in Nat \ {0} /\ EpisodeTicks \in Nat

VARIABLES
    opt,       \* the loop, its scenario and its switches
    w,         \* the simulators
    at,        \* the part of the loop that is next
    action, verdict, feedback, retries,
    records,   \* the decision's proposals
    taken,     \* applied_action: the proposal taken, or the fallback
    applied,   \* what the decision executed
    rows,      \* the ground truth of the decision's proposals
    totals,    \* run_stream's counters, or those of the EpisodeView
    sent,      \* the events sent by run_stream, by type
    valid, approves,  \* history: what was valid and approved at decision_open
    owed       \* history: ground truths whose ticks the live simulator has yet to run

loop == <<action, verdict, feedback, retries, records, taken>>
told == <<totals, sent>>
vars == <<opt, w, at, loop, applied, rows, told, valid, approves, owed>>

Kinds == {"tick", "decision_open", "llm_call", "proposal", "verdict", "exhausted",
          "retry", "applied", "truth", "decision_close", "error", "done"}
Streaming == opt.loop = "live"
Emit(kind) == sent' = IF Streaming THEN [sent EXCEPT ![kind] = @ + 1] ELSE sent

\* run_stream counts everything, the view its proposals and their harm.
Counted == IF Streaming THEN DOMAIN totals ELSE {"proposals", "harmful", "blocked"}
Add(t, f, n) == IF f \in Counted THEN [t EXCEPT ![f] = @ + n] ELSE t

live == w.sim["live"]
NoVerdict == [approved |-> TRUE, diff |-> 0]

Init ==
    /\ opt \in [loop : {"live", "driver"}, env : Scenarios, gate : BOOLEAN,
               counterfactual : BOOLEAN]
    /\ ~Streaming => opt.counterfactual
    /\ w = Fresh
    /\ at = "tick"
    /\ action = Null /\ verdict = NoVerdict /\ feedback = Null /\ retries = 0
    /\ records = <<>> /\ taken = Null /\ applied = Null /\ rows = <<>>
    /\ totals = [proposals |-> 0, harmful |-> 0, blocked |-> 0, safe_blocked |-> 0,
                 retries |-> 0, exhausted |-> 0, llm_calls |-> 0, twin_n |-> 0]
    /\ sent = [k \in Kinds |-> 0]
    /\ valid = {} /\ approves = {} /\ owed = {}

-----------------------------------------------------------------------------
\* A forecast sees one tick more; one whose ticks are over is dropped.
Observe(compliant) == {[f EXCEPT !.left = @ - 1, !.seen = @ + (IF compliant THEN 0 ELSE 1)] :
                       f \in {g \in owed : g.left > 0}}

StepTick ==
    /\ at = "tick" /\ live.tick < EpisodeTicks
    /\ w' = Step(opt.env, w, "live")
    /\ at' = IF live.tick % Interval = 0 THEN "open" ELSE "tick"
    /\ Emit("tick")
    /\ owed' = Observe(w'.sim["live"].compliant)
    /\ UNCHANGED <<opt, loop, applied, rows, totals, valid, approves>>

Open ==
    /\ at = "open" /\ at' = "decide"
    /\ w' = IF opt.counterfactual THEN Fork(w, "live", "pre") ELSE w
    /\ action' = Null /\ verdict' = NoVerdict
    /\ feedback' = Null /\ retries' = 0 /\ records' = <<>>
    /\ taken' = Null /\ applied' = Null /\ rows' = <<>>
    /\ Emit("decision_open")
    /\ valid' = {a \in Remedy : Semantic(a, live)}
    /\ approves' = {a \in Remedy : Validate(opt.env, w, a).approved}
    /\ UNCHANGED <<opt, totals, owed>>

\* The agent, whatever it is, proposes; its calls are told of first.
Decide == \E a \in Action, calls \in 0 .. 1 :
    /\ at = "decide" /\ at' = IF opt.gate THEN "judge" ELSE "weigh"
    /\ action' = a /\ verdict' = NoVerdict
    /\ totals' = Add(Add(totals, "llm_calls", calls), "proposals", 1)
    /\ sent' = IF Streaming
               THEN [sent EXCEPT !["llm_call"] = @ + calls, !["proposal"] = @ + 1]
               ELSE sent
    /\ UNCHANGED <<opt, w, feedback, retries, records, taken, applied, rows, valid, approves, owed>>

\* agent.decide raises: the stream ends with an error event, the driver with
\* the exception.
DecideRaises ==
    /\ at = "decide" /\ at' = "returned"
    /\ Emit("error")
    /\ UNCHANGED <<opt, w, loop, applied, rows, totals, valid, approves, owed>>

Judge ==
    /\ at = "judge" /\ at' = "weigh"
    /\ LET judged == Validate(opt.env, w, action)
       IN  /\ verdict' = [approved |-> judged.approved, diff |-> judged.diff]
           /\ w' = Forget(judged.w, {"twin", "branch"})
    /\ totals' = Add(totals, "twin_n", 1)
    /\ Emit("verdict")
    /\ UNCHANGED <<opt, action, feedback, retries, records, taken, applied, rows, valid, approves, owed>>

\* The validator's log cannot be written: the exception ends the loop, and
\* the handler of a stream reports it.
JudgeRaises ==
    /\ at = "judge" /\ at' = "returned"
    /\ Emit("error")
    /\ UNCHANGED <<opt, w, loop, applied, rows, totals, valid, approves, owed>>

Recorded(marked) ==
    Append(records, [action |-> action, verdict |-> verdict, was_applied |-> marked])

\* The driver evaluates the decision first and executes then.
AfterLoop == IF Streaming THEN "execute" ELSE "truth"

Accept ==
    /\ at = "weigh" /\ verdict.approved
    /\ records' = Recorded(TRUE)
    /\ taken' = action
    /\ at' = AfterLoop
    /\ UNCHANGED <<opt, w, action, verdict, feedback, retries, applied, rows, told,
                   valid, approves, owed>>

\* Mutated: the last rejected proposal stays the one to execute.
ExhaustKeepingAction ==
    /\ at = "weigh" /\ ~verdict.approved /\ retries >= RetryCap
    /\ records' = Recorded(FALSE)
    /\ taken' = action
    /\ totals' = Add(totals, "exhausted", 1)
    /\ at' = AfterLoop
    /\ Emit("exhausted")
    /\ UNCHANGED <<opt, w, action, verdict, feedback, retries, applied, rows,
                   valid, approves, owed>>

\* At the cap the decision falls back to a no-op.
Exhaust ==
    /\ at = "weigh" /\ ~verdict.approved /\ retries >= RetryCap
    /\ records' = Recorded(FALSE)
    /\ taken' = NoOp
    /\ totals' = Add(totals, "exhausted", 1)
    /\ at' = AfterLoop
    /\ Emit("exhausted")
    /\ UNCHANGED <<opt, w, action, verdict, feedback, retries, applied, rows,
                   valid, approves, owed>>

Retry ==
    /\ at = "weigh" /\ ~verdict.approved /\ retries < RetryCap
    /\ records' = Recorded(FALSE)
    /\ retries' = retries + 1
    /\ totals' = Add(totals, "retries", 1)
    /\ feedback' = action
    /\ at' = "decide"
    /\ Emit("retry")
    /\ UNCHANGED <<opt, w, action, verdict, taken, applied, rows, valid, approves, owed>>

\* What was taken is checked against the present state and executed.  In the
\* live loop the ground truth comes next, with the driver it has been taken.
Apply ==
    /\ at = "execute"
    /\ applied' = IF Semantic(taken, live) THEN taken ELSE NoOp
    /\ w' = Execute(w, "live", applied')
    /\ at' = IF Streaming /\ opt.counterfactual THEN "truth" ELSE "close"
    /\ Emit("applied")
    /\ UNCHANGED <<opt, loop, rows, totals, valid, approves, owed>>

Count(n, Has(_)) == Cardinality({i \in 1 .. n : Has(i)})

Blocked(i) == opt.gate /\ ~records[i].verdict.approved

Outcomes(harmful, blocked, safe) ==
    Add(Add(Add(totals, "harmful", harmful), "blocked", blocked), "safe_blocked", safe)

\* Mutated: a blocked proposal is counted as safe, harmful or not.
TallyUnsorted(r) == LET n == Len(records) IN Outcomes(
    Count(n, LAMBDA i : r[i].harmful),
    Count(n, LAMBDA i : r[i].harmful /\ Blocked(i)),
    Count(n, Blocked))

\* How the truths r of a decision enter the totals.
Tally(r) == LET n == Len(records) IN Outcomes(
    Count(n, LAMBDA i : r[i].harmful),
    Count(n, LAMBDA i : r[i].harmful /\ Blocked(i)),
    Count(n, LAMBDA i : ~r[i].harmful /\ Blocked(i)))

\* evaluate_decision on the copy from before the decision.
Truth ==
    /\ at = "truth" /\ at' = IF Streaming THEN "close" ELSE "execute"
    /\ LET truths == Truths(opt.env, w, [i \in 1 .. Len(records) |-> records[i].action])
       IN  /\ rows' = truths.rows
           /\ w' = Forget(truths.w, {"pre", "branch"})
    /\ totals' = Tally(rows')
    /\ Emit("truth")
    /\ UNCHANGED <<opt, loop, applied, valid, approves, owed>>

\* The truth of what was executed becomes a forecast of the live simulator; an
\* executed remedy makes the forecasts of earlier decisions void.
Forecast == LET last == rows[Len(rows)] IN
    [left |-> Horizon, seen |-> 0,
     violations |-> IF applied = NoOp THEN last.baseline ELSE last.violations]

Close ==
    /\ at = "close" /\ at' = "tick"
    /\ Emit("decision_close")
    /\ owed' = (IF applied = NoOp THEN owed ELSE {})
                  \cup (IF rows = <<>> THEN {} ELSE {Forecast})
    /\ UNCHANGED <<opt, w, loop, applied, rows, totals, valid, approves>>

Done ==
    /\ at = "tick" /\ live.tick = EpisodeTicks /\ at' = "done"
    /\ Emit("done")
    /\ UNCHANGED <<opt, w, loop, applied, rows, totals, valid, approves, owed>>

\* The client has gone; the next write fails and the handler returns.
Over == at \in {"returned", "done", "gone"}

Disconnect ==
    /\ Streaming /\ ~Over /\ at' = "gone"
    /\ UNCHANGED <<opt, w, loop, applied, rows, told, valid, approves, owed>>

Finished == Over /\ UNCHANGED vars

Next ==
    \/ StepTick \/ Open \/ Decide \/ DecideRaises \/ Judge \/ JudgeRaises
    \/ Accept \/ Exhaust \/ Retry \/ Apply \/ Truth \/ Close \/ Done \/ Disconnect \/ Finished

Spec == Init /\ [][Next]_vars

-----------------------------------------------------------------------------
\* Ground truth is what would have happened: the violations evaluate_decision
\* counts for the action that is executed are those the live simulator goes on
\* to have, as long as no later decision intervenes.  Validations, truths and
\* the live simulator share nothing that would let one disturb another.
TruthComesTrue == \A f \in owed : f.left = 0 => f.seen = f.violations

\* The twin can be relied on.  Within a decision it judges an action the same
\* way each time, however many validations went before, and sees no difference
\* between two no-ops; and where it is exact (no forecast error, no
\* simplification, no fault beginning or ending within the horizon) what it
\* predicts is the ground truth.
Steady(t) == \A u \in t .. t + Horizon - 1 :
    u \in opt.env.window <=> t - 1 \in opt.env.window
Exact == opt.env.error[live.tick] = 0 /\ ~opt.env.simplify /\ Steady(live.tick)

TwinReliable == opt.gate =>
    /\ \A i, j \in 1 .. Len(records) : records[i].action = records[j].action =>
           records[i].verdict = records[j].verdict
    /\ \A i \in 1 .. Len(records) : records[i].action = NoOp => records[i].verdict.diff = 0
    /\ at = "close" /\ Exact => \A i \in 1 .. Len(rows) :
           records[i].verdict.diff = rows[i].violations - rows[i].baseline

\* The totals of a finished episode agree with the events its client was sent,
\* and with one another: every rejection led to a retry or to exhaustion, and
\* every decision to one executed action.
TotalsReconcile == at = "done" =>
    /\ totals.blocked <= totals.harmful /\ totals.harmful <= totals.proposals
    /\ Streaming =>
        /\ totals.proposals = sent["proposal"] /\ totals.retries = sent["retry"]
        /\ totals.exhausted = sent["exhausted"] /\ totals.llm_calls = sent["llm_call"]
        /\ totals.twin_n = IF opt.gate THEN totals.proposals ELSE 0
        /\ totals.proposals = sent["decision_open"] + totals.retries
        /\ sent["applied"] = sent["decision_open"]
        /\ sent["decision_close"] = sent["decision_open"]
        /\ opt.counterfactual =>
               totals.blocked + totals.safe_blocked = totals.retries + totals.exhausted

\* Each decision of either loop keeps the promise of GatedDecision, for the
\* actions that were valid and approved when it was opened.
Promise == INSTANCE GatedDecision WITH gate <- opt.gate, executed <- applied

ImplementsGatedDecision == Promise!Spec
=============================================================================

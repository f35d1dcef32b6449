------------------------------ MODULE TwinForks ------------------------------
(***************************************************************************)
(* The forks of one simulator.  The live simulator, the copy kept from     *)
(* before a decision, the digital twin and the branch of a rollout are     *)
(* records that refer to random generators; two records that referred to   *)
(* the same generator would disturb each other's draws.                    *)
(*                                                                         *)
(* The network is one service: its requests arrive and are worked off by   *)
(* drawn amounts, a fault window takes one unit of CPU away, a scale-up    *)
(* adds one, a restart discards the queue and holds the service down.      *)
(***************************************************************************)
EXTENDS Integers, Sequences

CONSTANTS
    Horizon,     \* twin.horizon_ticks
    Tolerance,   \* twin.tolerance_margin
    Harm,        \* evaluation.harm_threshold_ticks
    ReplicaCap,  \* actions.replica_cap
    Downtime,    \* actions.restart_downtime
    QueueCap,    \* sim.queue_cap
    SloQueue     \* requests left over at which a tick violates the SLO

ASSUME ForkAssumption ==
    /\ Horizon \in Nat \ {0} /\ Tolerance \in Nat /\ Harm \in Nat
    /\ ReplicaCap \in Nat \ {0} /\ Downtime \in Nat \ {0}
    /\ QueueCap \in Nat /\ SloQueue \in Nat

Remedy == {"scale", "restart"}
NoOp == "no_op"
Null == "null"
Action == Remedy \cup {NoOp}

Role == {"live", "pre", "twin", "branch"}
Stream == {"arrival", "service"}
Generator == Role \X Stream
Mean == <<"mean", "service">>   \* _DeterministicWork, which draws nothing

\* What an episode takes from its seed and configuration: the draws of the two
\* streams (repeated cyclically), the fault window, the forecast error of the
\* twin by tick, whether the twin simplifies queueing.
Scenario == [draws : [Stream -> Seq({0, 1, 2})], window : SUBSET Nat,
             error : [Nat -> Int], simplify : BOOLEAN]

Draw(env, w, g) ==
    LET d == env.draws[g[2]] IN d[1 + (w.pos[g] % Len(d))]

-----------------------------------------------------------------------------
Fresh ==
    LET sim(r) == [tick |-> 0, queue |-> 0, replicas |-> 1, faulted |-> FALSE,
                   down |-> 0, surplus |-> 0, injector |-> TRUE,
                   compliant |-> TRUE,
                   arrival |-> <<r, "arrival">>, service |-> <<r, "service">>]
    IN  [sim |-> [r \in Role |-> sim(r)], pos |-> [g \in Generator |-> 0]]

\* Mutated: the fork keeps the generators of its parent.
ForkSharing(w, from, to) == [w EXCEPT !.sim[to] = w.sim[from]]

\* The state is copied to the last request and pending effect; what a copy
\* shares with its parent is nothing.
Copied(s, to) == [s EXCEPT !.arrival = <<to, "arrival">>, !.service = <<to, "service">>]

\* A generator is cloned where it stands.
Cloned(pos, s, to) == [pos EXCEPT ![<<to, "arrival">>] = pos[s.arrival],
                                  ![<<to, "service">>] = pos[s.service]]

Fork(w, from, to) ==
    [sim |-> [w.sim EXCEPT ![to] = Copied(w.sim[from], to)],
     pos |-> Cloned(w.pos, w.sim[from], to)]

\* validate_action: nothing is accepted on a service with a pending effect.
Semantic(a, sim) ==
    \/ a = NoOp
    \/ a = "scale" /\ sim.down = 0 /\ sim.replicas < ReplicaCap
    \/ a = "restart" /\ sim.down = 0

\* execute_action, which does nothing with an action that is not valid.
Execute(w, r, a) ==
    IF ~Semantic(a, w.sim[r]) THEN w
    ELSE CASE a = "scale"   -> [w EXCEPT !.sim[r].replicas = @ + 1]
           [] a = "restart" -> [w EXCEPT !.sim[r].down = Downtime, !.sim[r].queue = 0]
           [] OTHER         -> w

Least(a, b) == IF a < b THEN a ELSE b
Above(a, b) == IF a > b THEN a ELSE b

\* Without an injector the faults of the moment stay.
Faulted(env, s) == IF s.injector THEN s.tick \in env.window ELSE s.faulted

\* One tick of one simulator: faults, arrivals, service, pending effects.  The
\* service stream is drawn from only when there is work.  The tick is compliant
\* when something was completed, nothing refused and little is left over.
Step(env, w, r) ==
    LET s == w.sim[r]
        faulted == Faulted(env, s)
        arrived == Above(0, Draw(env, w, s.arrival) + s.surplus)
        waiting == IF s.down > 0 THEN 0 ELSE Least(QueueCap, s.queue + arrived)
        speed == IF waiting = 0 \/ s.service = Mean THEN 1 ELSE Draw(env, w, s.service)
        cpu == Above(0, s.replicas - (IF faulted THEN 1 ELSE 0))
        done == Least(waiting, cpu * speed)
    IN  [sim |-> [w.sim EXCEPT ![r] = [s EXCEPT
             !.tick = @ + 1, !.faulted = faulted, !.queue = waiting - done,
             !.down = Above(0, @ - 1),
             !.compliant = done > 0 /\ waiting = s.queue + arrived
                               /\ waiting - done <= SloQueue]],
         pos |-> [g \in Generator |-> w.pos[g]
             + (IF g = s.arrival \/ (waiting > 0 /\ g = s.service) THEN 1 ELSE 0)]]

-----------------------------------------------------------------------------
\* Horizon ticks of the branch: the world after k ticks and the violations.
Ahead(env, w) ==
    LET run[k \in 0 .. Horizon] ==
            IF k = 0 THEN [w |-> w, violations |-> 0]
            ELSE LET before == run[k - 1]
                     after == Step(env, before.w, "branch")
                 IN  [w |-> after, violations |-> before.violations
                        + (IF after.sim["branch"].compliant THEN 0 ELSE 1)]
    IN  run[Horizon]

Prepare(env, w, blind) ==
    IF blind /\ env.simplify THEN [w EXCEPT !.sim["branch"].service = Mean] ELSE w

\* A blind rollout loses the fault schedule, a scheduled one keeps it.
Rollout(env, w, from, a, blind) ==
    LET forked == Fork(w, from, "branch")
        cut == IF blind THEN [forked EXCEPT !.sim["branch"].injector = FALSE] ELSE forked
    IN  Ahead(env, Execute(Prepare(env, cut, blind), "branch", a))

\* Noise, lag and drift of a degraded twin, taken together as the error they
\* make in its forecast of the load.
apply_fidelity(w, r, error) == [w EXCEPT !.sim[r].surplus = error]

\* Mutated: the live simulator itself is distorted and rolled out from.
TwinInPlace(env, w) ==
    LET twin == [Fork(w, "live", "twin") EXCEPT !.sim["twin"].injector = FALSE]
        error == env.error[w.sim["live"].tick]
    IN  apply_fidelity(apply_fidelity(twin, "live", error), "twin", error)

\* The twin: a fork whose forecast is off by an error drawn from a stream that
\* is named by the tick, and so begun anew for each validation.
Twin(env, w) ==
    LET twin == [Fork(w, "live", "twin") EXCEPT !.sim["twin"].injector = FALSE]
    IN  apply_fidelity(twin, "twin", env.error[w.sim["live"].tick])

\* validate: what the twin predicts for an action and for a no-op.
Validate(env, w, a) ==
    LET action == Rollout(env, Twin(env, w), "twin", a, TRUE)
        noop == Rollout(env, action.w, "twin", NoOp, TRUE)
        diff == action.violations - noop.violations
    IN  [w |-> noop.w, diff |-> diff, approved |-> diff <= Tolerance]

\* evaluate_decision: the baseline and then each proposal, from the copy kept
\* from before the decision, with the faults that are scheduled.
Truths(env, w, actions) ==
    LET baseline == Rollout(env, w, "pre", NoOp, FALSE)
        run[i \in 0 .. Len(actions)] ==
            IF i = 0 THEN [w |-> baseline.w, rows |-> <<>>]
            ELSE LET before == run[i - 1]
                     ahead == Rollout(env, before.w, "pre", actions[i], FALSE)
                 IN  [w |-> ahead.w, rows |-> Append(before.rows,
                       [action |-> actions[i], violations |-> ahead.violations,
                        baseline |-> baseline.violations,
                        harmful |-> ahead.violations - baseline.violations > Harm])]
    IN  run[Len(actions)]

\* A fork nobody refers to any more is forgotten.
Forget(w, gone) == [
    sim |-> [r \in Role |-> IF r \in gone THEN Fresh.sim[r] ELSE w.sim[r]],
    pos |-> [g \in Generator |-> IF g[1] \in gone THEN 0 ELSE w.pos[g]]]
=============================================================================

# Verification of twin-in-the-loop

TLA+ modules, TLC configurations and TLAPS proofs for the program in this
repository: a simulated edge network whose faults an agent repairs, with a
digital twin that judges each action before it is executed, and the experiment
around it that calls a paid language model under a shared budget. Paths below
are relative to `src/twinloop/` unless they start with `scripts/` or `docs/`.

## The system

| component | state it keeps | operations | interacts with |
|---|---|---|---|
| network simulator `sim/engine.py`, `sim/service.py` | nodes, links, services, queues, routes, pending effects, random streams | `step`, `fork`, `snapshot`, `restore` | fault injector (start of a step), executor (between steps), twin (fork) |
| actions `actions/` | none of its own | `parse_action`, `validate_action`, `execute_action` | reads and writes the simulator's state |
| routing `sim/routing.py` | none | `path_error`, `paths`, `route_to`, `has_alternative_path` | validator, pending effects, diagnostics |
| fault injector `faults/` | active faults, baselines (inside the simulator's state) | `apply_tick`, `reset_leak_memory` | simulator |
| twin `twin/` | forks of the simulator, verdict records | `validate`, `rollout`, `apply_fidelity` | simulator, decision graph |
| decision graph `agent/graph.py` | `DecisionState` in a checkpointer, `GraphRuntime` | observe, propose, validate, execute, finalise, the driver loop | agent, twin, simulator, runner's hook |
| LLM agent `agent/llm_agent.py`, `llm/structured.py` | last proposal, trace | `decide` (a tool loop) | LLM client |
| rule agent `agent/rule_agent.py` | last action ticks, memory history | `decide` | validator |
| LLM client and provider `llm/client.py`, `llm/providers.py` | records, journal file | `complete`, `_generate` with retries | cache, budget, network |
| provider budget `llm/budget.py` | a ledger file and its mutex | `charge_call`, `charge_tokens`, `settle_failed_call`, `block` | several worker processes |
| response cache `llm/cache.py` | a JSON file, each instance's view of it | `get`, `put` | LLM client, other instances on the file |
| sweep `experiment/` | `proposals.jsonl`, `summaries.jsonl` | `run_single`, `run_sweep` (resume) | decision graph, ground-truth rollouts, cache, a budget without a file |
| study workers `scripts/llm_descriptive_study.py` | worker locks, allocation manifest, one shard per episode | `command_run` | budget, cache, `run_single` |
| replay audit `scripts/llm_study_replay.py` | a position in the journal | `live_replay_one`, `JournalClient.complete` | shards, journals, caches, LLM agent |
| evaluation reports `scripts/llm_study_reporting.py`, `llm_study_statistics.py`, `gateway_uncertainty_ablation.py`, `candidate_composition.py` | none | the tables of an arm, the checks that refuse a study, the tests | shards, statuses, journals |
| telemetry `telemetry/` | history window, violation counters | `observe`, `render` | decision graph |
| dashboard `dashboard/`, `scripts/live_server.py` | a view of an episode | two more decision loops | simulator, agents, twin |

What is hard here: worker processes share a file-locked ledger and may be
killed between any two transactions; a provider may bill work whose answer is
lost; a decision is a loop of proposals and rejections over state that survives
from one decision to the next; an action takes effect ticks after it was found
valid, while faults go on; fault windows overlap on one field, and a restart
resets part of what they did; ground truth is computed on forks that must not
disturb the simulator they came from, nor each other; processes append to logs
and rename over a cache that others use, and the logs are read back after a kill;
an audit has to repeat an episode from what was journalled of it. `PROJECT.json` lists these hazards at their lines,
with the property that watches each or the reason that none does yet.

## Modules

### Shared budget: `CallBudget`, `SharedBudget`, `SharedBudgetProofs`

`SharedBudget` models `SharedBudgetGuard` and the steps of `LLMClient.complete`
around it. Every transaction (`_transaction` holds the mutex from reading the
ledger to replacing the file) is one action. A worker is at one place in
`complete`: `ready`, `calling` (charged, request made), `answered`, `logged`
(cached and journalled, not yet charged), `failed`, `fatal` (settled, about to
open the circuit); `down` when no process runs. `Crash` is possible in every
place, `Start` builds a new guard on the ledger as it stands. The response
cache's hits take no part in the budget and are left out; a miss is `ChargeCall`.

Three history variables say what the ledger cannot know: `spent`, what the
provider bills; `hidden`, the part of it that no usage metadata reports (lost
attempts, estimates below the true use); `metered`, the tokens of journalled
responses. `call` keeps what the call has reserved, to compare it with the
ledger's row. `StatusSums` and `TokenLedgerRefused` are the report's view of the
same rows (`enrich_analysis`): when no call is open it must accept the study.

`CallBudget` is the promise to the study: calls are granted one at a time up to
a ceiling, exposure (charged plus reserved) grows with a grant, never past its
ceiling, and on settling by no more than a response overruns its reservation; a
closed circuit grants nothing. `ImplementsCallBudget` is the
refinement, with `granted <- calls`, `exposure <- tokens + Committed`.

### Budget of one process: `BudgetGuard`, `ClientProofs`

The older guard of the same file, whose path is optional. Its methods write last
and by a rename, so a kill inside one leaves what a kill before or after it
leaves, and `Restart` may come anywhere. A failed call without a reservation
stays pending for good, which with a path stops every later call; so does
incomplete usage. It keeps the same `CallBudget`, with
`exposure <- guard.tokens + guard.reserved`. `run_sweep` creates it without a
path, so there its counters start from zero with every process (`Sweep`).

### Decision graph: `GatedDecision`, `DecisionGraph`, `DecisionGraphProofs`

One action per node of the graph and one for the driver's step. The simulator is
two sets that change with each tick: the remedies `validate_action` accepts
(`valid`) and those the twin approves (`approves`). The twin forks the same
simulator and seeds its noise from the tick, so within a decision its verdict on
an action does not change. The agent is arbitrary. `Step` starts a decision on a
thread whose checkpoint may hold anything an earlier episode left there, except
the fields that `_drive` puts in its input. `feedback` stands for the verdict on
the action it names. A no-op is compared with itself and approved, which needs
`tolerance_margin >= 0` (all configurations; `config.py` would allow less).

`GatedDecision` is the promise: one action per decision, a no-op or a remedy that
is valid, and approved if the gate is on. The dashboard's loops are checked
against the same promise.

### Twin and dashboard: `TwinForks`, `LiveEpisode`, `LiveEpisodeProofs`

`TwinForks` has the forks of one simulator: live, the copy kept from before a
decision, the twin, the branch of a rollout. A simulator is a record that refers
to generators by name; `Fork` copies the state and clones each generator where it
stands. `Validate` and `Truths` are `TwinValidator.validate` and
`evaluate_decision` with their rollouts, on a network of one service just rich
enough that shared draws would show: uneven arrivals, service draws only when
there is work, a fault window, a scale-up, a restart that discards the queue. A
degraded twin errs in its forecast by an amount that depends on the tick.

`LiveEpisode` composes it with both loops of the dashboard: `run_stream` with the
client that may be gone at any event, and `run_instrumented_episode`, which takes
the ground truth before it executes. `owed` holds the ground truths whose ticks
the live simulator has yet to run, so that a truth is compared with what then
happens.

### Fault injection: `FaultInjector`, `SimulatorProofs`

`ApplyTick` is `FaultInjector.apply_tick`: restore the baselines, note the open
windows, compose their contributions, drop the baselines nobody needs. `RestartCompletes`
is the completion of a restart at the end of a step (`reset_leak_memory`).
The schedule is any choice of windows. Values are small numbers that compose as
in `compose_faults`: a maximum for status, capped sums, products, sums.

### Routing: `Routing`, `Topology`, `PathSearch`, `SimulatorProofs`

`Routing` defines a working path as `path_error` does and what `route_to` may
answer. `PathSearch` is the generator `paths`, step by step: `frontier` is its
queue of partial paths, `goal` the host it looks for, `Extend` the loop over the
sorted links, `emitted` what it has yielded, `limit` how much it is asked for (one
path for `route_to`, two for `has_alternative_path`). It is checked and proved to
find what that definition says. The simulator uses the
definition, so it does not depend on the order in which links are tried.
`Topology` is `build_topology`; the search is checked on what it builds.

### Network simulator: `NetworkSim`, `SimulatorProofs`

`Tick` is `NetworkSim.step` with everything it calls: faults, arrivals,
throttling, loss on the way, service or refusal, report, and the completion of
pending effects at the end. Between two ticks a controller may execute any action
that `validate_action` accepts: `Migrate`, `Restart`, `Scale`, `Reroute`,
`Throttle`. Requests are counted (`queue`, `inService`, `losses`), their times
are not. What the injector leaves of nodes, links and footprints is a choice; leaks
that overlap may leave any footprint from the baseline up.
`owed` is a history variable: requests arrived less those reported.

### LLM agent: `LlmAgent`, `ClientProofs`

`LLMAgent.decide` with the `client.complete` and the `_generate` inside it, for
one thread. `at` is where it is: `loop` (before an iteration), `charge` (the
client's timeout is fixed, the budget is asked), `request` (an attempt is out),
`reply` (a text is there), `returned`. One action per exit of the code: each
`except`, each `break`, each kind of reply. What the model answers is a choice:
a tool, an action, or something that is neither. The clock counts seconds from
the entry of `decide`. Time passes in requests and backoffs, and at most
`MaxWait` in tools and on the ledger's mutex, between `charge_call` and the
provider's own deadline too: that deadline counts from the provider's entry, so
it may pass that of `decide` by what was waited. An answer may come `Overrun`
after its request's timeout, since a timeout of the transport is not a deadline
of the exchange. `DecideAgain` is the decision graph's retry: it happens only to
an action that is not a no-op, since the twin approves those. A cache-only run
that misses raises `CacheMiss` through `decide`; the runner gives up the episode
and the next one has a new agent.

### Study workers: `StudyWorkers`, `StudyProofs`

The processes of `scripts/llm_descriptive_study.py run` and the files they
share: locks, `_allocation.json`, `_config_w<i>.json`, the ledger, one shard per
episode. Each process goes through `_command_run` in the order of its writes;
creating a file and writing it are two steps (`Torn` in between), replacing a
shard is one. A process may be killed anywhere (`Kill`), its lock stays until
somebody deletes it (`RemoveStaleLock`, only when no process has that index), and
anything may be started next (`Launch` with any number of workers, experiment
hash, directories, with or without `--cache-only`). The episode and its calls
are the other modules' matter; the ledger here is absent, granting or closed. A
shard is `starved` if its episode was refused a call. An episode that raises
(`CacheMiss`, `BudgetExceeded`) leaves no shard.

### Sweep and response cache: `Sweep`, `SweepProofs`

`run_sweep` in several processes on one output directory, each with its own
runs. The two logs are sequences of lines. A kill in the middle of an append
leaves part of a line (`Torn`; a line that only lacks its newline counts as one),
and since `append_jsonl` opens the file with mode `"a"`, the next line goes behind
that part: together they are one line that is no JSON (`Garbled`). `read_jsonl`
raises on either, so a torn log of summaries ends every later start, while
nothing in the sweep reads the log of proposals again. `LogsRecoverable` says what
is kept nevertheless, and `DecisionsLogged` what is not. That no seed and no level
is listed twice is assumed (`SweepAssumption`; so it is in `configs/base.yaml` and in
the defaults). The cache is what `ResponseCache.put` makes of it: a temporary file whose
name is the same for all instances, emptied, filled, renamed. A file is therefore
an inode, which one process may go on writing to after another has renamed it;
`raced` and `overlapped` say when two of them did so or ran together at all. A
process counts its calls from zero; an episode that is refused one falls back to
a no-op and is complete all the same.

### Rule agent: `RuleAgent`, `RuleAgentProofs`

`RuleAgent.decide` in the gated loop, on the collector's window. A tick brings
any of a set of metrics: utilisations, throughputs, slow links, late services,
services of low availability. `Refusals` says what may be refused at a decision,
for each service on its own: a migration (no target, or an invalid one), a reroute
(no other path), a scaling (no memory, the replica cap). Hosts and routes are kept,
because "sustained" is asked of the node and of the links a service is on now,
over the ticks that were; a migration accepted earlier changes both when it lands,
a restart that completes takes the memory back. The twin may reject any remedy.

`lasted` and `rises` count, from the beginning of the episode, what the agent
sees through its windows. Four things the code does are kept, and the
properties say them:

* Only the heaviest violating service of a hot node may leave it
  (`rule_agent.py:152`). If it has no target, the rule goes on to the next node:
  the migration of a lighter service, due and acceptable, is passed over for a
  lesser remedy or for none. `ProposesWhatIsDue` excepts exactly this case
  (`Rivals`).
* The cooldown starts with the proposal, so a rejected remedy blocks its
  service; with `cooldown_ticks = 0`, which `config.py:96` allows, it blocks
  nothing, and the agent proposes the same again until the retries are used up.
  `RetriesMoveOn` has a part for each of the two.
* Every time it is asked the agent appends a memory sample, so a retry sees the
  same sample twice and no rise: no retry is a restart.
* Nothing makes `history_window` as long as `sustain_ticks` (`config.py:76`, `:94`).
  If it is shorter, four of the five rules never act; `Lasted` says so.

`config` is what an episode is run with, one of `Configs`.

### Replay audit: `JournalReplay`, `StudyProofs`

An episode of the study, its journal and cache, and its audit. Live, a call may
hit the cache, be refused, fail, be answered, be charged beyond the budget; the
process may be killed at any point and the episode begun again, on the same cache
with a new journal. The audit runs the agent on the recorded clock readings and
`JournalClient`, which raises at the first row that is not about the prompt at
hand. One worker uses a cache directory at a time, as `StudyWorkers` shows, and
the recorded clock offsets are taken as exact.

### Evaluation: `StudyAnalysis`, `SignedRanks`

`StudyAnalysis` makes the rows of an arm as `run_single` records them and then
the tables that four programs make of these rows: candidates, approvals, gate
metrics, confusion, thresholds, composition, exposure, outcome units. It is
checked, and proved, that none of them refuses what the loop records, and that they
agree.
`SignedRanks` is the exact signed-rank test (the loop over ranks and the
enumeration), the variance of its approximation, and Holm's adjustment.

`MCSequential` puts `PathSearch`, `JournalReplay`, `BudgetGuard`,
`FaultInjector`, `StudyAnalysis` and `SignedRanks` into one instance. They share
nothing: `part` picks one of them in the initial state and the others stay where
they are.

## Runs and what they show

| run | instance | shows |
|---|---|---|
| `shared_budget` | 2 workers, 3 calls, 2 tokens, reservations 0 and 2, 2 attempts, overrun 1, usage complete or not; 338 468 states | rows, totals and journal reconcile and the report accepts the study; what the provider reports is covered; an unresolved owner never calls again and the open circuit stops everyone; the `CallBudget` promise; every request is settled |
| `shared_budget_retries` | 2 attempts per call, else the smallest case | a violation: see below |
| `decision_graph` | 2 remedies, retry cap 2, 3 ticks, a decision every second tick | nothing rejected executes, marks and counters agree with what was executed, feedback and record are the decision's own, every episode ends, the `GatedDecision` promise |
| `network_sim` | one service, two edges, all remedies, leaks, failures of edges and their links | conservation of requests, one pending effect, routes follow hosts, landings work, effects complete |
| `llm_agent` | 2 remedies, deadline 6, reserve 2, call timeout 5, 3 steps, 1 retry, 3 attempts, 1 s of overrun and of waiting | requests go out in time, the final call has its reserve, the result is admissible, the trace says why, `decide` ends |
| `study_workers` | 2 processes, up to 2 workers, 2 seeds, 1 arm, 2 experiments, 2 sets of directories | episodes are exclusive, experiments never mix, shards are immutable |
| `study_workers_resume` | the same | a violation: see below |
| `live_episode` | 4 ticks, a decision every second, horizon 3, retry cap 1; 48 scenarios of draws, faults, forecast error, simplification; both loops; 149 613 states | ground truth comes true, the twin is repeatable and exact where it should be, the totals reconcile, the `GatedDecision` promise |
| `sweep` | 2 processes, 3 runs, 2 prompts, one call per start, 2 kills; 370 154 states | the logs stay recoverable, an answer is paid once, the cache file is whole, the sweep completes |
| `sweep_torn_log` | the same with one kill | a violation: see below |
| `rule_agent` | 2 services of unequal load, first on one of 2 nodes, 7 ticks, sustained 2, memory window 3, retry cap 2; three configurations: cooldown 3 with a history window of 3 and of 1, cooldown 0 with 2; 1 564 566 states | the agent proposes what is due and passes over a better remedy only if it is refused or the heaviest service of the node is; a rejection moves it on, or without a cooldown changes nothing |
| `sequential` | the six programs of `MCSequential`; of the injector two events on each of a node, a link, a service, starts 0 and 1, durations 1 and 3, ticks 0..4; 838 673 states | the search is exact, the audit reproduces, the guard keeps its promise, every field is what the open windows say and baselines are original, the tables agree, the p-values are exact |

### Bounds

The budget's ceilings are smaller than what the workers ask for together, so that
the last grant is contended; a reservation of 0 is what a provider without
`max_token_reservation` gives. `Overrun` bounds how far a response may exceed its
reservation; it is 0 in `shared_budget_retries`. Two decisions are
enough for one decision to find what another left, and the thread's leftovers
are arbitrary anyway; a cap of 2 has a first, a middle and a last rejection.
Start ticks 0 and 1 with durations 1 and 3 give windows that are disjoint, abut,
nest, and interleave. Of two events of one kind, which differ in their magnitude only,
the first has the window that opens, or closes, first. The topology of the search (a gateway, two edge servers, a
device with redundant links; all sets of failures; limits 1, 2 and none) has
paths of equal and of different length and a node reached by both. In `network_sim` a queue capacity of
1 and 2 arrivals overflow, a footprint of 2 fills an edge, and downtimes of 2
leave a tick in which the target can fail. A counter without a bound of its own
in the code (`tokens`, `spent`) is bounded by the ceilings on calls.
In `llm_agent` three steps are a first, a middle and a final one and one retry
makes the second bad reply force the final call; the deadline of 6 leaves 4 to
explore, in which a call of 5 is cut short, one backoff fits and the next does
not. In `study_workers` two processes can be the same worker twice, two of one
partition, or two of different partitions; two seeds give each of two workers
one episode, and one worker both.
In `live_episode` four ticks hold two decisions whose forecasts overlap, the
horizon of 3 runs past the end of a fault and into the beginning of one, and the
draws are uneven, so that a generator that moved once too often shows. In
`sweep` two runs share a prompt, one call per start forces the budget's
fallback, and two kills allow one before and one after a resume. In `rule_agent`
a decision is made every second tick: the memory window of three fills within five
ticks, and a cooldown of three holds at the decision after a proposal and is over at
the next. The history window is longer than what must last, as long, or shorter.
The two services begin on one node, the heavier one, the
lighter one, both or none refused, and a migration that has landed separates
them. In
`sequential`: an episode of two attempts of two steps with one kill; a guard of
3 calls and 4 tokens, reservations up to 2, an overrun (`Excess`) of 2, two restarts; two
decisions with one retry, deltas of all signs and on both sides of the harm
threshold of 3, predictions right and wrong (one seed, since every figure is a
sum over seeds); up to four differences of magnitude up to 3, so with ties and
without, and three p-values in eighths (one of the two at a time: neither test reads
the other's data).

`TypeOK` is no run's property: it is proved for `SharedBudget`, `DecisionGraph`,
`NetworkSim`, `LlmAgent`, `StudyWorkers` and (as `SweepTypeOK`, `RuleTypeOK` and a part
of `GuardInv`) for `Sweep`, `RuleAgent` and `BudgetGuard`, and the types of `LiveEpisode` are part of `PromiseInv`; elsewhere it
says less than the properties the runs check.

### Fairness

`SharedBudget.FairSpec`: a provider request ends by its deadline and the steps
after it wait for nobody but the mutex, which is held for a bounded time. New
calls, restarts and crashes are not fair. `DecisionGraph.FairSpec`: one thread
runs the episode; `agent.decide` returns or raises. `NetworkSim.FairSpec`: the
driver goes on stepping. `LlmAgent.FairSpec`: one thread, every request has a
timeout, waiting is bounded, so some step of `decide` is always taken; nothing
is assumed of the replies. `Sweep.FairSpec`: a started process goes on, and whoever
runs the sweep starts it again after a kill, of which there are finitely many;
`SweepCompletes` excepts a log or a cache file that a kill or a race has torn.
The other modules state no liveness: a study worker
may be killed at any time, and nobody has to start it again; a dashboard's client
may go away; the agents of `RuleAgent` and the sequential programs only compute.

### Disagreements found

* `shared_budget_retries`: `max_token_reservation` (`llm/providers.py:190`)
  covers one generation, but `_generate` may submit the request up to four times
  inside one charged call. `scripts/llm_study_reporting.py:169` calls the
  reservations an upper bound of what failed requests use.
* `study_workers_resume`: `_allocation.json` is opened with mode `"x"` and then
  written (`scripts/llm_descriptive_study.py:187`), `_config_w<i>.json` is
  truncated and then written (line 219). A kill in between leaves a file that
  ends every later start until it is deleted by hand.
  `docs/architecture.md:214` wants "checkpoint so a crashed run resumes". The
  script fails closed: `study_workers` shows that nothing it has written is lost
  or mixed, whatever happens.
* `sweep_torn_log`: `append_jsonl` (`experiment/logging.py:58`) appends behind
  whatever the file ends with. After a kill in the middle of a record of
  `proposals.jsonl`, the first record of the resumed sweep continues the torn line
  and is lost with it, `read_jsonl` can no longer read the file, and the run gets
  its summary all the same. `docs/architecture.md:214` wants a "checkpoint so a
  crashed run resumes", line 216 "one JSON line per decision event".

Three more things a reader of the reports should know, none of which a document
of the repository contradicts: `scripts/llm_study_reporting.py:117` divides its
leave-one-out differences by a literal 29, one less than thirty seeds, while the
registered design has 72; `live_main` of `scripts/llm_study_replay.py` insists on
seeds 0 to 29 unless it is given `--allow-partial`; `command_sweep` skips the
shards that exist, whatever `--no-simplify-queueing` says.

## Proofs

All theorems hold for every value of the constants that satisfies the named
assumptions (`BudgetAssumption`, `DecisionAssumption`, `FaultAssumption`,
`RoutingAssumption`, `SearchAssumption`, `NetworkAssumption`, `AgentAssumption`, `BackoffAssumption`,
`RuleAssumption`, `StudyAssumption`, `FilesAssumption`, `ForkAssumption`, `LiveAssumption`,
`SweepAssumption`, `RowsAssumption`, `RanksAssumption`, `BoundsAreNat`). Five of them ask for a finite
set, because something is summed, composed or counted over it: the owners of a ledger
(`BudgetAssumption`), the events of a schedule (`FaultAssumption`), the processes of
a sweep (`SweepAssumption`, for the number of its files), the nodes of a topology
(`SearchAssumption`, for the length of a path), the remedies a report groups by
(`RowsAssumption`). One fixes a value: the harm threshold of an arm's rows is 3
(`RowsAssumption`), because the reports have the literal 3 where the rows have the
configured threshold, and both studies configure 3.

Four modules hold the proofs of more than one component: `SharedBudgetProofs` those of
the ledger, of the reports and of the tests, all about sums, `ClientProofs` those of the
agent that calls the LLM client and of the budget that one process gives it,
`SimulatorProofs` those of the network, of its faults and of the path search,
`StudyProofs` those of the study's workers and of the audit. Each extends its
components, which for this purpose name their specifications differently:
`GuardSpec`, `InjectorSpec`, `SearchSpec`, `ReplaySpec`, `StudySpec` and `RanksSpec`
are those of `BudgetGuard`, `FaultInjector`, `PathSearch`, `JournalReplay`,
`StudyAnalysis` and `SignedRanks`.

Sums, folds and loops are recursive functions, so what they compute needs an
induction, and the library's induction theorems cannot be instantiated here. The
proofs go by a counterexample of least size instead: a set of numbers has a least
member (`LeastNumber`, from the well-foundedness of `<`), hence a set of finite
sets has one of least cardinality (`SmallestSubset`), and the recursive equation
refutes it. `UpTo` turns this into an induction over a range for the members of a
set. A `LET`-bound recursive function is a `CHOOSE` to the provers: that a
function satisfying the equation exists is proved first (`SumsExist`,
`LoopRuns`, `RunExists`, `TruthsExist`); `RecursiveFunction` is that fact once for
all recursions in which each value makes the next.

* `SharedBudgetProofs`. `Typing` is inductive by itself. `CallOnLedger` is
  inductive with it: no action of another owner touches an owner's row. The two
  action properties follow from the type invariant and the guards of
  `MayCharge`, the only way into `calling`, except that `FailsClosed` also needs
  that an owner in flight cannot be released while its process is idle.
  `WithinTotals` bounds each row by the totals.
  Three more theorems are about sums over all owners. `TotalExcept` is the lemma
  they share: changing one owner's summand changes the total by the difference.
  For the `CallBudget` refinement, `WithinReport` says that an answer overruns its
  reservation by `Overrun` at most and that an owner without a call in flight has
  nothing reserved, so settling raises exposure by no more than the overrun.
  `ReportedDue` strengthens `ReportedCovered`: what the provider has reported and
  the ledger has not charged is, owner by owner, at most what is `Due`: the count
  of an answer, or what a call that failed or was killed may have used; only with
  it does charging an answer preserve anything. `ColumnsAdd` (the columns of the
  rows add up to the totals) and `JournalExplains` (there is an account, owner by
  owner, of the journalled tokens that are not charged: those of an answer about
  to be charged and of calls that a kill left open) carry `LedgerReconciles`.
* `SharedBudgetProofs`, the reports. `StudyReconciles` compares tables of a finished
  shard, so it takes two arguments. The first is about the loop: `StudyInv` says of a
  shard that is being written what the checks of the reports ask of a complete one.
  Each row is one its arm can write (`RowsSound`); no two are the same attempt and all
  are behind the attempt at hand (`RowsApart`, `RowsBehind`); a past decision has its
  attempts without a gap and concludes with the last (`DecisionsWhole`), the one at
  hand has been rejected `retry` times (`AttemptsRejected`); and the tally is what can
  be counted in the rows (`RowsTallied`: the rejections, the conclusions, the first
  attempts). `ReportsAccept` follows, and `EntryAgrees`: as many decisions begin as
  conclude. The second is about the tables. Every figure is a sum of one column over
  some rows, a count being the sum of a column of ones (`ColumnSums`), so two figures
  agree when their rows are the same or fall into the same parts: benefit, harm and
  net of a row (`ArraysAgree`), beneficial, neutral and harmful (`CompositionAdds`),
  first attempts and retries, and the remedies one by one (`SumByGroup`, for any way
  to group). That the parts are the same rows is where `RowsSound` is needed: the
  programs tell a candidate by its action or by its outcome, an approval by the verdict
  or by what was applied. `PartIsLess` makes the grid monotone.
* `SharedBudgetProofs`, the tests. `RanksInv` says what the loop over the ranks has
  counted: for every sum, the sets of the ranks taken so far that have it (`Parts`).
  `PartsSplit` makes it inductive: a set of one more rank leaves it out or falls short
  by it, and a rank larger than the sum is in none. At the end `PartsCounted` groups
  all signs, and the extreme ones, by their sum. The variance is an induction over the
  absolute values: `TiesAdd` is the polynomial identity of a group of ties. Holm's
  adjustment is the closed test because the p-values from a position on are an
  intersection with that many hypotheses (`TermCloses`), and no other that contains
  the hypothesis is less significant (`HolmExact`).
* `DecisionGraphProofs`. The properties speak of decided states only; the
  inductive `Inv` adds what holds on the way (`DecisionInv`: how many proposals,
  retries and rejections there are at each node, which verdicts they carry, and
  that an approved proposal is the one to be executed). One lemma per action.
  `OwnInv`, inductive with it, says what a decision remembers: feedback is the
  proposal just rejected, `first_proposal` and the verdict are this decision's,
  nothing is marked before it is executed. `DecisionIsOwn` and
  `MarkedIffExecuted` follow.
  `KeepsPromise` maps every step to a step of `GatedDecision` or a stutter.
* `SimulatorProofs`, the faults. `FaultInv`: after a tick exactly the fields with a
  baseline may differ from their original value, and a baseline is the original
  value. Hence faults heal, whatever the windows. `ComposeInv` adds what every
  field is between two ticks: what the open windows compose to on the original
  value (`ValuesCompose`), with `LeakInv` for the memory a leak has accumulated
  since the service was last restarted. `ComposeAgrees` is the lemma on the fold:
  only the events on a field matter to it.
* `SimulatorProofs`, the network. Conservation is inductive with the types of the counters;
  `ServeCounts` and `DiscardCounts` are the arithmetic of a tick and of an
  action. That landings work follows from `route_to`; that routes lead to hosts
  is inductive, because `Move` changes both together and `Reroute` is checked.
  `SettledInv` carries the type invariant and `DownWhilePending`: no two pending
  effects are on one service (`Single`), which an action preserves because it is
  refused for a service that is down, and a tick because the loop over the
  effects keeps some of them in their order and brings the others' services up
  (`LoopKeeps`, by induction over the list). That a service without an effect has
  lost nothing since the last tick bounds the counter of losses.
* `SimulatorProofs`, the path search. `SearchInv` has five parts besides the
  question. `Sound`: everything in the queue is where a simple working path has
  come (`Good`), everything yielded is an answer. `Ordered`: the queue is sorted by
  length and its lengths differ by one at most, and nothing in it is shorter than
  what has been yielded; the bound by one is what makes appending keep the order.
  `Apart`: no path yielded or in the queue begins another, so none is found twice.
  `Covered`: every answer has been yielded or a path in the queue begins it.
  `Stops`: why the search is over. `OnTheWay` is the step that matters: an answer
  begun by a path that is not at the host goes on by a link that is usable there,
  because a simple walk is at no node twice (`WalkInjective`, by counting). `WalkIs`
  and `ExtendGathers` say what the two recursions compute. `SearchFindsAll` follows,
  and also covers `current` being any route, working or not.
* `RuleAgentProofs`. Both properties compare what the agent sees through
  its windows with counters that have run since the episode began. `RuleInv` is that
  comparison: `WindowInv` (a signal has lasted n ticks exactly when the last n
  entries of the collector's window show it, for every n up to `Sustain` that the
  window can hold), `Samples` (memory has risen n times in a row exactly when the last
  n samples rise; what a retry finds are two equal samples, so no rise) and
  `TriesInv` (the proposals of a decision but the last are remedies, whose
  services cool down from this tick on; without a cooldown they are what the rules
  choose when there are no samples). `ShownLatest` and `ClimbsLatest` say that a
  bounded window shows what the unbounded one would. That a lighter service is passed
  over only for a refused heavier one rests on `HeaviestExists`: of the services in
  violation on a node one is the heaviest. For `RetriesMoveOn`, `NotAllRejected`
  counts: that many different services leave none for one more rejection; and
  `OneChoice`, `ChoiceWithoutSamples` and `ChoicesStay` say that the rules choose one
  remedy, that one other than a restart does not depend on the samples, and that
  nothing in a decision changes it.
* `ClientProofs`, the agent. The four safety properties are proved together, by one
  inductive `Inv`: `StepsAccounted` (every step before this one was a tool call, a
  bad reply or an inadmissible action, so a step is left for the final call),
  `ReserveKept` (outside the final call the reserve is whole but for the waiting,
  unless an answer was late), `DeadlinesNest` (the provider's deadline lies
  within that of `decide` plus the waiting). `BackoffAssumption` only says that
  powers of two are natural numbers, which the provers cannot compute.
* `ClientProofs`, the budget of one process. `GuardInv`: with a path, file and memory
  agree whenever a method has returned, so a restart forgets nothing; tokens are
  reserved only for a call that is pending, and outside a request only by a guard
  with a path, which grants no other call. Hence a grant finds nothing reserved, and
  every step maps to one of `CallBudget` or a stutter.
* `SweepProofs`. One inductive invariant in four parts. `TypeInv` has the types and
  where each process is (`Place`: its run is its own, it has logged no more than it has
  decided, and it has a file open only in `put`). `LogInv` is `LogsRecoverable` with
  what makes it inductive: no summary of the run a process is at, nor of those it
  will go on to, is in the log yet, and the last lines written of its run are the
  first `logged[p]` decisions (`Ahead`). It needs that each process has runs of its own,
  and `OthersLogged`, that lines of another run, or behind a torn line, take nothing
  away. `CacheInv`: unless two were in `put` together, one process at most writes the
  temporary file, it is the one its handle names, and it is whole before it is
  renamed. `PaidInv`: while one process runs at a time, its view is what the file holds
  (and, in `put`, the answer it has just bought), so an answer is bought only when it
  is known to nobody, or was lost by a kill counted in `unsaved`.
* `StudyProofs`, the workers. `Inv` is `LocksHeld` (a live process has the lock of its
  index and no other live one has that index), `ManifestAgrees` (one process at
  most writes the manifest; whoever is past it agrees with it) and
  `EpisodesOwned` (a running episode is its worker's and has no shard). With one
  partition and distinct indices `OwnersDiffer` separates the episodes; hence a
  shard is written by one process and never again.
* `StudyProofs`, the audit. `ReplayReproduces` compares two computations, the episode
  and its repetition. `Follows` is a step of the audit on a given journal, cache and
  record, and `TraceInv` says of every moment of the episode that an audit on what
  there is by then comes to just where the episode stands (`View`, `Trace`): the
  journal and the cache so far, and the record of the attempt so far as one that is
  still open. Each live step adds one step of the audit to the trace or none.
  `FollowsStays` is the lemma that matters: what the audit did it still does when
  journal, cache and record have grown, because no reply in the cache is ever
  replaced, and a row that takes a response back (`after_response`) only comes while
  its response is still to be read. When the shard is complete the audit walks along
  the trace: every step it may take is the one of the trace (`ReplayAhead`), so it
  never raises, and it is over only at the trace's end. No assumption on the
  constants is needed.
* `LiveEpisodeProofs`. All four properties of `LiveEpisode`, for every horizon,
  retry cap, scenario and size of the network. The relation they rest on is
  `Alike`: two simulators, possibly in different worlds, that differ in nothing
  but the names of their generators and in whether they keep the fault schedule.
  Simulators that are alike stay alike and count the same violations however many
  ticks they run (`RunAlike`); a rollout from either of them returns the same
  (`RolloutAlike`); and a simulator that runs touches no other (`Apart`).
  * `PromiseInv` (types, generators of their own, the live simulator untouched
    and the copy alike while a decision is pending, what is to be executed
    approved where it stands) gives `EpisodesKeepPromise`. Without `Opened`
    nothing would tie the approval to the state in which the action is executed.
  * `ReliableInv` adds that the verdicts on record are those `Validate` would
    give again, and that an exact twin's differences are the gains that the
    evaluation is going to find (`RolloutForetells`: a blind rollout counts what
    one with the schedule counts when no fault begins or ends).
  * `ForecastInv` adds `OwedInv`: what was seen of a forecast and what is still
    to come add up to what was foretold, unless a remedy has just been executed.
    `RunShifts` (a run is its first tick and the run from there) makes it
    inductive over a tick, `RowsTold` and `Carried` over an execution.
  * `TotalsInv` is the books of an episode in mid-decision: each equation of
    `TotalsReconcile` with a correction for the part of the loop the episode is
    at, rejections on record that are not evaluated yet (`BlockedNow`), and room
    in the proposals for those that may yet turn out harmful. `StreamFits` is the
    arithmetic of a step, `TallyCounts` that of an evaluation.

The invariants of `LiveEpisodeProofs`, `SweepProofs` and of the rule agent were
model-checked on the constants of the runs before they were proved.

Every safety property of the passing runs is proved. Only model-checked is liveness
(`CallsResolve`, `EpisodeEnds`, `EffectsComplete`, `Decides`, `SweepCompletes`), which
is out of the prover's reach.

## Not modelled

* Of the simulator: times and percentiles, CPU shares, `snapshot` and `restore`.
  They are numeric, or copies of the state; conservation, placement and routes
  do not depend on them.
* Of the twin: how noise, lag and drift distort the fields of a fork. They are
  one error in the forecast, and what matters is that it is the same for all
  rollouts of a decision.
* Of telemetry: the summarizer's prompt text and `ground_truth.py`, which have no
  state. Of the LLM agent: the prompt, the tools' results and the extraction of
  JSON from a reply are the choice of the reply; `enforce_action` of
  `llm/structured.py`, which it does not use. Of the provider: payloads.
* Of the study's script: the status files but for the rows that are summed; the
  kill between settling a failed call and its `provider_error` row
  (`llm/client.py:137`), after which journal and ledger differ by one call.
* Of the audit: the historical replay (`RecordedAgent`, `replay_one`), archives,
  checksums, and the rounding of recorded clock offsets.
* Of the evaluation: bootstrap intervals, quantiles, power, sign-flip and t
  tests, rendering. They are numeric, and no state depends on them.
* `diagnostics/enumerator.py`, the demos, the charts of `dashboard/viz.py`, the
  reports on single pilots and the paper: presentation.

## Plan

Everything the system table lists is modelled as far as the section above says.
What is left, in this order:

1. The `provider_error` row as a step of its own in `SharedBudget`, and the
   report's count of journal rows against it.
2. A run of `NetworkSim` with two services, for memory on shared nodes
   (`actions/validator.py:57`), on an instance reduced elsewhere; `NetworkSim`
   composed with `FaultInjector` in place of the free choice of faults.
3. `StudyWorkers` composed with `SharedBudget`, the ledger's states refined to
   the ledger itself.

--------------------------- MODULE DecisionGraph ---------------------------
(***************************************************************************)
(* One episode of agent/graph.py: the driver steps the simulator, and on   *)
(* every decision tick runs the graph observe -> propose -> (validate ->   *)
(* propose)* -> execute -> finalise, the validate node present only when   *)
(* the gate is on.  A rejected proposal goes back to the agent with the    *)
(* reason, retry_cap times; after that the decision falls back to no-op.   *)
(*                                                                         *)
(* The simulator is seen through two sets that change as it steps: the     *)
(* remedies validate_action accepts and those the twin approves.  The twin *)
(* forks the same simulator and reseeds its noise from the tick, so within *)
(* a decision it always judges an action alike.                            *)
(***************************************************************************)
EXTENDS Integers, Sequences

CONSTANTS
    Remedy,        \* the actions other than no-op
    NoOp, Null,
    RetryCap,      \* graph.retry_cap
    Interval,      \* graph.decision_interval_ticks
    EpisodeTicks   \* sim.episode_ticks

ASSUME DecisionAssumption ==
    /\ RetryCap \in Nat
    /\ Interval \in Nat \ {0}
    /\ EpisodeTicks \in Nat
    /\ NoOp \notin Remedy
    /\ Null \notin Remedy \cup {NoOp}

VARIABLES
    gate,       \* gate_enabled
    tick,       \* ticks stepped so far
    node,       \* the graph node about to run; "drive" between decisions
    valid,      \* remedies validate_action accepts in the present state
    approves,   \* remedies the twin approves in the present state
    proposal, verdict, feedback, retries, rejections, exhausted,
    applied,    \* applied_action
    first,      \* runtime.first_proposal
    proposals,  \* runtime.proposals
    record,     \* the finalised record
    result      \* EpisodeResult's counters

state == <<proposal, verdict, feedback, retries, rejections, exhausted, applied>>
world == <<gate, tick, valid, approves>>
vars == <<world, node, state, first, proposals, record, result>>

Action == Remedy \cup {NoOp}
Verdict == {"none", "approved", "rejected"}
Entry == [action : Action, told : Action \cup {Null}, verdict : Verdict,
          marked : BOOLEAN]
Record == [proposed : Action \cup {Null}, applied : Action \cup {Null},
           verdict : Verdict, retries : Nat, rejections : Nat,
           exhausted : BOOLEAN]
Counters == [decisions : Nat, rejections : Nat, retries : Nat, exhaustions : Nat]

NoRecord == [proposed |-> Null, applied |-> Null, verdict |-> "none",
             retries |-> 0, rejections |-> 0, exhausted |-> FALSE]

TypeOK ==
    /\ gate \in BOOLEAN
    /\ tick \in 0 .. EpisodeTicks
    /\ node \in {"drive", "observe", "propose", "validate", "execute", "finalise", "raised"}
    /\ valid \subseteq Remedy /\ approves \subseteq Remedy
    /\ proposal \in Action \cup {Null} /\ verdict \in Verdict
    /\ feedback \in Action \cup {Null}
    /\ retries \in 0 .. RetryCap /\ rejections \in 0 .. RetryCap + 1
    /\ exhausted \in BOOLEAN
    /\ applied \in Action \cup {Null}
    /\ first \in Action \cup {Null}
    /\ proposals \in Seq(Entry)
    /\ record \in Record
    /\ result \in Counters

Init ==
    /\ gate \in BOOLEAN
    /\ tick = 0 /\ node = "drive"
    /\ valid = {} /\ approves = {}
    /\ proposal = Null /\ verdict = "none" /\ feedback = Null
    /\ retries = 0 /\ rejections = 0 /\ exhausted = FALSE /\ applied = Null
    /\ first = Null /\ proposals = <<>>
    /\ record = NoRecord
    /\ result = [decisions |-> 0, rejections |-> 0, retries |-> 0, exhaustions |-> 0]

-----------------------------------------------------------------------------
\* The driver steps the simulator.  On a decision tick it invokes the graph
\* on the tick's thread, where the checkpointer may hold the final state of
\* an earlier episode: the input resets the counters, the rest is as it was.
Step ==
    /\ node = "drive" /\ tick < EpisodeTicks
    /\ tick' = tick + 1
    /\ valid' \in SUBSET Remedy /\ approves' \in SUBSET Remedy
    /\ IF tick % Interval = 0
       THEN /\ node' = "observe"
            /\ retries' = 0 /\ rejections' = 0 /\ exhausted' = FALSE
            /\ feedback' = Null
            /\ proposal' \in Action \cup {Null}
            /\ verdict' \in Verdict
            /\ applied' \in Action \cup {Null}
       ELSE UNCHANGED <<node, state>>
    /\ UNCHANGED <<gate, first, proposals, record, result>>

Observe ==
    /\ node = "observe" /\ node' = "propose"
    /\ first' = Null /\ proposals' = <<>>
    /\ proposal' = Null /\ verdict' = "none" /\ feedback' = Null
    /\ retries' = 0 /\ rejections' = 0 /\ exhausted' = FALSE /\ applied' = Null
    /\ UNCHANGED <<world, record, result>>

Propose == \E a \in Action :
    /\ node = "propose"
    /\ node' = IF gate THEN "validate" ELSE "execute"
    /\ proposal' = a
    /\ first' = IF first = Null THEN a ELSE first
    /\ proposals' = Append(proposals, [action |-> a, told |-> feedback,
                           verdict |-> "none", marked |-> FALSE])
    /\ UNCHANGED <<world, verdict, feedback, retries, rejections, exhausted,
                   applied, record, result>>

\* agent.decide raises (a cache-only miss, a full disk): the episode is over.
ProposeRaises ==
    /\ node = "propose" /\ node' = "raised"
    /\ UNCHANGED <<world, state, first, proposals, record, result>>

\* A no-op is compared with itself, so the twin approves it.
Judge(a) == IF a \in approves \cup {NoOp} THEN "approved" ELSE "rejected"

Approve ==
    /\ node = "validate" /\ Judge(proposal) = "approved"
    /\ node' = "execute" /\ verdict' = "approved"
    /\ proposals' = [proposals EXCEPT ![Len(proposals)].verdict = "approved"]
    /\ UNCHANGED <<world, proposal, feedback, retries, rejections, exhausted,
                   applied, first, record, result>>

\* Mutated: the cap is tested after the increment.
RejectTooOften ==
    /\ node = "validate" /\ Judge(proposal) = "rejected"
    /\ retries <= RetryCap
    /\ node' = "propose" /\ verdict' = "rejected"
    /\ proposals' = [proposals EXCEPT ![Len(proposals)].verdict = "rejected"]
    /\ rejections' = rejections + 1 /\ retries' = retries + 1
    /\ feedback' = proposal
    /\ UNCHANGED <<world, proposal, exhausted, applied, first, record, result>>

\* Mutated: the agent is told of the first rejection only.
RejectKeepingFeedback ==
    /\ node = "validate" /\ Judge(proposal) = "rejected"
    /\ retries < RetryCap
    /\ node' = "propose" /\ verdict' = "rejected"
    /\ proposals' = [proposals EXCEPT ![Len(proposals)].verdict = "rejected"]
    /\ rejections' = rejections + 1 /\ retries' = retries + 1
    /\ feedback' = IF feedback = Null THEN proposal ELSE feedback
    /\ UNCHANGED <<world, proposal, exhausted, applied, first, record, result>>

\* feedback stands for the verdict on the action it names.
Reject ==
    /\ node = "validate" /\ Judge(proposal) = "rejected"
    /\ retries < RetryCap
    /\ node' = "propose" /\ verdict' = "rejected"
    /\ proposals' = [proposals EXCEPT ![Len(proposals)].verdict = "rejected"]
    /\ rejections' = rejections + 1 /\ retries' = retries + 1
    /\ feedback' = proposal
    /\ UNCHANGED <<world, proposal, exhausted, applied, first, record, result>>

\* Mutated: the last rejected proposal stays the one to execute.
GiveUpKeepingProposal ==
    /\ node = "validate" /\ Judge(proposal) = "rejected"
    /\ retries >= RetryCap
    /\ node' = "execute" /\ verdict' = "rejected"
    /\ proposals' = [proposals EXCEPT ![Len(proposals)].verdict = "rejected"]
    /\ rejections' = rejections + 1 /\ exhausted' = TRUE
    /\ UNCHANGED <<world, proposal, feedback, retries, applied, first, record, result>>

\* Mutated: the two tests of the cap leave a gap.
GiveUpTooLate ==
    /\ node = "validate" /\ Judge(proposal) = "rejected"
    /\ retries > RetryCap
    /\ node' = "execute" /\ verdict' = "rejected"
    /\ proposals' = [proposals EXCEPT ![Len(proposals)].verdict = "rejected"]
    /\ rejections' = rejections + 1 /\ exhausted' = TRUE
    /\ proposal' = NoOp
    /\ UNCHANGED <<world, feedback, retries, applied, first, record, result>>

GiveUp ==
    /\ node = "validate" /\ Judge(proposal) = "rejected"
    /\ retries >= RetryCap
    /\ node' = "execute" /\ verdict' = "rejected"
    /\ proposals' = [proposals EXCEPT ![Len(proposals)].verdict = "rejected"]
    /\ rejections' = rejections + 1 /\ exhausted' = TRUE
    /\ proposal' = NoOp
    /\ UNCHANGED <<world, feedback, retries, applied, first, record, result>>

Semantic(a) == a \in valid \cup {NoOp}

\* Mutated: the exhausted fallback counts as the last proposal applied.
ExecuteMarkingFallback ==
    /\ node = "execute" /\ node' = "finalise"
    /\ applied' = IF Semantic(proposal) THEN proposal ELSE NoOp
    /\ proposals' = IF Semantic(proposal)
                    THEN [proposals EXCEPT ![Len(proposals)].marked = TRUE]
                    ELSE proposals
    /\ UNCHANGED <<world, proposal, verdict, feedback, retries, rejections,
                   exhausted, first, record, result>>

\* Approval is not validity: an invalid action does nothing in the twin either
\* and so passes it, and is caught here.
Execute ==
    /\ node = "execute" /\ node' = "finalise"
    /\ applied' = IF Semantic(proposal) THEN proposal ELSE NoOp
    /\ proposals' = IF ~exhausted /\ Semantic(proposal)
                    THEN [proposals EXCEPT ![Len(proposals)].marked = TRUE]
                    ELSE proposals
    /\ UNCHANGED <<world, proposal, verdict, feedback, retries, rejections,
                   exhausted, first, record, result>>

\* The record is built, and the driver adds it to the episode's counters.
Finalise ==
    /\ node = "finalise" /\ node' = "drive"
    /\ record' = [proposed |-> first, applied |-> applied, verdict |-> verdict,
                  retries |-> retries, rejections |-> rejections,
                  exhausted |-> exhausted]
    /\ result' = [decisions |-> result.decisions + 1,
                  rejections |-> result.rejections + rejections,
                  retries |-> result.retries + retries,
                  exhaustions |-> result.exhaustions + (IF exhausted THEN 1 ELSE 0)]
    /\ UNCHANGED <<world, state, first, proposals>>

Over == node = "raised" \/ (node = "drive" /\ tick = EpisodeTicks)

Finished == Over /\ UNCHANGED vars

Next ==
    \/ Step \/ Observe \/ Propose \/ ProposeRaises \/ Approve \/ Reject
    \/ GiveUp \/ Execute \/ Finalise \/ Finished

Spec == Init /\ [][Next]_vars

\* One thread runs the episode: it takes the next step as long as there is one
\* (agent.decide returns or raises by its own deadline).
FairSpec == Spec /\ WF_vars(Next)

-----------------------------------------------------------------------------
Decided == node \in {"finalise", "drive"} /\ proposals # <<>>

\* The executed action is the last proposal or a no-op, is valid in the very
\* state it is executed in, and under the gate is approved there.
GatedExecution == Decided =>
    \/ applied = NoOp
    \/ /\ applied = proposals[Len(proposals)].action
       /\ node = "finalise" => applied \in valid /\ (gate => applied \in approves)

\* An action rejected at one attempt is not executed by a later attempt of the
\* same decision, even if the agent proposes it again.
RejectedNeverExecutes == Decided => \A i \in 1 .. Len(proposals) :
    proposals[i].verdict = "rejected" => applied # proposals[i].action

\* A proposal is marked as applied exactly when it is the one that was
\* executed: the last, not a fallback, not replaced for being invalid.
MarkedIffExecuted == node = "finalise" => \A i \in 1 .. Len(proposals) :
    proposals[i].marked <=>
        /\ i = Len(proposals)
        /\ ~exhausted
        /\ Semantic(proposals[i].action)
        /\ applied = proposals[i].action

\* The counters of a decision agree with its proposals, and the cap bounds
\* them: a decision asks the agent at most retry_cap + 1 times.
RetriesBounded == Decided =>
    /\ Len(proposals) = retries + 1
    /\ retries <= RetryCap
    /\ rejections = retries + (IF exhausted THEN 1 ELSE 0)
    /\ exhausted => retries = RetryCap

\* Nothing of an earlier decision, or of an earlier episode on the same thread,
\* enters this one: the agent is told of nothing on its first attempt and later
\* of the proposal just rejected, and the record speaks of the first proposal
\* and the last verdict of its own decision, or of none without the gate.
DecisionIsOwn ==
    /\ \A i \in 1 .. Len(proposals) :
        proposals[i].told = IF i = 1 THEN Null ELSE proposals[i - 1].action
    /\ node = "drive" /\ proposals # <<>> =>
        /\ record.proposed = proposals[1].action
        /\ record.verdict = IF gate THEN proposals[Len(proposals)].verdict ELSE "none"

\* Every episode comes to its end.
EpisodeEnds == <>Over

\* The graph keeps the promise of GatedDecision.
Promise == INSTANCE GatedDecision WITH
    executed <- IF node = "finalise" THEN applied ELSE Null

ImplementsGatedDecision == Promise!Spec
=============================================================================

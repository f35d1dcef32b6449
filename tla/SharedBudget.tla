---------------------------- MODULE SharedBudget ----------------------------
(***************************************************************************)
(* The file-locked provider budget that the workers of a study share       *)
(* (llm/budget.py, SharedBudgetGuard) and the steps of LLMClient.complete  *)
(* around it (llm/client.py).  A transaction holds the mutex from reading  *)
(* the ledger to replacing the file, so each is one action; a worker may   *)
(* be killed between any two of them, and the ledger outlives it.          *)
(*                                                                         *)
(* spent, hidden and metered are history variables: the tokens the         *)
(* provider has billed, those of them that it never reported (the answers  *)
(* lost before a retry, what an estimate leaves out), and those of the     *)
(* responses written to the call journal.                                  *)
(***************************************************************************)
EXTENDS Integers, FiniteSets, Functions

CONSTANTS
    Owner,        \* the workers, one ledger owner each
    MaxCalls,     \* --max-calls
    MaxTokens,    \* --max-tokens
    Reservation,  \* what max_token_reservation can answer
    MaxAttempts,  \* provider attempts inside one charged call
    Overrun,      \* tokens a response may use beyond its reservation
    Complete      \* the values usage_complete can take

ASSUME BudgetAssumption ==
    /\ IsFiniteSet(Owner)
    /\ MaxCalls \in Nat
    /\ MaxTokens \in Nat
    /\ Reservation \subseteq Nat
    /\ MaxAttempts \in Nat \ {0}
    /\ Overrun \in Nat
    /\ Complete \subseteq BOOLEAN

VARIABLES
    calls, tokens, uncertain, blocked,  \* the ledger's counters and circuit
    inFlight,                           \* the keys of in_flight
    reserved,                           \* in_flight[o], 0 for an absent key
    usage,                              \* by_owner
    pc, call,                           \* each worker's place in complete()
    spent, hidden, metered

ledger == <<calls, tokens, uncertain, blocked, inFlight, reserved, usage>>
vars == <<calls, tokens, uncertain, blocked, inFlight, reserved, usage,
          pc, call, spent, hidden, metered>>

Usage == [calls : Nat, tokens : Nat, uncertain : Nat]
Call == [reserve : Nat, attempt : Nat, count : Nat, complete : BOOLEAN,
         permanent : BOOLEAN]
Place == {"down", "ready", "calling", "answered", "logged", "failed", "fatal"}

NoUsage == [calls |-> 0, tokens |-> 0, uncertain |-> 0]
NoCall == [reserve |-> 0, attempt |-> 0, count |-> 0, complete |-> FALSE,
           permanent |-> FALSE]

TypeOK ==
    /\ calls \in Nat /\ tokens \in Nat /\ uncertain \in Nat
    /\ blocked \in BOOLEAN
    /\ inFlight \subseteq Owner
    /\ reserved \in [Owner -> Nat]
    /\ usage \in [Owner -> Usage]
    /\ pc \in [Owner -> Place]
    /\ call \in [Owner -> Call]
    /\ spent \in Nat /\ hidden \in Nat /\ metered \in Nat

Init ==
    /\ calls = 0 /\ tokens = 0 /\ uncertain = 0 /\ blocked = FALSE
    /\ inFlight = {}
    /\ reserved = [o \in Owner |-> 0]
    /\ usage = [o \in Owner |-> NoUsage]
    /\ pc = [o \in Owner |-> "down"]
    /\ call = [o \in Owner |-> NoCall]
    /\ spent = 0 /\ hidden = 0 /\ metered = 0

-----------------------------------------------------------------------------
Committed == FoldFunction(+, 0, reserved)

\* n tokens, u of them uncertain, go to the total and to the owner's row.
Charge(o, n, u) ==
    /\ tokens' = tokens + n
    /\ uncertain' = uncertain + u
    /\ usage' = [usage EXCEPT ![o].tokens = @ + n, ![o].uncertain = @ + u]

Reserve(o, r) ==
    /\ inFlight' = inFlight \cup {o}
    /\ reserved' = [reserved EXCEPT ![o] = r]

Release(o) ==
    /\ inFlight' = inFlight \ {o}
    /\ reserved' = [reserved EXCEPT ![o] = 0]

\* Mutated: the constructor clears what the owner left in flight.
StartAfresh(o) ==
    /\ pc[o] = "down"
    /\ Release(o)
    /\ pc' = [pc EXCEPT ![o] = "ready"]
    /\ UNCHANGED <<calls, tokens, uncertain, blocked, usage, call, spent, hidden, metered>>

\* A worker starts, or starts again after a crash, on the ledger as it stands.
Start(o) ==
    /\ pc[o] = "down"
    /\ pc' = [pc EXCEPT ![o] = "ready"]
    /\ UNCHANGED <<ledger, call, spent, hidden, metered>>

\* Mutated: other workers' reservations are not looked at.
MayChargeAlone(o, r) ==
    /\ ~blocked
    /\ o \notin inFlight
    /\ tokens + r <= MaxTokens
    /\ calls + 1 <= MaxCalls

\* charge_call's checks, in one transaction with the charge.
MayCharge(o, r) ==
    /\ ~blocked
    /\ o \notin inFlight
    /\ tokens < MaxTokens
    /\ tokens + Committed + r <= MaxTokens
    /\ calls + 1 <= MaxCalls

\* A cache miss: reserve, then hand the request to the provider.
ChargeCall(o) == \E r \in Reservation :
    /\ pc[o] = "ready"
    /\ MayCharge(o, r)
    /\ calls' = calls + 1
    /\ usage' = [usage EXCEPT ![o].calls = @ + 1]
    /\ Reserve(o, r)
    /\ pc' = [pc EXCEPT ![o] = "calling"]
    /\ call' = [call EXCEPT ![o] = [NoCall EXCEPT !.reserve = r, !.attempt = 1]]
    /\ UNCHANGED <<tokens, uncertain, blocked, spent, hidden, metered>>

\* The answer to an attempt is lost in transport after the provider did u
\* tokens of work, and the provider layer submits the request again.
RetryAttempt(o) == \E u \in 0 .. call[o].reserve :
    /\ pc[o] = "calling"
    /\ call[o].attempt < MaxAttempts
    /\ spent' = spent + u /\ hidden' = hidden + u
    /\ call' = [call EXCEPT ![o].attempt = @ + 1]
    /\ UNCHANGED <<ledger, pc, metered>>

\* provider.complete returns: u tokens were used and n are reported.  With
\* incomplete usage metadata n is an estimate, unrelated to u.
Answer(o) == \E u \in 0 .. call[o].reserve + Overrun, c \in Complete :
    \E n \in (IF c THEN {u} ELSE 0 .. call[o].reserve + Overrun) :
        /\ pc[o] = "calling"
        /\ spent' = spent + u
        /\ hidden' = hidden + (IF u > n THEN u - n ELSE 0)
        /\ pc' = [pc EXCEPT ![o] = "answered"]
        /\ call' = [call EXCEPT ![o].count = n, ![o].complete = c]
        /\ UNCHANGED <<ledger, metered>>

\* provider.complete raises; permanent is an HTTP 400..404 (401, 402, ...).
Fail(o) == \E u \in 0 .. call[o].reserve, permanent \in BOOLEAN :
    /\ pc[o] = "calling"
    /\ spent' = spent + u
    /\ pc' = [pc EXCEPT ![o] = "failed"]
    /\ call' = [call EXCEPT ![o].permanent = permanent]
    /\ UNCHANGED <<ledger, hidden, metered>>

\* The answer is cached and journalled before it is charged.
Journal(o) ==
    /\ pc[o] = "answered"
    /\ metered' = metered + call[o].count
    /\ pc' = [pc EXCEPT ![o] = "logged"]
    /\ UNCHANGED <<ledger, call, spent, hidden>>

\* Mutated: usage that is not complete is not charged.
ChargeTokensIfComplete(o) ==
    /\ pc[o] = "logged"
    /\ Charge(o, IF call[o].complete THEN call[o].count ELSE 0, 0)
    /\ Release(o)
    /\ pc' = [pc EXCEPT ![o] = "ready"]
    /\ UNCHANGED <<calls, blocked, call, spent, hidden, metered>>

\* Incomplete usage leaves the owner in in_flight with nothing reserved.
ChargeTokens(o) ==
    /\ pc[o] = "logged"
    /\ Charge(o, call[o].count, 0)
    /\ IF call[o].complete THEN Release(o) ELSE Reserve(o, 0)
    /\ pc' = [pc EXCEPT ![o] = "ready"]
    /\ UNCHANGED <<calls, blocked, call, spent, hidden, metered>>

\* Mutated: nothing reserved, nothing done; a failed call is taken to be free.
SettleFailedCallIfReserved(o) ==
    /\ pc[o] = "failed" /\ reserved[o] > 0
    /\ Charge(o, reserved[o], reserved[o])
    /\ Release(o)
    /\ pc' = [pc EXCEPT ![o] = IF call[o].permanent THEN "fatal" ELSE "ready"]
    /\ UNCHANGED <<calls, blocked, call, spent, hidden, metered>>

SettleFailedCallFree(o) ==
    /\ pc[o] = "failed"
    /\ Release(o)
    /\ pc' = [pc EXCEPT ![o] = IF call[o].permanent THEN "fatal" ELSE "ready"]
    /\ UNCHANGED <<calls, tokens, uncertain, usage, blocked, call, spent, hidden, metered>>

\* What a failed call used is unknown: its whole reservation is charged.
SettleFailedCall(o) ==
    /\ pc[o] = "failed"
    /\ Charge(o, reserved[o], reserved[o])
    /\ Release(o)
    /\ pc' = [pc EXCEPT ![o] = IF call[o].permanent THEN "fatal" ELSE "ready"]
    /\ UNCHANGED <<calls, blocked, call, spent, hidden, metered>>

Block(o) ==
    /\ pc[o] = "fatal"
    /\ blocked' = TRUE
    /\ pc' = [pc EXCEPT ![o] = "ready"]
    /\ UNCHANGED <<calls, tokens, uncertain, inFlight, reserved, usage,
                   call, spent, hidden, metered>>

\* The process dies; its request may still be served and billed.
Crash(o) ==
    /\ pc[o] # "down"
    /\ \E u \in (IF pc[o] = "calling" THEN 0 .. call[o].reserve ELSE {0}) :
           spent' = spent + u
    /\ pc' = [pc EXCEPT ![o] = "down"]
    /\ call' = [call EXCEPT ![o] = NoCall]
    /\ UNCHANGED <<ledger, hidden, metered>>

Worker(o) ==
    \/ Start(o) \/ ChargeCall(o) \/ RetryAttempt(o) \/ Answer(o) \/ Fail(o)
    \/ Journal(o) \/ ChargeTokens(o) \/ SettleFailedCall(o) \/ Block(o)

Next == \E o \in Owner : Worker(o) \/ Crash(o)

Spec == Init /\ [][Next]_vars

\* A running worker goes on: a provider request ends by its deadline and the
\* steps after it wait for nobody.  Retries are finite; crashes are not fair.
FairSpec ==
    /\ Spec
    /\ \A o \in Owner :
        /\ WF_vars(Answer(o) \/ Fail(o))
        /\ WF_vars(Journal(o) \/ ChargeTokens(o) \/ SettleFailedCall(o) \/ Block(o))

-----------------------------------------------------------------------------
\* enrich_analysis: the sums of the workers' statuses, each the row of its owner,
\* and the check that refuses the study when the journals do not explain them.
StatusSums == [field \in {"calls", "tokens", "uncertain"} |->
    FoldFunction(+, 0, [o \in Owner |-> usage[o][field]])]

TokenLedgerRefused == metered + StatusSums.uncertain # StatusSums.tokens

\* A request is on the ledger before it is made and until its outcome is
\* charged, with exactly what was reserved for it.
CallOnLedger == \A o \in Owner :
    pc[o] \in {"calling", "answered", "logged", "failed"} =>
        /\ o \in inFlight
        /\ reserved[o] = call[o].reserve

\* The tokens the provider billed are never more than those charged or
\* reserved, give or take one overrun per worker: a failed request, a crash or
\* an answer submitted again leaves no spending unaccounted.
SpendCovered ==
    spent <= tokens + Committed + Overrun * Cardinality(Owner)

\* What the ledger misses of the provider's bill is only what the provider never
\* reported: crashes and failures, at any point of a call, hide nothing.
ReportedCovered ==
    spent - hidden <= tokens + Committed + Overrun * Cardinality(Owner)

\* The rows of by_owner add up to the global counters (what the reporting
\* script sums), and with no call left unresolved the ledger equals the
\* journalled responses plus the liability of failed calls (what it insists on).
LedgerReconciles ==
    /\ [calls |-> calls, tokens |-> tokens, uncertain |-> uncertain] = StatusSums
    /\ inFlight = {} => ~TokenLedgerRefused

\* An owner whose last call is unresolved, whether its process died or its
\* usage was incomplete, never calls again: it fails closed over restarts.
FailsClosed == [][\A o \in Owner :
    o \in inFlight /\ pc[o] \in {"down", "ready"} =>
        o \in inFlight' /\ pc'[o] \in {"down", "ready"}]_vars

\* Once one worker has opened the circuit, no worker is granted a call.
BlockStopsEveryone == [][blocked => blocked' /\ calls' = calls]_vars

\* The guard keeps the promise of CallBudget, its exposure being what is
\* charged or in flight.
Contract == INSTANCE CallBudget WITH
    granted <- calls, exposure <- tokens + Committed, closed <- blocked

ImplementsCallBudget == Contract!Spec

\* Every request of a worker that keeps running is settled: it does not stay
\* in the middle of one.
CallsResolve == \A o \in Owner :
    pc[o] = "calling" ~> pc[o] \in {"ready", "down"}
=============================================================================

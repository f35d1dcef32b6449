---------------------------- MODULE BudgetGuard ----------------------------
(***************************************************************************)
(* The budget of one process (budget.py, BudgetGuard).  With a path it     *)
(* writes its counters before every request and after every outcome, and   *)
(* a process started again reads them back; without one they are only in   *)
(* memory and end with the process.  The caller is LLMClient.complete:     *)
(* one call at a time, answered or failed, a permanent failure blocks.     *)
(*                                                                         *)
(* Each method writes last and by a rename, so a kill inside one leaves    *)
(* what a kill before it or after it leaves.                               *)
(***************************************************************************)
EXTENDS Integers

CONSTANTS
    MaxCalls, MaxTokens,
    MaxReservation,   \* the largest token_reservation; 0 without an estimate
    Excess,           \* tokens an answer may use beyond its reservation
    MaxRestarts       \* bound on the kills

\* What the constructor checks (budget.py:16), and what a reservation is.
ASSUME BoundsAreNat ==
    /\ MaxCalls \in Nat /\ MaxTokens \in Nat
    /\ MaxReservation \in Nat /\ Excess \in Nat /\ MaxRestarts \in Nat

VARIABLES
    onDisk,     \* whether the guard has a path
    guard,      \* the counters in memory
    saved,      \* and in the file
    phase,      \* "idle", "request" or "failed": where complete is
    restarts

guardVars == <<onDisk, guard, saved, phase, restarts>>

Zero == [calls |-> 0, tokens |-> 0, pending |-> FALSE, reserved |-> 0, blocked |-> FALSE]

GuardInit ==
    /\ onDisk \in BOOLEAN
    /\ guard = Zero /\ saved = Zero
    /\ phase = "idle" /\ restarts = 0

Persist == saved' = IF onDisk THEN guard' ELSE saved

\* The checks of charge_call, in its order.
MayCharge(reservation) ==
    /\ ~guard.blocked
    /\ ~(onDisk /\ guard.pending)
    /\ guard.tokens < MaxTokens
    /\ guard.tokens + reservation <= MaxTokens
    /\ guard.calls + 1 <= MaxCalls

ChargeCall == \E reservation \in 0 .. MaxReservation :
    /\ phase = "idle" /\ MayCharge(reservation)
    /\ guard' = [guard EXCEPT !.calls = @ + 1, !.pending = TRUE, !.reserved = reservation]
    /\ Persist
    /\ phase' = "request"
    /\ UNCHANGED <<onDisk, restarts>>

\* The answer is charged, what was reserved for it given back.  Incomplete
\* usage leaves the call pending, which stops a guard with a path.
ChargeTokens == \E count \in 0 .. guard.reserved + Excess, complete \in BOOLEAN :
    /\ phase = "request"
    /\ guard' = [guard EXCEPT !.tokens = @ + count, !.pending = ~complete, !.reserved = 0]
    /\ Persist
    /\ phase' = "idle"
    /\ UNCHANGED <<onDisk, restarts>>

\* A failed request is charged what was reserved; one without a reservation
\* stays pending.
SettleFailedCall ==
    /\ phase = "request"
    /\ guard' = IF guard.reserved > 0
                THEN [guard EXCEPT !.tokens = @ + guard.reserved, !.reserved = 0,
                                   !.pending = FALSE]
                ELSE guard
    /\ Persist
    /\ phase' = "failed"
    /\ UNCHANGED <<onDisk, restarts>>

\* A permanent error blocks, any other does not.
AfterFailure ==
    /\ phase = "failed"
    /\ guard' \in {guard, [guard EXCEPT !.blocked = TRUE]}
    /\ Persist
    /\ phase' = "idle"
    /\ UNCHANGED <<onDisk, restarts>>

\* Mutated: the file has the counters alone.
RestartUnblocked ==
    /\ onDisk /\ restarts < MaxRestarts
    /\ restarts' = restarts + 1
    /\ guard' = [saved EXCEPT !.blocked = FALSE]
    /\ phase' = "idle"
    /\ UNCHANGED <<onDisk, saved>>

\* The process is killed anywhere and another one constructs the guard.
Restart ==
    /\ onDisk /\ restarts < MaxRestarts
    /\ restarts' = restarts + 1
    /\ guard' = saved
    /\ phase' = "idle"
    /\ UNCHANGED <<onDisk, saved>>

GuardNext == ChargeCall \/ ChargeTokens \/ SettleFailedCall \/ AfterFailure \/ Restart

GuardSpec == GuardInit /\ [][GuardNext]_guardVars

-----------------------------------------------------------------------------
Promise == INSTANCE CallBudget WITH
    granted <- guard.calls, exposure <- guard.tokens + guard.reserved,
    closed <- guard.blocked, Overrun <- Excess

\* The guard of a single process, killed and restarted at any moment, keeps the
\* promise of the shared one: no call beyond the ceiling, no grant that could
\* cross the token ceiling, and what has been blocked stays blocked.
GuardKeepsPromise == Promise!Spec
=============================================================================

----------------------------- MODULE CallBudget -----------------------------
(***************************************************************************)
(* What a shared provider budget promises, whatever its workers do: calls  *)
(* are granted one at a time up to a ceiling, the exposure (tokens charged *)
(* or reserved) grows with a grant and never past its own ceiling, later   *)
(* only by what a response overruns its reservation, and a closed circuit  *)
(* stays closed and grants nothing.                                        *)
(***************************************************************************)
EXTENDS Naturals

CONSTANTS
    MaxCalls, MaxTokens,
    Overrun    \* tokens a response may use beyond its reservation

VARIABLES granted, exposure, closed

vars == <<granted, exposure, closed>>

Init == granted = 0 /\ exposure = 0 /\ closed = FALSE

Grant ==
    /\ ~closed
    /\ granted < MaxCalls
    /\ granted' = granted + 1
    /\ exposure' \in exposure .. MaxTokens
    /\ UNCHANGED closed

\* An outcome is settled: what was reserved for it, give or take, is charged.
Settle == exposure' \in 0 .. exposure + Overrun /\ UNCHANGED <<granted, closed>>

Close == closed' = TRUE /\ UNCHANGED <<granted, exposure>>

Next == Grant \/ Settle \/ Close

Spec == Init /\ [][Next]_vars
=============================================================================

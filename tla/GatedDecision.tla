--------------------------- MODULE GatedDecision ---------------------------
(***************************************************************************)
(* What the twin-in-the-loop promises of each decision, whatever the agent *)
(* proposes and however often: one action is executed, it is a no-op or an *)
(* action that is valid in the network as it stands, and with the gate on  *)
(* it is one that the twin approves there.                                 *)
(***************************************************************************)
CONSTANTS Remedy, NoOp, Null

VARIABLES
    gate,      \* whether the twin stands between proposal and execution
    valid,     \* the remedies that are semantically valid now
    approves,  \* the remedies the twin approves now
    executed   \* what this decision executed, Null before that

vars == <<gate, valid, approves, executed>>

Allowed == {a \in Remedy : a \in valid /\ (gate => a \in approves)}

Init ==
    /\ gate \in BOOLEAN
    /\ valid \subseteq Remedy
    /\ approves \subseteq Remedy
    /\ executed = Null

\* The network moves on and a new decision is due.
Advance ==
    /\ valid' \subseteq Remedy
    /\ approves' \subseteq Remedy
    /\ executed' = Null
    /\ UNCHANGED gate

Decide ==
    /\ executed = Null
    /\ executed' \in {NoOp} \cup Allowed
    /\ UNCHANGED <<gate, valid, approves>>

Next == Advance \/ Decide

Spec == Init /\ [][Next]_vars
=============================================================================

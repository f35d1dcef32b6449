------------------------------ MODULE MCSweep ------------------------------
\* Two runs that share a prompt, and a third of another process.  With one call
\* to each start of a process the first run needs the ceiling to be reached.
EXTENDS Sweep
CONSTANTS p1, p2, r1, r2, r3
MCRunOrder == <<r1, r2, r3>>
MCMine == [p \in {p1, p2} |-> IF p = p1 THEN {r1, r2} ELSE {r3}]
MCPrompts == [r \in {r1, r2, r3} |-> IF r = r1 THEN <<1, 2>> ELSE IF r = r2 THEN <<2>> ELSE <<1>>]
=============================================================================

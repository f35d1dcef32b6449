--------------------------- MODULE MCSharedBudget ---------------------------
(* Small instances of SharedBudget: workers are interchangeable.            *)
EXTENDS SharedBudget, TLC

OwnerSymmetry == Permutations(Owner)
=============================================================================

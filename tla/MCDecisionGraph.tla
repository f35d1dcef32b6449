-------------------------- MODULE MCDecisionGraph --------------------------
(* A small episode of DecisionGraph: two decisions, one tick between them.  *)
EXTENDS DecisionGraph, TLC

RemedySymmetry == Permutations(Remedy)
=============================================================================

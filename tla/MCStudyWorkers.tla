--------------------------- MODULE MCStudyWorkers ---------------------------
(***************************************************************************)
(* Two seeds for at most two workers, and two processes: the same worker   *)
(* twice, two workers of one partition, or workers of two partitions.  Two *)
(* experiments and two sets of directories, so that a process may differ   *)
(* from the manifest or from its own recorded configuration.               *)
(***************************************************************************)
EXTENDS StudyWorkers, TLC

Symmetry == Permutations(Proc) \cup Permutations(Experiment) \cup Permutations(Dirs)
=============================================================================

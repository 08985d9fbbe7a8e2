---------------------------- MODULE MCSharedPtr ----------------------------
(***************************************************************************)
(* Instances of SharedPtr for TLC. Threads, variables and objects are      *)
(* model values; the runs without liveness use the symmetry of threads and *)
(* variables, and of objects where all of them derive from                 *)
(* enable_shared_from_this or none.                                        *)
(***************************************************************************)
EXTENDS SharedPtr, TLC

ThreadsAndVars ==
  Permutations(Threads) \cup Permutations(SharedVars) \cup Permutations(WeakVars)

Symmetry == ThreadsAndVars \cup Permutations(Objects)
=============================================================================

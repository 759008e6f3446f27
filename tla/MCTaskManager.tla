---------------------------- MODULE MCTaskManager ----------------------------
(***************************************************************************)
(* TaskManager on a small instance: task addresses and thread ids are      *)
(* interchangeable model values, descriptors are numbers.                  *)
(***************************************************************************)
EXTENDS TaskRefinement, TLC

Interchangeable == Permutations(Tasks) \cup Permutations(Ids)
=============================================================================

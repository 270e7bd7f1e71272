---------------------------- MODULE MCTaskSweep -----------------------------
(* Tasks are interchangeable in the safety runs. *)
EXTENDS TaskSweep, TLC

TaskSymmetry == Permutations(Tasks)
=============================================================================

---------------------------- MODULE MCPoolSizing ----------------------------
(* Slots and connection tasks are interchangeable for the safety runs. *)
EXTENDS PoolSizing, TLC

PoolSymmetry == Permutations(Slots) \cup Permutations(Submitters)
=============================================================================

----------------------------- MODULE MCDispatch -----------------------------
(* Model-checking instances of Dispatch. *)
EXTENDS Dispatch, TLC

\* Interchangeable requests (safety only).
RequestSymmetry == Permutations(Requests)

\* Interchangeable requests, and interchangeable well-behaved workers.
FullSymmetry == Permutations(Requests) \cup Permutations(Workers)
=============================================================================

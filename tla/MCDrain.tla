------------------------------ MODULE MCDrain ------------------------------
(* Drain on a small instance: the clients take the listeners in turn.       *)
EXTENDS Drain

CONSTANTS c1, c2, c3, l1, l2

MCHome == (c1 :> l1) @@ (c2 :> l2) @@ (c3 :> l1)
=============================================================================

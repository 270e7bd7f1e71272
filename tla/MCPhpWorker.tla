---------------------------- MODULE MCPhpWorker ----------------------------
(* The blocking worker with the PHP handler: a long script and a short one. *)
EXTENDS PhpWorker

CONSTANTS r1, r2

MCOutputs == [r \in Requests |-> IF r = r1 THEN 3 ELSE 1]
=============================================================================

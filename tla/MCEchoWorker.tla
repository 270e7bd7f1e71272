---------------------------- MODULE MCEchoWorker ----------------------------
(* Plain requests are interchangeable in the safety run. *)
EXTENDS EchoWorker, TLC

PlainSymmetry == Permutations(Requests \ (Streamed \cup Tunnels))
=============================================================================

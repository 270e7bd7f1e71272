------------------------------ MODULE MCTunnel ------------------------------
(* Model-checking instances of Tunnel. *)
EXTENDS Tunnel, TLC

TunnelSymmetry == Permutations(Tunnels)
=============================================================================

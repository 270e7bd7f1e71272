----------------------------- MODULE MCDelivery -----------------------------
(* Two requests on one connection: one with a body of two pieces, one with none. *)
EXTENDS Delivery

MCSize == <<2, 0>>
MCPieces == <<2, 1>>
MCStream == <<<<1, 0>>, <<1, 1>>, <<1, 2>>, <<2, 0>>>>

=============================================================================

---------------------------- MODULE MCRecvStream ----------------------------
(* Instance of RecvStream for TLC: a stream of seven distinct bytes, a     *)
(* smaller ring, segments of up to three bytes.                            *)
EXTENDS RecvStream

MCStream == <<"a", "b", "c", "d", "e", "f", "g">>
=============================================================================

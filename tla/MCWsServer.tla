----------------------------- MODULE MCWsServer -----------------------------
(* WsServer on a small instance.                                            *)
EXTENDS WsServer, TLC

CONSTANTS p1, e1

MCMatches == e1 :> {p1}

Symmetry == Permutations(Sockets) \cup Permutations(Objects)
=============================================================================

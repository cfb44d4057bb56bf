----------------------------- MODULE MCMultiP2P -----------------------------
(* Three calls of addPeer, two of them for the same peer. *)
EXTENDS MultiP2P, TLC

CONSTANTS c1, c2, c3, p, q

TwoOnP == c1 :> p @@ c2 :> p @@ c3 :> q
=============================================================================

------------------------ MODULE MCSentinelElection ------------------------
(* Three nodes that list each other in rotating order. *)
EXTENDS SentinelElection, TLC

Rotating == 1 :> <<2, 3>> @@ 2 :> <<3, 1>> @@ 3 :> <<1, 2>>

(* The instances are among those that the theorems are about. *)
ASSUME Chosen == Punctual /\ (MaxLosses = 0 => Cascading)
=============================================================================

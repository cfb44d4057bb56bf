------------------------------- MODULE MCBus -------------------------------
(* Two subscriptions of one type and one of another, two envelopes of the   *)
(* one type, for different rooms, and one of the other.                     *)
EXTENDS Bus, TLC

CONSTANTS s1, s2, s3, v1, v2, v3, t1, t2, r1, r2

SubTypes == s1 :> t1 @@ s2 :> t1 @@ s3 :> t2
SubRooms == s1 :> NoRoom @@ s2 :> r1 @@ s3 :> NoRoom
EnvTypes == v1 :> t1 @@ v2 :> t1 @@ v3 :> t2
EnvRooms == v1 :> r1 @@ v2 :> r2 @@ v3 :> NoRoom
=============================================================================

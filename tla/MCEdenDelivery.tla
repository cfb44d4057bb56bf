--------------------------- MODULE MCEdenDelivery ---------------------------
(* Small instances of EdenDelivery; each .cfg picks one topology. *)
EXTENDS EdenDelivery, TLC

CONSTANTS a, b, c, e1, e2, s1, s2, s3

(* Two instances with each other as remote, as in the README's quick start. *)
PairPeers == a :> {b} @@ b :> {a}

(* One hub on a MultiUdpTransport and two instances that know only the hub. *)
HubPeers == a :> {b, c} @@ b :> {a} @@ c :> {a}

(* One event in each direction, or one from a. *)
BothWays == e1 :> a @@ e2 :> b
OneFromA == e1 :> a

(* Two subscriptions at b and one at a, or one at b and one at c. *)
TwoAtB == s1 :> b @@ s2 :> b @@ s3 :> a
AtBAndC == s1 :> b @@ s2 :> c

WantsAll == [s \in DOMAIN Owner |-> {e1, e2}]
WantsFirst == [s \in DOMAIN Owner |-> {e1}]
=============================================================================

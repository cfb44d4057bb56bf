----------------------------- MODULE HolePuncher -----------------------------
(***************************************************************************)
(* The HolePunchers of two nodes that know each other's endpoint: each      *)
(* sends probes until it gives up or, having heard one of the other's, for  *)
(* a grace period after that.  Probes are datagrams: any of them may be     *)
(* lost, which is also what a NAT does that lets none through.              *)
(***************************************************************************)
VARIABLES
  listens,     \* nodes whose punch is not resolved
  probing,     \* nodes whose interval still sends probes
  probes       \* nodes of which a probe is on its way to the other

puncher == <<listens, probing, probes>>

PuncherInit == listens = {} /\ probing = {} /\ probes = {}

(* punch: the interval, the listener, and a first probe at once. *)
Punch(n) ==
  /\ listens' = listens \union {n}
  /\ probing' = probing \union {n}
  /\ probes' = probes \union {n}

(* The interval's next probe, or on a closed socket its end. *)
SendProbe(n, socketOpen) ==
  /\ n \in probing
  /\ IF socketOpen
     THEN probes' = probes \union {n} /\ UNCHANGED probing
     ELSE probing' = probing \ {n} /\ UNCHANGED probes
  /\ UNCHANGED listens

LoseProbe(n) ==
  /\ n \in probes
  /\ probes' = probes \ {n}
  /\ UNCHANGED <<listens, probing>>

(* Slip: a node that has heard the other falls silent. *)
HearsNoGrace(n, m) ==
  /\ n \in listens /\ m \in probes
  /\ listens' = listens \ {n}
  /\ probes' = probes \ {m}
  /\ probing' = probing \ {n}

(* A probe of m reaches n while it listens; n goes on sending. *)
Hears(n, m) ==
  /\ n \in listens /\ m \in probes
  /\ listens' = listens \ {n}
  /\ probes' = probes \ {m}
  /\ UNCHANGED probing

(* The grace period is over. *)
GraceEnds(n) ==
  /\ n \in probing \ listens
  /\ probing' = probing \ {n}
  /\ UNCHANGED <<listens, probes>>

GivesUp(n) ==
  /\ n \in listens
  /\ listens' = listens \ {n}
  /\ probing' = probing \ {n}
  /\ UNCHANGED probes
=============================================================================

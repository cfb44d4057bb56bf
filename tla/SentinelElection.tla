-------------------------- MODULE SentinelElection --------------------------
(***************************************************************************)
(* SentinelElection on the nodes of a full mesh: who keeps the group's      *)
(* connection to the signaling server, and who takes over when the holder   *)
(* is gone.  The sentinel sends heartbeats with its epoch and the order of  *)
(* its successors; a follower that misses them promotes itself after a      *)
(* timeout that grows with its place in that order; of two sentinels the    *)
(* one with the higher epoch, then the lower id, wins.                      *)
(*                                                                          *)
(* Time is discrete.  Timers fire on time, and a heartbeat that is not lost *)
(* arrives within Delay: what the time-outs are chosen for can only be said *)
(* relative to that.                                                        *)
(*                                                                          *)
(* The field currentSentinelId is assigned and never read: it is left out.  *)
(*                                                                          *)
(* Definitions under "Slip" are mistakes the code does not make: each       *)
(* breaks a property when put in the place of the one that follows.         *)
(***************************************************************************)
EXTENDS Integers, Sequences, FiniteSets

CONSTANTS
  Node,        \* peer ids: integers, compared as the ids' strings are
  Successors,  \* Successors[n]: getSuccessors() on n, the keys of its peer map
  Interval,    \* heartbeatIntervalMs
  Timeout,     \* heartbeatTimeoutMs
  Step,        \* cascadeStepMs
  Delay,       \* a heartbeat arrives within this time
  MaxLosses,   \* bound: heartbeats lost
  MaxStops,    \* bound: calls of stop
  MaxEpoch     \* bound: epochs promoted to

(* The first election is made once there is a peer. *)
ASSUME NodeType ==
  /\ Node \subseteq Int
  /\ IsFiniteSet(Node)
  /\ Cardinality(Node) >= 2
ASSUME SuccessorsType ==
  /\ Successors \in [Node -> Seq(Node)]
  /\ \A n \in Node : \A i \in DOMAIN Successors[n] :      \* a node is not
        Successors[n][i] # n                              \* its own peer
  /\ \A n \in Node : \A i, j \in DOMAIN Successors[n] :   \* keys of a Map
        Successors[n][i] = Successors[n][j] => i = j
ASSUME TimesType == {Interval, Timeout, Step} \subseteq Nat \ {0} /\ Delay \in Nat
ASSUME BoundsType == {MaxStops, MaxEpoch, MaxLosses} \subseteq Nat

VARIABLES
  role,            \* "sentinel" or "follower", by the field sentinel, or
                   \* "stopped": not started yet, or stop was called
  epoch,           \* the field epoch
  heartbeatTimer,  \* time to the next heartbeat: {} or {t}
  timeoutTimer,    \* time to the promotion: {} or {t}
  net,             \* heartbeats in flight
  stops,           \* calls of stop so far
  losses,          \* heartbeats lost so far
  (* What the clock of an observer shows; no action reads the rest. *)
  splitFor,        \* time with more than one sentinel, since the last start
  vacantFor,       \* time without one, likewise
  steadyFor        \* time with one sentinel, since the last start; it stays
                   \* at Steady once there

faults == <<stops, losses>>
observed == <<splitFor, vacantFor, steadyFor>>
vars == <<role, epoch, heartbeatTimer, timeoutTimer, net, faults, observed>>

(* Long enough for the last heartbeat of a former sentinel, which carries   *)
(* another order, to arrive and for one of the present sentinel to follow.  *)
Steady == (MaxLosses + 1) * Interval + 2 * Delay + 1

(* Two sentinels find out about each other as fast as heartbeats allow; a   *)
(* sentinel that is gone is replaced by the last in the order at worst.     *)
SplitBound == (MaxLosses + 1) * Interval + Delay
VacancyBound == Timeout + (Cardinality(Node) - 2) * Step + Delay

(* Times that suit the network: a heartbeat arrives before the next one is  *)
(* sent, and a follower waits for longer than heartbeats can be missing.    *)
Punctual == Delay < Interval /\ SplitBound < Timeout

(* The cascade needs more: no heartbeat is lost, what the one who takes     *)
(* over sends arrives before the next in the order acts, and every node     *)
(* lists all the others, so that no two have the same place.                *)
Cascading ==
  /\ Punctual
  /\ MaxLosses = 0
  /\ 2 * Delay < Step
  /\ \A n \in Node : \A p \in Node \ {n} : \E i \in DOMAIN Successors[n] : Successors[n][i] = p

(* The observer's clocks stop when they have shown what they are to show. *)
Later(clock, bound) == IF clock <= bound THEN clock + 1 ELSE clock

Running == {n \in Node : role[n] \in {"sentinel", "follower"}}
Sentinels == {n \in Node : role[n] = "sentinel"}

(* emitHeartbeat: MultiP2PTransport.send, a copy to every peer. *)
Heartbeats(n, e) ==
  {[to |-> p, from |-> n, epoch |-> e, left |-> Delay] : p \in Node \ {n}}

(* The place of n in the successors that "from" sends: 0 for the first, and *)
(* for one that is not among them (indexOf is -1).                          *)
Place(n, from) ==
  IF \E i \in DOMAIN Successors[from] : Successors[from][i] = n
  THEN (CHOOSE i \in DOMAIN Successors[from] : Successors[from][i] = n) - 1
  ELSE 0

(* Slip: of two sentinels with the same epoch none gives up. *)
BeatsByEpochOnly(e, n, f, m) == e > f

(* Split-brain resolution: the claim (e, n) of a sentinel beats (f, m). *)
Beats(e, n, f, m) == e > f \/ (e = f /\ n < m)

-----------------------------------------------------------------------------
Init ==
  /\ role = [n \in Node |-> "stopped"]
  /\ epoch = [n \in Node |-> 0]
  /\ heartbeatTimer = [n \in Node |-> {}]
  /\ timeoutTimer = [n \in Node |-> {}]
  /\ net = {}
  /\ stops = 0
  /\ losses = 0
  /\ splitFor = 0
  /\ vacantFor = 0
  /\ steadyFor = 0

(* The observer's clocks start again when a node joins, or joins again. *)
ANewNode == splitFor' = 0 /\ vacantFor' = 0 /\ steadyFor' = 0

(* A new election, or a new one after stop, and its startAsSentinel: what   *)
(* MultiP2PTransport does with its first peer.                              *)
StartAsSentinel(n) ==
  /\ n \notin Running
  /\ role' = [role EXCEPT ![n] = "sentinel"]
  /\ epoch' = [epoch EXCEPT ![n] = 1]
  /\ heartbeatTimer' = [heartbeatTimer EXCEPT ![n] = {Interval}]
  /\ net' = net \union Heartbeats(n, 1)
  /\ ANewNode
  /\ UNCHANGED <<timeoutTimer, faults>>

(* startAsFollower: resetTimeout without successors, so without cascade. *)
StartAsFollower(n) ==
  /\ n \notin Running
  /\ role' = [role EXCEPT ![n] = "follower"]
  /\ epoch' = [epoch EXCEPT ![n] = 0]
  /\ timeoutTimer' = [timeoutTimer EXCEPT ![n] = {Timeout}]
  /\ ANewNode
  /\ UNCHANGED <<heartbeatTimer, net, faults>>

(* The heartbeat interval fires. *)
EmitHeartbeat(n) ==
  /\ 0 \in heartbeatTimer[n]
  /\ heartbeatTimer' = [heartbeatTimer EXCEPT ![n] = {Interval}]
  /\ net' = net \union Heartbeats(n, epoch[n])
  /\ UNCHANGED <<role, epoch, timeoutTimer, faults, observed>>

(* Slip: a promoted node sends one heartbeat and starts no interval. *)
PromoteWithoutInterval(n) ==
  /\ 0 \in timeoutTimer[n]
  /\ role[n] = "follower"
  /\ epoch[n] < MaxEpoch
  /\ role' = [role EXCEPT ![n] = "sentinel"]
  /\ epoch' = [epoch EXCEPT ![n] = @ + 1]
  /\ timeoutTimer' = [timeoutTimer EXCEPT ![n] = {}]
  /\ net' = net \union Heartbeats(n, epoch[n] + 1)
  /\ vacantFor' = 0
  /\ UNCHANGED <<heartbeatTimer, faults, splitFor, steadyFor>>

(* The timeout fires on a follower: promote. *)
Promote(n) ==
  /\ 0 \in timeoutTimer[n]
  /\ role[n] = "follower"
  /\ epoch[n] < MaxEpoch
  /\ role' = [role EXCEPT ![n] = "sentinel"]
  /\ epoch' = [epoch EXCEPT ![n] = @ + 1]
  /\ timeoutTimer' = [timeoutTimer EXCEPT ![n] = {}]
  /\ heartbeatTimer' = [heartbeatTimer EXCEPT ![n] = {Interval}]
  /\ net' = net \union Heartbeats(n, epoch[n] + 1)
  /\ vacantFor' = 0
  /\ UNCHANGED <<faults, splitFor, steadyFor>>

(* A sentinel that loses takes the epoch of the winner and becomes a        *)
(* follower, with these timers.                                             *)
DemoteTo(n, m, beat, timeout) ==
  /\ m \in net /\ m.to = n
  /\ role[n] = "sentinel"
  /\ Beats(m.epoch, m.from, epoch[n], n)
  /\ role' = [role EXCEPT ![n] = "follower"]
  /\ epoch' = [epoch EXCEPT ![n] = m.epoch]
  /\ heartbeatTimer' = [heartbeatTimer EXCEPT ![n] = beat]
  /\ timeoutTimer' = [timeoutTimer EXCEPT ![n] = timeout]
  /\ net' = net \ {m}
  /\ UNCHANGED <<faults, observed>>

(* Slips: demote forgets to clear the interval; it keeps the timeout in the *)
(* field of the interval; or it does not start one.                         *)
DemoteKeepsInterval(n, m) == DemoteTo(n, m, heartbeatTimer[n], {Timeout})
DemoteWrongField(n, m) == DemoteTo(n, m, {Timeout}, {})
DemoteWithoutTimeout(n, m) == DemoteTo(n, m, {}, {})

(* handleHeartbeat on a sentinel that loses: demote, then resetTimeout      *)
(* without the successors of the heartbeat.                                 *)
Demote(n, m) == DemoteTo(n, m, {}, {Timeout})

(* Slip: every follower waits equally long. *)
FollowWithoutCascade(n, m) ==
  /\ m \in net /\ m.to = n
  /\ role[n] = "follower"
  /\ epoch' = [epoch EXCEPT ![n] = m.epoch]
  /\ timeoutTimer' = [timeoutTimer EXCEPT ![n] = {Timeout}]
  /\ net' = net \ {m}
  /\ UNCHANGED <<role, heartbeatTimer, faults, observed>>

(* handleHeartbeat on a follower, which takes any epoch for the current one. *)
Follow(n, m) ==
  /\ m \in net /\ m.to = n
  /\ role[n] = "follower"
  /\ epoch' = [epoch EXCEPT ![n] = m.epoch]
  /\ timeoutTimer' = [timeoutTimer EXCEPT ![n] = {Timeout + Place(n, m.from) * Step}]
  /\ net' = net \ {m}
  /\ UNCHANGED <<role, heartbeatTimer, faults, observed>>

(* handleHeartbeat on a sentinel that wins, or on an election not running. *)
Ignore(n, m) ==
  /\ m \in net /\ m.to = n
  /\ \/ n \notin Running
     \/ role[n] = "sentinel" /\ ~Beats(m.epoch, m.from, epoch[n], n)
  /\ net' = net \ {m}
  /\ UNCHANGED <<role, epoch, heartbeatTimer, timeoutTimer, faults, observed>>

(* stop, or the end of the process: both timers are cleared. *)
Stop(n) ==
  /\ n \in Running
  /\ stops < MaxStops
  /\ stops' = stops + 1
  /\ role' = [role EXCEPT ![n] = "stopped"]
  /\ heartbeatTimer' = [heartbeatTimer EXCEPT ![n] = {}]
  /\ timeoutTimer' = [timeoutTimer EXCEPT ![n] = {}]
  /\ UNCHANGED <<epoch, net, losses, observed>>

Lose(m) ==
  /\ losses < MaxLosses
  /\ m \in net
  /\ losses' = losses + 1
  /\ net' = net \ {m}
  /\ UNCHANGED <<role, epoch, heartbeatTimer, timeoutTimer, stops, observed>>

(* Nothing that is due is left behind when time passes. *)
Tick ==
  /\ \A n \in Node : 0 \notin heartbeatTimer[n] \union timeoutTimer[n]
  /\ \A m \in net : m.left > 0
  /\ heartbeatTimer' = [n \in Node |-> {t - 1 : t \in heartbeatTimer[n]}]
  /\ timeoutTimer' = [n \in Node |-> {t - 1 : t \in timeoutTimer[n]}]
  /\ net' = {[m EXCEPT !.left = @ - 1] : m \in net}
  /\ splitFor' = IF Cardinality(Sentinels) > 1 THEN Later(splitFor, SplitBound) ELSE 0
  /\ vacantFor' = IF Sentinels = {} /\ Running # {}
                  THEN Later(vacantFor, VacancyBound) ELSE 0
  /\ steadyFor' = IF Cardinality(Sentinels) = 1 \/ steadyFor = Steady
                  THEN Later(steadyFor, Steady - 1) ELSE 0
  /\ UNCHANGED <<role, epoch, faults>>

HandleHeartbeat(n, m) == Demote(n, m) \/ Follow(n, m) \/ Ignore(n, m)

(* What happens by itself: timers, deliveries, time. *)
Work ==
  \/ \E n \in Node : \/ EmitHeartbeat(n) \/ Promote(n)
                     \/ \E m \in net : HandleHeartbeat(n, m)
  \/ Tick

Next ==
  \/ Work
  \/ \E n \in Node : StartAsSentinel(n) \/ StartAsFollower(n) \/ Stop(n)
  \/ \E m \in net : Lose(m)

Spec == Init /\ [][Next]_vars

(* Timers fire, deliveries arrive and time passes: between two ticks only   *)
(* finitely much happens.  Nobody has to start or stop.                     *)
FairSpec == Spec /\ WF_vars(Work)

-----------------------------------------------------------------------------
Heartbeat == [to : Node, from : Node, epoch : Nat, left : 0..Delay]

(* Every variable keeps its type. *)
TypeOK ==
  /\ role \in [Node -> {"sentinel", "follower", "stopped"}]
  /\ epoch \in [Node -> Nat]
  /\ heartbeatTimer \in [Node -> SUBSET (0..Interval)]
  /\ timeoutTimer \in [Node -> SUBSET Nat]
  /\ net \subseteq Heartbeat
  /\ stops \in 0..MaxStops
  /\ losses \in 0..MaxLosses
  /\ {splitFor, vacantFor, steadyFor} \subseteq Nat

(* A running node always has the one timer its role needs and no other: a   *)
(* follower without its timeout would never take over, an interval left     *)
(* behind by a demotion would go on claiming the role.                      *)
TimersMatchRole ==
  \A n \in Node :
    /\ IF role[n] = "sentinel" THEN \E t \in heartbeatTimer[n] : heartbeatTimer[n] = {t}
                               ELSE heartbeatTimer[n] = {}
    /\ IF role[n] = "follower" THEN \E t \in timeoutTimer[n] : timeoutTimer[n] = {t}
                               ELSE timeoutTimer[n] = {}

(* Two sentinels that hear each other do not keep the role both. *)
SplitHeals == splitFor <= SplitBound

(* The role of a sentinel that is gone does not stay vacant. *)
VacancyEnds == vacantFor <= VacancyBound

(* The cascade: once every follower knows the order, there is never more    *)
(* than one sentinel again, whoever stops, until a new node joins.          *)
OrderlySuccession == steadyFor = Steady => Cardinality(Sentinels) <= 1

(* If nobody starts or stops any more, one sentinel remains. *)
Elected == <>[](Running # {}) => <>[](Cardinality(Sentinels) = 1)
=============================================================================

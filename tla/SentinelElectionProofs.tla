----------------------- MODULE SentinelElectionProofs -----------------------
(* Theorems about SentinelElection, for all meshes, times and bounds. *)
EXTENDS SentinelElection, FiniteSetTheorems, TLAPS

LEMMA ConstantsTyped ==
  /\ Node \subseteq Int
  /\ Successors \in [Node -> Seq(Node)]
  /\ Interval \in Nat \ {0} /\ Timeout \in Nat \ {0} /\ Step \in Nat \ {0}
  /\ Delay \in Nat
  /\ MaxStops \in Nat /\ MaxEpoch \in Nat /\ MaxLosses \in Nat
BY NodeType, SuccessorsType, TimesType, BoundsType

(* The place in an order is an index of it, counted from 0. *)
LEMMA PlaceTyped ==
  ASSUME NEW n \in Node, NEW from \in Node
  PROVE  Place(n, from) \in Nat
<1>1. CASE \E i \in DOMAIN Successors[from] : Successors[from][i] = n
  <2>1. (CHOOSE i \in DOMAIN Successors[from] : Successors[from][i] = n)
          \in DOMAIN Successors[from]
    BY <1>1
  <2>2. DOMAIN Successors[from] = 1..Len(Successors[from])
    BY ConstantsTyped
  <2>3. \A i \in 1..Len(Successors[from]) : i - 1 \in Nat
    BY ConstantsTyped
  <2> QED
    BY <1>1, <2>1, <2>2, <2>3 DEF Place
<1>2. CASE ~\E i \in DOMAIN Successors[from] : Successors[from][i] = n
  BY <1>2 DEF Place
<1> QED
  BY <1>1, <1>2

LEMMA HeartbeatsTyped ==
  ASSUME NEW n \in Node, NEW e \in Nat
  PROVE  Heartbeats(n, e) \subseteq Heartbeat
BY ConstantsTyped DEF Heartbeats, Heartbeat

LEMMA LaterTyped ==
  ASSUME NEW clock \in Nat, NEW bound
  PROVE  Later(clock, bound) \in Nat
BY DEF Later

LEMMA InitTyped == Init => TypeOK
BY ConstantsTyped DEF Init, TypeOK

LEMMA NextTyped == TypeOK /\ [Next]_vars => TypeOK'
<1> SUFFICES ASSUME TypeOK, [Next]_vars
             PROVE  TypeOK'
  OBVIOUS
<1> USE ConstantsTyped
<1>1. ASSUME NEW n \in Node, StartAsSentinel(n)
      PROVE  TypeOK'
  BY <1>1, HeartbeatsTyped DEF TypeOK, StartAsSentinel, ANewNode, faults
<1>2. ASSUME NEW n \in Node, StartAsFollower(n)
      PROVE  TypeOK'
  BY <1>2 DEF TypeOK, StartAsFollower, ANewNode, faults
<1>3. ASSUME NEW n \in Node, EmitHeartbeat(n)
      PROVE  TypeOK'
  BY <1>3, HeartbeatsTyped DEF TypeOK, EmitHeartbeat, faults, observed
<1>4. ASSUME NEW n \in Node, Promote(n)
      PROVE  TypeOK'
  BY <1>4, HeartbeatsTyped DEF TypeOK, Promote, faults
<1>5. ASSUME NEW n \in Node, NEW m \in net, HandleHeartbeat(n, m)
      PROVE  TypeOK'
  <2>1. m \in Heartbeat
    BY DEF TypeOK
  <2>2. CASE Demote(n, m)
    BY <2>1, <2>2 DEF TypeOK, Demote, DemoteTo, Heartbeat, faults, observed
  <2>3. CASE Follow(n, m)
    <3>1. Timeout + Place(n, m.from) * Step \in Nat
      <4>1. Place(n, m.from) \in Nat
        BY <2>1, PlaceTyped DEF Heartbeat
      <4>2. \A p \in Nat : Timeout + p * Step \in Nat
        OBVIOUS
      <4> QED
        BY <4>1, <4>2
    <3>2. timeoutTimer' \in [Node -> SUBSET Nat]
      <4>1. timeoutTimer' = [timeoutTimer EXCEPT ![n] = {Timeout + Place(n, m.from) * Step}]
        BY <2>3 DEF Follow
      <4>2. {Timeout + Place(n, m.from) * Step} \in SUBSET Nat
        BY <3>1
      <4> QED
        BY <4>1, <4>2 DEF TypeOK
    <3>3. epoch' \in [Node -> Nat]
      BY <2>1, <2>3 DEF TypeOK, Follow, Heartbeat
    <3>4. net' \subseteq Heartbeat
      BY <2>3 DEF TypeOK, Follow
    <3> QED
      BY <2>3, <3>2, <3>3, <3>4 DEF TypeOK, Follow, faults, observed
  <2>4. CASE Ignore(n, m)
    BY <2>4 DEF TypeOK, Ignore, faults, observed
  <2> QED
    BY <1>5, <2>2, <2>3, <2>4 DEF HandleHeartbeat
<1>6. ASSUME NEW n \in Node, Stop(n)
      PROVE  TypeOK'
  BY <1>6 DEF TypeOK, Stop, observed
<1>7. ASSUME NEW m \in net, Lose(m)
      PROVE  TypeOK'
  BY <1>7 DEF TypeOK, Lose, observed
<1>8. ASSUME Tick
      PROVE  TypeOK'
  <2>1. heartbeatTimer' \in [Node -> SUBSET (0..Interval)]
    <3>1. ASSUME NEW n \in Node, NEW t \in heartbeatTimer[n]
          PROVE  t - 1 \in 0..Interval
      <4>1. t \in 0..Interval /\ t # 0
        BY <1>8 DEF TypeOK, Tick
      <4> QED
        BY <4>1
    <3>2. heartbeatTimer' = [n \in Node |-> {t - 1 : t \in heartbeatTimer[n]}]
      BY <1>8 DEF Tick
    <3> QED
      BY <3>1, <3>2
  <2>2. timeoutTimer' \in [Node -> SUBSET Nat]
    <3>1. ASSUME NEW n \in Node, NEW t \in timeoutTimer[n]
          PROVE  t - 1 \in Nat
      <4>1. t \in Nat /\ t # 0
        BY <1>8 DEF TypeOK, Tick
      <4> QED
        BY <4>1
    <3>2. timeoutTimer' = [n \in Node |-> {t - 1 : t \in timeoutTimer[n]}]
      BY <1>8 DEF Tick
    <3> QED
      BY <3>1, <3>2
  <2>3. net' \subseteq Heartbeat
    <3>1. ASSUME NEW m \in net
          PROVE  [m EXCEPT !.left = @ - 1] \in Heartbeat
      <4>1. m \in Heartbeat /\ m.left > 0
        BY <1>8 DEF TypeOK, Tick
      <4>2. m.left \in 0..Delay /\ m.left - 1 \in 0..Delay
        BY <4>1 DEF Heartbeat
      <4> QED
        BY <4>1, <4>2 DEF Heartbeat
    <3>2. net' = {[m EXCEPT !.left = @ - 1] : m \in net}
      BY <1>8 DEF Tick
    <3> QED
      BY <3>1, <3>2
  <2>4. splitFor' \in Nat /\ vacantFor' \in Nat /\ steadyFor' \in Nat
    BY <1>8, LaterTyped DEF TypeOK, Tick
  <2> QED
    BY <1>8, <2>1, <2>2, <2>3, <2>4 DEF TypeOK, Tick, faults
<1>9. CASE UNCHANGED vars
  BY <1>9 DEF TypeOK, vars, faults, observed
<1> QED
  BY <1>1, <1>2, <1>3, <1>4, <1>5, <1>6, <1>7, <1>8, <1>9 DEF Next, Work

(* Every variable keeps its type: no timer is set to a negative time. *)
THEOREM ElectionTyped == Spec => []TypeOK
BY InitTyped, NextTyped, PTL DEF Spec

(* A running node always has the timer of its role and no other one.  The   *)
(* timers are those the actions set; only Tick changes all of them at once. *)
THEOREM TimersFollowRole == Spec => []TimersMatchRole
<1>1. Init => TimersMatchRole
  BY DEF Init, TimersMatchRole
<1>2. TypeOK /\ TimersMatchRole /\ [Next]_vars => TimersMatchRole'
  <2> SUFFICES ASSUME TypeOK, TimersMatchRole, [Next]_vars
               PROVE  TimersMatchRole'
    OBVIOUS
  <2> USE ConstantsTyped
  <2>1. ASSUME NEW n \in Node, StartAsSentinel(n) \/ StartAsFollower(n)
        PROVE  TimersMatchRole'
    BY ZenonT(60), <2>1 DEF TypeOK, TimersMatchRole, StartAsSentinel, StartAsFollower, Running
  <2>2. ASSUME NEW n \in Node, EmitHeartbeat(n)
        PROVE  TimersMatchRole'
    <3>1. role[n] = "sentinel"
      BY <2>2 DEF TimersMatchRole, EmitHeartbeat
    <3> QED
      BY <2>2, <3>1 DEF TypeOK, TimersMatchRole, EmitHeartbeat
  <2>3. ASSUME NEW n \in Node, Promote(n)
        PROVE  TimersMatchRole'
    BY <2>3 DEF TypeOK, TimersMatchRole, Promote
  <2>4. ASSUME NEW n \in Node, NEW m \in net, HandleHeartbeat(n, m)
        PROVE  TimersMatchRole'
    <3>1. CASE Demote(n, m)
      BY <3>1 DEF TypeOK, TimersMatchRole, Demote, DemoteTo
    <3>2. CASE Follow(n, m)
      BY <3>2 DEF TypeOK, TimersMatchRole, Follow
    <3>3. CASE Ignore(n, m)
      BY <3>3 DEF TimersMatchRole, Ignore
    <3> QED
      BY <2>4, <3>1, <3>2, <3>3 DEF HandleHeartbeat
  <2>5. ASSUME NEW n \in Node, Stop(n)
        PROVE  TimersMatchRole'
    BY <2>5 DEF TypeOK, TimersMatchRole, Stop
  <2>6. ASSUME Tick
        PROVE  TimersMatchRole'
    <3> SUFFICES ASSUME NEW n \in Node
                 PROVE  /\ IF role'[n] = "sentinel"
                           THEN \E t \in heartbeatTimer'[n] : heartbeatTimer'[n] = {t}
                           ELSE heartbeatTimer'[n] = {}
                        /\ IF role'[n] = "follower"
                           THEN \E t \in timeoutTimer'[n] : timeoutTimer'[n] = {t}
                           ELSE timeoutTimer'[n] = {}
      BY DEF TimersMatchRole
    <3>1. /\ role'[n] = role[n]
          /\ heartbeatTimer'[n] = {t - 1 : t \in heartbeatTimer[n]}
          /\ timeoutTimer'[n] = {t - 1 : t \in timeoutTimer[n]}
      BY <2>6 DEF Tick
    <3>2. CASE role[n] = "sentinel"
      <4>1. PICK t \in heartbeatTimer[n] : heartbeatTimer[n] = {t}
        BY <3>2 DEF TimersMatchRole
      <4>2. heartbeatTimer'[n] = {t - 1} /\ timeoutTimer'[n] = {}
        BY <3>1, <3>2, <4>1 DEF TimersMatchRole
      <4> QED
        BY <3>1, <3>2, <4>2
    <3>3. CASE role[n] = "follower"
      <4>1. PICK t \in timeoutTimer[n] : timeoutTimer[n] = {t}
        BY <3>3 DEF TimersMatchRole
      <4>2. timeoutTimer'[n] = {t - 1} /\ heartbeatTimer'[n] = {}
        BY <3>1, <3>3, <4>1 DEF TimersMatchRole
      <4> QED
        BY <3>1, <3>3, <4>2
    <3>4. CASE role[n] \notin {"sentinel", "follower"}
      BY <3>1, <3>4 DEF TimersMatchRole
    <3> QED
      BY <3>2, <3>3, <3>4
  <2>7. ASSUME UNCHANGED <<role, heartbeatTimer, timeoutTimer>>
        PROVE  TimersMatchRole'
    BY <2>7 DEF TimersMatchRole
  <2> QED
    BY <2>1, <2>2, <2>3, <2>4, <2>5, <2>6, <2>7 DEF Next, Work, Lose, vars
<1> QED
  BY <1>1, <1>2, ElectionTyped, PTL DEF Spec
-----------------------------------------------------------------------------
(* The longest time that a follower ever waits for a heartbeat. *)
Longest == Timeout + (Cardinality(Node) - 2) * Step

LEMMA LongestTyped ==
  /\ Cardinality(Node) - 2 \in Nat
  /\ Longest \in Nat
  /\ VacancyBound \in Nat
  /\ Longest + Delay = VacancyBound
  /\ Timeout <= Longest
<1>1. Cardinality(Node) - 2 \in Nat
  <2>1. Cardinality(Node) \in Nat
    BY NodeType, FS_CardinalityType
  <2> QED
    BY <2>1, NodeType
<1>2. \A k \in Nat : k * Step \in Nat
  BY ConstantsTyped
<1>3. PICK k \in Nat : k = (Cardinality(Node) - 2) * Step
  BY <1>1, <1>2
<1> QED
  BY <1>1, <1>3, ConstantsTyped DEF Longest, VacancyBound

(* Nobody comes after all the others: a list names each node once, and its  *)
(* own not at all, so that the last place is that of one of all but two.    *)
LEMMA PlaceBounded ==
  ASSUME NEW n \in Node, NEW from \in Node
  PROVE  Place(n, from) <= Cardinality(Node) - 2
<1>1. CASE \E i \in DOMAIN Successors[from] : Successors[from][i] = n
  <2> DEFINE s == Successors[from]
             others == Node \ {from}
             at == CHOOSE i \in DOMAIN s : s[i] = n
  <2>1. s \in Seq(Node) /\ Len(s) \in Nat /\ DOMAIN s = 1..Len(s)
    BY ConstantsTyped
  <2>2. s \in [1..Len(s) -> others]
    BY <2>1, SuccessorsType
  <2>3. s \in Injection(1..Len(s), others)
    BY <2>1, <2>2, SuccessorsType DEF Injection, IsInjective
  <2>4. IsFiniteSet(others) /\ Cardinality(others) = Cardinality(Node) - 1
    BY NodeType, FS_RemoveElement
  <2>5. Cardinality(1..Len(s)) <= Cardinality(others)
    BY <2>3, <2>4, FS_Injection
  <2>6. Cardinality(1..Len(s)) = Len(s)
    BY <2>1, FS_Interval
  <2>7. at \in 1..Len(s)
    BY <1>1, <2>1
  <2>8. Place(n, from) = at - 1
    BY <1>1 DEF Place
  <2>9. Cardinality(Node) \in Nat
    BY NodeType, FS_CardinalityType
  <2> HIDE DEF s, others, at
  <2> QED
    BY <2>1, <2>4, <2>5, <2>6, <2>7, <2>8, <2>9
<1>2. CASE ~\E i \in DOMAIN Successors[from] : Successors[from][i] = n
  BY <1>2, LongestTyped DEF Place
<1> QED
  BY <1>1, <1>2

LEMMA ProductsGrow ==
  ASSUME NEW i \in Nat, NEW j \in Nat, i <= j, NEW k \in Nat
  PROVE  i * k <= j * k
OBVIOUS

(* What Follow sets the timer to. *)
LEMMA CascadeBounded ==
  ASSUME NEW n \in Node, NEW from \in Node
  PROVE  Timeout + Place(n, from) * Step <= Longest
<1>1. PICK p \in Nat : p = Place(n, from)
  BY PlaceTyped
<1>2. PICK k \in Nat : k = Cardinality(Node) - 2
  BY LongestTyped
<1>3. p <= k
  BY <1>1, <1>2, PlaceBounded
<1>4. PICK c \in Nat : c = Step
  BY ConstantsTyped
<1>5. p * c <= k * c /\ p * c \in Nat /\ k * c \in Nat
  BY <1>3, ProductsGrow
<1>6. PICK x \in Nat, y \in Nat : x = p * c /\ y = k * c
  BY <1>5
<1>7. Timeout + x <= Timeout + y
  BY <1>5, <1>6, ConstantsTyped
<1> QED
  BY <1>1, <1>2, <1>4, <1>6, <1>7 DEF Longest

(* While there is no sentinel: the heartbeats of the last one arrive within *)
(* Delay, and every follower's patience ends within the bound.              *)
Awaited ==
  Sentinels = {} =>
    /\ \A m \in net : m.left + vacantFor <= Delay
    /\ \A n \in Node : \A t \in timeoutTimer[n] : t + vacantFor <= VacancyBound

VacancyInv ==
  /\ Awaited
  /\ Sentinels # {} => vacantFor = 0
  /\ \A n \in Node : \A t \in timeoutTimer[n] : t <= Longest
  /\ VacancyEnds

(* A state in which the clock of vacancy has just started is a good one. *)
LEMMA Unvacated ==
  ASSUME TypeOK, vacantFor = 0,
         \A n \in Node : \A t \in timeoutTimer[n] : t <= Longest
  PROVE  VacancyInv
<1>1. ASSUME NEW m \in net
      PROVE  m.left + vacantFor <= Delay
  BY <1>1, ConstantsTyped DEF TypeOK, Heartbeat
<1>2. ASSUME NEW n \in Node, NEW t \in timeoutTimer[n]
      PROVE  t + vacantFor <= VacancyBound
  <2>1. t \in Nat /\ t <= Longest
    BY DEF TypeOK
  <2> QED
    BY <2>1, LongestTyped, ConstantsTyped
<1> QED
  BY <1>1, <1>2, LongestTyped DEF VacancyInv, Awaited, VacancyEnds

LEMMA VacancyInit == Init => VacancyInv
<1> SUFFICES ASSUME Init
             PROVE  VacancyInv
  OBVIOUS
<1>1. TypeOK
  BY InitTyped
<1>2. vacantFor = 0 /\ \A n \in Node : timeoutTimer[n] = {}
  BY DEF Init
<1> QED
  BY <1>1, <1>2, Unvacated

LEMMA VacancyNext ==
  TypeOK /\ TypeOK' /\ TimersMatchRole /\ VacancyInv /\ [Next]_vars => VacancyInv'
<1> SUFFICES ASSUME TypeOK, TypeOK', TimersMatchRole, VacancyInv, [Next]_vars
             PROVE  VacancyInv'
  OBVIOUS
<1>1. ASSUME vacantFor' = 0,
             \A n \in Node : \A t \in timeoutTimer'[n] : t <= Longest
      PROVE  VacancyInv'
  <2>1. ASSUME NEW m \in net'
        PROVE  m.left + vacantFor' <= Delay
    BY <1>1, <2>1, ConstantsTyped DEF TypeOK, Heartbeat
  <2>2. ASSUME NEW n \in Node, NEW t \in timeoutTimer'[n]
        PROVE  t + vacantFor' <= VacancyBound
    <3>1. t \in Nat /\ t <= Longest
      BY <1>1 DEF TypeOK
    <3> QED
      BY <1>1, <3>1, LongestTyped, ConstantsTyped
  <2> QED
    BY <1>1, <2>1, <2>2, LongestTyped DEF VacancyInv, Awaited, VacancyEnds, VacancyBound
<1>2. ASSUME NEW n \in Node, StartAsSentinel(n)
      PROVE  VacancyInv'
  BY <1>1, <1>2 DEF StartAsSentinel, ANewNode, VacancyInv
<1>3. ASSUME NEW n \in Node, StartAsFollower(n)
      PROVE  VacancyInv'
  <2>1. vacantFor' = 0
    BY <1>3 DEF StartAsFollower, ANewNode
  <2>2. timeoutTimer' = [timeoutTimer EXCEPT ![n] = {Timeout}]
    BY <1>3 DEF StartAsFollower
  <2>3. \A p \in Node : \A t \in timeoutTimer'[p] : t <= Longest
    BY <2>2, LongestTyped DEF TypeOK, VacancyInv
  <2> QED
    BY <1>1, <2>1, <2>3
<1>4. ASSUME NEW n \in Node, Promote(n)
      PROVE  VacancyInv'
  BY <1>1, <1>4 DEF Promote, TypeOK, VacancyInv
<1>5. ASSUME NEW n \in Node, EmitHeartbeat(n)
      PROVE  VacancyInv'
  <2>1. n \in Sentinels
    BY <1>5 DEF EmitHeartbeat, TimersMatchRole, Sentinels
  <2>2. UNCHANGED <<role, timeoutTimer, vacantFor>>
    BY <1>5 DEF EmitHeartbeat, observed
  <2> QED
    BY <1>1, <2>1, <2>2 DEF VacancyInv
<1>6. ASSUME NEW n \in Node, NEW m \in net, Demote(n, m)
      PROVE  VacancyInv'
  <2>1. n \in Sentinels /\ vacantFor' = vacantFor
    BY <1>6 DEF Demote, DemoteTo, Sentinels, observed
  <2>2. timeoutTimer' = [timeoutTimer EXCEPT ![n] = {Timeout}]
    BY <1>6 DEF Demote, DemoteTo
  <2>3. \A p \in Node : \A t \in timeoutTimer'[p] : t <= Longest
    BY <2>2, LongestTyped DEF TypeOK, VacancyInv
  <2> QED
    BY <1>1, <2>1, <2>3 DEF VacancyInv
<1>7. ASSUME NEW n \in Node, NEW m \in net, Follow(n, m)
      PROVE  VacancyInv'
  <2>1. UNCHANGED <<role, vacantFor>> /\ net' = net \ {m}
    BY <1>7 DEF Follow, observed
  <2>2. m.from \in Node /\ m.left \in Nat
    BY ConstantsTyped DEF TypeOK, Heartbeat
  <2>3. PICK limit \in Nat : limit = Timeout + Place(n, m.from) * Step /\ limit <= Longest
    <3>1. timeoutTimer' = [timeoutTimer EXCEPT ![n] = {Timeout + Place(n, m.from) * Step}]
      BY <1>7 DEF Follow
    <3>2. Timeout + Place(n, m.from) * Step \in timeoutTimer'[n]
      BY <3>1 DEF TypeOK
    <3>3. Timeout + Place(n, m.from) * Step \in Nat
      BY <3>2 DEF TypeOK
    <3> QED
      BY <2>2, <3>3, CascadeBounded
  <2>4. timeoutTimer' = [timeoutTimer EXCEPT ![n] = {limit}]
    BY <1>7, <2>3 DEF Follow
  <2>5. \A p \in Node : \A t \in timeoutTimer'[p] : t <= Longest
    BY <2>3, <2>4 DEF TypeOK, VacancyInv
  <2>6. CASE Sentinels # {}
    BY <1>1, <2>1, <2>5, <2>6 DEF VacancyInv
  <2>7. CASE Sentinels = {}
    <3>1. Sentinels' = {}
      BY <2>1, <2>7 DEF Sentinels
    <3>2. \A k \in net' : k.left + vacantFor' <= Delay
      BY <2>1, <2>7 DEF VacancyInv, Awaited
    <3>3. vacantFor \in Nat /\ vacantFor <= Delay
      <4>1. m.left + vacantFor <= Delay
        BY <2>7 DEF VacancyInv, Awaited
      <4>2. vacantFor \in Nat
        BY DEF TypeOK
      <4> QED
        BY <2>2, <4>1, <4>2, ConstantsTyped
    <3>4. limit + vacantFor' <= VacancyBound
      BY <2>1, <2>3, <3>3, LongestTyped, ConstantsTyped
    <3>5. \A p \in Node : \A t \in timeoutTimer'[p] : t + vacantFor' <= VacancyBound
      BY <2>1, <2>4, <2>7, <3>4 DEF TypeOK, VacancyInv, Awaited
    <3>6. VacancyEnds'
      BY <2>1 DEF VacancyInv, VacancyEnds, VacancyBound
    <3> QED
      BY <2>5, <3>1, <3>2, <3>5, <3>6 DEF VacancyInv, Awaited, VacancyBound
  <2> QED
    BY <2>6, <2>7
<1>8. ASSUME net' \subseteq net, UNCHANGED <<role, timeoutTimer, vacantFor>>
      PROVE  VacancyInv'
  BY <1>8 DEF VacancyInv, Awaited, VacancyEnds, VacancyBound, Sentinels, Longest
<1>9. ASSUME NEW n \in Node, Stop(n)
      PROVE  VacancyInv'
  <2>1. /\ net' = net /\ vacantFor' = vacantFor
        /\ timeoutTimer' = [timeoutTimer EXCEPT ![n] = {}]
        /\ role' = [role EXCEPT ![n] = "stopped"]
    BY <1>9 DEF Stop, observed
  <2>2. \A p \in Node : timeoutTimer'[p] \subseteq timeoutTimer[p]
    BY <2>1 DEF TypeOK
  <2>3. CASE Sentinels # {}
    BY <1>1, <2>1, <2>2, <2>3 DEF VacancyInv
  <2>4. CASE Sentinels = {}
    <3>1. Sentinels' = {}
      BY <2>1, <2>4 DEF Sentinels, TypeOK
    <3> QED
      BY <2>1, <2>2, <2>4, <3>1 DEF VacancyInv, Awaited, VacancyEnds, VacancyBound
  <2> QED
    BY <2>3, <2>4
<1>10. ASSUME Tick
       PROVE  VacancyInv'
  <2>1. ASSUME NEW n \in Node, NEW u \in timeoutTimer'[n]
        PROVE  \E t \in timeoutTimer[n] : t \in Nat /\ u = t - 1
    BY <1>10 DEF Tick, TypeOK
  <2>2. \A n \in Node : \A u \in timeoutTimer'[n] : u <= Longest
    <3> SUFFICES ASSUME NEW n \in Node, NEW u \in timeoutTimer'[n]
                 PROVE  u <= Longest
      OBVIOUS
    <3>1. PICK t \in timeoutTimer[n] : t \in Nat /\ u = t - 1
      BY <2>1
    <3>2. t <= Longest
      BY DEF VacancyInv
    <3> QED
      BY <3>1, <3>2, LongestTyped
  <2>3. CASE Sentinels # {} \/ Running = {}
    <3>1. vacantFor' = 0
      BY <1>10, <2>3 DEF Tick
    <3> QED
      BY <1>1, <2>2, <3>1
  <2>4. CASE Sentinels = {} /\ Running # {}
    <3>1. vacantFor \in Nat /\ vacantFor <= VacancyBound
      BY DEF TypeOK, VacancyInv, VacancyEnds
    <3>2. vacantFor + 1 <= VacancyBound
      <4>1. PICK n \in Node : role[n] = "follower"
        BY <2>4 DEF Running, Sentinels
      <4>2. PICK t \in timeoutTimer[n] : timeoutTimer[n] = {t}
        BY <4>1 DEF TimersMatchRole
      <4>3. t \in Nat /\ t # 0
        BY <1>10, <4>2 DEF Tick, TypeOK
      <4>4. t + vacantFor <= VacancyBound
        BY <2>4 DEF VacancyInv, Awaited
      <4> QED
        BY <3>1, <4>3, <4>4, LongestTyped
    <3>3. vacantFor' = vacantFor + 1
      BY <1>10, <2>4, <3>1 DEF Tick, Later
    <3>4. Sentinels' = {}
      BY <1>10, <2>4 DEF Tick, Sentinels
    <3>5. ASSUME NEW k \in net'
          PROVE  k.left + vacantFor' <= Delay
      <4>1. PICK m \in net : k = [m EXCEPT !.left = @ - 1]
        BY <1>10, <3>5 DEF Tick
      <4>2. m \in Heartbeat /\ m.left + vacantFor <= Delay
        BY <2>4 DEF TypeOK, VacancyInv, Awaited
      <4>3. m.left \in Nat /\ k.left = m.left - 1
        BY <4>1, <4>2, ConstantsTyped DEF Heartbeat
      <4> QED
        BY <3>1, <3>3, <4>2, <4>3, ConstantsTyped
    <3>6. ASSUME NEW n \in Node, NEW u \in timeoutTimer'[n]
          PROVE  u + vacantFor' <= VacancyBound
      <4>1. PICK t \in timeoutTimer[n] : t \in Nat /\ u = t - 1
        BY <2>1
      <4>2. t + vacantFor <= VacancyBound
        BY <2>4 DEF VacancyInv, Awaited
      <4> QED
        BY <3>1, <3>3, <4>1, <4>2, LongestTyped
    <3> QED
      BY <2>2, <3>2, <3>3, <3>4, <3>5, <3>6
      DEF VacancyInv, Awaited, VacancyEnds, VacancyBound
  <2> QED
    BY <2>3, <2>4
<1>11. ASSUME NEW n \in Node, NEW m \in net, Ignore(n, m)
       PROVE  VacancyInv'
  BY <1>8, <1>11 DEF Ignore, observed
<1>12. ASSUME NEW m \in net, Lose(m)
       PROVE  VacancyInv'
  BY <1>8, <1>12 DEF Lose, observed
<1>13. CASE UNCHANGED vars
  BY <1>8, <1>13 DEF vars, observed
<1> QED
  BY <1>2, <1>3, <1>4, <1>5, <1>6, <1>7, <1>9, <1>10, <1>11, <1>12, <1>13
  DEF Next, Work, HandleHeartbeat

(* The role is never vacant for longer than the bound, in every mesh, for   *)
(* all times and however many nodes stop and heartbeats are lost: the last  *)
(* heartbeat of a former sentinel arrives in time, and whatever order it    *)
(* carried, nobody waits longer than the last in it.                        *)
THEOREM VacancyFilled == Spec => []VacancyEnds
<1>1. TypeOK /\ TypeOK' /\ TimersMatchRole /\ VacancyInv /\ [Next]_vars => VacancyInv'
  BY VacancyNext
<1>2. VacancyInv => VacancyEnds
  BY DEF VacancyInv
<1> QED
  BY <1>1, <1>2, VacancyInit, ElectionTyped, TimersFollowRole, PTL DEF Spec
=============================================================================

------------------------- MODULE SentinelTimingProofs -------------------------
(***************************************************************************)
(* Theorems about SentinelElection that hold when the times are chosen well *)
(* for the network: two sentinels find out about each other in time, and    *)
(* the cascade lets one successor at a time take over.                      *)
(*                                                                          *)
(* What has to be counted is how long a follower can have heard of nobody   *)
(* although there is a sentinel: an interval for every heartbeat that was   *)
(* lost, and the delay of the last one.                                     *)
(***************************************************************************)
EXTENDS SentinelElectionProofs

(* The time that the losses so far can have cost. *)
Lost == losses * Interval

(* How long a follower with the timer u may have waited, on a clock that    *)
(* shows y, counted from one interval after it last heard of anybody.       *)
Age(u, y) == IF y <= Timeout - u - Interval THEN y ELSE Timeout - u - Interval

(* The last heartbeat from w to d, when t remains to the next. *)
Sent(w, d, t) == [to |-> d, from |-> w, epoch |-> epoch[w], left |-> t + Delay - Interval]

(* Some heartbeat reaches d before it has waited too long. *)
Soon(d, x) == \E m \in net : m.to = d /\ x + m.left <= Lost + Delay

(* A follower of age x has not waited for longer than the losses explain;   *)
(* neither has it if w has lost the role and so sends nothing more.         *)
Expects(d, x) == x <= Lost \/ Soon(d, x)

(* The same about the heartbeats of w, which sends the next one in t: the   *)
(* last one was lost or is on its way, and in either case there may be one  *)
(* of a former sentinel too, which comes first.                             *)
Hears(w, t, d, x) ==
  \/ x + t <= Lost
  \/ Sent(w, d, t) \in net /\ x + t <= Lost + Interval
  \/ Soon(d, x) /\ x + t <= Lost + Delay /\ losses > 0
  \/ Soon(d, x) /\ Sent(w, d, t) \in net /\ x + t <= Lost + Interval + Delay

Heard(y) ==
  \A d \in Node : \A u \in timeoutTimer[d] :
    /\ Expects(d, Age(u, y))
    /\ \A w \in Sentinels : \A t \in heartbeatTimer[w] : Hears(w, t, d, Age(u, y))

-----------------------------------------------------------------------------
LEMMA LostTyped ==
  TypeOK => Lost \in Nat /\ Lost + Interval + Delay <= SplitBound /\ SplitBound \in Nat
<1> SUFFICES ASSUME TypeOK
             PROVE  Lost \in Nat /\ Lost + Interval + Delay <= SplitBound /\ SplitBound \in Nat
  OBVIOUS
<1>1. losses \in Nat /\ MaxLosses \in Nat /\ losses <= MaxLosses
  BY ConstantsTyped DEF TypeOK
<1>2. PICK c \in Nat : c = Interval
  BY ConstantsTyped
<1>3. losses * c \in Nat /\ MaxLosses * c \in Nat /\ losses * c <= MaxLosses * c
  BY <1>1, ProductsGrow
<1>4. (MaxLosses + 1) * c = MaxLosses * c + c
  BY <1>1
<1>5. PICK l \in Nat, k \in Nat : l = losses * c /\ k = MaxLosses * c
  BY <1>3
<1>6. l <= k /\ SplitBound = k + c + Delay /\ Lost = l
  BY <1>2, <1>3, <1>4, <1>5 DEF SplitBound, Lost
<1> QED
  BY <1>2, <1>6, ConstantsTyped

LEMMA LostTypedNext == TypeOK' => (Lost \in Nat)'
BY LostTyped, PTL

LEMMA LostGrows ==
  ASSUME TypeOK, losses' = losses + 1
  PROVE  Lost' = Lost + Interval
<1>1. losses \in Nat /\ Interval \in Nat
  BY ConstantsTyped DEF TypeOK
<1>2. (losses + 1) * Interval = losses * Interval + Interval
  BY <1>1
<1> QED
  BY <1>2 DEF Lost

LEMMA AgeTyped ==
  ASSUME NEW u \in Nat, NEW y \in Nat
  PROVE  Age(u, y) \in Int
BY ConstantsTyped DEF Age

LEMMA AgeFresh ==
  ASSUME NEW u \in Nat, NEW y \in Nat, u >= Timeout
  PROVE  Age(u, y) + Interval <= 0
BY ConstantsTyped DEF Age

LEMMA AgeYounger ==
  ASSUME NEW u \in Nat, NEW y \in Nat, NEW z \in Nat, z <= y
  PROVE  Age(u, z) <= Age(u, y)
BY ConstantsTyped DEF Age

LEMMA AgeTicks ==
  ASSUME NEW u \in Nat, u # 0, NEW y \in Nat, NEW z \in Nat, z <= y + 1
  PROVE  Age(u - 1, z) <= Age(u, y) + 1
BY ConstantsTyped DEF Age

(* A shorter wait is explained by what explains a longer one. *)
LEMMA Younger ==
  ASSUME NEW d \in Node, NEW x \in Int, NEW v \in Int, v <= x
  PROVE  TypeOK => /\ Expects(d, x) => Expects(d, v)
                   /\ \A w \in Node : \A t \in Nat : Hears(w, t, d, x) => Hears(w, t, d, v)
<1> SUFFICES ASSUME TypeOK
             PROVE  /\ Expects(d, x) => Expects(d, v)
                    /\ \A w \in Node : \A t \in Nat : Hears(w, t, d, x) => Hears(w, t, d, v)
  OBVIOUS
<1> USE LostTyped, ConstantsTyped
<1>1. ASSUME Soon(d, x)
      PROVE  Soon(d, v)
  <2>1. PICK m \in net : m.to = d /\ x + m.left <= Lost + Delay
    BY <1>1 DEF Soon
  <2>2. m.left \in Nat
    BY DEF TypeOK, Heartbeat
  <2>3. v + m.left <= Lost + Delay
    BY SMTT(30), <2>1, <2>2
  <2> QED
    BY <2>1, <2>3 DEF Soon
<1>2. ASSUME Expects(d, x)
      PROVE  Expects(d, v)
  BY <1>1, <1>2 DEF Expects
<1>3. ASSUME NEW w \in Node, NEW t \in Nat, Hears(w, t, d, x)
      PROVE  Hears(w, t, d, v)
  <2>1. \A b \in Int : x + t <= b => v + t <= b
    OBVIOUS
  <2>2. Lost \in Int /\ Lost + Interval \in Int /\ Lost + Delay \in Int
        /\ Lost + Interval + Delay \in Int
    OBVIOUS
  <2> QED
    BY <1>1, <1>3, <2>1, <2>2 DEF Hears
<1> QED
  BY <1>1, <1>2, <1>3

(* The same of the next state. *)
LEMMA YoungerNext ==
  ASSUME NEW d \in Node, NEW x \in Int, NEW v \in Int, v <= x
  PROVE  TypeOK' => (/\ Expects(d, x) => Expects(d, v)
                     /\ \A w \in Node : \A t \in Nat : Hears(w, t, d, x) => Hears(w, t, d, v))'
<1>1. TypeOK => /\ Expects(d, x) => Expects(d, v)
                /\ \A w \in Node : \A t \in Nat : Hears(w, t, d, x) => Hears(w, t, d, v)
  BY Younger
<1> QED
  BY <1>1, PTL

-----------------------------------------------------------------------------
(* The steps that neither lose a heartbeat nor let time pass: a timer of a   *)
(* follower is an old one or a fresh one, a follower with an old one loses  *)
(* no mail, and a sentinel's timer is an old one or it has just sent a      *)
(* heartbeat to everybody.                                                  *)
Sends(w) == \A d \in Node \ {w} : Sent(w, d, Interval) \in net

Calm ==
  /\ losses' = losses
  /\ \A d \in Node : \A u \in timeoutTimer'[d] :
       \/ u >= Timeout
       \/ u \in timeoutTimer[d] /\ \A m \in net : m.to = d => m \in net'
  /\ \A w \in Sentinels' : \A t \in heartbeatTimer'[w] :
       \/ w \in Sentinels /\ t \in heartbeatTimer[w] /\ epoch'[w] = epoch[w]
       \/ t = Interval /\ Sends(w)'

LEMMA Sending ==
  ASSUME NEW w \in Node, heartbeatTimer' = [heartbeatTimer EXCEPT ![w] = {Interval}],
         epoch' \in [Node -> Nat], net' = net \union Heartbeats(w, epoch'[w])
  PROVE  Sends(w)'
<1>1. Interval + Delay - Interval = Delay
  BY ConstantsTyped
<1> QED
  BY <1>1 DEF Sends, Sent, Heartbeats

LEMMA StepsAreCalm ==
  TypeOK /\ TypeOK' /\ TimersMatchRole /\ [Next]_vars => Calm \/ Tick \/ \E m \in net : Lose(m)
<1> SUFFICES ASSUME TypeOK, TypeOK', TimersMatchRole, [Next]_vars, ~Tick, ~\E m \in net : Lose(m)
             PROVE  Calm
  OBVIOUS
<1>1. ASSUME NEW n \in Node, StartAsSentinel(n)
      PROVE  Calm
  <2>1. Sends(n)'
    BY <1>1, Sending DEF StartAsSentinel, TypeOK
  <2> QED
    BY <1>1, <2>1 DEF Calm, StartAsSentinel, faults, TypeOK, Sentinels
<1>2. ASSUME NEW n \in Node, StartAsFollower(n)
      PROVE  Calm
  BY <1>2, ConstantsTyped DEF Calm, StartAsFollower, faults, TypeOK, Sentinels
<1>3. ASSUME NEW n \in Node, EmitHeartbeat(n)
      PROVE  Calm
  <2>1. Sends(n)'
    BY <1>3, Sending DEF EmitHeartbeat, TypeOK
  <2> QED
    BY <1>3, <2>1 DEF Calm, EmitHeartbeat, faults, TypeOK, Sentinels
<1>4. ASSUME NEW n \in Node, Promote(n)
      PROVE  Calm
  <2>1. Sends(n)'
    BY <1>4, Sending DEF Promote, TypeOK
  <2> QED
    BY <1>4, <2>1 DEF Calm, Promote, faults, TypeOK, Sentinels
<1>5. ASSUME NEW n \in Node, NEW m \in net, Demote(n, m)
      PROVE  Calm
  BY SMTT(30), <1>5, ConstantsTyped DEF Calm, Demote, DemoteTo, faults, TypeOK, Sentinels
<1>6. ASSUME NEW n \in Node, NEW m \in net, Follow(n, m)
      PROVE  Calm
  <2>1. PICK limit \in Nat : limit = Timeout + Place(n, m.from) * Step /\ limit >= Timeout
    <3>1. m.from \in Node
      BY DEF TypeOK, Heartbeat
    <3>2. PICK p \in Nat : p = Place(n, m.from)
      BY <3>1, PlaceTyped
    <3>3. PICK c \in Nat : c = Step
      BY ConstantsTyped
    <3>4. p * c \in Nat
      OBVIOUS
    <3> QED
      BY <3>2, <3>3, <3>4, ConstantsTyped
  <2>2. timeoutTimer' = [timeoutTimer EXCEPT ![n] = {limit}]
    BY <1>6, <2>1 DEF Follow
  <2>3. epoch' = [epoch EXCEPT ![n] = m.epoch] /\ n \notin Sentinels /\ net' = net \ {m} /\ m.to = n
    BY <1>6 DEF Follow, Sentinels
  <2> QED
    BY <1>6, <2>1, <2>2, <2>3 DEF Calm, Follow, faults, TypeOK, Sentinels
<1>7. ASSUME NEW n \in Node, NEW m \in net, Ignore(n, m)
      PROVE  Calm
  BY <1>7 DEF Calm, Ignore, faults, TypeOK, Sentinels, Running, TimersMatchRole
<1>8. ASSUME NEW n \in Node, Stop(n)
      PROVE  Calm
  BY <1>8 DEF Calm, Stop, TypeOK, Sentinels
<1>9. CASE UNCHANGED vars
  BY <1>9 DEF Calm, vars, faults, TypeOK, Sentinels
<1> QED
  BY <1>1, <1>2, <1>3, <1>4, <1>5, <1>6, <1>7, <1>8, <1>9 DEF Next, Work, HandleHeartbeat

LEMMA CalmKeepsHeard ==
  ASSUME TypeOK, TypeOK', TimersMatchRole', Calm, NEW y \in Nat, NEW z \in Nat, z <= y, Heard(y)
  PROVE  Heard(z)'
<1>0. Lost' = Lost /\ Lost \in Nat
  BY LostTyped DEF Calm, Lost
<1> SUFFICES ASSUME NEW d \in Node, NEW u \in timeoutTimer'[d]
             PROVE  /\ Expects(d, Age(u, z))'
                    /\ \A w \in Sentinels' : \A t \in heartbeatTimer'[w] :
                         Hears(w, t, d, Age(u, z))'
  BY DEF Heard
<1>1. u \in Nat
  BY DEF TypeOK
<1>2. PICK v \in Int : v = Age(u, z)
  BY <1>1, AgeTyped
<1>3. CASE u >= Timeout
  <2>1. v + Interval <= 0
    BY <1>1, <1>2, <1>3, AgeFresh
  <2>2. Expects(d, v)'
    BY <1>0, <2>1, ConstantsTyped DEF Expects
  <2>3. ASSUME NEW w \in Sentinels', NEW t \in heartbeatTimer'[w]
        PROVE  Hears(w, t, d, v)'
    <3>1. t \in Nat /\ t <= Interval
      BY ConstantsTyped DEF TypeOK, Sentinels
    <3>2. v + t <= Lost'
      BY <1>0, <2>1, <3>1, ConstantsTyped
    <3> QED
      BY <3>2 DEF Hears
  <2> QED
    BY <1>2, <2>2, <2>3
<1>4. CASE u \in timeoutTimer[d] /\ \A m \in net : m.to = d => m \in net'
  <2>1. PICK x \in Int : x = Age(u, y)
    BY <1>1, AgeTyped
  <2>2. v <= x
    BY <1>1, <1>2, <2>1, AgeYounger
  <2>3. Expects(d, x)'
    BY <1>0, <1>4, <2>1 DEF Heard, Expects, Soon
  <2>4. Expects(d, v)'
    BY <2>2, <2>3, YoungerNext
  <2>5. ASSUME NEW w \in Sentinels', NEW t \in heartbeatTimer'[w]
        PROVE  Hears(w, t, d, v)'
    <3>1. w \in Node /\ t \in Nat
      BY ConstantsTyped DEF Sentinels, TypeOK
    <3>2. CASE w \in Sentinels /\ t \in heartbeatTimer[w] /\ epoch'[w] = epoch[w]
      <4>1. Hears(w, t, d, x)
        BY <1>4, <2>1, <3>2 DEF Heard
      <4>2. Soon(d, x) => Soon(d, x)'
        BY <1>0, <1>4 DEF Soon
      <4>3. Sent(w, d, t) \in net => Sent(w, d, t)' \in net'
        BY <1>4, <3>2 DEF Sent
      <4>4. Hears(w, t, d, x)'
        BY <1>0, <4>1, <4>2, <4>3 DEF Hears, Calm
      <4> QED
        BY <2>2, <3>1, <4>4, YoungerNext
    <3>3. CASE t = Interval /\ Sends(w)'
      <4>1. d # w
        BY <1>1 DEF TimersMatchRole, Sentinels
      <4>2. Sent(w, d, t)' \in net'
        BY <3>1, <3>3, <4>1 DEF Sends
      <4>3. CASE v <= Lost'
        <5>1. v + t <= Lost' + Interval
          BY <1>0, <3>3, <4>3, ConstantsTyped
        <5> QED
          BY <4>2, <5>1 DEF Hears
      <4>4. CASE Soon(d, v)'
        <5>1. PICK m \in net' : m.to = d /\ v + m.left <= Lost' + Delay
          BY <4>4 DEF Soon
        <5>2. m.left \in Nat
          BY ConstantsTyped DEF TypeOK, Heartbeat
        <5>3. v + t <= Lost' + Interval + Delay
          BY <1>0, <3>3, <5>1, <5>2, ConstantsTyped
        <5> QED
          BY <4>2, <4>4, <5>3 DEF Hears
      <4> QED
        BY <2>4, <4>3, <4>4 DEF Expects
    <3> QED
      BY <3>2, <3>3 DEF Calm
  <2> QED
    BY <1>2, <2>4, <2>5
<1> QED
  BY <1>3, <1>4 DEF Calm

LEMMA LossKeepsHeard ==
  ASSUME TypeOK, TypeOK', NEW k \in net, Lose(k), Delay < Interval,
         NEW y \in Nat, NEW z \in Nat, z <= y, Heard(y)
  PROVE  Heard(z)'
<1>1. /\ losses' = losses + 1
      /\ net' = net \ {k}
      /\ UNCHANGED <<role, epoch, heartbeatTimer, timeoutTimer>>
  BY DEF Lose
<1>2. Lost' = Lost + Interval /\ Lost \in Nat /\ Lost' \in Nat /\ losses' > 0
  <2>1. losses \in Nat /\ Interval \in Nat
    BY ConstantsTyped DEF TypeOK
  <2>2. Lost' = Lost + Interval /\ Lost \in Nat
    BY <1>1, LostTyped, LostGrows
  <2> QED
    BY <1>1, <2>1, <2>2
<1> SUFFICES ASSUME NEW d \in Node, NEW u \in timeoutTimer[d]
             PROVE  /\ Expects(d, Age(u, z))'
                    /\ \A w \in Sentinels : \A t \in heartbeatTimer[w] :
                         Hears(w, t, d, Age(u, z))'
  BY <1>1 DEF Heard, Sentinels
<1>3. PICK x \in Int, v \in Int : x = Age(u, y) /\ v = Age(u, z) /\ v <= x
  <2>1. u \in Nat
    BY DEF TypeOK
  <2> QED
    BY <2>1, AgeTyped, AgeYounger
<1>4. ASSUME NEW m \in net, m.to = d, x + m.left <= Lost + Delay
      PROVE  x <= Lost' /\ (m # k => Soon(d, x)')
  <2>1. m.left \in Nat
    BY ConstantsTyped DEF TypeOK, Heartbeat
  <2>2. x <= Lost'
    BY <1>2, <1>4, <2>1, ConstantsTyped
  <2>3. x + m.left <= Lost' + Delay
    BY <1>2, <1>4, <2>1, ConstantsTyped
  <2> QED
    BY <1>1, <1>4, <2>2, <2>3 DEF Soon
<1>5. Expects(d, v)'
  <2>1. Expects(d, x)
    BY <1>3 DEF Heard
  <2>2. CASE x <= Lost
    <3>1. x <= Lost'
      BY <1>2, <2>2, ConstantsTyped
    <3> QED
      BY <1>3, <3>1, YoungerNext DEF Expects
  <2>3. CASE Soon(d, x)
    <3>1. x <= Lost'
      BY <1>4, <2>3 DEF Soon
    <3> QED
      BY <1>3, <3>1, YoungerNext DEF Expects
  <2> QED
    BY <2>1, <2>2, <2>3 DEF Expects
<1>6. ASSUME NEW w \in Sentinels, NEW t \in heartbeatTimer[w]
      PROVE  Hears(w, t, d, v)'
  <2>1. w \in Node /\ t \in Nat /\ Hears(w, t, d, x)
    <3>1. w \in Node /\ t \in Nat
      BY ConstantsTyped DEF Sentinels, TypeOK
    <3> QED
      BY <1>3, <3>1 DEF Heard
  <2> SUFFICES Hears(w, t, d, x)'
    BY <1>3, <2>1, YoungerNext
  <2>2. x + t <= Lost' => Hears(w, t, d, x)'
    BY DEF Hears
  <2>3. CASE x + t <= Lost \/ x + t <= Lost + Interval \/ x + t <= Lost + Delay
    BY <1>2, <2>1, <2>2, <2>3, ConstantsTyped
  <2>4. CASE Soon(d, x) /\ Sent(w, d, t) \in net /\ x + t <= Lost + Interval + Delay
    <3>1. PICK m \in net : m.to = d /\ x + m.left <= Lost + Delay
      BY <2>4 DEF Soon
    <3>2. x + t <= Lost' + Delay
      BY <1>2, <2>1, <2>4, ConstantsTyped
    <3>3. CASE Sent(w, d, t) # k
      <4>1. Sent(w, d, t)' \in net'
        BY <1>1, <2>4, <3>3 DEF Sent
      <4>2. x + t <= Lost' + Interval
        BY <1>2, <2>1, <3>2, ConstantsTyped
      <4> QED
        BY <4>1, <4>2 DEF Hears
    <3>4. CASE Sent(w, d, t) = k /\ m # k
      <4>1. Soon(d, x)'
        BY <1>4, <3>1, <3>4
      <4> QED
        BY <1>2, <3>2, <4>1 DEF Hears
    <3>5. CASE Sent(w, d, t) = k /\ m = k
      <4>1. m.left = t + Delay - Interval
        BY <3>5 DEF Sent
      <4>2. x + (t + Delay - Interval) <= Lost + Delay
        BY <3>1, <4>1
      <4>3. x + t <= Lost'
        BY SMTT(30), <1>2, <2>1, <4>2, ConstantsTyped
      <4> QED
        BY <2>2, <4>3
    <3> QED
      BY <3>3, <3>4, <3>5
  <2> QED
    BY <2>1, <2>3, <2>4 DEF Hears
<1> QED
  BY <1>3, <1>5, <1>6

(* What is on its way comes nearer as fast as the age grows. *)
LEMMA TickKeepsHeard ==
  ASSUME TypeOK, TypeOK', TimersMatchRole, Tick, NEW y \in Nat, NEW z \in Nat, z <= y + 1,
         Sentinels = {} => z = 0, Heard(y)
  PROVE  Heard(z)'
<1>1. /\ UNCHANGED <<role, epoch, losses>>
      /\ heartbeatTimer' = [n \in Node |-> {t - 1 : t \in heartbeatTimer[n]}]
      /\ timeoutTimer' = [n \in Node |-> {t - 1 : t \in timeoutTimer[n]}]
      /\ net' = {[m EXCEPT !.left = @ - 1] : m \in net}
  BY DEF Tick, faults
<1>2. Lost' = Lost /\ Lost \in Nat
  BY <1>1, LostTyped DEF Lost
<1> SUFFICES ASSUME NEW d \in Node, NEW u \in timeoutTimer[d]
             PROVE  /\ Expects(d, Age(u - 1, z))'
                    /\ \A w \in Sentinels : \A t \in heartbeatTimer[w] :
                         Hears(w, t - 1, d, Age(u - 1, z))'
  BY <1>1 DEF Heard, Sentinels
<1>3. u \in Nat /\ u # 0 /\ u - 1 \in Nat
  BY DEF TypeOK, Tick
<1>4. PICK x \in Int, v \in Int :
        x = Age(u, y) /\ v = Age(u - 1, z) /\ v <= x + 1
  BY <1>3, AgeTyped, AgeTicks
<1>5. Expects(d, x)
  BY <1>4 DEF Heard
<1>6. ASSUME NEW m \in net
      PROVE  \E k \in net' : k.to = m.to /\ k.left = m.left - 1
  <2>1. m \in Heartbeat
    BY DEF TypeOK
  <2>2. [m EXCEPT !.left = @ - 1] \in net'
    BY <1>1
  <2> QED
    BY <2>1, <2>2 DEF Heartbeat
<1>7. Soon(d, x) => Soon(d, x + 1)'
  <2> SUFFICES ASSUME Soon(d, x)
               PROVE  Soon(d, x + 1)'
    OBVIOUS
  <2>1. PICK m \in net : m.to = d /\ x + m.left <= Lost + Delay
    BY DEF Soon
  <2>2. m.left \in Nat
    BY ConstantsTyped DEF TypeOK, Heartbeat
  <2>3. PICK k \in net' : k.to = m.to /\ k.left = m.left - 1
    BY <1>6
  <2>4. (x + 1) + k.left <= Lost' + Delay
    BY <1>2, <2>1, <2>2, <2>3, ConstantsTyped
  <2> QED
    BY <2>1, <2>3, <2>4 DEF Soon
<1>8. ASSUME NEW w \in Sentinels, NEW t \in heartbeatTimer[w]
      PROVE  /\ t \in Nat /\ t # 0 /\ t - 1 \in Nat
             /\ w \in Node
             /\ Sent(w, d, t) \in net => Sent(w, d, t - 1)' \in net'
             /\ Hears(w, t, d, x)
  <2>1. w \in Node /\ t \in Nat /\ t # 0
    BY ConstantsTyped DEF TypeOK, Tick, Sentinels
  <2>2. ASSUME Sent(w, d, t) \in net
        PROVE  Sent(w, d, t - 1)' \in net'
    <3>1. [Sent(w, d, t) EXCEPT !.left = @ - 1] \in net'
      BY <1>1, <2>2
    <3>2. t - 1 + Delay - Interval = (t + Delay - Interval) - 1
      BY <2>1, ConstantsTyped
    <3>3. [Sent(w, d, t) EXCEPT !.left = @ - 1] = Sent(w, d, t - 1)'
      BY <1>1, <3>2 DEF Sent
    <3> QED
      BY <3>1, <3>3
  <2> QED
    BY <1>4, <2>1, <2>2 DEF Heard
<1>9. Expects(d, v)'
  <2>1. CASE Sentinels = {}
    <3>1. v <= 0
      BY <1>3, <1>4, <2>1, ConstantsTyped DEF Age
    <3> QED
      BY <1>2, <3>1 DEF Expects
  <2>2. CASE Soon(d, x)
    <3>1. Expects(d, x + 1)'
      BY <1>7, <2>2 DEF Expects
    <3> QED
      BY <1>4, <3>1, YoungerNext
  <2>3. CASE x <= Lost /\ Sentinels # {} /\ ~Soon(d, x)
    <3>1. PICK w \in Sentinels : role[w] = "sentinel" /\ w \in Node
      BY <2>3 DEF Sentinels
    <3>2. PICK t \in heartbeatTimer[w] : TRUE
      BY <3>1 DEF TimersMatchRole
    <3>3. t \in Nat /\ t # 0 /\ Hears(w, t, d, x)
      BY <1>8
    <3>4. ~(Sent(w, d, t) \in net /\ x + t <= Lost + Interval)
      <4> SUFFICES ASSUME Sent(w, d, t) \in net, x + t <= Lost + Interval
                   PROVE  Soon(d, x)
        BY <2>3
      <4>1. Sent(w, d, t).to = d /\ Sent(w, d, t).left = t + Delay - Interval
        BY DEF Sent
      <4>2. x + (t + Delay - Interval) <= Lost + Delay
        BY <1>2, <3>3, ConstantsTyped
      <4> QED
        BY <4>1, <4>2 DEF Soon
    <3>5. x + t <= Lost
      BY <2>3, <3>3, <3>4 DEF Hears
    <3>6. x + 1 <= Lost'
      BY <1>2, <3>3, <3>5
    <3>7. Expects(d, x + 1)'
      BY <3>6 DEF Expects
    <3> QED
      BY <1>4, <3>7, YoungerNext
  <2> QED
    BY <1>5, <2>1, <2>2, <2>3 DEF Expects
<1>10. ASSUME NEW w \in Sentinels, NEW t \in heartbeatTimer[w]
       PROVE  Hears(w, t - 1, d, v)'
  <2>1. /\ t \in Nat /\ t # 0 /\ t - 1 \in Nat
        /\ w \in Node
        /\ Sent(w, d, t) \in net => Sent(w, d, t - 1)' \in net'
        /\ Hears(w, t, d, x)
    BY <1>8
  <2>2. (x + 1) + (t - 1) = x + t
    BY <2>1
  <2>3. Hears(w, t - 1, d, x + 1)'
    BY <1>1, <1>2, <1>7, <2>1, <2>2 DEF Hears
  <2> QED
    BY <1>4, <2>1, <2>3, YoungerNext
<1> QED
  BY <1>4, <1>9, <1>10

(* A clock that starts again whenever time passes without a sentinel: the   *)
(* followers' waiting is explained by the losses.                           *)
LEMMA HeardNext ==
  ASSUME TypeOK, TypeOK', TimersMatchRole, TimersMatchRole', [Next]_vars, Delay < Interval,
         NEW y \in Nat, NEW z \in Nat, Heard(y),
         ~Tick => z <= y,
         Tick => z <= y + 1 /\ (Sentinels = {} => z = 0)
  PROVE  Heard(z)'
<1>1. CASE Tick
  BY <1>1, TickKeepsHeard
<1>2. CASE ~Tick /\ \E m \in net : Lose(m)
  BY <1>2, LossKeepsHeard
<1>3. CASE ~Tick /\ Calm
  BY <1>3, CalmKeepsHeard
<1> QED
  BY <1>1, <1>2, <1>3, StepsAreCalm

-----------------------------------------------------------------------------
(* Of two sentinels, the one that loses hears of the other in time: by its  *)
(* next heartbeat, or by the last one, which is on its way.                 *)
Warned(w, l) ==
  \A t \in heartbeatTimer[w] :
    \/ splitFor + t <= Lost + Interval
    \/ Sent(w, l, t) \in net /\ splitFor + t <= Lost + 2 * Interval

Contested ==
  \A w, l \in Sentinels : Beats(epoch[w], w, epoch[l], l) => Warned(w, l)

SplitInv == Heard(splitFor) /\ Contested /\ SplitHeals

(* Who takes over heard of nobody, for no longer than the losses explain. *)
LEMMA Uninformed ==
  ASSUME TypeOK, Punctual, NEW y \in Nat, Heard(y), NEW n \in Node, 0 \in timeoutTimer[n]
  PROVE  y <= Lost + Delay /\ Age(0, y) = y
<1>1. PICK x \in Int : x = Age(0, y)
  BY AgeTyped
<1>2. Lost \in Nat /\ Lost + Interval + Delay < Timeout
  BY LostTyped, ConstantsTyped DEF Punctual
<1>3. x <= Lost + Delay
  <2>1. CASE x <= Lost
    BY <1>2, <2>1, ConstantsTyped
  <2>2. CASE Soon(n, x)
    <3>1. PICK m \in net : m.to = n /\ x + m.left <= Lost + Delay
      BY <2>2 DEF Soon
    <3>2. m.left \in Nat
      BY ConstantsTyped DEF TypeOK, Heartbeat
    <3> QED
      BY <1>2, <3>1, <3>2, ConstantsTyped
  <2>3. Expects(n, x)
    BY <1>1 DEF Heard
  <2> QED
    BY <2>1, <2>2, <2>3 DEF Expects
<1>4. x < Timeout - Interval
  BY <1>2, <1>3, ConstantsTyped
<1>5. x = y
  BY <1>1, <1>4, ConstantsTyped DEF Age
<1> QED
  BY <1>1, <1>3, <1>5

LEMMA SplitInit == Init => SplitInv
<1> SUFFICES ASSUME Init
             PROVE  SplitInv
  OBVIOUS
<1>1. Heard(splitFor)
  BY DEF Init, Heard
<1>2. Contested
  BY DEF Init, Contested, Sentinels
<1>3. SplitHeals
  BY InitTyped, LostTyped DEF Init, SplitHeals
<1> QED
  BY <1>1, <1>2, <1>3 DEF SplitInv

(* A sentinel that was one before is still known to the losers it had. *)
LEMMA WarnedStays ==
  ASSUME TypeOK, NEW w \in Node, NEW l \in Node, Warned(w, l),
         splitFor' <= splitFor, splitFor' \in Nat, losses' = losses,
         epoch'[w] = epoch[w], heartbeatTimer'[w] = heartbeatTimer[w],
         \A t \in heartbeatTimer[w] : Sent(w, l, t) \in net => Sent(w, l, t) \in net'
  PROVE  Warned(w, l)'
<1> SUFFICES ASSUME NEW t \in heartbeatTimer[w]
             PROVE  \/ splitFor' + t <= Lost' + Interval
                    \/ Sent(w, l, t)' \in net' /\ splitFor' + t <= Lost' + 2 * Interval
  BY DEF Warned
<1>1. /\ t \in Nat /\ splitFor \in Nat /\ Lost \in Nat
      /\ Lost' = Lost /\ Sent(w, l, t)' = Sent(w, l, t)
  BY LostTyped, ConstantsTyped DEF TypeOK, Lost, Sent
<1>2. \A b \in Int : splitFor + t <= b => splitFor' + t <= b
  BY <1>1
<1>3. Lost + Interval \in Int /\ Lost + 2 * Interval \in Int
  BY <1>1, ConstantsTyped
<1> QED
  BY <1>1, <1>2, <1>3 DEF Warned

(* Whoever has just sent a heartbeat has warned everybody. *)
LEMMA WarnedBySending ==
  ASSUME TypeOK', NEW w \in Node, NEW l \in Node \ {w}, heartbeatTimer'[w] = {Interval},
         Sends(w)', splitFor' <= Lost' + Interval
  PROVE  Warned(w, l)'
<1>1. splitFor' \in Nat /\ Lost' \in Nat
  <2>1. TypeOK' => (Lost \in Nat)'
    BY LostTyped, PTL
  <2> QED
    BY <2>1 DEF TypeOK
<1>2. splitFor' + Interval <= Lost' + 2 * Interval
  BY <1>1, ConstantsTyped
<1>3. Sent(w, l, Interval)' \in net'
  BY DEF Sends
<1> QED
  BY <1>2, <1>3 DEF Warned

LEMMA SumTicks ==
  ASSUME NEW s \in Nat, NEW r \in Nat, r <= s + 1, NEW t \in Nat, NEW b \in Nat, s + t <= b
  PROVE  r + (t - 1) <= b
OBVIOUS

LEMMA SplitNext ==
  ASSUME Punctual
  PROVE  TypeOK /\ TypeOK' /\ TimersMatchRole /\ TimersMatchRole' /\ SplitInv /\ [Next]_vars
         => SplitInv'
<1> SUFFICES ASSUME TypeOK, TypeOK', TimersMatchRole, TimersMatchRole', SplitInv, [Next]_vars
             PROVE  SplitInv'
  OBVIOUS
<1> USE ConstantsTyped
<1>0. /\ Lost \in Nat /\ Lost + Interval + Delay <= SplitBound
      /\ splitFor \in Nat /\ splitFor' \in Nat /\ splitFor <= SplitBound
      /\ SplitBound \in Nat /\ Delay < Interval
  BY LostTyped DEF TypeOK, SplitInv, SplitHeals, Punctual
<1>1. Heard(splitFor)'
  <2>1. ~Tick => splitFor' <= splitFor
    BY <1>0 DEF Next, Work, HandleHeartbeat, StartAsSentinel, StartAsFollower, ANewNode,
      EmitHeartbeat, Promote, Demote, DemoteTo, Follow, Ignore, Stop, Lose, observed, vars
  <2>2. Tick => splitFor' <= splitFor + 1 /\ (Sentinels = {} => splitFor' = 0)
    <3> SUFFICES ASSUME Tick
                 PROVE  splitFor' <= splitFor + 1 /\ (Sentinels = {} => splitFor' = 0)
      OBVIOUS
    <3>1. splitFor' = IF Cardinality(Sentinels) > 1 THEN Later(splitFor, SplitBound) ELSE 0
      BY DEF Tick
    <3>2. Later(splitFor, SplitBound) <= splitFor + 1
      BY <1>0 DEF Later
    <3>3. Sentinels = {} => Cardinality(Sentinels) = 0
      BY FS_EmptySet
    <3>4. Sentinels = {} => ~(Cardinality(Sentinels) > 1)
      BY <3>3
    <3> QED
      BY <1>0, <3>1, <3>2, <3>4
  <2>3. PICK z \in Nat : z = splitFor'
    BY <1>0
  <2>4. Heard(splitFor)
    BY DEF SplitInv
  <2>5. Heard(z)'
    BY <1>0, <2>1, <2>2, <2>3, <2>4, HeardNext
  <2> QED
    BY <2>3, <2>5 DEF Heard
<1>2. ASSUME NEW w \in Sentinels', NEW l \in Sentinels', Beats(epoch'[w], w, epoch'[l], l)
      PROVE  Warned(w, l)'
  <2>1. w \in Node /\ l \in Node /\ w # l
    BY <1>2 DEF Sentinels, Beats, TypeOK
  <2>2. ASSUME w \in Sentinels, l \in Sentinels,
               epoch'[w] = epoch[w], epoch'[l] = epoch[l]
        PROVE  Warned(w, l)
    BY <1>2, <2>2 DEF SplitInv, Contested
  <2>3. CASE splitFor' = 0
    <3> SUFFICES ASSUME NEW t \in heartbeatTimer'[w]
                 PROVE  splitFor' + t <= Lost' + Interval
      BY DEF Warned
    <3>1. t \in Nat /\ t <= Interval
      BY <2>1 DEF TypeOK
    <3>2. PICK k \in Nat : k = Lost'
      BY LostTypedNext
    <3>3. 0 + t <= k + Interval
      BY <3>1
    <3> QED
      BY <2>3, <3>2, <3>3
  <2>4. ASSUME NEW n \in Node, StartAsSentinel(n) \/ StartAsFollower(n)
        PROVE  Warned(w, l)'
    BY <2>3, <2>4 DEF StartAsSentinel, StartAsFollower, ANewNode
  <2>5. ASSUME NEW n \in Node, EmitHeartbeat(n)
        PROVE  Warned(w, l)'
    <3>1. /\ UNCHANGED <<role, epoch, splitFor, losses>>
          /\ heartbeatTimer' = [heartbeatTimer EXCEPT ![n] = {Interval}]
          /\ net' = net \union Heartbeats(n, epoch'[n])
          /\ 0 \in heartbeatTimer[n]
      BY <2>5 DEF EmitHeartbeat, faults, observed
    <3>2. Warned(w, l)
      BY <2>2, <3>1 DEF Sentinels
    <3>3. CASE w = n
      <4>1. Sent(w, l, 0) \notin net
        <5>1. Sent(w, l, 0).left = 0 + Delay - Interval
          BY DEF Sent
        <5>2. Sent(w, l, 0).left \notin Nat
          BY <1>0, <5>1
        <5> QED
          BY <5>2 DEF TypeOK, Heartbeat
      <4>2. splitFor + 0 <= Lost + Interval
        BY <3>1, <3>2, <3>3, <4>1 DEF Warned
      <4>3. Lost' = Lost
        BY <3>1 DEF Lost
      <4>4. splitFor' <= Lost' + Interval
        BY <1>0, <3>1, <4>2, <4>3
      <4>5. Sends(w)'
        BY <3>1, <3>3, Sending DEF TypeOK
      <4>6. heartbeatTimer'[w] = {Interval}
        BY <3>1, <3>3 DEF TypeOK
      <4> QED
        BY <2>1, <4>4, <4>5, <4>6, WarnedBySending
    <3>4. CASE w # n
      <4>1. epoch'[w] = epoch[w] /\ heartbeatTimer'[w] = heartbeatTimer[w]
        BY <2>1, <3>1, <3>4 DEF TypeOK
      <4>2. splitFor' <= splitFor
        BY <1>0, <3>1
      <4>3. \A t \in heartbeatTimer[w] : Sent(w, l, t) \in net => Sent(w, l, t) \in net'
        BY <3>1
      <4> QED
        BY <1>0, <2>1, <3>1, <3>2, <4>1, <4>2, <4>3, WarnedStays
    <3> QED
      BY <3>3, <3>4
  <2>6. ASSUME NEW n \in Node, Promote(n)
        PROVE  Warned(w, l)'
    <3>1. /\ UNCHANGED <<splitFor, losses>>
          /\ role' = [role EXCEPT ![n] = "sentinel"]
          /\ epoch' = [epoch EXCEPT ![n] = @ + 1]
          /\ heartbeatTimer' = [heartbeatTimer EXCEPT ![n] = {Interval}]
          /\ net' = net \union Heartbeats(n, epoch'[n])
          /\ 0 \in timeoutTimer[n]
      BY <2>6 DEF Promote, faults, TypeOK
    <3>2. splitFor <= Lost + Delay /\ Age(0, splitFor) = splitFor
      BY <1>0, <3>1, Uninformed DEF SplitInv
    <3>3. Lost' = Lost
      BY <3>1 DEF Lost
    <3>4. CASE w = n
      <4>1. splitFor' <= Lost' + Interval
        BY <1>0, <3>1, <3>2, <3>3
      <4>2. Sends(w)'
        BY <3>1, <3>4, Sending DEF TypeOK
      <4>3. heartbeatTimer'[w] = {Interval}
        BY <3>1, <3>4 DEF TypeOK
      <4> QED
        BY <2>1, <4>1, <4>2, <4>3, WarnedBySending
    <3>5. CASE l = n
      <4>1. w \in Sentinels /\ heartbeatTimer'[w] = heartbeatTimer[w] /\ epoch'[w] = epoch[w]
        BY <2>1, <3>1, <3>5 DEF Sentinels, TypeOK
      <4> SUFFICES ASSUME NEW t \in heartbeatTimer[w]
                   PROVE  \/ splitFor' + t <= Lost' + Interval
                          \/ Sent(w, l, t)' \in net' /\ splitFor' + t <= Lost' + 2 * Interval
        BY <4>1 DEF Warned
      <4>2. Hears(w, t, l, splitFor)
        <5>1. Heard(splitFor) /\ 0 \in timeoutTimer[l] /\ l \in Node
          BY <3>1, <3>5 DEF SplitInv
        <5>2. Hears(w, t, l, Age(0, splitFor))
          BY <4>1, <5>1 DEF Heard
        <5> QED
          BY <3>2, <5>2
      <4>3. t \in Nat
        BY <2>1 DEF TypeOK
      <4>4. CASE splitFor + t <= Lost \/ splitFor + t <= Lost + Delay
        BY <1>0, <3>1, <3>3, <4>3, <4>4
      <4>5. CASE /\ Sent(w, l, t) \in net
                 /\ \/ splitFor + t <= Lost + Interval
                    \/ splitFor + t <= Lost + Interval + Delay
        <5>1. splitFor' + t <= Lost' + 2 * Interval
          BY <1>0, <3>1, <3>3, <4>3, <4>5
        <5>2. Sent(w, l, t)' \in net'
          BY <3>1, <4>1, <4>5 DEF Sent
        <5> QED
          BY <5>1, <5>2
      <4> QED
        BY <4>2, <4>4, <4>5 DEF Hears
    <3>6. CASE w # n /\ l # n
      <4>1. /\ w \in Sentinels /\ l \in Sentinels
            /\ epoch'[w] = epoch[w] /\ epoch'[l] = epoch[l]
            /\ heartbeatTimer'[w] = heartbeatTimer[w]
        BY <2>1, <3>1, <3>6 DEF Sentinels, TypeOK
      <4>2. Warned(w, l)
        BY <2>2, <4>1
      <4>3. splitFor' <= splitFor
        BY <1>0, <3>1
      <4>4. \A t \in heartbeatTimer[w] : Sent(w, l, t) \in net => Sent(w, l, t) \in net'
        BY <3>1
      <4> QED
        BY <1>0, <2>1, <3>1, <4>1, <4>2, <4>3, <4>4, WarnedStays
    <3> QED
      BY <3>4, <3>5, <3>6
  <2>7. ASSUME splitFor' = splitFor, losses' = losses,
               w \in Sentinels, l \in Sentinels,
               epoch'[w] = epoch[w], epoch'[l] = epoch[l],
               heartbeatTimer'[w] = heartbeatTimer[w],
               \A m \in net \ net' :
                 m.to # l \/ ~Beats(m.epoch, m.from, epoch[l], l)
        PROVE  Warned(w, l)'
    <3>1. Warned(w, l)
      BY <2>2, <2>7
    <3>2. ASSUME NEW t \in heartbeatTimer[w], Sent(w, l, t) \in net
          PROVE  Sent(w, l, t) \in net'
      <4>1. /\ Sent(w, l, t).to = l /\ Sent(w, l, t).from = w
            /\ Sent(w, l, t).epoch = epoch[w]
        BY DEF Sent
      <4>2. Beats(epoch[w], w, epoch[l], l)
        BY <1>2, <2>7
      <4> QED
        BY <2>7, <3>2, <4>1, <4>2
    <3>3. splitFor' <= splitFor /\ splitFor' \in Nat /\ w \in Node /\ l \in Node
      BY <1>0, <2>1, <2>7 DEF TypeOK
    <3>4. \A t \in heartbeatTimer[w] : Sent(w, l, t) \in net => Sent(w, l, t) \in net'
      BY <3>2
    <3> QED
      BY <1>0, <2>7, <3>1, <3>3, <3>4, WarnedStays
  <2>8. ASSUME NEW n \in Node, NEW m \in net, HandleHeartbeat(n, m)
        PROVE  Warned(w, l)'
    <3>1. CASE Demote(n, m)
      <4>1. w # n /\ l # n
        BY <3>1 DEF Demote, DemoteTo, Sentinels, TypeOK
      <4>2. /\ UNCHANGED <<splitFor, losses>> /\ net' = net \ {m} /\ m.to = n
            /\ w \in Sentinels /\ l \in Sentinels
            /\ epoch'[w] = epoch[w] /\ epoch'[l] = epoch[l]
            /\ heartbeatTimer'[w] = heartbeatTimer[w]
        BY <2>1, <3>1, <4>1 DEF Demote, DemoteTo, Sentinels, TypeOK, faults, observed
      <4> QED
        BY <2>7, <4>1, <4>2
    <3>2. CASE Follow(n, m)
      <4>1. w # n /\ l # n
        BY <3>2 DEF Follow, Sentinels
      <4>2. /\ UNCHANGED <<splitFor, losses>> /\ net' = net \ {m} /\ m.to = n
            /\ w \in Sentinels /\ l \in Sentinels
            /\ epoch'[w] = epoch[w] /\ epoch'[l] = epoch[l]
            /\ heartbeatTimer'[w] = heartbeatTimer[w]
        BY <2>1, <3>2, <4>1 DEF Follow, Sentinels, TypeOK, faults, observed
      <4> QED
        BY <2>7, <4>1, <4>2
    <3>3. CASE Ignore(n, m)
      <4>1. /\ UNCHANGED <<role, epoch, heartbeatTimer, splitFor, losses>>
            /\ net' = net \ {m} /\ m.to = n
        BY <3>3 DEF Ignore, faults, observed
      <4>2. w \in Sentinels /\ l \in Sentinels
        BY <4>1 DEF Sentinels
      <4>3. l = n => ~Beats(m.epoch, m.from, epoch[n], n)
        BY <3>3, <4>2 DEF Ignore, Sentinels, Running
      <4> QED
        BY <2>7, <4>1, <4>2, <4>3
    <3> QED
      BY <2>8, <3>1, <3>2, <3>3 DEF HandleHeartbeat
  <2>9. ASSUME NEW n \in Node, Stop(n)
        PROVE  Warned(w, l)'
    <3>1. w # n /\ l # n
      BY <2>9 DEF Stop, Sentinels, TypeOK
    <3>2. /\ UNCHANGED <<splitFor, losses, net>>
          /\ w \in Sentinels /\ l \in Sentinels
          /\ epoch'[w] = epoch[w] /\ epoch'[l] = epoch[l]
          /\ heartbeatTimer'[w] = heartbeatTimer[w]
      BY <2>1, <2>9, <3>1 DEF Stop, Sentinels, TypeOK, observed
    <3> QED
      BY <2>7, <3>2
  <2>10. CASE UNCHANGED vars
    BY <2>7, <2>10 DEF vars, faults, observed, Sentinels
  <2>11. ASSUME NEW k \in net, Lose(k)
         PROVE  Warned(w, l)'
    <3>1. /\ UNCHANGED <<role, epoch, heartbeatTimer, splitFor>>
          /\ losses' = losses + 1
      BY <2>11 DEF Lose, observed
    <3>2. Lost' = Lost + Interval
      BY <3>1, LostGrows
    <3>3. Warned(w, l)
      BY <2>2, <3>1 DEF Sentinels
    <3> SUFFICES ASSUME NEW t \in heartbeatTimer[w]
                 PROVE  splitFor' + t <= Lost' + Interval
      BY <3>1 DEF Warned
    <3>4. t \in Nat
      BY <2>1 DEF TypeOK
    <3>5. splitFor + t <= Lost + Interval \/ splitFor + t <= Lost + 2 * Interval
      BY <3>3 DEF Warned
    <3> QED
      BY <1>0, <3>1, <3>2, <3>4, <3>5
  <2>12. ASSUME Tick
         PROVE  Warned(w, l)'
    <3>1. /\ UNCHANGED <<role, epoch, losses>>
          /\ heartbeatTimer' = [n \in Node |-> {t - 1 : t \in heartbeatTimer[n]}]
          /\ net' = {[m EXCEPT !.left = @ - 1] : m \in net}
          /\ splitFor' = IF Cardinality(Sentinels) > 1 THEN Later(splitFor, SplitBound) ELSE 0
      BY <2>12 DEF Tick, faults
    <3>2. splitFor' <= splitFor + 1
      BY <1>0, <3>1 DEF Later
    <3>3. Warned(w, l)
      BY <2>2, <3>1 DEF Sentinels
    <3>4. Lost' = Lost
      BY <3>1 DEF Lost
    <3> SUFFICES ASSUME NEW t \in heartbeatTimer[w]
                 PROVE  \/ splitFor' + (t - 1) <= Lost' + Interval
                        \/ /\ Sent(w, l, t - 1)' \in net'
                           /\ splitFor' + (t - 1) <= Lost' + 2 * Interval
      BY <2>1, <3>1 DEF Warned
    <3>5. t \in Nat /\ t # 0
      BY <2>1, <2>12 DEF TypeOK, Tick
    <3>6. CASE splitFor + t <= Lost + Interval
      <4>1. Lost + Interval \in Nat
        BY <1>0
      <4>2. splitFor' + (t - 1) <= Lost + Interval
        BY <1>0, <3>2, <3>5, <3>6, <4>1, SumTicks
      <4> QED
        BY <3>4, <4>2
    <3>7. CASE Sent(w, l, t) \in net /\ splitFor + t <= Lost + 2 * Interval
      <4>1. splitFor' + (t - 1) <= Lost' + 2 * Interval
        BY <1>0, <3>2, <3>4, <3>5, <3>7
      <4>2. [Sent(w, l, t) EXCEPT !.left = @ - 1] \in net'
        BY <3>1, <3>7
      <4>3. t - 1 + Delay - Interval = (t + Delay - Interval) - 1
        BY <3>5
      <4>4. [Sent(w, l, t) EXCEPT !.left = @ - 1] = Sent(w, l, t - 1)'
        BY <3>1, <4>3 DEF Sent
      <4> QED
        BY <4>1, <4>2, <4>4
    <3> QED
      BY <3>3, <3>6, <3>7 DEF Warned
  <2> QED
    BY <2>4, <2>5, <2>6, <2>8, <2>9, <2>10, <2>11, <2>12 DEF Next, Work
<1>3. SplitHeals'
  <2>1. CASE splitFor' <= splitFor
    BY <1>0, <2>1 DEF SplitHeals, SplitBound
  <2>2. CASE Tick /\ Cardinality(Sentinels) > 1
    <3>1. splitFor' <= splitFor + 1
      BY <1>0, <2>2 DEF Tick, Later
    <3>2. PICK w \in Sentinels, l \in Sentinels : w # l
      <4>1. IsFiniteSet(Sentinels)
        BY NodeType, FS_Subset DEF Sentinels
      <4>2. Sentinels # {}
        BY <2>2, FS_EmptySet
      <4>3. PICK w \in Sentinels : TRUE
        BY <4>2
      <4>4. Cardinality({w}) = 1
        BY FS_Singleton
      <4>5. Sentinels # {w}
        <5> SUFFICES ASSUME Sentinels = {w}
                     PROVE  FALSE
          OBVIOUS
        <5>1. Cardinality(Sentinels) = 1
          BY <4>4
        <5> QED
          BY <2>2, <5>1
      <4> QED
        BY <4>3, <4>5
    <3>3. ASSUME NEW v \in Sentinels, NEW k \in Sentinels, Warned(v, k)
          PROVE  splitFor + 1 <= SplitBound
      <4>1. PICK t \in heartbeatTimer[v] : TRUE
        BY DEF TimersMatchRole, Sentinels
      <4>2. t \in Nat /\ t # 0
        BY <2>2 DEF TypeOK, Tick, Sentinels
      <4>3. CASE splitFor + t <= Lost + Interval
        BY <1>0, <4>2, <4>3
      <4>4. CASE Sent(v, k, t) \in net /\ splitFor + t <= Lost + 2 * Interval
        <5>1. Sent(v, k, t).left > 0
          BY <2>2, <4>4 DEF Tick
        <5>2. t + Delay - Interval > 0
          BY <5>1 DEF Sent
        <5> QED
          BY <1>0, <4>2, <4>4, <5>2
      <4> QED
        BY <3>3, <4>3, <4>4 DEF Warned
    <3>4. Beats(epoch[w], w, epoch[l], l) \/ Beats(epoch[l], l, epoch[w], w)
      BY SMTT(30), <3>2 DEF Sentinels, TypeOK, Beats
    <3>5. splitFor + 1 <= SplitBound
      BY <3>3, <3>4 DEF SplitInv, Contested
    <3> QED
      BY <1>0, <3>1, <3>5 DEF SplitHeals, SplitBound
  <2>3. ~(splitFor' <= splitFor) => Tick /\ Cardinality(Sentinels) > 1
    <3>1. ~Tick => splitFor' <= splitFor
      BY <1>0 DEF Next, Work, HandleHeartbeat, StartAsSentinel, StartAsFollower, ANewNode,
        EmitHeartbeat, Promote, Demote, DemoteTo, Follow, Ignore, Stop, Lose, observed, vars
    <3>2. Tick /\ ~(Cardinality(Sentinels) > 1) => splitFor' <= splitFor
      BY <1>0 DEF Tick
    <3> QED
      BY <3>1, <3>2
  <2> QED
    BY <2>1, <2>2, <2>3
<1> QED
  BY <1>1, <1>2, <1>3 DEF SplitInv, Contested

(* When the times are chosen well, two sentinels never keep the role both   *)
(* for longer than the heartbeats that were lost explain: in every mesh,    *)
(* however many nodes take over at once, stop or come back.                 *)
THEOREM SplitIsHealed ==
  ASSUME Punctual
  PROVE  Spec => []SplitHeals
<1>1. TypeOK /\ TypeOK' /\ TimersMatchRole /\ TimersMatchRole' /\ SplitInv /\ [Next]_vars
      => SplitInv'
  BY SplitNext
<1>2. SplitInv => SplitHeals
  BY DEF SplitInv
<1> QED
  BY <1>1, <1>2, SplitInit, ElectionTyped, TimersFollowRole, PTL DEF Spec

-----------------------------------------------------------------------------
(* How long d waits after a heartbeat of w. *)
Turn(d, w) == Timeout + Place(d, w) * Step

(* w was the last to send heartbeats, which it did a ago: every follower    *)
(* got its one and waits for its turn in the order of w, or will get it     *)
(* before it has waited long enough.                                        *)
Ordered(w, a) ==
  /\ Sentinels \subseteq {w}
  /\ timeoutTimer[w] = {}
  /\ \A t \in heartbeatTimer[w] : a + t = Interval
  /\ \A m \in net : m.from = w /\ m.to # w /\ m.left + a = Delay
  /\ \A d \in Node : \A u \in timeoutTimer[d] :
       \/ Delay < u + a /\ \E m \in net : m.to = d
       \/ Turn(d, w) <= u + a /\ u + a <= Turn(d, w) + Delay

Orderly == \E w \in Node, a \in Nat : Ordered(w, a)

(* Before that: w is the only one left, heartbeats of others may still be   *)
(* in flight, and w sends one to all after the last of those has arrived.   *)
Settling(w) ==
  /\ Sentinels = {w}
  /\ \A t \in heartbeatTimer[w] :
       /\ steadyFor + t <= 2 * Delay + Interval
       /\ \A m \in net : \/ m.left = t + Delay - Interval
                         \/ steadyFor + m.left <= 2 * Delay

(* While the clock runs, somebody may still take over for as long as the    *)
(* heartbeats of the first are under way; a clock that has stopped says     *)
(* nothing.                                                                 *)
Early ==
  \/ steadyFor <= Delay
  \/ Sentinels = {}
  \/ \E w \in Node : Settling(w)
  \/ Orderly

SteadyInv ==
  /\ steadyFor <= Steady
  /\ steadyFor = Steady => Orderly
  /\ steadyFor # Steady => Heard(steadyFor) /\ Early

-----------------------------------------------------------------------------
LEMMA TurnTyped ==
  ASSUME NEW d \in Node, NEW w \in Node
  PROVE  Turn(d, w) \in Nat /\ Timeout <= Turn(d, w)
<1>1. PICK p \in Nat : p = Place(d, w)
  BY PlaceTyped
<1>2. PICK c \in Nat : c = Step
  BY ConstantsTyped
<1>3. PICK k \in Nat : k = p * c
  OBVIOUS
<1> QED
  BY <1>1, <1>2, <1>3, ConstantsTyped DEF Turn

(* Two nodes in one list have different places in it. *)
LEMMA PlacesDiffer ==
  ASSUME Cascading, NEW w \in Node, NEW d \in Node \ {w}, NEW e \in Node \ {w}, d # e
  PROVE  Place(d, w) # Place(e, w)
<1>1. PICK s : s = Successors[w]
  OBVIOUS
<1>2. s \in Seq(Node)
  BY <1>1, ConstantsTyped
<1>3. DOMAIN s \subseteq Int
  BY <1>2
<1>4. ASSUME NEW p \in Node \ {w}
      PROVE  \E i \in DOMAIN s : s[i] = p /\ Place(p, w) = i - 1
  <2>1. \E i \in DOMAIN s : s[i] = p
    BY <1>1 DEF Cascading
  <2>2. PICK i \in DOMAIN s : s[i] = p /\ i = CHOOSE j \in DOMAIN s : s[j] = p
    BY <2>1
  <2> QED
    BY <1>1, <2>2 DEF Place
<1>5. PICK i \in DOMAIN s : s[i] = d /\ Place(d, w) = i - 1
  BY <1>4
<1>6. PICK j \in DOMAIN s : s[j] = e /\ Place(e, w) = j - 1
  BY <1>4
<1> QED
  BY <1>3, <1>5, <1>6

LEMMA TurnsApart ==
  ASSUME Cascading, NEW w \in Node, NEW d \in Node \ {w}, NEW e \in Node \ {w}, d # e
  PROVE  Turn(d, w) + Step <= Turn(e, w) \/ Turn(e, w) + Step <= Turn(d, w)
<1>1. PICK c \in Nat : c = Step
  BY ConstantsTyped
<1>2. PICK p \in Nat, q \in Nat : p = Place(d, w) /\ q = Place(e, w) /\ p # q
  BY PlaceTyped, PlacesDiffer
<1>3. ASSUME NEW i \in Nat, NEW j \in Nat, i < j
      PROVE  i * c + c <= j * c
  <2>1. (i + 1) * c <= j * c
    BY <1>3, ProductsGrow
  <2>2. (i + 1) * c = i * c + c
    OBVIOUS
  <2> QED
    BY <2>1, <2>2
<1>4. p * c + c <= q * c \/ q * c + c <= p * c
  <2>1. p < q \/ q < p
    BY <1>2
  <2>2. p < q => p * c + c <= q * c
    BY <1>3
  <2>3. q < p => q * c + c <= p * c
    BY <1>3
  <2> QED
    BY <2>1, <2>2, <2>3
<1>5. PICK x \in Nat, y \in Nat : x = p * c /\ y = q * c
  OBVIOUS
<1>6. Timeout + x + c <= Timeout + y \/ Timeout + y + c <= Timeout + x
  BY <1>4, <1>5, ConstantsTyped
<1> QED
  BY <1>1, <1>2, <1>5, <1>6 DEF Turn

LEMMA CascadingTimes ==
  ASSUME Cascading
  PROVE  /\ Steady = Interval + 2 * Delay + 1
         /\ Interval + Delay < Timeout
         /\ Delay < Interval
         /\ 2 * Delay < Step
         /\ TypeOK => losses = 0 /\ Lost = 0 /\ ~\E m \in net : Lose(m)
<1>1. (MaxLosses + 1) * Interval = Interval
  BY ConstantsTyped DEF Cascading
<1>2. TypeOK => losses = 0
  BY ConstantsTyped DEF Cascading, TypeOK
<1>3. TypeOK => Lost = 0
  BY <1>2, ConstantsTyped DEF Lost
<1>4. TypeOK => ~\E m \in net : Lose(m)
  BY <1>2 DEF Lose, Cascading
<1> QED
  BY <1>1, <1>2, <1>3, <1>4 DEF Cascading, Punctual, Steady, SplitBound

LEMMA OrderlyNext ==
  ASSUME Cascading, TypeOK, TypeOK', TimersMatchRole, TimersMatchRole', Orderly, [Next]_vars,
         \A n \in Node : ~StartAsSentinel(n) /\ ~StartAsFollower(n)
  PROVE  Orderly'
<1> USE ConstantsTyped, CascadingTimes
<1>1. PICK w \in Node, a \in Nat : Ordered(w, a)
  BY DEF Orderly
<1>2. ASSUME NEW n \in Node, EmitHeartbeat(n)
      PROVE  Orderly'
  <2>1. /\ UNCHANGED <<role, timeoutTimer>>
        /\ heartbeatTimer' = [heartbeatTimer EXCEPT ![n] = {Interval}]
        /\ net' = net \union Heartbeats(n, epoch[n])
        /\ 0 \in heartbeatTimer[n]
    BY <1>2 DEF EmitHeartbeat
  <2>2. n = w
    BY <1>1, <2>1 DEF Ordered, TimersMatchRole, Sentinels
  <2>3. a = Interval
    BY <1>1, <2>1, <2>2 DEF Ordered
  <2>4. net = {}
    <3> SUFFICES ASSUME NEW m \in net
                 PROVE  FALSE
      OBVIOUS
    <3>1. m.left \in Nat /\ m.left + a = Delay
      BY <1>1 DEF Ordered, TypeOK, Heartbeat
    <3> QED
      BY <2>3, <3>1
  <2>5. \A m \in net' : m.from = w /\ m.to # w /\ m.left + 0 = Delay
    BY <2>1, <2>2, <2>4 DEF Heartbeats
  <2>6. ASSUME NEW d \in Node, NEW u \in timeoutTimer'[d]
        PROVE  Delay < u + 0 /\ \E m \in net' : m.to = d
    <3>1. d # w /\ u \in timeoutTimer[d] /\ u \in Nat
      BY <1>1, <2>1 DEF Ordered, TypeOK
    <3>2. Turn(d, w) <= u + a
      BY <1>1, <2>4, <3>1 DEF Ordered
    <3>3. PICK k \in Nat : k = Turn(d, w) /\ Timeout <= k
      BY TurnTyped
    <3>4. Delay < u
      BY <2>3, <3>1, <3>2, <3>3
    <3>5. [to |-> d, from |-> n, epoch |-> epoch[n], left |-> Delay] \in net'
      BY <2>1, <2>2, <3>1 DEF Heartbeats
    <3> QED
      BY <3>1, <3>4, <3>5
  <2>7. \A t \in heartbeatTimer'[w] : 0 + t = Interval
    BY <2>1, <2>2 DEF TypeOK
  <2>8. Sentinels' \subseteq {w} /\ timeoutTimer'[w] = {}
    BY <1>1, <2>1 DEF Ordered, Sentinels
  <2>9. Ordered(w, 0)'
    BY <2>5, <2>6, <2>7, <2>8 DEF Ordered
  <2> QED
    BY <2>9 DEF Orderly
<1>3. ASSUME NEW n \in Node, Promote(n)
      PROVE  Orderly'
  <2>1. /\ role' = [role EXCEPT ![n] = "sentinel"]
        /\ timeoutTimer' = [timeoutTimer EXCEPT ![n] = {}]
        /\ heartbeatTimer' = [heartbeatTimer EXCEPT ![n] = {Interval}]
        /\ net' = net \union Heartbeats(n, epoch[n] + 1)
        /\ 0 \in timeoutTimer[n]
    BY <1>3 DEF Promote
  <2>2. n # w
    BY <1>1, <2>1 DEF Ordered
  <2>3. Turn(n, w) <= a /\ a <= Turn(n, w) + Delay
    <3>1. ASSUME Delay < 0 + a, NEW m \in net
          PROVE  FALSE
      <4>1. m.left \in Nat /\ m.left + a = Delay
        BY <1>1 DEF Ordered, TypeOK, Heartbeat
      <4> QED
        BY <3>1, <4>1
    <3> QED
      BY SMTT(30), <1>1, <2>1, <3>1, TurnTyped DEF Ordered
  <2>4. a > Interval + Delay
    BY <2>3, TurnTyped
  <2>5. Sentinels = {}
    <3> SUFFICES ASSUME w \in Sentinels
                 PROVE  FALSE
      BY <1>1 DEF Ordered
    <3>1. PICK t \in heartbeatTimer[w] : t \in Nat
      BY DEF TimersMatchRole, Sentinels, TypeOK
    <3>2. a + t = Interval
      BY <1>1 DEF Ordered
    <3> QED
      BY <2>4, <3>1, <3>2
  <2>6. net = {}
    <3> SUFFICES ASSUME NEW m \in net
                 PROVE  FALSE
      OBVIOUS
    <3>1. m.left \in Nat /\ m.left + a = Delay
      BY <1>1 DEF Ordered, TypeOK, Heartbeat
    <3> QED
      BY <2>4, <3>1
  <2>7. \A m \in net' : m.from = n /\ m.to # n /\ m.left + 0 = Delay
    BY <2>1, <2>6 DEF Heartbeats
  <2>8. ASSUME NEW d \in Node, NEW u \in timeoutTimer'[d]
        PROVE  Delay < u + 0 /\ \E m \in net' : m.to = d
    <3>1. d # n /\ d # w /\ u \in timeoutTimer[d] /\ u \in Nat
      BY <1>1, <2>1 DEF Ordered, TypeOK
    <3>2. Turn(d, w) <= u + a /\ u + a <= Turn(d, w) + Delay
      BY <1>1, <2>6, <3>1 DEF Ordered
    <3>3. Turn(d, w) + Step <= Turn(n, w) \/ Turn(n, w) + Step <= Turn(d, w)
      BY <2>2, <3>1, TurnsApart
    <3>4. Turn(d, w) \in Nat /\ Turn(n, w) \in Nat
      BY TurnTyped
    <3>5. Delay < u
      BY SMTT(30), <2>3, <3>1, <3>2, <3>3, <3>4
    <3>6. [to |-> d, from |-> n, epoch |-> epoch[n] + 1, left |-> Delay] \in net'
      BY <2>1, <3>1 DEF Heartbeats
    <3> QED
      BY <3>1, <3>5, <3>6
  <2>9. \A t \in heartbeatTimer'[n] : 0 + t = Interval
    BY <2>1 DEF TypeOK
  <2>10. Sentinels' \subseteq {n} /\ timeoutTimer'[n] = {}
    BY <2>1, <2>5 DEF Sentinels, TypeOK
  <2>11. Ordered(n, 0)'
    BY <2>7, <2>8, <2>9, <2>10 DEF Ordered
  <2> QED
    BY <2>11 DEF Orderly
<1>4. ASSUME NEW n \in Node, NEW m \in net, HandleHeartbeat(n, m)
      PROVE  Orderly'
  <2>1. m.from = w /\ m.to # w /\ m.left + a = Delay /\ m.left \in Nat
    BY <1>1 DEF Ordered, TypeOK, Heartbeat
  <2>2. ~Demote(n, m)
    BY <1>1, <2>1 DEF Demote, DemoteTo, Ordered, Sentinels
  <2>3. CASE Follow(n, m)
    <3>1. /\ UNCHANGED <<role, heartbeatTimer>>
          /\ timeoutTimer' = [timeoutTimer EXCEPT ![n] = {Turn(n, w)}]
          /\ net' = net \ {m} /\ m.to = n
      BY <2>1, <2>3 DEF Follow, Turn
    <3>2. ASSUME NEW d \in Node, NEW u \in timeoutTimer'[d]
          PROVE  \/ Delay < u + a /\ \E k \in net' : k.to = d
                 \/ Turn(d, w) <= u + a /\ u + a <= Turn(d, w) + Delay
      <4>1. CASE d = n
        <5>1. u = Turn(d, w) /\ u \in Nat
          BY <3>1, <4>1, TurnTyped DEF TypeOK
        <5>2. a <= Delay
          BY <2>1
        <5> QED
          BY <5>1, <5>2
      <4>2. CASE d # n
        <5>1. u \in timeoutTimer[d]
          BY <3>1, <4>2 DEF TypeOK
        <5>2. (\E k \in net : k.to = d) => \E k \in net' : k.to = d
          BY <3>1, <4>2
        <5> QED
          BY <1>1, <5>1, <5>2 DEF Ordered
      <4> QED
        BY <4>1, <4>2
    <3>3. timeoutTimer'[w] = {}
      BY <1>1, <2>1, <3>1 DEF Ordered, TypeOK
    <3>4. Ordered(w, a)'
      BY <1>1, <3>1, <3>2, <3>3 DEF Ordered, Sentinels
    <3> QED
      BY <3>4 DEF Orderly
  <2>4. CASE Ignore(n, m)
    <3>1. /\ UNCHANGED <<role, heartbeatTimer, timeoutTimer>>
          /\ net' = net \ {m} /\ m.to = n
      BY <2>4 DEF Ignore
    <3>2. timeoutTimer[n] = {}
      BY <2>4 DEF Ignore, TimersMatchRole, Running
    <3>3. ASSUME NEW d \in Node, NEW u \in timeoutTimer[d], NEW k \in net, k.to = d
          PROVE  k \in net'
      BY <3>1, <3>2, <3>3
    <3>4. Ordered(w, a)'
      BY <1>1, <3>1, <3>3 DEF Ordered, Sentinels
    <3> QED
      BY <3>4 DEF Orderly
  <2> QED
    BY <1>4, <2>2, <2>3, <2>4 DEF HandleHeartbeat
<1>5. ASSUME NEW n \in Node, Stop(n)
      PROVE  Orderly'
  <2>1. Ordered(w, a)'
    BY ZenonT(60), <1>1, <1>5 DEF Stop, Ordered, Sentinels, TypeOK
  <2> QED
    BY <2>1 DEF Orderly
<1>6. ASSUME Tick
      PROVE  Orderly'
  <2>1. /\ role' = role
        /\ heartbeatTimer' = [n \in Node |-> {t - 1 : t \in heartbeatTimer[n]}]
        /\ timeoutTimer' = [n \in Node |-> {t - 1 : t \in timeoutTimer[n]}]
        /\ net' = {[m EXCEPT !.left = @ - 1] : m \in net}
    BY <1>6 DEF Tick
  <2>2. \A t \in heartbeatTimer'[w] : (a + 1) + t = Interval
    <3> SUFFICES ASSUME NEW t \in heartbeatTimer[w]
                 PROVE  (a + 1) + (t - 1) = Interval
      BY <2>1
    <3>1. t \in Nat /\ a + t = Interval
      BY <1>1 DEF Ordered, TypeOK
    <3> QED
      BY <3>1
  <2>3. ASSUME NEW m \in net
        PROVE  \E k \in net' : k.to = m.to
    <3>1. [m EXCEPT !.left = @ - 1] \in net' /\ m \in Heartbeat
      BY <2>1 DEF TypeOK
    <3> QED
      BY <3>1 DEF Heartbeat
  <2>4. ASSUME NEW k \in net'
        PROVE  k.from = w /\ k.to # w /\ k.left + (a + 1) = Delay
    <3>1. PICK m \in net : k = [m EXCEPT !.left = @ - 1]
      BY <2>1
    <3>2. m \in Heartbeat /\ m.from = w /\ m.to # w /\ m.left + a = Delay
      BY <1>1 DEF Ordered, TypeOK
    <3>3. k.from = w /\ k.to # w /\ k.left = m.left - 1 /\ m.left \in Nat
      BY <3>1, <3>2 DEF Heartbeat
    <3> QED
      BY <3>2, <3>3
  <2>5. ASSUME NEW d \in Node, NEW u \in timeoutTimer[d]
        PROVE  \/ Delay < (u - 1) + (a + 1) /\ \E k \in net' : k.to = d
               \/ /\ Turn(d, w) <= (u - 1) + (a + 1)
                  /\ (u - 1) + (a + 1) <= Turn(d, w) + Delay
    <3>1. u \in Nat
      BY DEF TypeOK
    <3>2. (u - 1) + (a + 1) = u + a
      BY <3>1
    <3> QED
      BY <1>1, <2>3, <3>2 DEF Ordered
  <2>6. timeoutTimer'[w] = {} /\ Sentinels' = Sentinels
    BY <1>1, <2>1 DEF Ordered, Sentinels
  <2>7. Ordered(w, a + 1)'
    BY <1>1, <2>1, <2>2, <2>4, <2>5, <2>6 DEF Ordered
  <2> QED
    BY <2>7 DEF Orderly
<1>7. ASSUME UNCHANGED vars
      PROVE  Orderly'
  <2>1. Ordered(w, a)'
    BY <1>1, <1>7 DEF vars, Ordered, Sentinels
  <2> QED
    BY <2>1 DEF Orderly
<1> QED
  BY <1>2, <1>3, <1>4, <1>5, <1>6, <1>7 DEF Next, Work

LEMMA SteadyInit == Init => SteadyInv
<1> SUFFICES ASSUME Init
             PROVE  SteadyInv
  OBVIOUS
<1>1. steadyFor = 0 /\ \A d \in Node : timeoutTimer[d] = {}
  BY DEF Init
<1>2. (MaxLosses + 1) * Interval \in Nat
  BY ConstantsTyped
<1>3. steadyFor <= Steady /\ steadyFor # Steady
  BY <1>1, <1>2, ConstantsTyped DEF Steady
<1>4. Heard(steadyFor)
  BY <1>1 DEF Heard
<1>5. Early
  BY <1>1, ConstantsTyped DEF Early
<1> QED
  BY <1>3, <1>4, <1>5 DEF SteadyInv

(* From the moment that nobody can take over any more, what is left to      *)
(* happen is one heartbeat of the only sentinel.                            *)
LEMMA SettlingNext ==
  ASSUME Cascading, TypeOK, TypeOK', TimersMatchRole, TimersMatchRole', [Next]_vars,
         ~Tick, steadyFor' = steadyFor, Delay < steadyFor, Heard(steadyFor),
         NEW w \in Node, Settling(w),
         \A n \in Node : ~StartAsSentinel(n) /\ ~StartAsFollower(n) /\ ~Promote(n)
  PROVE  Sentinels' = {} \/ Settling(w)' \/ Orderly'
<1> USE ConstantsTyped, CascadingTimes
<1>0. steadyFor \in Nat
  BY DEF TypeOK
<1>1. ASSUME Sentinels' = Sentinels, heartbeatTimer'[w] = heartbeatTimer[w], net' \subseteq net
      PROVE  Settling(w)'
  BY <1>1 DEF Settling
<1>2. ASSUME NEW n \in Node, EmitHeartbeat(n)
      PROVE  Settling(w)' \/ Orderly'
  <2>1. /\ UNCHANGED <<role, timeoutTimer>>
        /\ heartbeatTimer' = [heartbeatTimer EXCEPT ![n] = {Interval}]
        /\ net' = net \union Heartbeats(n, epoch[n])
        /\ 0 \in heartbeatTimer[n]
    BY <1>2 DEF EmitHeartbeat
  <2>2. n = w
    BY <2>1 DEF TimersMatchRole, Settling, Sentinels
  <2>3. ASSUME NEW m \in net
        PROVE  m.left \in Nat /\ steadyFor + m.left <= 2 * Delay
    <3>1. m.left \in Nat
      BY DEF TypeOK, Heartbeat
    <3>2. m.left # 0 + Delay - Interval
      BY <3>1
    <3> QED
      BY <2>1, <2>2, <3>1, <3>2 DEF Settling
  <2>4. Sentinels' = {w} /\ heartbeatTimer'[w] = {Interval}
    BY <2>1, <2>2 DEF Settling, Sentinels, TypeOK
  <2>5. CASE steadyFor <= 2 * Delay
    <3>1. steadyFor + Interval <= 2 * Delay + Interval
      BY <1>0, <2>5
    <3>2. Interval + Delay - Interval = Delay
      OBVIOUS
    <3>3. \A m \in net' : m.left = Delay \/ steadyFor + m.left <= 2 * Delay
      BY <2>1, <2>3 DEF Heartbeats
    <3>4. Settling(w)'
      BY <2>4, <3>1, <3>2, <3>3 DEF Settling
    <3> QED
      BY <3>4
  <2>6. CASE 2 * Delay < steadyFor
    <3>1. net = {}
      <4> SUFFICES ASSUME NEW m \in net
                   PROVE  FALSE
        OBVIOUS
      <4> QED
        BY <1>0, <2>3, <2>6
    <3>2. \A m \in net' : m.from = w /\ m.to # w /\ m.left + 0 = Delay
      BY <2>1, <2>2, <3>1 DEF Heartbeats
    <3>3. ASSUME NEW d \in Node, NEW u \in timeoutTimer'[d]
          PROVE  Delay < u + 0 /\ \E m \in net' : m.to = d
      <4>1. d # w /\ u \in timeoutTimer[d] /\ u \in Nat
        BY <2>1, <2>4 DEF TimersMatchRole, Sentinels, TypeOK
      <4>2. PICK x \in Int : x = Age(u, steadyFor)
        BY <1>0, <4>1, AgeTyped
      <4>3. Hears(w, 0, d, x)
        <5>1. w \in Sentinels /\ 0 \in heartbeatTimer[w]
          BY <2>1, <2>2 DEF Settling
        <5> QED
          BY <4>1, <4>2, <5>1 DEF Heard
      <4>4. x + 0 <= Lost
        BY <3>1, <4>3 DEF Hears, Soon
      <4>5. x <= 0
        BY <4>4
      <4>6. Timeout - u - Interval <= 0
        BY <1>0, <4>1, <4>2, <4>5 DEF Age
      <4>7. Delay < u
        BY <4>1, <4>6
      <4>8. [to |-> d, from |-> n, epoch |-> epoch[n], left |-> Delay] \in net'
        BY <2>1, <2>2, <4>1 DEF Heartbeats
      <4> QED
        BY <4>1, <4>7, <4>8
    <3>4. timeoutTimer'[w] = {}
      BY <2>1 DEF TimersMatchRole, Settling, Sentinels
    <3>5. \A t \in heartbeatTimer'[w] : 0 + t = Interval
      BY <2>4
    <3>6. Ordered(w, 0)'
      BY <2>4, <3>2, <3>3, <3>4, <3>5 DEF Ordered
    <3> QED
      BY <3>6 DEF Orderly
  <2> QED
    BY <1>0, <2>5, <2>6
<1>3. ASSUME NEW n \in Node, NEW m \in net, HandleHeartbeat(n, m)
      PROVE  Sentinels' = {} \/ Settling(w)'
  <2>1. CASE Demote(n, m)
    BY <2>1 DEF Demote, DemoteTo, Settling, Sentinels, TypeOK
  <2>2. CASE Follow(n, m)
    BY <1>1, <2>2 DEF Follow, Sentinels
  <2>3. CASE Ignore(n, m)
    BY <1>1, <2>3 DEF Ignore, Sentinels
  <2> QED
    BY <1>3, <2>1, <2>2, <2>3 DEF HandleHeartbeat
<1>4. ASSUME NEW n \in Node, Stop(n)
      PROVE  Sentinels' = {} \/ Settling(w)'
  <2>1. CASE n = w
    BY <1>4, <2>1 DEF Stop, Settling, Sentinels, TypeOK
  <2>2. CASE n # w
    <3>1. Sentinels' = Sentinels
      BY <1>4, <2>2 DEF Stop, Settling, Sentinels, TypeOK
    <3> QED
      BY <1>1, <1>4, <2>2, <3>1 DEF Stop, TypeOK
  <2> QED
    BY <2>1, <2>2
<1>5. ASSUME UNCHANGED vars
      PROVE  Settling(w)'
  BY <1>1, <1>5 DEF vars, Sentinels
<1> QED
  BY <1>2, <1>3, <1>4, <1>5 DEF Next, Work

LEMMA SteadyNext ==
  ASSUME Cascading
  PROVE  TypeOK /\ TypeOK' /\ TimersMatchRole /\ TimersMatchRole' /\ SplitInv' /\ SteadyInv
         /\ [Next]_vars => SteadyInv'
<1> SUFFICES ASSUME TypeOK, TypeOK', TimersMatchRole, TimersMatchRole', SplitInv', SteadyInv,
                    [Next]_vars
             PROVE  SteadyInv'
  OBVIOUS
<1> USE ConstantsTyped, CascadingTimes
<1>1. steadyFor \in Nat /\ steadyFor <= Steady /\ Steady' = Steady
  BY DEF TypeOK, SteadyInv, Steady
<1>2. ASSUME NEW n \in Node, StartAsSentinel(n) \/ StartAsFollower(n)
      PROVE  SteadyInv'
  <2>1. steadyFor' = 0 /\ splitFor' = 0
    BY <1>2 DEF StartAsSentinel, StartAsFollower, ANewNode
  <2>2. Heard(steadyFor)'
    BY <2>1 DEF SplitInv, Heard
  <2>3. Early'
    BY <2>1 DEF Early
  <2> QED
    BY <1>1, <2>1, <2>2, <2>3 DEF SteadyInv
<1> SUFFICES ASSUME \A n \in Node : ~StartAsSentinel(n) /\ ~StartAsFollower(n)
             PROVE  SteadyInv'
  BY <1>2
<1>3. ~Tick => steadyFor' = steadyFor
  BY DEF Next, Work, HandleHeartbeat, EmitHeartbeat, Promote, Demote, DemoteTo, Follow, Ignore,
    Stop, Lose, observed, vars
<1>4. Orderly => Orderly'
  BY OrderlyNext
<1>5. CASE steadyFor = Steady
  <2>1. Tick => steadyFor' = steadyFor
    <3> SUFFICES ASSUME Tick
                 PROVE  steadyFor' = steadyFor
      OBVIOUS
    <3>1. steadyFor' = Later(steadyFor, Steady - 1)
      BY <1>5 DEF Tick
    <3> QED
      BY <1>1, <1>5, <3>1 DEF Later
  <2>2. steadyFor' = Steady
    BY <1>3, <1>5, <2>1
  <2>3. Orderly'
    BY <1>4, <1>5 DEF SteadyInv
  <2> QED
    BY <1>1, <2>2, <2>3 DEF SteadyInv
<1>6. CASE steadyFor # Steady
  <2>1. Heard(steadyFor) /\ Early
    BY <1>6 DEF SteadyInv
  <2>2. Tick => \/ steadyFor' = 0
                \/ steadyFor' = steadyFor + 1 /\ \E w \in Node : Sentinels = {w}
    <3> SUFFICES ASSUME Tick, steadyFor' # 0
                 PROVE  steadyFor' = steadyFor + 1 /\ \E w \in Node : Sentinels = {w}
      OBVIOUS
    <3>1. Cardinality(Sentinels) = 1
      BY <1>6 DEF Tick
    <3>2. steadyFor' = Later(steadyFor, Steady - 1)
      BY <3>1 DEF Tick
    <3>3. steadyFor' = steadyFor + 1
      BY <1>1, <1>6, <3>2 DEF Later
    <3>4. IsFiniteSet(Sentinels)
      BY NodeType, FS_Subset DEF Sentinels
    <3>5. \E w : Sentinels = {w}
      BY <3>1, <3>4, FS_Singleton
    <3> QED
      BY <3>3, <3>5 DEF Sentinels
  <2>3. PICK y \in Nat, z \in Nat : y = steadyFor /\ z = steadyFor'
    BY DEF TypeOK
  <2>4. Heard(steadyFor)'
    <3>1. ~Tick => z <= y
      BY <1>3, <2>3
    <3>2. Tick => z <= y + 1 /\ (Sentinels = {} => z = 0)
      <4>1. (\E w \in Node : Sentinels = {w}) => Sentinels # {}
        OBVIOUS
      <4> QED
        BY <2>2, <2>3, <4>1
    <3>3. Heard(y)
      BY <2>1, <2>3
    <3>4. Heard(z)'
      BY <3>1, <3>2, <3>3, HeardNext
    <3> QED
      BY <2>3, <3>4 DEF Heard
  <2>5. CASE Orderly
    <3>1. Orderly' /\ Early'
      BY <1>4, <2>5 DEF Early
    <3>2. steadyFor' <= Steady
      BY <1>1, <1>3, <1>6, <2>2
    <3> QED
      BY <1>1, <2>4, <3>1, <3>2 DEF SteadyInv
  <2>6. ASSUME ~Tick, ~Orderly
        PROVE  SteadyInv'
    <3>1. steadyFor' = steadyFor
      BY <1>3, <2>6
    <3>2. Early'
      <4>1. CASE steadyFor <= Delay
        BY <3>1, <4>1 DEF Early
      <4>2. ASSUME Delay < steadyFor
            PROVE  \A n \in Node : ~Promote(n)
        <5> SUFFICES ASSUME NEW n \in Node, Promote(n)
                     PROVE  FALSE
          OBVIOUS
        <5>1. 0 \in timeoutTimer[n]
          BY DEF Promote
        <5>2. y <= Lost + Delay
          BY <2>1, <2>3, <5>1, Uninformed DEF Cascading
        <5> QED
          BY <2>3, <4>2, <5>2
      <4>3. CASE Delay < steadyFor /\ Sentinels = {}
        <5>1. Sentinels' = {}
          BY <2>6, <4>2, <4>3 DEF Next, Work, HandleHeartbeat, EmitHeartbeat, Demote, DemoteTo,
            Follow, Ignore, Stop, Lose, vars, Sentinels, TypeOK
        <5> QED
          BY <5>1 DEF Early
      <4>4. CASE Delay < steadyFor /\ \E w \in Node : Settling(w)
        <5>1. PICK w \in Node : Settling(w)
          BY <4>4
        <5>2. Sentinels' = {} \/ Settling(w)' \/ Orderly'
          BY <2>1, <2>6, <3>1, <4>2, <4>4, <5>1, SettlingNext
        <5> QED
          BY <5>2 DEF Early
      <4> QED
        BY <1>1, <2>1, <2>6, <4>1, <4>3, <4>4 DEF Early
    <3> QED
      BY <1>1, <1>6, <2>4, <3>1, <3>2 DEF SteadyInv
  <2>7. ASSUME Tick, ~Orderly
        PROVE  SteadyInv'
    <3>1. CASE steadyFor' = 0
      BY <1>1, <2>4, <3>1 DEF SteadyInv, Early
    <3>2. CASE steadyFor' # 0
      <4>1. PICK w \in Node : Sentinels = {w}
        BY <2>2, <2>7, <3>2
      <4>2. steadyFor' = steadyFor + 1
        BY <2>2, <2>7, <3>2
      <4>3. /\ role' = role
            /\ heartbeatTimer' = [n \in Node |-> {t - 1 : t \in heartbeatTimer[n]}]
            /\ net' = {[m EXCEPT !.left = @ - 1] : m \in net}
        BY <2>7 DEF Tick
      <4>4. PICK t \in heartbeatTimer[w] : heartbeatTimer[w] = {t}
        BY <4>1 DEF TimersMatchRole, Sentinels
      <4>5. t \in Nat /\ t # 0 /\ t <= Interval
        BY <2>7 DEF TypeOK, Tick
      <4>6. /\ steadyFor + t <= 2 * Delay + Interval
            /\ \A m \in net : \/ m.left = t + Delay - Interval
                              \/ steadyFor + m.left <= 2 * Delay
        <5>1. CASE steadyFor <= Delay
          <6>1. \A m \in net : m.left \in Nat /\ m.left <= Delay
            BY DEF TypeOK, Heartbeat
          <6>2. \A k \in Nat : k <= Delay => steadyFor + k <= 2 * Delay
            BY <1>1, <5>1
          <6>3. steadyFor + t <= 2 * Delay + Interval
            BY <1>1, <4>5, <5>1
          <6> QED
            BY <6>1, <6>2, <6>3
        <5>2. CASE \E v \in Node : Settling(v)
          <6>1. Settling(w)
            BY <4>1, <5>2 DEF Settling
          <6> QED
            BY <4>4, <6>1 DEF Settling
        <5> QED
          BY <2>1, <2>7, <4>1, <5>1, <5>2 DEF Early
      <4>7. heartbeatTimer'[w] = {t - 1}
        BY <4>3, <4>4
      <4>8. steadyFor' + (t - 1) <= 2 * Delay + Interval
        BY <1>1, <4>2, <4>5, <4>6
      <4>9. ASSUME NEW k \in net'
            PROVE  \/ k.left = (t - 1) + Delay - Interval
                   \/ steadyFor' + k.left <= 2 * Delay
        <5>1. PICK m \in net : k = [m EXCEPT !.left = @ - 1]
          BY <4>3
        <5>2. m.left \in Nat /\ k.left = m.left - 1
          BY <5>1 DEF TypeOK, Heartbeat
        <5>3. CASE m.left = t + Delay - Interval
          BY <4>5, <5>2, <5>3
        <5>4. CASE steadyFor + m.left <= 2 * Delay
          BY <1>1, <4>2, <5>2, <5>4
        <5> QED
          BY <4>6, <5>3, <5>4
      <4>10. Settling(w)'
        BY <4>1, <4>3, <4>7, <4>8, <4>9 DEF Settling, Sentinels
      <4>11. steadyFor' < Steady
        BY <1>1, <4>2, <4>5, <4>6
      <4> QED
        BY <1>1, <2>4, <4>2, <4>10, <4>11 DEF SteadyInv, Early
    <3> QED
      BY <3>1, <3>2
  <2> QED
    BY <2>5, <2>6, <2>7
<1> QED
  BY <1>5, <1>6

(* The cascade is orderly: once there has been one sentinel for long        *)
(* enough that everybody knows its order, there is never more than one      *)
(* again, however many nodes stop one after the other, until a node joins.  *)
THEOREM SuccessionIsOrderly ==
  ASSUME Cascading
  PROVE  Spec => []OrderlySuccession
<1>1. Punctual
  BY DEF Cascading
<1>2. TypeOK /\ TypeOK' /\ TimersMatchRole /\ TimersMatchRole' /\ SplitInv /\ [Next]_vars
      => SplitInv'
  BY <1>1, SplitNext
<1>3. TypeOK /\ TypeOK' /\ TimersMatchRole /\ TimersMatchRole' /\ SplitInv' /\ SteadyInv
      /\ [Next]_vars => SteadyInv'
  BY SteadyNext
<1>4. SteadyInv => OrderlySuccession
  <2> SUFFICES ASSUME SteadyInv, steadyFor = Steady
               PROVE  Cardinality(Sentinels) <= 1
    BY DEF OrderlySuccession
  <2>1. PICK w \in Node : Sentinels \subseteq {w}
    BY DEF SteadyInv, Orderly, Ordered
  <2>2. IsFiniteSet({w}) /\ Cardinality({w}) = 1
    BY FS_Singleton
  <2>3. Cardinality(Sentinels) <= Cardinality({w})
    BY <2>1, <2>2, FS_Subset
  <2> QED
    BY <2>2, <2>3
<1> QED
  BY <1>2, <1>3, <1>4, SplitInit, SteadyInit, ElectionTyped, TimersFollowRole, PTL DEF Spec
=============================================================================

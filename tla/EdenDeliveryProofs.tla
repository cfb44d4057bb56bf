------------------------- MODULE EdenDeliveryProofs -------------------------
(* Theorems about EdenDelivery, for all instances, events and topologies. *)
EXTENDS EdenDelivery, TLAPS

ConstantTypes == /\ Origin \in [Event -> Node]
                 /\ Owner \in [Sub -> Node]
                 /\ Wants \in [Sub -> SUBSET Event]
                 /\ Peers \in [Node -> SUBSET Node]
                 /\ Survives \in BOOLEAN

LEMMA ConstantsTyped == ConstantTypes
BY OriginType, OwnerType, WantsType, PeersType, SurvivesType DEF ConstantTypes

-----------------------------------------------------------------------------
(* Facts about the operators the actions are built from. *)

LEMMA SentByTyped ==
  ASSUME NEW n \in Node, NEW kind \in {"event", "ack"}, NEW events \in SUBSET Event
  PROVE  SentBy(n, kind, events) \in SUBSET Datagram
BY PeersType DEF SentBy, Datagram

LEMMA SentByFields ==
  ASSUME NEW n, NEW kind, NEW events, NEW d \in SentBy(n, kind, events)
  PROVE  d.to \in Peers[n] /\ d.kind = kind /\ d.id \in events
BY DEF SentBy

LEMMA AfterSubset ==
  ASSUME NEW n, NEW kind, NEW e, NEW rest \in After(n, kind, e)
  PROVE  rest \subseteq net
BY DEF After

LEMMA CalledTyped ==
  ASSUME TypeOK, NEW subs, NEW e \in Event
  PROVE  Called(subs, e) \in [Sub -> [Event -> Nat]]
BY DEF TypeOK, Called

LEMMA CalledValue ==
  ASSUME TypeOK, NEW subs, NEW e \in Event, NEW s \in Sub, NEW f \in Event
  PROVE  Called(subs, e)[s][f] =
           IF s \in subs /\ f = e THEN calls[s][f] + 1 ELSE calls[s][f]
BY DEF TypeOK, Called

LEMMA WipeTyped ==
  ASSUME TypeOK, NEW n \in Node, Wipe(n)
  PROVE  /\ pending' \in [Node -> SUBSET Event]
         /\ expired' \in [Node -> SUBSET Event]
         /\ \A m \in Node : expired'[m] \subseteq pending'[m]
         /\ seen' \in [Node -> SUBSET Event]
         /\ live' \subseteq Sub
         /\ calls' \in [Sub -> [Event -> Nat]]
         /\ waiting' \subseteq Sub \X Event
BY DEF TypeOK, Wipe

LEMMA WipeShrinks ==
  ASSUME TypeOK, NEW n \in Node, Wipe(n)
  PROVE  /\ \A m \in Node : pending'[m] \subseteq pending[m] /\ seen'[m] \subseteq seen[m]
         /\ live' = {s \in live : Owner[s] # n}
         /\ waiting' = {w \in waiting : Owner[w[1]] # n}
<1>1. pending' = [pending EXCEPT ![n] = {}] /\ seen' = [seen EXCEPT ![n] = {}]
  BY DEF Wipe
<1>2. \A m \in Node : pending'[m] \subseteq pending[m] /\ seen'[m] \subseteq seen[m]
  BY <1>1 DEF TypeOK
<1> QED
  BY <1>2 DEF Wipe

-----------------------------------------------------------------------------
LEMMA InitTyped == Init => TypeOK
BY DEF Init, TypeOK

LEMMA NextTyped == TypeOK /\ [Next]_vars => TypeOK'
<1> SUFFICES ASSUME TypeOK, [Next]_vars
             PROVE  TypeOK'
  OBVIOUS
<1> USE ConstantsTyped DEF ConstantTypes
<1>1. ASSUME NEW n \in Node, Start(n) \/ Crash(n)
      PROVE  TypeOK'
  BY <1>1, WipeTyped DEF TypeOK, Start, Crash
<1>2. ASSUME NEW n \in Node, Stop(n)
      PROVE  TypeOK'
  BY <1>2 DEF TypeOK, Stop, history
<1>3. ASSUME NEW n \in Node, Retry(n)
      PROVE  TypeOK'
  <2>1. SentBy(n, "event", expired[n]) \subseteq Datagram
    BY SentByTyped DEF TypeOK
  <2> QED
    BY <1>3, <2>1 DEF TypeOK, Retry, history
<1>4. ASSUME NEW s \in Sub, Subscribe(s) \/ Unsubscribe(s)
      PROVE  TypeOK'
  BY <1>4 DEF TypeOK, Subscribe, Unsubscribe, history
<1>5. ASSUME NEW e \in Event, Emit(e) \/ EmitAfterStop(e)
      PROVE  TypeOK'
  <2>1. SentBy(Origin[e], "event", {e}) \subseteq Datagram
    BY SentByTyped
  <2>2. Queue(e) /\ net' \subseteq Datagram
    BY <1>5, <2>1 DEF TypeOK, Emit, EmitAfterStop
  <2>3. waiting' \subseteq Sub \X Event
    BY <2>2 DEF TypeOK, Queue
  <2> QED
    BY <2>2, <2>3 DEF TypeOK, Queue
<1>6. ASSUME NEW n \in Node, NEW e \in Event, Expire(n, e)
      PROVE  TypeOK'
  BY <1>6 DEF TypeOK, Expire, history
<1>7. ASSUME NEW n \in Node, NEW e \in Event, HandleEvent(n, e)
      PROVE  TypeOK'
  <2>1. net' \subseteq Datagram
    <3>1. PICK rest \in After(n, "event", e) : net' = rest \union SentBy(n, "ack", {e})
      BY <1>7 DEF HandleEvent, HandleFresh, HandleDuplicate
    <3>2. rest \subseteq net
      BY AfterSubset
    <3>3. SentBy(n, "ack", {e}) \subseteq Datagram
      BY SentByTyped
    <3> QED
      BY <3>1, <3>2, <3>3 DEF TypeOK
  <2>2. CASE HandleFresh(n, e)
    BY <2>1, <2>2, CalledTyped DEF TypeOK, HandleFresh
  <2>3. CASE HandleDuplicate(n, e)
    BY <2>1, <2>3 DEF TypeOK, HandleDuplicate, history
  <2> QED
    BY <1>7, <2>2, <2>3 DEF HandleEvent
<1>8. ASSUME NEW n \in Node, NEW e \in Event, HandlerThrows(n, e)
      PROVE  TypeOK'
  <2>1. net' \subseteq Datagram
    BY <1>8, AfterSubset DEF TypeOK, HandlerThrows
  <2>2. CASE Survives
    <3>1. PICK called \in SUBSET Due(n, e) : calls' = Called(called, e)
      BY <1>8, <2>2 DEF HandlerThrows
    <3>2. calls' \in [Sub -> [Event -> Nat]]
      BY <3>1, CalledTyped
    <3> QED
      BY SMTT(30), <1>8, <2>1, <2>2, <3>2 DEF TypeOK, HandlerThrows
  <2>3. CASE ~Survives
    <3>1. Wipe(n) /\ mode' = [mode EXCEPT ![n] = "down"]
      BY <1>8, <2>3 DEF HandlerThrows
    <3> QED
      BY <1>8, <2>1, <3>1, WipeTyped DEF TypeOK, HandlerThrows
  <2> QED
    BY <2>2, <2>3
<1>9. ASSUME NEW n \in Node, NEW e \in Event, HandleAck(n, e)
      PROVE  TypeOK'
  <2>1. net' \subseteq Datagram
    BY <1>9, AfterSubset DEF TypeOK, HandleAck
  <2> QED
    BY <1>9, <2>1 DEF TypeOK, HandleAck
<1>10. ASSUME NEW d \in net, Lose(d)
       PROVE  TypeOK'
  BY <1>10 DEF TypeOK, Lose, history
<1>11. CASE UNCHANGED vars
  BY <1>11 DEF TypeOK, vars, state, history
<1> QED
  BY <1>1, <1>2, <1>3, <1>4, <1>5, <1>6, <1>7, <1>8, <1>9, <1>10, <1>11 DEF Next

(* Every variable of the protocol keeps its type, and what is due for a     *)
(* retry is always still pending.                                           *)
THEOREM DeliveryTyped == Spec => []TypeOK
BY InitTyped, NextTyped, PTL DEF Spec

-----------------------------------------------------------------------------
(* The inductive invariant, one lemma per part. *)

LEMMA InitInv == Init => DeliveryInv
BY ConstantsTyped
DEF Init, DeliveryInv, Accounted, CalledOnceSeen, SeenProcessed, AcksEarned,
    SettledMeansProcessed, WaitingServed, ConstantTypes

LEMMA CalledOnceSeenStep ==
  ASSUME TypeOK, CalledOnceSeen, [Next]_vars
  PROVE  CalledOnceSeen'
<1> USE ConstantsTyped DEF ConstantTypes
<1>1. ASSUME NEW n \in Node, Wipe(n)
      PROVE  CalledOnceSeen'
  BY <1>1 DEF TypeOK, CalledOnceSeen, Wipe
<1>2. ASSUME UNCHANGED <<calls, seen>>
      PROVE  CalledOnceSeen'
  BY <1>2 DEF CalledOnceSeen
<1>3. ASSUME NEW n \in Node, NEW e \in Event, NEW subs \in SUBSET Due(n, e),
             e \notin seen[n], seen' = [seen EXCEPT ![n] = @ \union {e}],
             calls' = Called(subs, e)
      PROVE  CalledOnceSeen'
  <2> SUFFICES ASSUME NEW s \in Sub, NEW f \in Event
               PROVE  calls'[s][f] <= (IF f \in seen'[Owner[s]] THEN 1 ELSE 0)
    BY DEF CalledOnceSeen
  <2>1. calls'[s][f] = IF s \in subs /\ f = e THEN calls[s][f] + 1 ELSE calls[s][f]
    BY <1>3, CalledValue
  <2>2. calls[s][f] \in Nat /\ calls[s][f] <= (IF f \in seen[Owner[s]] THEN 1 ELSE 0)
    BY DEF TypeOK, CalledOnceSeen
  <2>3. Owner[s] \in Node /\ seen[Owner[s]] \subseteq seen'[Owner[s]]
    BY <1>3 DEF TypeOK
  <2>4. CASE s \in subs /\ f = e
    <3>1. Owner[s] = n
      BY <1>3, <2>4 DEF Due
    <3> QED
      BY <1>3, <2>1, <2>2, <2>4, <3>1 DEF TypeOK
  <2>5. CASE ~(s \in subs /\ f = e)
    BY <2>1, <2>2, <2>3, <2>5
  <2> QED
    BY <2>4, <2>5
<1>4. ASSUME NEW n \in Node, NEW e \in Event, HandleFresh(n, e)
      PROVE  CalledOnceSeen'
  BY <1>3, <1>4 DEF HandleFresh
<1>5. ASSUME NEW n \in Node, NEW e \in Event, HandlerThrows(n, e)
      PROVE  CalledOnceSeen'
  <2>1. CASE Survives
    BY <1>3, <1>5, <2>1 DEF HandlerThrows
  <2>2. CASE ~Survives
    BY <1>1, <1>5, <2>2 DEF HandlerThrows
  <2> QED
    BY <2>1, <2>2
<1> QED
  BY <1>1, <1>2, <1>4, <1>5
  DEF Next, vars, state, history, Start, Stop, Crash, Retry, Subscribe, Unsubscribe,
      Emit, EmitAfterStop, Queue, Expire, HandleEvent, HandleDuplicate, HandleAck, Lose

(* A handler is called at most once for an event, whatever is retried,      *)
(* duplicated or thrown: for every topology, and whether or not the         *)
(* application survives exceptions.                                         *)
THEOREM HandlerAtMostOnce == Spec => []AtMostOnce
<1>1. Init => CalledOnceSeen
  BY InitInv DEF DeliveryInv
<1>2. TypeOK /\ CalledOnceSeen => AtMostOnce
  <2> SUFFICES ASSUME TypeOK, CalledOnceSeen, NEW s \in Sub, NEW e \in Event
               PROVE  calls[s][e] <= 1
    BY DEF AtMostOnce
  <2>1. calls[s][e] \in Nat /\ calls[s][e] <= (IF e \in seen[Owner[s]] THEN 1 ELSE 0)
    BY DEF TypeOK, CalledOnceSeen
  <2> QED
    BY <2>1
<1> QED
  BY <1>1, <1>2, DeliveryTyped, CalledOnceSeenStep, PTL DEF Spec

LEMMA AccountedStep ==
  ASSUME TypeOK, Accounted, [Next]_vars
  PROVE  Accounted'
<1> USE ConstantsTyped DEF ConstantTypes
<1>1. ASSUME NEW n \in Node, Start(n) \/ Crash(n)
      PROVE  Accounted'
  <2>1. /\ \A m \in Node : pending'[m] \subseteq pending[m] /\ seen'[m] \subseteq seen[m]
        /\ UNCHANGED <<net, posted, processed, settled>>
    BY <1>1, WipeShrinks DEF Start, Crash
  <2> QED
    BY <2>1 DEF Accounted
<1>2. ASSUME NEW n \in Node, Stop(n)
      PROVE  Accounted'
  BY <1>2 DEF Accounted, Stop, history
<1>3. ASSUME NEW n \in Node, Retry(n)
      PROVE  Accounted'
  <2>1. \A d \in SentBy(n, "event", expired[n]) :
           d.id \in posted /\ Origin[d.id] = n /\ d.to \in Peers[n]
    BY SentByFields DEF TypeOK, Accounted
  <2> QED
    BY <1>3, <2>1 DEF Accounted, Retry, history
<1>4. ASSUME NEW s \in Sub, Subscribe(s) \/ Unsubscribe(s)
      PROVE  Accounted'
  BY <1>4 DEF Accounted, Subscribe, Unsubscribe, history
<1>5. ASSUME NEW e \in Event, Emit(e) \/ EmitAfterStop(e)
      PROVE  Accounted'
  <2>1. \A d \in SentBy(Origin[e], "event", {e}) : d.id = e /\ d.to \in Peers[Origin[e]]
    BY SentByFields
  <2>2. net' = net \/ net' = net \union SentBy(Origin[e], "event", {e})
    BY <1>5 DEF Emit, EmitAfterStop
  <2>3. \A d \in net' : d \in net \/ (d.id = e /\ d.to \in Peers[Origin[e]])
    BY <2>1, <2>2
  <2>4. Queue(e)
    BY <1>5 DEF Emit, EmitAfterStop
  <2>5. /\ posted' = posted \union {e}
        /\ \A m \in Node : pending'[m] \subseteq pending[m] \union
                                  (IF m = Origin[e] THEN {e} ELSE {})
        /\ UNCHANGED <<seen, processed, settled>>
    BY <2>4 DEF TypeOK, Queue
  <2> QED
    BY <2>3, <2>5 DEF Accounted
<1>6. ASSUME NEW n \in Node, NEW e \in Event, Expire(n, e)
      PROVE  Accounted'
  BY <1>6 DEF Accounted, Expire, history
<1>7. ASSUME NEW n \in Node, NEW e \in Event, HandleEvent(n, e)
      PROVE  Accounted'
  <2>1. e \in posted
    BY <1>7 DEF Accounted, HandleEvent, HandleFresh, HandleDuplicate, InFlight
  <2>2. PICK rest \in After(n, "event", e) : net' = rest \union SentBy(n, "ack", {e})
    BY <1>7 DEF HandleEvent, HandleFresh, HandleDuplicate
  <2>3. \A d \in net' : d \in net \/ (d.id = e /\ d.kind = "ack")
    BY <2>2, AfterSubset, SentByFields
  <2>4. CASE HandleFresh(n, e)
    <3>1. /\ \A m \in Node : /\ seen'[m] \subseteq seen[m] \union {e}
                             /\ processed'[m] \subseteq processed[m] \union {e}
          /\ UNCHANGED <<pending, posted, settled>>
      BY <2>4 DEF TypeOK, HandleFresh
    <3> QED
      BY <2>1, <2>3, <3>1 DEF Accounted
  <2>5. CASE HandleDuplicate(n, e)
    BY <2>1, <2>3, <2>5 DEF Accounted, HandleDuplicate, history
  <2> QED
    BY <1>7, <2>4, <2>5 DEF HandleEvent
<1>8. ASSUME NEW n \in Node, NEW e \in Event, HandlerThrows(n, e)
      PROVE  Accounted'
  <2>1. e \in posted /\ net' \subseteq net
    BY <1>8, AfterSubset DEF Accounted, HandlerThrows, InFlight
  <2>2. CASE Survives
    <3>1. /\ seen' = [seen EXCEPT ![n] = @ \union {e}]
          /\ UNCHANGED <<pending, posted, processed, settled>>
      BY <1>8, <2>2 DEF HandlerThrows
    <3> QED
      BY <2>1, <3>1 DEF TypeOK, Accounted
  <2>3. CASE ~Survives
    <3>1. Wipe(n) /\ UNCHANGED <<posted, processed, settled>>
      BY <1>8, <2>3 DEF HandlerThrows
    <3> QED
      BY <2>1, <3>1 DEF TypeOK, Accounted, Wipe
  <2> QED
    BY <2>2, <2>3
<1>9. ASSUME NEW n \in Node, NEW e \in Event, HandleAck(n, e)
      PROVE  Accounted'
  <2>1. net' \subseteq net
    BY <1>9, AfterSubset DEF HandleAck
  <2> QED
    BY <1>9, <2>1 DEF TypeOK, Accounted, HandleAck
<1>10. ASSUME NEW d \in net, Lose(d)
       PROVE  Accounted'
  BY <1>10 DEF Accounted, Lose, history
<1>11. CASE UNCHANGED vars
  BY <1>11 DEF Accounted, vars, state, history
<1> QED
  BY <1>1, <1>2, <1>3, <1>4, <1>5, <1>6, <1>7, <1>8, <1>9, <1>10, <1>11 DEF Next

LEMMA SeenProcessedStep ==
  ASSUME TypeOK, SeenProcessed, [Next]_vars
  PROVE  SeenProcessed'
<1> SUFFICES ASSUME ~Survives
             PROVE  \A m \in Node : seen'[m] \subseteq processed'[m]
  BY DEF SeenProcessed
<1>1. ASSUME NEW n \in Node, Wipe(n), UNCHANGED processed
      PROVE  \A m \in Node : seen'[m] \subseteq processed'[m]
  BY <1>1, WipeShrinks DEF SeenProcessed
<1>2. ASSUME UNCHANGED <<seen, processed>>
      PROVE  \A m \in Node : seen'[m] \subseteq processed'[m]
  BY <1>2 DEF SeenProcessed
<1>3. ASSUME NEW n \in Node, NEW e \in Event, HandleFresh(n, e)
      PROVE  \A m \in Node : seen'[m] \subseteq processed'[m]
  BY <1>3 DEF TypeOK, SeenProcessed, HandleFresh
<1>4. ASSUME NEW n \in Node, NEW e \in Event, HandlerThrows(n, e)
      PROVE  \A m \in Node : seen'[m] \subseteq processed'[m]
  BY <1>1, <1>4 DEF HandlerThrows
<1> QED
  BY <1>1, <1>2, <1>3, <1>4
  DEF Next, vars, state, history, Start, Stop, Crash, Retry, Subscribe, Unsubscribe,
      Emit, EmitAfterStop, Queue, Expire, HandleEvent, HandleDuplicate, HandleAck, Lose

(* What has been processed stays processed. *)
LEMMA ProcessedGrows ==
  ASSUME TypeOK, [Next]_vars
  PROVE  \A n \in Node : processed[n] \subseteq processed'[n]
<1>1. ASSUME NEW n \in Node, NEW e \in Event, HandleFresh(n, e)
      PROVE  \A m \in Node : processed[m] \subseteq processed'[m]
  BY <1>1 DEF TypeOK, HandleFresh
<1> QED
  BY <1>1
  DEF Next, vars, state, history, Start, Stop, Crash, Retry, Subscribe, Unsubscribe,
      Emit, EmitAfterStop, Queue, Expire, HandleEvent, HandleDuplicate, HandlerThrows,
      HandleAck, Lose

(* Only the handling of an event puts an acknowledgement on the network. *)
LEMMA NewAcks ==
  ASSUME TypeOK, [Next]_vars, NEW d \in net', d.kind = "ack"
  PROVE  \/ d \in net
         \/ \E n \in Node, e \in Event :
              HandleEvent(n, e) /\ d.to \in Peers[n] /\ d.id = e
<1> DEFINE Goal == \/ d \in net
                   \/ \E n \in Node, e \in Event :
                        HandleEvent(n, e) /\ d.to \in Peers[n] /\ d.id = e
<1>1. ASSUME net' \subseteq net
      PROVE  Goal
  BY <1>1
<1>2. ASSUME NEW n, NEW events, net' = net \union SentBy(n, "event", events)
      PROVE  Goal
  BY <1>2, SentByFields
<1>3. ASSUME NEW n \in Node, NEW e \in Event, HandleEvent(n, e)
      PROVE  Goal
  <2>1. PICK rest \in After(n, "event", e) : net' = rest \union SentBy(n, "ack", {e})
    BY <1>3 DEF HandleEvent, HandleFresh, HandleDuplicate
  <2>2. CASE d \in rest
    BY <2>2, AfterSubset
  <2>3. CASE d \in SentBy(n, "ack", {e})
    BY <1>3, <2>3, SentByFields
  <2> QED
    BY <2>1, <2>2, <2>3
<1>4. ASSUME NEW n \in Node, NEW e \in Event, HandlerThrows(n, e) \/ HandleAck(n, e)
      PROVE  Goal
  BY <1>1, <1>4, AfterSubset DEF HandlerThrows, HandleAck
<1>5. ASSUME NEW lost \in net, Lose(lost)
      PROVE  Goal
  BY <1>1, <1>5 DEF Lose
<1>6. ASSUME NEW n \in Node, Retry(n)
      PROVE  Goal
  BY <1>2, <1>6 DEF Retry
<1>7. ASSUME NEW e \in Event, Emit(e)
      PROVE  Goal
  BY <1>2, <1>7 DEF Emit
<1>8. ASSUME UNCHANGED net
      PROVE  Goal
  BY <1>8
<1>9. Goal
  BY <1>3, <1>4, <1>5, <1>6, <1>7, <1>8
  DEF Next, vars, state, Start, Stop, Crash, Subscribe, Unsubscribe, EmitAfterStop, Expire
<1> QED
  BY <1>9

LEMMA AcksEarnedStep ==
  ASSUME TypeOK, Accounted, SeenProcessed, AcksEarned, ~Survives, [Next]_vars
  PROVE  AcksEarned'
<1> SUFFICES ASSUME NEW d \in net', d.kind = "ack"
             PROVE  \E p \in Node : /\ d.to \in Peers[p]
                                    /\ p \in Peers[Origin[d.id]]
                                    /\ d.id \in processed'[p]
  BY DEF AcksEarned
<1>1. CASE d \in net
  BY <1>1, ProcessedGrows DEF AcksEarned
<1>2. ASSUME NEW n \in Node, NEW e \in Event,
             HandleEvent(n, e), d.to \in Peers[n], d.id = e
      PROVE  /\ n \in Peers[Origin[d.id]]
             /\ d.id \in processed'[n]
  <2>1. [to |-> n, kind |-> "event", id |-> e] \in net
    BY <1>2 DEF HandleEvent, HandleFresh, HandleDuplicate, InFlight
  <2>2. n \in Peers[Origin[e]]
    BY <2>1 DEF Accounted
  <2>3. CASE HandleFresh(n, e)
    BY <1>2, <2>2, <2>3 DEF TypeOK, HandleFresh
  <2>4. CASE HandleDuplicate(n, e)
    BY <1>2, <2>2, <2>4, ProcessedGrows DEF SeenProcessed, HandleDuplicate
  <2> QED
    BY <1>2, <2>3, <2>4 DEF HandleEvent
<1> QED
  BY <1>1, <1>2, NewAcks

LEMMA SettledStep ==
  ASSUME TypeOK, Accounted, AcksEarned, SettledMeansProcessed, [Next]_vars
  PROVE  SettledMeansProcessed'
<1> SUFFICES ASSUME NEW e \in settled'
             PROVE  \E p \in Node : EmitsTo(Origin[e], p) /\ e \in processed'[p]
  BY DEF SettledMeansProcessed
<1>1. CASE e \in settled
  BY <1>1, ProcessedGrows DEF SettledMeansProcessed
<1>2. CASE e \notin settled
  <2>1. PICK n \in Node : HandleAck(n, e) /\ e \in pending[n]
    BY ZenonT(60), <1>2 DEF Next, vars, state, history, Start, Stop, Crash, Retry, Subscribe,
      Unsubscribe, Emit, EmitAfterStop, Queue, Expire, HandleEvent, HandleFresh,
      HandleDuplicate, HandlerThrows, HandleAck, Lose
  <2>2. Origin[e] = n /\ [to |-> n, kind |-> "ack", id |-> e] \in net
    BY <2>1 DEF Accounted, HandleAck, InFlight
  <2>3. PICK p \in Node : n \in Peers[p] /\ p \in Peers[Origin[e]] /\ e \in processed[p]
    BY <2>2 DEF AcksEarned
  <2> QED
    BY <2>2, <2>3, ProcessedGrows DEF EmitsTo
<1> QED
  BY <1>1, <1>2

(* Emission is the only way to start waiting for an event. *)
LEMMA NewWaiting ==
  ASSUME TypeOK, Accounted, [Next]_vars, NEW w \in waiting', w \notin waiting
  PROVE  /\ w[1] \in live /\ w[2] \in Wants[w[1]]
         /\ Owner[w[1]] \in Peers[Origin[w[2]]]
         /\ w[2] \notin posted /\ w[2] \in posted'
         /\ UNCHANGED <<live, seen, calls, settled>>
         /\ \A d \in net' : d.kind = "ack" => d \in net
<1>1. PICK e \in Event : Emit(e) \/ EmitAfterStop(e)
  BY ZenonT(60) DEF Next, vars, state, history, Start, Stop, Crash, Wipe, Retry, Subscribe,
      Unsubscribe, Expire, HandleEvent, HandleFresh, HandleDuplicate, HandlerThrows,
      HandleAck, Lose
<1>2. Queue(e)
  BY <1>1 DEF Emit, EmitAfterStop
<1>3. w \in {<<s, e>> : s \in {t \in live : e \in Wants[t]
                                            /\ Owner[t] \in Peers[Origin[e]]}}
  BY <1>2 DEF Queue
<1>4. \A d \in net' : d.kind = "ack" => d \in net
  BY <1>1, SentByFields DEF Emit, EmitAfterStop
<1> QED
  BY <1>2, <1>3, <1>4 DEF Queue

(* While a subscription waits, its instance keeps what it has seen. *)
LEMMA WaitingKeeps ==
  ASSUME TypeOK, [Next]_vars, NEW w \in waiting, w \in waiting'
  PROVE  /\ w[1] \in live => w[1] \in live'
         /\ seen[Owner[w[1]]] \subseteq seen'[Owner[w[1]]]
<1> USE ConstantsTyped DEF ConstantTypes
<1> DEFINE Goal == /\ w[1] \in live => w[1] \in live'
                   /\ seen[Owner[w[1]]] \subseteq seen'[Owner[w[1]]]
<1>1. ASSUME NEW n \in Node, Wipe(n)
      PROVE  Goal
  <2>1. Owner[w[1]] # n /\ w[1] \in Sub
    BY <1>1, WipeShrinks DEF TypeOK
  <2> QED
    BY <1>1, <2>1 DEF TypeOK, Wipe
<1>2. ASSUME live \subseteq live', UNCHANGED seen
      PROVE  Goal
  BY <1>2
<1>3. ASSUME NEW n \in Node, NEW e \in Event,
             seen' = [seen EXCEPT ![n] = @ \union {e}], UNCHANGED live
      PROVE  Goal
  BY <1>3 DEF TypeOK
<1>4. ASSUME NEW s \in Sub, Unsubscribe(s)
      PROVE  Goal
  BY <1>4 DEF Unsubscribe
<1>5. ASSUME NEW n \in Node, NEW e \in Event, HandlerThrows(n, e)
      PROVE  Goal
  BY <1>1, <1>3, <1>5 DEF HandlerThrows
<1>6. ASSUME NEW n \in Node, NEW e \in Event, HandleFresh(n, e)
      PROVE  Goal
  BY <1>3, <1>6 DEF HandleFresh
<1>7. Goal
  BY <1>1, <1>2, <1>4, <1>5, <1>6
  DEF Next, vars, state, history, Start, Stop, Crash, Retry, Subscribe, Emit,
      EmitAfterStop, Queue, Expire, HandleEvent, HandleDuplicate, HandleAck, Lose
<1> QED
  BY <1>7

(* One subscription and one event, while it waits: it is called when its    *)
(* instance sees the event, and not again.                                  *)
LEMMA WaitingCalled ==
  ASSUME TypeOK, CalledOnceSeen, ~Survives, [Next]_vars,
         NEW s \in Sub, NEW e \in Event, <<s, e>> \in waiting, <<s, e>> \in waiting',
         s \in live, e \in Wants[s],
         e \in seen[Owner[s]] => calls[s][e] = 1
  PROVE  e \in seen'[Owner[s]] => calls'[s][e] = 1
<1> USE ConstantsTyped DEF ConstantTypes
<1> DEFINE Goal == e \in seen'[Owner[s]] => calls'[s][e] = 1
<1>1. ASSUME NEW n \in Node, Wipe(n)
      PROVE  Goal
  <2>1. Owner[s] # n
    BY <1>1, WipeShrinks
  <2> QED
    BY <1>1, <2>1 DEF TypeOK, Wipe
<1>2. ASSUME UNCHANGED <<seen, calls>>
      PROVE  Goal
  BY <1>2
<1>3. ASSUME NEW n \in Node, NEW f \in Event, HandleFresh(n, f)
      PROVE  Goal
  <2>1. calls'[s][e] = IF s \in Due(n, f) /\ e = f THEN calls[s][e] + 1 ELSE calls[s][e]
    BY <1>3, CalledValue DEF HandleFresh
  <2>2. CASE n = Owner[s] /\ f = e
    <3>1. s \in Due(n, f) /\ e \notin seen[Owner[s]]
      BY <1>3, <2>2 DEF Due, HandleFresh
    <3>2. calls[s][e] \in Nat /\ calls[s][e] <= 0
      BY <3>1 DEF TypeOK, CalledOnceSeen
    <3> QED
      BY <2>1, <2>2, <3>1, <3>2
  <2>3. CASE ~(n = Owner[s] /\ f = e)
    <3>1. calls'[s][e] = calls[s][e]
      BY <2>1, <2>3 DEF Due
    <3>2. e \in seen'[Owner[s]] => e \in seen[Owner[s]]
      BY <1>3, <2>3 DEF TypeOK, HandleFresh
    <3> QED
      BY <3>1, <3>2
  <2> QED
    BY <2>2, <2>3
<1>4. ASSUME NEW n \in Node, NEW f \in Event, HandlerThrows(n, f)
      PROVE  Goal
  BY <1>1, <1>4 DEF HandlerThrows
<1>5. Goal
  BY <1>1, <1>2, <1>3, <1>4
  DEF Next, vars, state, history, Start, Stop, Crash, Retry, Subscribe, Unsubscribe,
      Emit, EmitAfterStop, Queue, Expire, HandleEvent, HandleDuplicate, HandleAck, Lose
<1> QED
  BY <1>5

(* An instance that sends an acknowledgement has seen the event, and was    *)
(* one of those it was sent to.                                             *)
LEMMA HandledIsSeen ==
  ASSUME TypeOK, Accounted, NEW n \in Node, NEW e \in Event, HandleEvent(n, e)
  PROVE  e \in seen'[n] /\ n \in Peers[Origin[e]]
<1>1. [to |-> n, kind |-> "event", id |-> e] \in net
  BY DEF HandleEvent, HandleFresh, HandleDuplicate, InFlight
<1>2. n \in Peers[Origin[e]]
  BY <1>1 DEF Accounted
<1>3. e \in seen'[n]
  BY DEF TypeOK, HandleEvent, HandleFresh, HandleDuplicate
<1> QED
  BY <1>2, <1>3

(* An event is settled by an acknowledgement that was under way. *)
LEMMA NewlySettled ==
  ASSUME TypeOK, [Next]_vars, NEW e \in settled', e \notin settled
  PROVE  \E d \in net : d.kind = "ack" /\ d.id = e
<1>1. PICK n \in Node : HandleAck(n, e)
  BY ZenonT(60) DEF Next, vars, state, history, Start, Stop, Crash, Retry, Subscribe,
      Unsubscribe, Emit, EmitAfterStop, Queue, Expire, HandleEvent, HandleFresh,
      HandleDuplicate, HandlerThrows, HandleAck, Lose
<1> QED
  BY <1>1 DEF HandleAck, InFlight

LEMMA WaitingStep ==
  ASSUME TypeOK, Accounted, CalledOnceSeen, WaitingServed, [Next]_vars
  PROVE  WaitingServed'
<1> USE ConstantsTyped DEF ConstantTypes
<1>1. TypeOK'
  BY NextTyped
<1> SUFFICES ASSUME NEW s \in Sub, NEW e \in Event, <<s, e>> \in waiting'
             PROVE  /\ s \in live'
                    /\ e \in Wants[s] \intersect posted'
                    /\ Owner[s] \in Peers[Origin[e]]
                    /\ ~Survives /\ e \in seen'[Owner[s]] => calls'[s][e] = 1
                    /\ ~Survives /\ Unicast
                       /\ (e \in settled' \/ \E d \in net' : d.kind = "ack" /\ d.id = e)
                         => e \in seen'[Owner[s]]
  BY <1>1 DEF WaitingServed, TypeOK
<1>2. CASE <<s, e>> \notin waiting
  <2>1. /\ s \in live' /\ e \in Wants[s]
        /\ Owner[s] \in Peers[Origin[e]]
        /\ e \notin posted /\ e \in posted'
        /\ UNCHANGED <<seen, calls, settled>>
        /\ \A d \in net' : d.kind = "ack" => d \in net
    BY <1>2, NewWaiting
  <2>2. /\ e \notin seen'[Owner[s]]
        /\ e \notin settled'
        /\ \A d \in net' : ~(d.kind = "ack" /\ d.id = e)
    BY <2>1 DEF Accounted
  <2> QED
    BY <2>1, <2>2
<1>3. CASE <<s, e>> \in waiting
  <2>1. /\ s \in live
        /\ e \in Wants[s] \intersect posted
        /\ Owner[s] \in Peers[Origin[e]]
        /\ ~Survives /\ e \in seen[Owner[s]] => calls[s][e] = 1
        /\ ~Survives /\ Unicast
           /\ (e \in settled \/ \E d \in net : d.kind = "ack" /\ d.id = e)
             => e \in seen[Owner[s]]
    BY <1>3 DEF WaitingServed
  <2>2. s \in live' /\ seen[Owner[s]] \subseteq seen'[Owner[s]]
    BY <1>3, <2>1, WaitingKeeps
  <2>3. e \in posted'
    BY ZenonT(60), <2>1 DEF Next, vars, state, history, Start, Stop, Crash, Retry, Subscribe,
      Unsubscribe, Emit, EmitAfterStop, Queue, Expire, HandleEvent, HandleFresh,
      HandleDuplicate, HandlerThrows, HandleAck, Lose
  <2>4. ~Survives /\ e \in seen'[Owner[s]] => calls'[s][e] = 1
    BY <1>3, <2>1, WaitingCalled
  <2>5. ASSUME ~Survives, Unicast, e \in settled' \/ \E d \in net' : d.kind = "ack" /\ d.id = e
        PROVE  e \in seen'[Owner[s]]
    <3>1. CASE e \in settled \/ \E d \in net : d.kind = "ack" /\ d.id = e
      BY <2>1, <2>2, <2>5, <3>1
    <3>2. ASSUME NEW n \in Node, HandleEvent(n, e)
          PROVE  e \in seen'[Owner[s]]
      <4>1. e \in seen'[n] /\ n \in Peers[Origin[e]]
        BY <3>2, HandledIsSeen
      <4> QED
        BY <2>1, <2>5, <4>1 DEF Unicast
    <3> QED
      BY <2>5, <3>1, <3>2, NewAcks, NewlySettled
  <2> QED
    BY <2>1, <2>2, <2>3, <2>4, <2>5
<1> QED
  BY <1>2, <1>3

LEMMA NextInv == TypeOK /\ DeliveryInv /\ [Next]_vars => DeliveryInv'
BY AccountedStep, CalledOnceSeenStep, SeenProcessedStep, AcksEarnedStep, SettledStep,
   WaitingStep
DEF DeliveryInv

(* The inductive invariant holds in every reachable state. *)
THEOREM DeliveryInvariant == Spec => []DeliveryInv
BY InitInv, NextInv, DeliveryTyped, PTL DEF Spec

-----------------------------------------------------------------------------
(* Without an application that survives its handlers' exceptions, every     *)
(* acknowledgement was earned: none answers an acknowledgement.             *)
THEOREM AcksAreEarned ==
  ASSUME ~Survives
  PROVE  Spec => []AcksEarned
<1>1. DeliveryInv => AcksEarned
  BY DEF DeliveryInv
<1> QED
  BY <1>1, DeliveryInvariant, PTL

(* Then an event is forgotten only once a peer that answers to its emitter  *)
(* has processed it, in every topology.                                     *)
THEOREM SettledIsProcessed ==
  ASSUME ~Survives
  PROVE  Spec => []SettledMeansProcessed
<1>1. DeliveryInv => SettledMeansProcessed
  BY DEF DeliveryInv
<1> QED
  BY <1>1, DeliveryInvariant, PTL

(* And with one peer per transport, delivery is exactly-once end to end for *)
(* every subscription that was there when the event was emitted.            *)
THEOREM SettledIsHandled ==
  ASSUME ~Survives, Unicast
  PROVE  Spec => []SettledMeansHandled
<1>1. DeliveryInv => SettledMeansHandled
  BY DEF DeliveryInv, WaitingServed, SettledMeansHandled
<1> QED
  BY <1>1, DeliveryInvariant, PTL

-----------------------------------------------------------------------------
(* EdenDelivery implements EventDelivery, step by step. *)

LEMMA PromiseInit == Init => Promise!Init
BY ConstantsTyped DEF Init, Promise!Init, outbox, ConstantTypes

LEMMA PromiseStep ==
  ASSUME TypeOK, DeliveryInv, ~Survives, [Next]_vars
  PROVE  [Promise!Next]_(Promise!vars)
<1> USE ConstantsTyped DEF ConstantTypes
<1> DEFINE Goal == [Promise!Next]_(Promise!vars)
<1>1. ASSUME NEW n \in Node, Wipe(n), UNCHANGED <<posted, processed>>
      PROVE  Goal
  <2>1. outbox' = {e \in outbox : Origin[e] # n}
    BY <1>1 DEF TypeOK, outbox, Wipe
  <2>2. Promise!Abandon(n)
    BY <1>1, <2>1 DEF Promise!Abandon, Wipe
  <2> QED
    BY <2>2 DEF Promise!Next
<1>2. ASSUME UNCHANGED <<pending, posted, seen, processed>>
      PROVE  Goal
  BY <1>2 DEF outbox, Promise!vars
<1>3. ASSUME NEW e \in Event, Queue(e)
      PROVE  Goal
  <2>1. outbox' = outbox \union {e}
    BY <1>3 DEF TypeOK, outbox, Queue
  <2>2. Promise!Post(e)
    BY <1>3, <2>1 DEF Promise!Post, Queue
  <2> QED
    BY <2>2 DEF Promise!Next
<1>4. ASSUME NEW n \in Node, NEW e \in Event, HandleFresh(n, e)
      PROVE  Goal
  <2>1. e \in posted /\ n \in Peers[Origin[e]]
    BY <1>4 DEF DeliveryInv, Accounted, HandleFresh, InFlight
  <2>2. UNCHANGED outbox
    BY <1>4 DEF outbox, HandleFresh
  <2>3. Promise!Process(n, e)
    BY <1>4, <2>1, <2>2 DEF Promise!Process, HandleFresh
  <2> QED
    BY <2>3 DEF Promise!Next
<1>5. ASSUME NEW n \in Node, NEW e \in Event, HandlerThrows(n, e)
      PROVE  Goal
  BY <1>1, <1>5 DEF HandlerThrows
<1>6. ASSUME NEW n \in Node, NEW e \in Event, HandleAck(n, e)
      PROVE  Goal
  <2>1. CASE e \notin pending[n]
    <3>1. UNCHANGED <<pending, posted, seen, processed>>
      BY <1>6, <2>1 DEF TypeOK, HandleAck
    <3> QED
      BY <1>2, <3>1
  <2>2. CASE e \in pending[n]
    <3>1. Origin[e] = n
      BY <2>2 DEF DeliveryInv, Accounted
    <3>2. [to |-> n, kind |-> "ack", id |-> e] \in net
      BY <1>6 DEF HandleAck, InFlight
    <3>3. \E p \in Node : Promise!Mutual(Origin[e], p) /\ e \in processed[p]
      BY <3>1, <3>2 DEF DeliveryInv, AcksEarned, Promise!Mutual
    <3>4. e \in outbox /\ outbox' = outbox \ {e}
      BY <1>6, <2>2, <3>1 DEF TypeOK, outbox, HandleAck
    <3>5. Promise!Settle(e)
      BY <1>6, <3>3, <3>4 DEF Promise!Settle, HandleAck
    <3> QED
      BY <3>5 DEF Promise!Next
  <2> QED
    BY <2>1, <2>2
<1>7. Goal
  BY <1>1, <1>2, <1>3, <1>4, <1>5, <1>6
  DEF Next, vars, state, history, Start, Stop, Crash, Retry, Subscribe, Unsubscribe,
      Emit, EmitAfterStop, Expire, HandleEvent, HandleDuplicate, Lose
<1> QED
  BY <1>7

(* The protocol keeps the promise of EventDelivery in every topology, if a  *)
(* throwing handler ends the process.                                       *)
THEOREM KeepsPromise ==
  ASSUME ~Survives
  PROVE  Spec => ImplementsPromise
<1>1. TypeOK /\ DeliveryInv /\ [Next]_vars => [Promise!Next]_(Promise!vars)
  BY PromiseStep
<1> QED
  BY <1>1, PromiseInit, DeliveryTyped, DeliveryInvariant, PTL
  DEF Spec, ImplementsPromise, Promise!Spec
=============================================================================

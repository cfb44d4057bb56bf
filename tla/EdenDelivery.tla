---------------------------- MODULE EdenDelivery ----------------------------
(***************************************************************************)
(* Eden instances exchanging events and acknowledgements over UDP: Emitter, *)
(* PendingQueue, Receiver, Deduplicator, Bus (one publish at a time: module *)
(* Bus models it handler by handler) and Eden, on UdpTransport or on        *)
(* MultiUdpTransport.                                                       *)
(*                                                                          *)
(* JavaScript runs one callback at a time, so the handling of a datagram, a *)
(* retry tick and a call of the application are each one step.  Between     *)
(* steps datagrams are lost, duplicated and reordered, instances are        *)
(* stopped, crash and come back with nothing in memory.                     *)
(*                                                                          *)
(* Definitions under "Slip" are mistakes the code does not make; nothing    *)
(* below uses them.  Put in the place of the definition that follows, each  *)
(* breaks a property, which shows what the property watches.                *)
(***************************************************************************)
EXTENDS Naturals, FiniteSets

CONSTANTS
  Node,       \* Eden instances, named by their listenPort
  Event,      \* envelopes; the uuid of each is used once
  Sub,        \* subscriptions the applications may make
  Origin,     \* Origin[e]: the instance that emits e
  Owner,      \* Owner[s]: the instance on which s is made
  Wants,      \* Wants[s]: events whose type and room match s
  Peers,      \* Peers[n]: where n's transport sends events AND acknowledgements
  Survives    \* the application keeps running after a handler threw
              \* (process.on("uncaughtException")); Node's default is FALSE

ASSUME OriginType == Origin \in [Event -> Node]
ASSUME OwnerType == Owner \in [Sub -> Node]
ASSUME WantsType == Wants \in [Sub -> SUBSET Event]
ASSUME PeersType == Peers \in [Node -> SUBSET Node]
ASSUME SurvivesType == Survives \in BOOLEAN

VARIABLES
  mode,       \* "up", "stopped" (Eden.stop was called) or "down" (no process)
  pending,    \* PendingQueue.entries of each instance
  expired,    \* those of them whose sentAt is timeoutMs old or more
  seen,       \* Deduplicator.seen$ of each instance
  live,       \* subscriptions now held by the Bus of their owner
  net,        \* datagrams in flight
  (* What happened so far; no action reads the rest. *)
  posted,     \* events emitted
  processed,  \* processed[n]: events whose publish returned on n, ever
  settled,    \* events an acknowledgement took out of a pending queue
  calls,      \* calls[s][e]: calls of s's handler in this incarnation
  waiting     \* <<s, e>>: s has been subscribed ever since e was emitted

state == <<mode, pending, expired, seen, live, net>>
history == <<posted, processed, settled, calls, waiting>>
vars == <<state, history>>

-----------------------------------------------------------------------------
(* Datagrams.  An envelope and an AckEnvelope differ by their type. *)
Datagram == [to : Node, kind : {"event", "ack"}, id : Event]

(* EdenTransport.send: one datagram per peer of n for each of the events. *)
SentBy(n, kind, events) ==
  {[to |-> p, kind |-> kind, id |-> e] : p \in Peers[n], e \in events}

InFlight(n, kind, e) == [to |-> n, kind |-> kind, id |-> e] \in net

(* Taking a datagram from the network; a duplicate may stay behind. *)
After(n, kind, e) == {net, net \ {[to |-> n, kind |-> kind, id |-> e]}}

Up(n) == mode[n] = "up"

(* Slip: publish stops at the first match (find for filter). *)
DueFirst(n, e) ==
  LET due == {s \in live : Owner[s] = n /\ e \in Wants[s]}
  IN {s \in due : s = CHOOSE t \in due : TRUE}

(* Subscriptions of n that Bus.publish calls for e. *)
Due(n, e) == {s \in live : Owner[s] = n /\ e \in Wants[s]}

Called(subs, e) ==
  [s \in Sub |-> IF s \in subs THEN [calls[s] EXCEPT ![e] = @ + 1] ELSE calls[s]]

(* Everything an instance keeps is in memory. *)
Wipe(n) ==
  /\ pending' = [pending EXCEPT ![n] = {}]
  /\ expired' = [expired EXCEPT ![n] = {}]
  /\ seen' = [seen EXCEPT ![n] = {}]
  /\ live' = {s \in live : Owner[s] # n}
  /\ calls' = [s \in Sub |-> IF Owner[s] = n THEN [e \in Event |-> 0] ELSE calls[s]]
  /\ waiting' = {w \in waiting : Owner[w[1]] # n}

-----------------------------------------------------------------------------
Init ==
  /\ mode = [n \in Node |-> "down"]
  /\ pending = [n \in Node |-> {}]
  /\ expired = [n \in Node |-> {}]
  /\ seen = [n \in Node |-> {}]
  /\ live = {}
  /\ net = {}
  /\ posted = {}
  /\ processed = [n \in Node |-> {}]
  /\ settled = {}
  /\ calls = [s \in Sub |-> [e \in Event |-> 0]]
  /\ waiting = {}

(* new Eden(...), the first one or a later one on the same port. *)
Start(n) ==
  /\ ~Up(n)
  /\ mode' = [mode EXCEPT ![n] = "up"]
  /\ Wipe(n)
  /\ UNCHANGED <<net, posted, processed, settled>>

(* Eden.stop: the retry interval and the sockets go, the queue stays. *)
Stop(n) ==
  /\ Up(n)
  /\ mode' = [mode EXCEPT ![n] = "stopped"]
  /\ UNCHANGED <<pending, expired, seen, live, net, history>>

(* The process ends without warning. *)
Crash(n) ==
  /\ mode[n] # "down"
  /\ mode' = [mode EXCEPT ![n] = "down"]
  /\ Wipe(n)
  /\ UNCHANGED <<net, posted, processed, settled>>

(* Eden.on, and the function it returns. *)
Subscribe(s) ==
  /\ mode[Owner[s]] # "down"
  /\ s \notin live
  /\ live' = live \union {s}
  /\ UNCHANGED <<mode, pending, expired, seen, net, history>>

Unsubscribe(s) ==
  /\ s \in live
  /\ live' = live \ {s}
  /\ waiting' = {w \in waiting : w[1] # s}
  /\ UNCHANGED <<mode, pending, expired, seen, net, posted, processed, settled, calls>>

(* Emitter.emit: queued first, then sent. *)
Queue(e) ==
  /\ e \notin posted
  /\ posted' = posted \union {e}
  /\ pending' = [pending EXCEPT ![Origin[e]] = @ \union {e}]
  /\ waiting' = waiting \union {<<s, e>> : s \in {t \in live : e \in Wants[t]
                                                /\ Owner[t] \in Peers[Origin[e]]}}
  /\ UNCHANGED <<mode, expired, seen, live, processed, settled, calls>>

Emit(e) ==
  /\ Up(Origin[e])
  /\ Queue(e)
  /\ net' = net \union SentBy(Origin[e], "event", {e})

(* On a stopped instance the envelope is queued but its sockets are closed. *)
EmitAfterStop(e) ==
  /\ mode[Origin[e]] = "stopped"
  /\ Queue(e)
  /\ UNCHANGED net

(* Slip: an entry that has timed out is given up. *)
ExpireDrops(n, e) ==
  /\ Up(n)
  /\ e \in pending[n]
  /\ pending' = [pending EXCEPT ![n] = @ \ {e}]
  /\ UNCHANGED <<mode, expired, seen, live, net, history>>

(* timeoutMs passes since PendingQueue.add; a retry does not renew sentAt. *)
Expire(n, e) ==
  /\ Up(n)
  /\ e \in pending[n] \ expired[n]
  /\ expired' = [expired EXCEPT ![n] = @ \union {e}]
  /\ UNCHANGED <<mode, pending, seen, live, net, history>>

(* Emitter.retryExpired, on the interval. *)
Retry(n) ==
  /\ Up(n)
  /\ expired[n] # {}
  /\ net' = net \union SentBy(n, "event", expired[n])
  /\ UNCHANGED <<mode, pending, expired, seen, live, history>>

(* Slip: the Deduplicator does not remember the id. *)
HandleFreshUnmarked(n, e) ==
  /\ Up(n)
  /\ InFlight(n, "event", e)
  /\ calls' = Called(Due(n, e), e)
  /\ processed' = [processed EXCEPT ![n] = @ \union {e}]
  /\ \E rest \in After(n, "event", e) : net' = rest \union SentBy(n, "ack", {e})
  /\ UNCHANGED <<mode, pending, expired, seen, live, posted, settled, waiting>>

(* Receiver.handle of an envelope the Deduplicator has not seen: every      *)
(* subscription due is called, then the ACK goes to n's own peers.          *)
HandleFresh(n, e) ==
  /\ Up(n)
  /\ InFlight(n, "event", e)
  /\ e \notin seen[n]
  /\ seen' = [seen EXCEPT ![n] = @ \union {e}]
  /\ calls' = Called(Due(n, e), e)
  /\ processed' = [processed EXCEPT ![n] = @ \union {e}]
  /\ \E rest \in After(n, "event", e) : net' = rest \union SentBy(n, "ack", {e})
  /\ UNCHANGED <<mode, pending, expired, live, posted, settled, waiting>>

(* Slip: a copy is dropped without another ACK. *)
HandleDuplicateSilent(n, e) ==
  /\ Up(n)
  /\ InFlight(n, "event", e)
  /\ e \in seen[n]
  /\ net' \in After(n, "event", e)
  /\ UNCHANGED <<mode, pending, expired, seen, live, history>>

(* A copy: publish returns at once, and the ACK is sent again. *)
HandleDuplicate(n, e) ==
  /\ Up(n)
  /\ InFlight(n, "event", e)
  /\ e \in seen[n]
  /\ \E rest \in After(n, "event", e) : net' = rest \union SentBy(n, "ack", {e})
  /\ UNCHANGED <<mode, pending, expired, seen, live, history>>

(* A handler throws: the id is already in seen$, later subscriptions are    *)
(* not called and no ACK is sent.                                           *)
HandlerThrows(n, e) ==
  /\ Up(n)
  /\ InFlight(n, "event", e)
  /\ e \notin seen[n]
  /\ net' \in After(n, "event", e)
  /\ \E called \in SUBSET Due(n, e) :
        /\ called # {}
        /\ IF Survives
           THEN /\ seen' = [seen EXCEPT ![n] = @ \union {e}]
                /\ calls' = Called(called, e)
                /\ UNCHANGED <<mode, pending, expired, live, waiting>>
           ELSE /\ mode' = [mode EXCEPT ![n] = "down"]
                /\ Wipe(n)
  /\ UNCHANGED <<posted, processed, settled>>

(* Slip: the list of what is due is kept apart and not cleared by an ACK. *)
HandleAckStillDue(n, e) ==
  /\ Up(n)
  /\ InFlight(n, "ack", e)
  /\ net' \in After(n, "ack", e)
  /\ pending' = [pending EXCEPT ![n] = @ \ {e}]
  /\ settled' = IF e \in pending[n] THEN settled \union {e} ELSE settled
  /\ UNCHANGED <<mode, expired, seen, live, posted, processed, calls, waiting>>

(* Slip: acknowledgements are acknowledged. *)
HandleAckAnswers(n, e) ==
  /\ Up(n)
  /\ InFlight(n, "ack", e)
  /\ \E rest \in After(n, "ack", e) : net' = rest \union SentBy(n, "ack", {e})
  /\ pending' = [pending EXCEPT ![n] = @ \ {e}]
  /\ expired' = [expired EXCEPT ![n] = @ \ {e}]
  /\ settled' = IF e \in pending[n] THEN settled \union {e} ELSE settled
  /\ UNCHANGED <<mode, seen, live, posted, processed, calls, waiting>>

(* Receiver.handle of an ACK, by Emitter.acknowledge; it is not answered. *)
HandleAck(n, e) ==
  /\ Up(n)
  /\ InFlight(n, "ack", e)
  /\ net' \in After(n, "ack", e)
  /\ pending' = [pending EXCEPT ![n] = @ \ {e}]
  /\ expired' = [expired EXCEPT ![n] = @ \ {e}]
  /\ settled' = IF e \in pending[n] THEN settled \union {e} ELSE settled
  /\ UNCHANGED <<mode, seen, live, posted, processed, calls, waiting>>

(* UDP loses a datagram, or it reaches a port nobody listens on. *)
Lose(d) ==
  /\ d \in net
  /\ net' = net \ {d}
  /\ UNCHANGED <<mode, pending, expired, seen, live, history>>

HandleEvent(n, e) == HandleFresh(n, e) \/ HandleDuplicate(n, e)

Next ==
  \/ \E n \in Node : Start(n) \/ Stop(n) \/ Crash(n) \/ Retry(n)
  \/ \E s \in Sub : Subscribe(s) \/ Unsubscribe(s)
  \/ \E e \in Event : Emit(e) \/ EmitAfterStop(e)
  \/ \E n \in Node, e \in Event :
        Expire(n, e) \/ HandleEvent(n, e) \/ HandlerThrows(n, e) \/ HandleAck(n, e)
  \/ \E d \in net : Lose(d)

Spec == Init /\ [][Next]_vars

-----------------------------------------------------------------------------
(* Timers fire, and a datagram that is sent again and again gets through:   *)
(* a link that only loses some of them.                                     *)
Fairness ==
  \A n \in Node :
    /\ WF_vars(Retry(n))
    /\ \A e \in Event : /\ WF_vars(Expire(n, e))
                        /\ SF_vars(HandleEvent(n, e))
                        /\ SF_vars(HandleAck(n, e))

FairSpec == Spec /\ Fairness

-----------------------------------------------------------------------------
(* Every variable keeps its type, and expired entries are pending ones. *)
TypeOK ==
  /\ mode \in [Node -> {"up", "stopped", "down"}]
  /\ pending \in [Node -> SUBSET Event]
  /\ expired \in [Node -> SUBSET Event]
  /\ \A n \in Node : expired[n] \subseteq pending[n]
  /\ seen \in [Node -> SUBSET Event]
  /\ live \subseteq Sub
  /\ net \subseteq Datagram
  /\ posted \subseteq Event
  /\ processed \in [Node -> SUBSET Event]
  /\ settled \subseteq Event
  /\ calls \in [Sub -> [Event -> Nat]]
  /\ waiting \subseteq Sub \X Event

(* README, "your handler is never called twice for the same event": however *)
(* often a datagram is retried or duplicated, an incarnation of the         *)
(* instance calls a subscription at most once for it, also when one of its  *)
(* handlers threw in between.                                               *)
AtMostOnce == \A s \in Sub, e \in Event : calls[s][e] <= 1

EmitsTo(n, p) == p \in Peers[n] /\ n \in Peers[p]

(* An ACK in flight was earned: somebody who answers to its addressee and   *)
(* received the event ran its handlers to the end.  So an ACK never causes  *)
(* another one (receiver.ts: "evita cascata infinita").                     *)
AcksEarned ==
  \A d \in net : d.kind = "ack" =>
    \E p \in Node : /\ d.to \in Peers[p]
                    /\ p \in Peers[Origin[d.id]]
                    /\ d.id \in processed[p]

(* An emitter forgets an event only when a peer that both receives from it  *)
(* and answers to it has processed the event; where acknowledgements go to  *)
(* somebody else than the sender, nothing is ever settled.                  *)
SettledMeansProcessed ==
  \A e \in settled : \E p \in Node : EmitsTo(Origin[e], p) /\ e \in processed[p]

(* README, "At-least-once" and "Effectively exactly-once", end to end: once *)
(* an event is no longer retried, every subscription at a peer of its       *)
(* emitter that wanted it, and was there from the emission on, was called   *)
(* exactly once.                                                            *)
SettledMeansHandled ==
  \A w \in waiting : w[2] \in settled => calls[w[1]][w[2]] = 1

(* README, "At-least-once: Emitter retries until ACK received", for every    *)
(* peer: once an event is no longer retried, a subscription that wanted it   *)
(* was called, or a copy is still on its way to its instance.               *)
SettledReachesAll ==
  \A w \in waiting :
    w[2] \in settled => calls[w[1]][w[2]] >= 1 \/ InFlight(Owner[w[1]], "event", w[2])

(* Two instances that send to each other and, from some time on, stay up:   *)
(* an event emitted by the one is acknowledged in the end, whatever was     *)
(* lost on the way.                                                         *)
EventuallySettled ==
  \A n, p \in Node, e \in Event :
    EmitsTo(n, p) /\ Origin[e] = n =>
      (<>[](Up(n) /\ Up(p)) => (e \in pending[n] ~> e \notin pending[n]))

-----------------------------------------------------------------------------
(* Why these hold: what every reachable state has in common. *)

(* Only emitted events are known to anybody, each queue holds its own       *)
(* emitter's, and envelopes go to the emitter's peers.                      *)
Accounted ==
  /\ settled \subseteq posted
  /\ \A n \in Node : /\ seen[n] \union processed[n] \union pending[n] \subseteq posted
                     /\ \A e \in pending[n] : Origin[e] = n
  /\ \A d \in net : /\ d.id \in posted
                    /\ d.kind = "event" => d.to \in Peers[Origin[d.id]]

(* A subscription is called only together with marking the event as seen. *)
CalledOnceSeen ==
  \A s \in Sub, e \in Event :
    calls[s][e] <= (IF e \in seen[Owner[s]] THEN 1 ELSE 0)

(* Where a throwing handler ends the process, what was seen was processed. *)
SeenProcessed == ~Survives => \A n \in Node : seen[n] \subseteq processed[n]

(* Transports with a single peer, and hubs that have only one. *)
Unicast == \A n \in Node : \A p, q \in Peers[n] : p = q

(* A subscription that waits for an event is still there, and has been      *)
(* called if its instance has seen the event, as it has by the time an      *)
(* acknowledgement is under way.                                            *)
WaitingServed ==
  \A w \in waiting :
    LET s == w[1]
        e == w[2]
    IN /\ s \in live
       /\ e \in Wants[s] \intersect posted
       /\ Owner[s] \in Peers[Origin[e]]
       /\ ~Survives /\ e \in seen[Owner[s]] => calls[s][e] = 1
       /\ ~Survives /\ Unicast /\ (e \in settled \/ \E d \in net : d.kind = "ack" /\ d.id = e)
            => e \in seen[Owner[s]]

(* The inductive invariant of EdenDeliveryProofs. *)
DeliveryInv ==
  /\ Accounted
  /\ CalledOnceSeen
  /\ SeenProcessed
  /\ ~Survives => AcksEarned /\ SettledMeansProcessed
  /\ WaitingServed

-----------------------------------------------------------------------------
(* The protocol implements the promise: outbox is what is pending, handled  *)
(* is what the Deduplicator has seen.                                       *)
outbox == {e \in Event : e \in pending[Origin[e]]}
Promise == INSTANCE EventDelivery WITH handled <- seen
ImplementsPromise == Promise!Spec
=============================================================================

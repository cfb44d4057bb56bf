----------------------------- MODULE RelayClient -----------------------------
(***************************************************************************)
(* The RelayClient of each node: a WebSocket on which it identifies itself, *)
(* a queue for what is sent before it is open, and two ways to wait for it. *)
(* A connection that is lost is not made again: send then queues for ever.  *)
(***************************************************************************)
EXTENDS SignalingServer

VARIABLES
  relay,       \* relay[n]: the WebSocket, "none" before and "closed" after it
  identified,  \* nodes that were told "identified"
  waits,       \* waits[n]: what waitForReady waits for
  queue,       \* queue[n]: messages to send once identified
  received     \* received[n]: the messages given to the application, in order

relaying == <<relay, identified, waits, queue, received>>

RelayInit ==
  /\ relay = [n \in Node |-> "none"]
  /\ identified = {}
  /\ waits = [n \in Node |-> "nothing"]
  /\ queue = [n \in Node |-> <<>>]
  /\ received = [n \in Node |-> <<>>]

RelayOpen == {n \in Node : relay[n] = "open"}

(* new RelayClient, bind if there is a handler, waitForReady: the first call *)
(* of connect waits for "identified", a second one for "open".               *)
RelayConnect(n, bound) ==
  /\ relay' = [relay EXCEPT ![n] = "connecting"]
  /\ waits' = [waits EXCEPT ![n] = IF bound THEN "open" ELSE "identified"]
  /\ UNCHANGED <<identified, queue, received>>

RelayOpens(n) ==
  /\ relay[n] = "connecting"
  /\ relay' = [relay EXCEPT ![n] = "open"]
  /\ frames' = Put(frames, n, Identify)
  /\ UNCHANGED <<identified, waits, queue, received>>

(* The connection fails, or is lost with what it still had to receive. *)
RelayLost(n) ==
  /\ relay[n] \in {"connecting", "open"}
  /\ relay' = [relay EXCEPT ![n] = "dead"]
  /\ incoming' = [incoming EXCEPT ![n] = <<>>]
  /\ UNCHANGED <<identified, waits, queue, received>>

Arrives(n) == relay[n] = "open" /\ incoming[n] # <<>>

(* Slip: the queue is sent, last message first. *)
IdentifiedReversed(n) ==
  /\ Arrives(n) /\ Head(incoming[n]) = Identify
  /\ incoming' = Took(incoming, n)
  /\ identified' = identified \union {n}
  /\ frames' = [frames EXCEPT ![n] =
                   @ \o [i \in DOMAIN queue[n] |-> queue[n][Len(queue[n]) + 1 - i]]]
  /\ queue' = [queue EXCEPT ![n] = <<>>]
  /\ UNCHANGED <<relay, waits, received>>

(* "identified": the queue goes out. *)
Identified(n) ==
  /\ Arrives(n) /\ Head(incoming[n]) = Identify
  /\ incoming' = Took(incoming, n)
  /\ identified' = identified \union {n}
  /\ frames' = [frames EXCEPT ![n] = @ \o queue[n]]
  /\ queue' = [queue EXCEPT ![n] = <<>>]
  /\ UNCHANGED <<relay, waits, received>>

(* "data", dropped without a handler. *)
RelayData(n, bound) ==
  /\ Arrives(n) /\ Head(incoming[n]) # Identify
  /\ incoming' = Took(incoming, n)
  /\ received' = IF bound THEN Put(received, n, Head(incoming[n])) ELSE received
  /\ UNCHANGED <<relay, identified, waits, queue, frames>>

(* send: on an open WebSocket at once, whatever is queued; else queued, and *)
(* connect does nothing, as there is a WebSocket, be it a dead one.         *)
RelaySend(n, m) ==
  /\ relay[n] \in {"connecting", "open", "dead"}
  /\ IF relay[n] = "open"
     THEN frames' = Put(frames, n, m) /\ UNCHANGED queue
     ELSE queue' = Put(queue, n, m) /\ UNCHANGED frames
  /\ UNCHANGED <<relay, identified, waits, received>>

(* close: the queue is dropped and the WebSocket terminated. *)
RelayClose(n) ==
  /\ relay' = [relay EXCEPT ![n] = IF @ = "none" THEN @ ELSE "closed"]
  /\ queue' = [queue EXCEPT ![n] = <<>>]
  /\ incoming' = [incoming EXCEPT ![n] = <<>>]
  /\ UNCHANGED <<identified, waits, received>>
=============================================================================

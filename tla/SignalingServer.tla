--------------------------- MODULE SignalingServer ---------------------------
(***************************************************************************)
(* The signaling and relay server, which is not part of the library: the    *)
(* README sketches one and the tests start another, and each client talks   *)
(* to it over two WebSockets, one for signaling and one for the relay.  The *)
(* messages of a WebSocket stay in order; the server reads one of them in a *)
(* step.                                                                    *)
(***************************************************************************)
EXTENDS Naturals, Sequences, TLC

CONSTANTS
  Node,
  Other,      \* Other[n]: the peer that n connects to
  Answers,    \* the server says "identified", as that of the tests does
  Forgets     \* it forgets who registered when the WebSocket closes (README)

ASSUME OtherType == Other \in [Node -> Node] /\ \A n \in Node : Other[Other[n]] = n
ASSUME ServerTypes == {Answers, Forgets} \subseteq BOOLEAN

VARIABLES
  registry,    \* registry[n]: the WebSocket in n's entry, "none" without one
  asked,       \* asked[n]: messages on the signaling WebSocket, to the server
  answers,     \* and from it
  gone,        \* nodes whose signaling WebSocket ended, unknown to the server
  frames,      \* frames[n]: messages on the relay WebSocket, to the server
  incoming     \* and from it

server == <<registry, asked, answers, gone, frames, incoming>>

(* On the relay WebSocket a message is its number, and this stands for      *)
(* "identify" one way and for "identified" the other.                       *)
Identify == 0

ServerInit ==
  /\ registry = [n \in Node |-> "none"]
  /\ asked = [n \in Node |-> <<>>] /\ answers = [n \in Node |-> <<>>]
  /\ gone = {}
  /\ frames = [n \in Node |-> <<>>] /\ incoming = [n \in Node |-> <<>>]

Put(channel, n, m) == [channel EXCEPT ![n] = Append(@, m)]
Took(channel, n) == [channel EXCEPT ![n] = Tail(@)]

Reply(n, m, listening) ==
  answers' = IF n \in listening THEN Put(answers, n, m) ELSE answers

(* "register" and "request_connect".  Nobody sees what is answered once the  *)
(* client's WebSocket is not open.                                           *)
ServerAnswers(n, listening) ==
  /\ asked[n] # <<>>
  /\ asked' = Took(asked, n)
  /\ LET m == Head(asked[n])
     IN  CASE m = "register" ->
              /\ registry' = [registry EXCEPT ![n] = "signaling"]
              /\ Reply(n, "registered", listening)
           [] m = "request" ->
              /\ Reply(n, IF registry[Other[n]] = "none" THEN "error" ELSE "peer_endpoint",
                       listening)
              /\ UNCHANGED registry
  /\ UNCHANGED <<gone, frames, incoming>>

(* The server is told that a WebSocket ended, sooner or later but after the  *)
(* "register" that came by it: the entry is gone, or its WebSocket not open. *)
(* One that did not register has no entry.                                   *)
ServerHangsUp(n) ==
  /\ n \in gone
  /\ asked[n] # <<"register">>
  /\ gone' = gone \ {n}
  /\ registry' = [registry EXCEPT ![n] = IF @ # "signaling" THEN @
                                         ELSE IF Forgets THEN "none" ELSE "closed"]
  /\ UNCHANGED <<asked, answers, frames, incoming>>

(* "identify", which counts for a registered peer only, and "relay", which  *)
(* goes to the peer's entry; on a signaling WebSocket nobody listens to it. *)
ServerRelays(n, open) ==
  /\ frames[n] # <<>>
  /\ frames' = Took(frames, n)
  /\ LET m == Head(frames[n])
         p == Other[n]
     IN  IF m = Identify
         THEN /\ registry' = [registry EXCEPT ![n] = IF @ = "none" THEN @ ELSE "relay"]
              /\ incoming' = IF Answers /\ n \in open THEN Put(incoming, n, Identify)
                             ELSE incoming
         ELSE /\ incoming' = IF registry[p] = "relay" /\ p \in open
                             THEN Put(incoming, p, m) ELSE incoming
              /\ UNCHANGED registry
  /\ UNCHANGED <<asked, answers, gone>>
=============================================================================

---------------------------- MODULE P2PTransport ----------------------------
(***************************************************************************)
(* Two P2PTransports that connect to each other: each call of connect goes  *)
(* through bind, STUN, signaling and hole punching to a direct connection   *)
(* or the relay, with an await at each, in which the application binds its  *)
(* handler, sends or closes.  The parts it awaits are the modules that this *)
(* one puts together; a step here is the code from one await to the next.   *)
(***************************************************************************)
EXTENDS StunMessage, SignalingClient, RelayClient, HolePuncher, Functions

CONSTANTS
  Message,    \* what a STUN server may send
  Genuine,    \* those of them that say which address it saw
  Mapped,     \* that address
  Loopback,   \* "127.0.0.1"
  Punching,   \* options.punchTimeoutMs > 0
  Tries,      \* bound: Tries[n]: calls of requestConnect, for maxRetries
  Binds,      \* bound: nodes whose application binds a handler
  Closes,     \* bound: nodes whose application closes
  Loses,      \* bound: nodes whose WebSockets, once made, may be lost
  Sends       \* bound: Sends[n]: messages that n's application sends

ASSUME MessageTypes ==
  /\ Message \subseteq Seq(0..255)
  /\ \A m \in Message : IF m \in Genuine THEN Says(m, Mapped) ELSE SaysNothing(m)
  /\ Genuine \subseteq Message
  /\ Mapped \in [ip : Seq(0..255), port : Seq(0..255)]
ASSUME PunchingType == Punching \in BOOLEAN
ASSUME CountTypes == Tries \in [Node -> Nat \ {0}] /\ Sends \in [Node -> Nat]
ASSUME BoundTypes == {Binds, Closes, Loses} \subseteq SUBSET Node

VARIABLES
  phase,         \* phase[n]: where connect waits
  udp,           \* udp[n]: the socket: "none", "binding", "open" or "closed"
  app,           \* nodes whose application has called bind
  heard,         \* heard[n]: how often its handler was put on the socket
  host,          \* host[n]: the address to register for n, forgotten then
  tries,         \* tries[n]: calls of requestConnect, while that matters
  peerEndpoint,  \* nodes for which the field peerEndpoint is not null
  sent,          \* sent[n]: messages sent to the relay
  closed,        \* nodes that called close
  (* What happened so far; no action reads it. *)
  hasty          \* hasty[n]: what the application, or the network, has done

transport == <<udp, app, heard, host, tries, peerEndpoint, sent, closed>>
clients == <<signaling, relaying, puncher, server>>
vars == <<phase, transport, clients, hasty>>

-----------------------------------------------------------------------------
Phases == {"idle", "bind", "stun", "register", "request", "punch", "relay",
           "done", "failed"}

InProgress(n) == phase[n] \notin {"idle", "done", "failed"}

Goes(n, place) == phase' = [phase EXCEPT ![n] = place]

Notes(n, flags) == hasty' = [hasty EXCEPT ![n] = @ \union flags]

Init ==
  /\ ServerInit /\ SignalingInit /\ RelayInit /\ PuncherInit
  /\ phase = [n \in Node |-> "idle"]
  /\ udp = [n \in Node |-> "none"]
  /\ app = {}
  /\ heard = [n \in Node |-> 0]
  /\ host = [n \in Node |-> Loopback]
  /\ tries = [n \in Node |-> 0]
  /\ peerEndpoint = {}
  /\ sent = [n \in Node |-> 0]
  /\ closed = {}
  /\ hasty = [n \in Node |-> {}]

(* connect up to the bind of a socket of its own. *)
Connect(n) ==
  /\ phase[n] = "idle"
  /\ Goes(n, "bind")
  /\ udp' = [udp EXCEPT ![n] = "binding"]
  /\ UNCHANGED <<app, heard, host, tries, peerEndpoint, sent, closed, clients, hasty>>

(* Slip: the handler is left to bind, which may have been called before. *)
BoundUnheard(n) ==
  /\ phase[n] = "bind" /\ udp[n] = "binding"
  /\ Goes(n, "stun")
  /\ udp' = [udp EXCEPT ![n] = "open"]
  /\ UNCHANGED <<app, heard, host, tries, peerEndpoint, sent, closed, clients, hasty>>

(* The socket is bound; a close before that leaves connect waiting. *)
Bound(n) ==
  /\ phase[n] = "bind" /\ udp[n] = "binding"
  /\ Goes(n, "stun")
  /\ udp' = [udp EXCEPT ![n] = "open"]
  /\ heard' = [heard EXCEPT ![n] = IF n \in app THEN @ + 1 ELSE @]
  /\ UNCHANGED <<app, host, tries, peerEndpoint, sent, closed, clients, hasty>>

(* discover, on a socket of its own that is closed then: it ends with the    *)
(* first answer that can be read, of any server, or the timeout (Null).      *)
Outcome == {Parse(m) : m \in Message} \union {Null}
Unread == {m \in Genuine : Parse(m) = Null}

(* Without an answer the loopback is registered, on a new WebSocket. *)
Discovered(n) ==
  /\ phase[n] = "stun"
  /\ \E o \in Outcome :
       host' = [host EXCEPT ![n] = IF o = Null THEN Loopback ELSE o.ip]
  /\ SigConnect(n)
  /\ Goes(n, "register")
  /\ UNCHANGED <<udp, app, heard, tries, peerEndpoint, sent, closed,
                 relaying, puncher, server, hasty>>

(* Another message is passed over. *)
PassedOver(n) ==
  /\ phase[n] = "stun"
  /\ Message # {}
  /\ Notes(n, {x \in {"unread"} : Unread # {}})
  /\ UNCHANGED <<phase, transport, clients>>

(* The WebSocket opens, the first one or that of a later request. *)
SignalingOpens(n) ==
  /\ \/ phase[n] = "register" /\ SigOpens(n, "register", "registered")
     \/ phase[n] = "request" /\ SigOpens(n, "request", "peer_endpoint")
  /\ UNCHANGED <<phase, transport, relaying, puncher, hasty,
                 registry, answers, gone, frames, incoming>>

(* The first one does not, and connect fails. *)
SignalingFails(n) ==
  /\ phase[n] = "register"
  /\ SigFails(n)
  /\ Goes(n, "failed")
  /\ UNCHANGED <<transport, relaying, puncher, server, hasty>>

SignalingLost(n) ==
  /\ n \in Loses
  /\ SigLost(n)
  /\ UNCHANGED <<phase, transport, relaying, puncher, hasty, registry, frames, incoming>>

Request(n) ==
  /\ tries' = [tries EXCEPT ![n] = @ + 1]
  /\ SigRequest(n)

(* "registered" *)
Registered(n) ==
  /\ phase[n] = "register" /\ Accepted(n)
  /\ SigTakes(n)
  /\ Request(n)
  /\ host' = [host EXCEPT ![n] = Loopback]
  /\ Goes(n, "request")
  /\ UNCHANGED <<udp, app, heard, peerEndpoint, sent, closed, relaying,
                 puncher, registry, gone, frames, incoming, hasty>>

SetupRelay(n) ==
  /\ RelayConnect(n, n \in app)
  /\ Goes(n, "relay")

(* "peer_endpoint": signaling is closed; a HolePuncher on whatever socket   *)
(* there is by now, which throws when there is none, or the relay at once.  *)
Found(n) ==
  /\ phase[n] = "request" /\ Accepted(n)
  /\ SigClose(n)
  /\ tries' = [tries EXCEPT ![n] = 0]
  /\ IF ~Punching THEN SetupRelay(n) /\ UNCHANGED puncher
     ELSE /\ UNCHANGED relaying
          /\ IF udp[n] = "open" THEN Punch(n) /\ Goes(n, "punch")
             ELSE UNCHANGED puncher /\ Goes(n, "failed")
  /\ UNCHANGED <<udp, app, heard, host, peerEndpoint, sent, closed,
                 registry, asked, frames, incoming, hasty>>

(* Another request after a pause or, after the last, the relay. *)
Rejected(n, ws, left) ==
  IF tries[n] < Tries[n]
  THEN /\ SigSettled(n)
       /\ sig' = [sig EXCEPT ![n] = ws]
       /\ answers' = left
       /\ UNCHANGED <<gone, tries, phase, relaying>>
  ELSE SigClose(n) /\ SetupRelay(n) /\ tries' = [tries EXCEPT ![n] = 0]

(* "error", which may be the answer to an earlier request. *)
NotFound(n) ==
  /\ phase[n] = "request" /\ Refused(n)
  /\ Rejected(n, sig[n], Took(answers, n))
  /\ UNCHANGED <<udp, app, heard, host, peerEndpoint, sent, closed,
                 puncher, registry, asked, frames, incoming, hasty>>

(* No answer in time, be the WebSocket open or lost. *)
RequestTimeout(n) ==
  /\ phase[n] = "request" /\ waiting[n] # "nothing"
  /\ Rejected(n, sig[n], answers)
  /\ UNCHANGED <<udp, app, heard, host, peerEndpoint, sent, closed,
                 puncher, registry, asked, frames, incoming, hasty>>

(* The request found its WebSocket lost, and the other one does not open. *)
ReconnectFails(n) ==
  /\ phase[n] = "request" /\ sig[n] = "connecting"
  /\ Rejected(n, "dead", answers)
  /\ UNCHANGED <<udp, app, heard, host, peerEndpoint, sent, closed,
                 puncher, registry, asked, frames, incoming, hasty>>

(* Then connect fails, and leaves the WebSocket as it is. *)
RegisterTimeout(n) ==
  /\ phase[n] = "register" /\ waiting[n] # "nothing"
  /\ SigSettled(n)
  /\ Goes(n, "failed")
  /\ UNCHANGED <<transport, sig, relaying, puncher, server, hasty>>

(* A message that nobody waits for. *)
AnswerIgnored(n) ==
  /\ Ignored(n)
  /\ SigTakes(n)
  /\ UNCHANGED <<phase, transport, signaling, relaying, puncher,
                 registry, asked, gone, frames, incoming, hasty>>

(* The pause is over. *)
Retry(n) ==
  /\ phase[n] = "request" /\ waiting[n] = "nothing" /\ sig[n] # "connecting"
  /\ Request(n)
  /\ UNCHANGED <<phase, udp, app, heard, host, peerEndpoint, sent, closed, relaying,
                 puncher, registry, answers, gone, frames, incoming, hasty>>

-----------------------------------------------------------------------------
(* Hole punching. *)
Probe(n) ==
  /\ SendProbe(n, udp[n] = "open")
  /\ UNCHANGED <<phase, transport, signaling, relaying, server, hasty>>

ProbeLost(n) ==
  /\ LoseProbe(n)
  /\ UNCHANGED <<phase, transport, signaling, relaying, server, hasty>>

(* A probe came back, which a closed socket does not see. *)
Punched(n) ==
  /\ udp[n] = "open"
  /\ Hears(n, Other[n])
  /\ peerEndpoint' = peerEndpoint \union {n}
  /\ Goes(n, "done")
  /\ UNCHANGED <<udp, app, heard, host, tries, sent, closed, signaling, relaying, server, hasty>>

(* n is silent from here on: its peer may not have heard one of its probes. *)
Silent(n) ==
  /\ GraceEnds(n)
  /\ Notes(n, {x \in {"unheard"} : Other[n] \in listens})
  /\ UNCHANGED <<phase, transport, signaling, relaying, server>>

(* The timeout of punch, perhaps with probes of either node on their way.   *)
NotPunched(n) ==
  /\ GivesUp(n)
  /\ SetupRelay(n)
  /\ Notes(n, {x \in {"raced"} : n \in probes \/ Other[n] \in probing \ listens})
  /\ UNCHANGED <<transport, signaling, server>>

-----------------------------------------------------------------------------
(* The relay. *)

(* Slip: connect returns when the WebSocket opens, identified or not. *)
RelayUpAtOnce(n) ==
  /\ RelayOpens(n)
  /\ Goes(n, "done")
  /\ UNCHANGED <<transport, signaling, puncher, registry, asked, answers, gone, incoming, hasty>>

RelayUp(n) ==
  /\ RelayOpens(n)
  /\ IF waits[n] = "open" THEN Goes(n, "done") ELSE UNCHANGED phase
  /\ UNCHANGED <<transport, signaling, puncher, registry, asked, answers, gone, incoming, hasty>>

(* Slip: the queue goes out, and connect goes on waiting. *)
RelayIdentifiedOnly(n) ==
  /\ Identified(n)
  /\ UNCHANGED <<phase, transport, signaling, puncher, registry, asked, answers, gone, hasty>>

RelayIdentified(n) ==
  /\ Identified(n)
  /\ IF phase[n] = "relay" /\ waits[n] = "identified" THEN Goes(n, "done") ELSE UNCHANGED phase
  /\ UNCHANGED <<transport, signaling, puncher, registry, asked, answers, gone, hasty>>

RelayDelivers(n) ==
  /\ RelayData(n, n \in app)
  /\ UNCHANGED <<phase, transport, signaling, puncher, registry, asked, answers, gone,
                 frames, hasty>>

(* With an "error" who waits for "identified" is told; with a "close" alone, *)
(* as of a WebSocket that was open, nobody is.                               *)
RelayDies(n) ==
  /\ n \in Loses
  /\ RelayLost(n)
  /\ \/ phase[n] = "relay" /\ waits[n] = "identified" /\ Goes(n, "failed")
     \/ (relay[n] = "open" \/ waits[n] = "open") /\ UNCHANGED phase
  /\ UNCHANGED <<phase, transport, signaling, puncher, registry, asked, answers, gone,
                 frames, hasty>>

-----------------------------------------------------------------------------
(* The application. *)

(* bind: on the socket, if there is one, at once. *)
AppBind(n) ==
  /\ n \in Binds \ app
  /\ app' = app \union {n}
  /\ heard' = [heard EXCEPT ![n] = IF udp[n] \in {"binding", "open"} THEN @ + 1 ELSE @]
  /\ Notes(n, {x \in {"bind"} : udp[n] = "binding"})
  /\ UNCHANGED <<phase, udp, host, tries, peerEndpoint, sent, closed, clients>>

(* send, when there is a relay.  Direct datagrams are those of EdenDelivery. *)
Send(n) ==
  /\ sent[n] < Sends[n]
  /\ sent' = [sent EXCEPT ![n] = @ + 1]
  /\ RelaySend(n, sent[n] + 1)
  /\ Notes(n, {x \in {"early"} : relay[n] = "open" /\ queue[n] # <<>>})
  /\ UNCHANGED <<phase, udp, app, heard, host, tries, peerEndpoint, closed, signaling,
                 puncher, registry, asked, answers, gone, incoming>>

(* close: a relay that was still connecting fails, which only who waits for *)
(* "identified" is told; a call of connect goes on as if nothing was.       *)
Close(n) ==
  /\ phase[n] # "idle" /\ n \in Closes \ closed
  /\ closed' = closed \union {n}
  /\ udp' = [udp EXCEPT ![n] = "closed"]
  /\ peerEndpoint' = peerEndpoint \ {n}
  /\ RelayClose(n)
  /\ IF relay[n] = "connecting" /\ waits[n] = "identified"
     THEN Goes(n, "failed") ELSE UNCHANGED phase
  /\ Notes(n, {x \in {"close"} : InProgress(n)})
  /\ UNCHANGED <<app, heard, host, tries, sent, signaling, puncher,
                 registry, asked, answers, gone, frames>>

Serve(n) ==
  /\ ServerAnswers(n, SigOpen) \/ ServerHangsUp(n) \/ ServerRelays(n, RelayOpen)
  /\ UNCHANGED <<phase, transport, signaling, relaying, puncher, hasty>>

(* What a node does of itself once connect was called. *)
Progress(n) ==
  \/ Bound(n) \/ Discovered(n) \/ SignalingOpens(n) \/ SignalingFails(n)
  \/ Registered(n) \/ Found(n) \/ NotFound(n) \/ RequestTimeout(n) \/ ReconnectFails(n)
  \/ RegisterTimeout(n) \/ AnswerIgnored(n) \/ Retry(n) \/ Punched(n) \/ Silent(n) \/ NotPunched(n)
  \/ RelayUp(n) \/ RelayIdentified(n) \/ RelayDelivers(n)

Next ==
  \E n \in Node :
    \/ Connect(n) \/ AppBind(n) \/ Send(n) \/ Close(n)
    \/ Progress(n) \/ Serve(n)
    \/ PassedOver(n) \/ SignalingLost(n) \/ Probe(n) \/ ProbeLost(n) \/ RelayDies(n)

Spec == Init /\ [][Next]_vars

-----------------------------------------------------------------------------
(* Every variable keeps its type, and phase and parts agree: what is waited  *)
(* for is what connect asked last, on a WebSocket that had opened, lost or   *)
(* not, and was not closed; punch is waited for by a node that listens.      *)
TypeOK ==
  /\ phase \in [Node -> Phases]
  /\ udp \in [Node -> {"none", "binding", "open", "closed"}]
  /\ {app, peerEndpoint, closed, gone, identified, listens, probing, probes} \subseteq SUBSET Node
  /\ heard \in [Node -> Nat] /\ tries \in [Node -> Nat] /\ sent \in [Node -> Nat]
  /\ sig \in [Node -> {"none", "connecting", "open", "dead", "closed"}]
  /\ waiting \in [Node -> {"nothing", "registered", "peer_endpoint"}]
  /\ relay \in [Node -> {"none", "connecting", "open", "dead", "closed"}]
  /\ waits \in [Node -> {"nothing", "open", "identified"}]
  /\ registry \in [Node -> {"none", "signaling", "closed", "relay"}]
  /\ hasty \in [Node -> SUBSET {"unread", "bind", "raced", "unheard", "early", "close"}]
  /\ \A n \in Node : /\ waiting[n] # "nothing" => sig[n] \in {"open", "dead"}
                     /\ waiting[n] = "registered" => phase[n] = "register"
                     /\ waiting[n] = "peer_endpoint" => phase[n] = "request"
                     /\ n \in listens <=> phase[n] = "punch"
                     /\ tries[n] <= Tries[n]

(* What an answer of a STUN server holds before the mapped address, of       *)
(* whatever length, does not matter: the address is found, and what is       *)
(* registered is that address or, when no answer came, the loopback.         *)
HostGenuine ==
  \A n \in Node : host[n] \in {Mapped.ip, Loopback} /\ "unread" \notin hasty[n]

Direct(n) == phase[n] = "done" /\ relay[n] = "none"
Relayed(n) == phase[n] = "done" /\ relay[n] # "none"

(* "garantir que o peer remoto tambem detecte a resposta (simetria do hole   *)
(* punch)": the two do not end up one on the direct path and the other on    *)
(* the relay, unless all the probes of a grace period were lost or a timeout *)
(* came while a probe or the grace period was on its way, or one was closed. *)
SameMode ==
  \A n \in Node :
    LET m == Other[n]
    IN  Direct(n) /\ Relayed(m) =>
          \/ "unheard" \in hasty[n]
          \/ "raced" \in hasty[m]
          \/ n \in closed \/ m \in closed

(* A node whose connect has returned with a relay gets what its peer sends   *)
(* by it: the server knows the relay, and not the WebSocket of signaling,    *)
(* whose close may reach it later.  Only "identified" says so: a connect     *)
(* that came after bind waits for less.                                      *)
RelayReaches ==
  \A n \in Node :
    Relayed(n) /\ relay[n] = "open" /\ waits[n] = "identified" => registry[n] = "relay"

(* Messages come out of the relay in the order they were sent, none twice    *)
(* and none missing between two that did, also around "identified", when     *)
(* those that were queued go out, unless one was sent on the open WebSocket  *)
(* while others were queued.                                                 *)
InOrder ==
  \A n \in Node : "early" \notin hasty[Other[n]] =>
    \A i \in 1..Len(received[n]) - 1 : received[n][i + 1] = received[n][i] + 1

(* The handler of an application that called bind, before, during or after   *)
(* connect, hears each datagram once; twice only if the call of bind came    *)
(* while the socket was being bound.                                         *)
HeardOnce ==
  \A n \in Node :
    /\ "bind" \notin hasty[n] => heard[n] <= 1
    /\ n \in app /\ Direct(n) /\ n \notin closed => heard[n] >= 1

(* What a wait is for, by where connect waits: the socket or a WebSocket     *)
(* that opens or fails, a timeout (of discover, of a request, of the pause   *)
(* before the next, of punch), or the "identified" that is on its way as     *)
(* long as "identify" is or, behind it, the answer.                          *)
Awaited(n) ==
  \/ phase[n] = "bind" /\ udp[n] = "binding"
  \/ phase[n] = "stun"
  \/ phase[n] = "register" /\ (sig[n] = "connecting" \/ waiting[n] = "registered")
  \/ /\ phase[n] = "request"
     /\ sig[n] = "connecting" \/ waiting[n] = "peer_endpoint" \/ tries[n] < Tries[n]
  \/ phase[n] = "punch" /\ n \in listens
  \/ phase[n] = "relay" /\ relay[n] = "connecting"
  \/ /\ phase[n] = "relay" /\ relay[n] = "open" /\ waits[n] = "identified"
     /\ Identify \in Range(frames[n]) \union Range(incoming[n])

(* "P2PTransport first tries hole punching via the registry; if that fails,  *)
(* it falls back to relay": whatever is lost or late, a call of connect that *)
(* has not ended waits for something that comes, unless the transport was    *)
(* closed or the relay's WebSocket died, which not every wait is told of.    *)
NeverStuck ==
  \A n \in Node : InProgress(n) /\ n \notin closed /\ relay[n] # "dead" => Awaited(n)

(* What close is for: a transport whose connect had ended by then keeps     *)
(* neither socket nor relay nor peer, and no late answer, probe or          *)
(* "identified" brings one back.                                            *)
ClosedForGood ==
  \A n \in closed : "close" \notin hasty[n] =>
    /\ ~InProgress(n)
    /\ udp[n] = "closed" /\ n \notin peerEndpoint
    /\ relay[n] \in {"none", "dead", "closed"}
=============================================================================

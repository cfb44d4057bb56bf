------------------------------ MODULE MultiP2P ------------------------------
(***************************************************************************)
(* One MultiP2PTransport and the application that uses it: addPeer runs     *)
(* through bind, STUN, signaling, hole punching and the relay with an await *)
(* at each, in which other addPeers, removePeer, close, a new bind and the  *)
(* election's callbacks run.  Every step here is the code from one await to *)
(* the next.                                                                *)
(*                                                                          *)
(* The election is reduced to its callbacks (module SentinelElection says   *)
(* when they come), a SignalingSentinel to whether it was stopped, and the  *)
(* parts that addPeer awaits to their possible outcomes.                    *)
(*                                                                          *)
(* Definitions under "Slip" are mistakes the code does not make: each       *)
(* breaks a property when put in the place of the one that follows.         *)
(***************************************************************************)
EXTENDS Naturals

CONSTANTS
  Call,          \* calls of addPeer the application makes
  Peer,          \* peer ids
  Target,        \* Target[c]: targetId of each call
  Sentinel,      \* options.sentinel
  Stun,          \* options.stunServers is not empty
  Punch,         \* options.punchTimeoutMs > 0
  MaxSockets,    \* bound: calls of bind
  MaxSentinels   \* bound: SignalingSentinels made, but for those of addPeer

ASSUME TargetType == Target \in [Call -> Peer]
ASSUME OptionTypes == {Sentinel, Stun, Punch} \subseteq BOOLEAN
ASSUME BoundTypes == MaxSockets \in Nat /\ MaxSentinels \in Nat
ASSUME CallsAreCalls == Call \intersect {"none", "direct"} = {}

VARIABLES
  sockets,         \* UDP sockets made so far: 1..sockets
  socket,          \* the field socket: the last of them, or 0 for null
  binds,           \* binds[s]: times socket.bind was called on s
  listening,       \* sockets whose bind has completed
  bindPromise,     \* the field bindPromise: its socket, or 0 for null
  publicEndpoint,  \* the socket it was discovered on, or 0 for null
  peers,           \* peers[p]: "none", "direct", or the call whose relay it is
  relays,          \* RelayClients not closed, named by the call that made them
  election,        \* role of the field election: "none" for null
  sentinel,        \* the field sentinel: a number, or 0 for null
  sentinels,       \* SignalingSentinels made so far: 1..sentinels
  running,         \* those of them that were started and not stopped
  pc,              \* where each call of addPeer waits
  on,              \* on[c]: socket that call c waits for or uses
  (* What happened so far; no action reads it. *)
  hasty            \* what the application, or the network, has done

binding == <<sockets, socket, binds, listening, bindPromise, publicEndpoint>>
roles == <<election, sentinel, sentinels, running>>
vars == <<binding, peers, relays, roles, pc, on, hasty>>

-----------------------------------------------------------------------------
Places == {"idle", "bind", "stun", "register", "connect", "punch",
           "relay", "relay only", "done", "failed", "hung"}

InProgress(c) == pc[c] \notin {"idle", "done", "failed", "hung"}

Goes(c, place) == pc' = [pc EXCEPT ![c] = place]

NoPeers(map) == \A p \in Peer : map[p] = "none"

(* Slip: the election goes on without peers. *)
RemoveKeepsElection(p) ==
  /\ peers' = [peers EXCEPT ![p] = "none"]
  /\ relays' = relays \ {peers[p]}
  /\ UNCHANGED election

(* Slip: the relay is dropped and not closed. *)
RemoveDropsRelay(p) ==
  /\ peers' = [peers EXCEPT ![p] = "none"]
  /\ election' = IF NoPeers(peers') THEN "none" ELSE election
  /\ UNCHANGED relays

(* removePeer.  The sentinel is left alone even when the election ends. *)
Remove(p) ==
  /\ peers' = [peers EXCEPT ![p] = "none"]
  /\ relays' = relays \ {peers[p]}
  /\ election' = IF NoPeers(peers') THEN "none" ELSE election

(* new SignalingSentinel and start. *)
NewSentinel ==
  /\ sentinels' = sentinels + 1
  /\ sentinel' = sentinels + 1
  /\ running' = running \union {sentinels + 1}

-----------------------------------------------------------------------------
Init ==
  /\ sockets = 0 /\ socket = 0
  /\ binds = [s \in 1..MaxSockets |-> 0]
  /\ listening = {}
  /\ bindPromise = 0 /\ publicEndpoint = 0
  /\ peers = [p \in Peer |-> "none"]
  /\ relays = {}
  /\ election = "none"
  /\ sentinel = 0 /\ sentinels = 0 /\ running = {}
  /\ pc = [c \in Call |-> "idle"]
  /\ on = [c \in Call |-> 0]
  /\ hasty = {}

(* bind, before anything else or after close: makes the socket; addPeer      *)
(* binds it.  No caller binds a transport that still has one.               *)
Bind ==
  /\ socket = 0
  /\ sockets < MaxSockets
  /\ sockets' = sockets + 1
  /\ socket' = sockets + 1
  /\ UNCHANGED <<binds, listening, bindPromise, publicEndpoint,
                 peers, relays, roles, pc, on, hasty>>

(* Slip: nothing is shared: each call binds unless the socket is bound. *)
BindSocketAlways ==
  /\ bindPromise' = socket
  /\ binds' = IF socket \in listening THEN binds
              ELSE [binds EXCEPT ![socket] = @ + 1]

(* The first call on a socket binds it, later ones await the same promise. *)
BindSocketOnce ==
  /\ bindPromise' = IF bindPromise = 0 THEN socket ELSE bindPromise
  /\ binds' = IF bindPromise = 0 THEN [binds EXCEPT ![socket] = @ + 1] ELSE binds

(* addPeer up to "await this.bindPromise". *)
AddPeer(c) ==
  /\ pc[c] = "idle"
  /\ socket # 0
  /\ Remove(Target[c])
  /\ BindSocketOnce
  /\ Goes(c, "bind")
  /\ on' = [on EXCEPT ![c] = bindPromise']
  /\ hasty' = hasty
       \union {x \in {"overlap"} : \E d \in Call : InProgress(d) /\ Target[d] = Target[c]}
       \union {x \in {"emptied"} : NoPeers(peers') /\ sentinel # 0}
  /\ UNCHANGED <<sockets, socket, listening, publicEndpoint, sentinel, sentinels, running>>

(* The bind completes, unless the socket was closed before. *)
Listening ==
  /\ socket # 0
  /\ binds[socket] > 0
  /\ socket \notin listening
  /\ listening' = listening \union {socket}
  /\ UNCHANGED <<sockets, socket, binds, bindPromise, publicEndpoint,
                 peers, relays, roles, pc, on, hasty>>

(* On with the port of whatever socket the transport has by now: with none, *)
(* or one not bound yet, address() throws.                                  *)
Bound(c) ==
  /\ pc[c] = "bind"
  /\ on[c] \in listening
  /\ Goes(c, IF socket \notin listening THEN "failed"
             ELSE IF Stun /\ publicEndpoint = 0 THEN "stun" ELSE "register")
  /\ on' = [on EXCEPT ![c] = socket]
  /\ UNCHANGED <<binding, peers, relays, roles, hasty>>

(* discover answers or times out: either is remembered. *)
Discovered(c) ==
  /\ pc[c] = "stun"
  /\ publicEndpoint' = on[c]
  /\ Goes(c, "register")
  /\ UNCHANGED <<sockets, socket, binds, listening, bindPromise, peers, relays, roles, on, hasty>>

(* signaling.register; its failure is addPeer's. *)
Registered(c) ==
  /\ pc[c] = "register"
  /\ \E place \in {"connect", "failed"} : Goes(c, place)
  /\ UNCHANGED <<binding, peers, relays, roles, on, hasty>>

(* setupRelay up to waitForReady: the relay exists, the map does not know it. *)
SetupRelay(c, place) ==
  /\ relays' = relays \union {c}
  /\ Goes(c, place)

(* requestConnect fails five times: the relay, and nothing after it. *)
NotFound(c) ==
  /\ pc[c] = "connect"
  /\ SetupRelay(c, "relay only")
  /\ UNCHANGED <<binding, peers, roles, on, hasty>>

(* requestConnect answers: a HolePuncher on whatever socket there is by now, *)
(* which throws when there is none, or the relay at once.                    *)
Found(c) ==
  /\ pc[c] = "connect"
  /\ IF Punch
     THEN /\ Goes(c, IF socket = 0 THEN "failed" ELSE "punch")
          /\ on' = [on EXCEPT ![c] = socket]
          /\ UNCHANGED relays
     ELSE SetupRelay(c, "relay") /\ UNCHANGED on
  /\ UNCHANGED <<binding, peers, roles, hasty>>

(* punch times out. *)
NotPunched(c) ==
  /\ pc[c] = "punch"
  /\ SetupRelay(c, "relay")
  /\ UNCHANGED <<binding, peers, roles, on, hasty>>

(* Slip: every connection starts an election. *)
ElectAgain ==
  IF Sentinel
  THEN NewSentinel /\ election' = "sentinel"
  ELSE UNCHANGED roles

(* The end of addPeer: the first connection starts election and sentinel. *)
Elect ==
  IF Sentinel /\ election = "none"
  THEN NewSentinel /\ election' = "sentinel"
  ELSE UNCHANGED roles

(* A probe came back, which a closed socket does not see. *)
Punched(c) ==
  /\ pc[c] = "punch"
  /\ on[c] = socket
  /\ peers' = [peers EXCEPT ![Target[c]] = "direct"]
  /\ Elect
  /\ Goes(c, "done")
  /\ UNCHANGED <<binding, relays, on, hasty>>

(* The relay's connection opens: peers.set, whatever is there by now. *)
RelayReady(c) ==
  /\ pc[c] \in {"relay", "relay only"}
  /\ peers' = [peers EXCEPT ![Target[c]] = c]
  /\ IF pc[c] = "relay"
     THEN Elect /\ UNCHANGED hasty
     ELSE UNCHANGED roles /\ hasty' = hasty \union {"relay only"}
  /\ Goes(c, "done")
  /\ UNCHANGED <<binding, relays, on>>

(* It fails to open: waitForReady, the second to ask for the connection,    *)
(* waits for an "open" that never comes.                                    *)
RelayFails(c) ==
  /\ pc[c] \in {"relay", "relay only"}
  /\ relays' = relays \ {c}
  /\ Goes(c, "hung")
  /\ UNCHANGED <<binding, peers, roles, on, hasty>>

RemovePeer(p) ==
  /\ Remove(p)
  /\ hasty' = hasty \union {x \in {"emptied"} : NoPeers(peers') /\ sentinel # 0}
  /\ UNCHANGED <<binding, sentinel, sentinels, running, pc, on>>

(* What close does, but for the two caches of the socket. *)
CloseAll ==
  /\ election' = "none"
  /\ running' = running \ {sentinel}
  /\ sentinel' = 0
  /\ relays' = relays \ {peers[p] : p \in Peer}
  /\ peers' = [p \in Peer |-> "none"]
  /\ socket' = 0
  /\ hasty' = hasty \union {x \in {"close"} : \E c \in Call : InProgress(c)}
  /\ UNCHANGED <<sentinels, sockets, binds, listening, pc, on>>

(* Slips: close leaves one of the caches to the next socket. *)
CloseKeepsPromise == CloseAll /\ publicEndpoint' = 0 /\ UNCHANGED bindPromise
CloseKeepsEndpoint == CloseAll /\ bindPromise' = 0 /\ UNCHANGED publicEndpoint

(* close, once or again: a call of addPeer in progress is not told. *)
Close == CloseAll /\ bindPromise' = 0 /\ publicEndpoint' = 0

(* The election's onPromoted: handlePromoted. *)
Promoted ==
  /\ election = "follower"
  /\ sentinels < MaxSentinels
  /\ election' = "sentinel"
  /\ NewSentinel
  /\ UNCHANGED <<binding, peers, relays, pc, on, hasty>>

(* Slip: the sentinel is stopped but not forgotten. *)
DemotedKeepsSentinel ==
  /\ election = "sentinel"
  /\ election' = "follower"
  /\ running' = running \ {sentinel}
  /\ UNCHANGED <<binding, peers, relays, sentinel, sentinels, pc, on, hasty>>

(* The election's onDemoted: handleDemoted. *)
Demoted ==
  /\ election = "sentinel"
  /\ election' = "follower"
  /\ running' = running \ {sentinel}
  /\ sentinel' = 0
  /\ UNCHANGED <<binding, peers, relays, sentinels, pc, on, hasty>>

Next ==
  \/ Bind \/ Listening \/ Close \/ Promoted \/ Demoted
  \/ \E p \in Peer : RemovePeer(p)
  \/ \E c \in Call : \/ AddPeer(c) \/ Bound(c) \/ Discovered(c) \/ Registered(c)
                     \/ NotFound(c) \/ Found(c) \/ NotPunched(c) \/ Punched(c)
                     \/ RelayReady(c) \/ RelayFails(c)

Spec == Init /\ [][Next]_vars

-----------------------------------------------------------------------------
(* Every variable keeps its type, and a promise kept for sharing is that of *)
(* the present socket: an older one's would let addPeer use it unbound.     *)
TypeOK ==
  /\ sockets \in 0..MaxSockets
  /\ socket \in {0, sockets}
  /\ binds \in [1..MaxSockets -> Nat]
  /\ listening \subseteq 1..sockets
  /\ bindPromise \in {0, socket}
  /\ publicEndpoint \in 0..sockets
  /\ peers \in [Peer -> {"none", "direct"} \union Call]
  /\ relays \subseteq Call
  /\ election \in {"none", "sentinel", "follower"}
  /\ sentinels \in Nat
  /\ sentinel \in 0..sentinels
  /\ running \subseteq 1..sentinels
  /\ pc \in [Call -> Places]
  /\ on \in [Call -> 0..sockets]
  /\ hasty \subseteq {"overlap", "emptied", "close", "relay only"}

(* "promise compartilhada para evitar bind() duplo em addPeer() paralelos": *)
(* however calls of addPeer, close and bind interleave, no socket is bound  *)
(* twice.                                                                   *)
BoundOnce == \A s \in 1..MaxSockets : binds[s] <= 1

(* Through promotions, demotions, removals and calls of addPeer that end at  *)
(* any time, the field signalingSentinel holds one that was started, and not *)
(* stopped, while the election says sentinel, and none while it says         *)
(* follower.  Without an election there is none either, unless the last peer *)
(* was removed: that ends the election and leaves the sentinel as it is.     *)
RoleHasSentinel ==
  /\ election = "sentinel" => sentinel \in running
  /\ election = "follower" => sentinel = 0
  /\ election = "none" => sentinel = 0 \/ "emptied" \in hasty

(* "mesh morta": an election goes on as long as there are peers and no      *)
(* longer.  It starts with the first of them ("na primeira conexao          *)
(* bem-sucedida"), unless that one was reached by the relay because         *)
(* signaling did not know it.                                               *)
MeshElects ==
  /\ election # "none" => ~NoPeers(peers)
  /\ Sentinel /\ ~NoPeers(peers) /\ election = "none" => "relay only" \in hasty

Held(c) == pc[c] \in {"relay", "relay only"} \/ peers[Target[c]] = c

(* "limpar peer existente antes de sobrescrever (evita relay leak)": every  *)
(* open relay belongs to a peer or to a call that is still waiting for it.  *)
NoRelayLeaks == \A c \in relays : Held(c)

(* That is so unless two calls for one peer overlapped. *)
RelaysHeld == "overlap" \notin hasty => NoRelayLeaks

(* "cache do publicEndpoint - mesmo socket, mesmo resultado": what is       *)
(* cached was found with the socket that is in use, unless close came       *)
(* during an addPeer.                                                       *)
CacheFresh == "close" \notin hasty => publicEndpoint \in {0, socket}

(* The only SignalingSentinel that goes on reconnecting is the one that the *)
(* transport knows and can stop, unless the last peer went before it.       *)
OneSentinel == "emptied" \notin hasty => running \subseteq {sentinel}

(* What close is for, and the test "close() para o sentinel": no sentinel   *)
(* and no relay is left open behind a close, at least when no addPeer was   *)
(* in progress.                                                             *)
CloseReleases == socket = 0 /\ "close" \notin hasty => running = {} /\ relays = {}

-----------------------------------------------------------------------------
(* Why these hold: what every reachable state has in common. *)

(* A socket without a promise has not been bound, nor one yet to be made. *)
FirstBind ==
  \A s \in 1..MaxSockets :
    binds[s] <= (IF s > sockets \/ (s = socket /\ bindPromise = 0) THEN 0 ELSE 1)

(* A peer's relay was made for it. *)
RelayTargets == \A p \in Peer : peers[p] \in Call => Target[peers[p]] = p

(* A call that does not overlap another has its peer's place to itself. *)
Alone ==
  "overlap" \notin hasty =>
    \A c \in Call : InProgress(c) =>
      /\ peers[Target[c]] = "none"
      /\ \A d \in Call : InProgress(d) /\ Target[d] = Target[c] => d = c

(* A call that is not cut short by close works on the present socket. *)
SameSocket ==
  "close" \notin hasty =>
    \A c \in Call : InProgress(c) => socket # 0 /\ (pc[c] = "stun" => on[c] = socket)

(* The part of CloseReleases that the code keeps: close can leave a sentinel *)
(* behind only when the last peer went before it or an addPeer was in       *)
(* progress, and a relay only when two calls for one peer overlapped or an  *)
(* addPeer was in progress.                                                 *)
CloseFrees ==
  socket = 0 /\ "close" \notin hasty =>
    /\ "emptied" \notin hasty => running = {}
    /\ "overlap" \notin hasty => relays = {}

(* Between a close and the next bind the transport knows of nothing. *)
NothingUnbound ==
  socket = 0 /\ "close" \notin hasty => sentinel = 0 /\ NoPeers(peers)

(* The inductive invariant of MultiP2PProofs. *)
TransportInv ==
  /\ FirstBind /\ RoleHasSentinel /\ MeshElects
  /\ RelayTargets /\ Alone /\ RelaysHeld
  /\ SameSocket /\ CacheFresh
  /\ OneSentinel
=============================================================================

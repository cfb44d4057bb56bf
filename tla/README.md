# TLA+ models of Eden Core

This directory holds TLA+ models of the event manager in `src/`, the TLC
configurations that check them and TLAPS proofs about them. Paths such as
`emitter.ts:42` are below `src/src/`; `README.md:357` and `docs/...` are the
repository's own documents.

Contents: [the system](#the-system), [modules](#modules),
[runs](#runs-and-what-they-show), [fairness](#fairness),
[proofs](#proofs), [where code and documents differ](#where-code-and-documents-differ),
[not modelled](#not-modelled), [plan](#plan).

## The system

Eden is a library. One process holds one or more `Eden` instances; each owns a
transport, and everything it knows is in memory. JavaScript runs one callback at
a time, so the units of interleaving are callbacks: the arrival of a datagram, a
timer, a call by the application, the continuation after an `await`.

| Component | State | Operations | Talks to |
|---|---|---|---|
| `Eden` (`eden/eden.ts`) | its parts | constructor, `on`, `emit`, `stop` | Emitter, Receiver, Bus; makes three transports to `remote` (events out, everything in, ACKs out) |
| `Emitter` | `PendingQueue`, retry interval | `emit`, `acknowledge`, `retryExpired`, `stop` | transport |
| `PendingQueue` | `entries`: envelope and `sentAt` by id | `add`, `acknowledge`, `getExpired` | — |
| `Receiver` | — | `handle` of a datagram | its handler, then the ACK transport |
| `Deduplicator` | `seen$` | `seen` (test and mark) | — |
| `Bus` | `subscriptions`: array by type | `subscribe`, `unsubscribe`, `publish` | Deduplicator; handlers of the application, which may call back |
| `UdpTransport`, `MultiUdpTransport` | socket; `peers` | `send`, `bind`, `close`, `addPeer`, `removePeer` | UDP |
| `MultiP2PTransport` | socket, `bindPromise`, `publicEndpoint`, `peers`, `sentinel`, `election` | `bind`, `send`, `close`, `addPeer` (with six `await`s), `removePeer`, the election's callbacks | all of the following |
| `P2PTransport` | socket, `relay`, `peerEndpoint` | `connect`, `send`, `bind`, `close` | StunClient, SignalingClient, HolePuncher, RelayClient |
| `SentinelElection` | `sentinel`, `stopped`, `epoch`, two timers | `startAsSentinel`, `startAsFollower`, `handleHeartbeat`, `stop`, the timers' callbacks | other nodes' elections, by heartbeats over the transport; `onPromoted`, `onDemoted` |
| `SignalingSentinel` | `ws`, `connectingWs`, `stopped`, reconnect timer, `attempt` | `start`, `stop`, `updateEndpoint`, socket events | signaling server |
| `RelayClient` | `ws`, `queue` | `send`, `bind`, `waitForReady`, `close`, socket events | relay server |
| `SignalingClient` | `ws`, a listener per request | `register`, `requestConnect`, `close` | signaling server |
| `HolePuncher`, `StunClient` | one attempt: `resolved`, timers | `punch`; `discover` | UDP |
| `stun-message.ts`, `envelope.ts` | — | pure functions | — |

What is hard in it, and what makes each part correct:

* **Delivery** (Emitter to Bus). Datagrams are lost, duplicated and reordered;
  retries race acknowledgements; instances restart with empty memory; a handler
  may throw in the middle of a publish. Correct: a handler is called at most once
  per event, and an event is retried until whoever should get it got it.
* **Publish** (Bus). Handlers change the very arrays that are being iterated and
  publish within a publish. Correct: nobody is skipped, called twice, or called
  for a room or type that is not theirs.
* **Election**. No node knows who else runs; every node starts as sentinel at
  epoch 1; heartbeats are delayed and lost. Correct: there is one sentinel, but
  for bounded times after a start, a stop or a loss.
* **Transports with set-up**. `addPeer` and `connect` go on after `close` or
  `removePeer` ran in one of their `await`s. Correct: nothing is left behind by a
  closed transport, and there is one `SignalingSentinel` while the election says
  sentinel and none while it says follower.
* **Connections to the server**. Socket events of an old connection arrive after
  a new one was made; responses are matched by type only. Correct: one connection,
  re-made until `stop`; every promise settles.

`PROJECT.json` lists all of these as hazards, line by line, with the properties
that watch them or the reason why none does.

## Modules

| Module | What it is |
|---|---|
| `EventDelivery` | The promise, without mechanism: an outbox, and who has handled what. |
| `EdenDelivery` | Eden instances over lossy UDP. Implements `EventDelivery`. |
| `EdenDeliveryProofs` | Its theorems. |
| `Bus` | `publish`, handler by handler, with handlers that call back. |
| `BusProofs` | Its theorems. |
| `SentinelElection` | The election on a mesh of nodes, in discrete time. |
| `SentinelElectionProofs` | Its theorems for all times. |
| `SentinelTimingProofs` | Its theorems for times that suit the network. |
| `MultiP2P` | One `MultiP2PTransport` with overlapping calls, between one `await` and the next. |
| `MultiP2PProofs` | Its theorems. |
| `SignalingSentinel` | One `SignalingSentinel` and its sockets, through outages, `stop` and `start`. |
| `SignalingSentinelProofs` | Its theorems. |
| `P2PTransport` | Two `P2PTransport`s that connect to each other; puts together the next five. |
| `P2PTransportProofs` | Its theorems. |
| `StunMessage` | The parser of STUN answers, byte by byte, and what an answer says by its format. |
| `StunMessageProofs` | Its theorems. |
| `SignalingClient`, `RelayClient`, `HolePuncher` | What `connect` awaits, as operators on each node's state. |
| `SignalingServer` | The server both WebSockets lead to (external). |
| `MCEdenDelivery`, `MCBus`, `MCSentinelElection`, `MCMultiP2P`, `MCSignalingSentinel`, `MCP2PTransport` | Topologies, messages and other constants for TLC. |

### EdenDelivery

One step per callback, which is atomic in JavaScript. An envelope is its id
(`createEnvelope` makes a fresh uuid, hence "an event is emitted once"); its type
and room are in `Wants`, the events that match a subscription. Where a transport
sends is the constant `Peers`: one peer for `UdpTransport`, several for
`MultiUdpTransport`. Events and acknowledgements of an instance go to the same
peers, because `Eden` makes both transports for the same `remote`: an ACK
answers whoever `remote` is, not whoever sent the event.

| State | Code |
|---|---|
| `mode` | `up` from the constructor on, `stopped` after `Eden.stop`, `down` without a process |
| `pending`, `expired` | `PendingQueue.entries`; those whose age reached `timeoutMs` |
| `seen`, `live` | `Deduplicator.seen$`; the subscriptions in the Bus |
| `net` | datagrams on the way |
| `posted`, `processed`, `settled`, `calls`, `waiting` | history, which no action reads except `posted` for the fresh uuid |

`HandleFresh`, `HandleDuplicate`, `HandlerThrows` and `HandleAck` are together
`Receiver.handle` with all it calls. `net` is a set, `After` lets a datagram stay
behind as its own duplicate, and `Lose` removes one: loss, duplication and
reordering without counting. A throwing handler ends the process (Node's default for an
exception in an event callback) unless `Survives`, where the application has an
`uncaughtException` handler. Which subscriptions were called before the one that
threw depends on their order, which `live` does not keep: any non-empty part of
those due.

### Bus

`publish` iterates over the array it found; `subscribe` pushes onto the array in
the map; `unsubscribe` puts a filtered copy in the map. The model keeps, for
each publish in progress, the array it iterates and whether this is still the
one in the map (`shared`), which is what JavaScript's references amount to. `Visit` is
one turn of the loop; between `Visit` and `HandlerReturns` or `HandlerThrows` the
application runs and may do anything with the Bus, also publish (`stack`).

### SentinelElection

Time advances by `Tick`, which waits for every due timer and heartbeat. Timers are
`{}` or `{t}`, the time left. A heartbeat carries the epoch and its sender; the
successors it carries are the sender's, a constant per node (`Successors`, the
insertion order of its peer map, which holds nobody twice and not the node itself). A node that stopped may start again, as a transport
does that gets its first peer anew: with a new election at the initial epoch. `splitFor`, `vacantFor` and `steadyFor` belong to an
observer: how long there have been two sentinels or more, none, or exactly one.

### MultiP2P

One transport. `addPeer` is cut at its `await`s, and between two of them anything
else may run, other calls of `addPeer` included; `pc[c]` is where call `c` waits.

| State | Code |
|---|---|
| `socket`, `sockets`, `binds`, `listening` | the field `socket`; the sockets made so far, how often each was bound, and which are bound |
| `bindPromise`, `publicEndpoint` | the fields of that name, as the number of the socket they were made with |
| `peers`, `relays` | the map, and the `RelayClient`s that nobody closed, named by the call that made them |
| `election` | the field, as the role of the election it holds |
| `sentinel`, `sentinels`, `running` | the field, and which `SignalingSentinel`s are started and not stopped |
| `hasty` | history, which no action reads: whether calls for one peer overlapped, the last peer went while there was a sentinel, `close` came during an `addPeer`, a connection came by the relay-only path |

`AddPeer` runs to `await bindPromise`, `Bound` to STUN or `register`, and so on to
`Punched` and `RelayReady`, which end a call. Where the code throws (no socket, or one that is not
bound, at `address()`; no socket at `new HolePuncher`) the call is `failed`;
where it waits for ever (the relay's connection fails, and the `waitForReady` that came second
is not told) it is `hung`. `Remove` is `removePeer`, also as `addPeer`'s first act.
`Promoted` and `Demoted` are the election's callbacks, when `SentinelElection` would
make them. What is awaited (STUN, signaling, punching, the relay's opening) is reduced to its outcomes, and
the application does not call `bind` on a transport that has a socket.

`BoundOnce` holds without condition in every run, and so does `RoleHasSentinel` as long as there is an election: a
`SignalingSentinel` that was started (connected or not) is in the field while the election says sentinel, and the field is empty while
it says follower. Without an election the field is empty too, unless the last peer was removed, which ends the election and
leaves the sentinel running (`multi-p2p-transport.ts:224`). The others name the one thing they need: `RelaysHeld` no overlapping calls
for one peer, `CacheFresh` no `close` during an `addPeer`, `OneSentinel` no loss of the last peer
while there is a sentinel, `MeshElects` no start by the relay-only path, whose early
`return` (`multi-p2p-transport.ts:166`) skips the election. The violated run
drops the first and the third condition, which the repository's own statements do not make. `CloseFrees`
is what remains of it with all its exceptions named.

### SignalingSentinel

A handler of a WebSocket belongs to one socket, but the fields it reads and writes may by
then refer to another: the model keeps every socket that may still call back.

| State | Code |
|---|---|
| `stopped`, `ws`, `connectingWs`, `reconnectTimer` | the fields of that name; a socket by its number, `0` for `null` |
| `timers` | the armed timers, which may be more than the field knows |
| `sock`, `caller`, `sent` | of each socket: its `readyState`, who awaits its `connectAndRegister`, the endpoint last registered on it |
| `endpoint` | the field, as the number of updates |
| `up` | whether the network and the server work |
| `starts`, `twice`, `established`, `told` | history: calls of `start`, whether one came while there was a connection or timer, whether a connection opened since the last `stop`, what the application was last told |

`Start`, `Stop`, `UpdateEndpoint` are the methods. `Opened`, `Registered`, `Fails` are the
events of a connection that is made; `Drops` or `Breaks` (without and with an `"error"` event, whose
handler from `connectAndRegister` is still there) and then `Closed` those of one that ends; `TimerFires`
the callback of `setTimeout`. The back-off is left out: a timer fires at some time.
`KeepsTrying` is the part of `Reconnects` that is about states: once connected, a sentinel that is not
stopped has a timer or a connection, and an attempt that fails is followed by a timer.

### P2PTransport

The two ends of a connection, each in one call of `connect`, cut at its `await`s (`phase`). Each part that `connect`
awaits has a module with its variables and operators, which constrain these variables only; the
actions of `P2PTransport` join them to what `connect` does next.

| Module | State | Code |
|---|---|---|
| `P2PTransport` | `udp`, `peerEndpoint`, `app`, `heard` | the field `socket`; `peerEndpoint`; whether `onMessage` is set, and how often it is on the socket |
| | `host`, `tries`, `closed`, `sent` | `publicHost` until it is sent, `i` of the retry loop, calls of `close` and `send` |
| | `hasty` | history, which no action reads: what the application or the network did that a property makes an exception for |
| `SignalingClient` | `sig`, `waiting` | `ws` and its state; the type that the listener of the request waits for |
| `HolePuncher` | `listens`, `probing`, `probes` | `resolved` is false; `interval`; probes on their way |
| `RelayClient` | `relay`, `waits`, `queue`, `identified`, `received` | `ws` and its state; which of the two ways `waitForReady` waits; `queue`; the messages `onMessage` got, in order |
| `SignalingServer` | `registry` | per peer, the WebSocket the entry refers to |
| | `gone` | the signaling WebSockets that ended and of which the server has not been told yet |
| | `asked`, `answers`, `frames`, `incoming` | the four directions of the two WebSockets, in order |

`StunMessage!Parse` is `parseBindingResponse` on sequences of bytes, offset by offset; `^` is
computed bit by bit. What it should find is stated apart from it: `Says` and `SaysNothing` are the format of
RFC 5389 (a header, then attributes of any number and length, each beginning at the multiple of four that
follows the one before), without a scan and without the parser's padding. `MessageTypes` assumes of the
constants that every message a server sends keeps to that format; TLC evaluates it for each message of its
instances. `Outcome` is what `discover` can end with for the messages that
servers send. The server is not part of the library. It is the one of `README.md:250-310`
with two constants: whether it says `identified` (the tests' servers do, that of the README
does not) and whether it forgets a peer when its WebSocket closes (that of the README does).

A request that times out leaves its answer on the way, which then answers the next request, as in
the code. The signaling WebSocket of a node in `Loses` may be lost whenever it is open (`SigLost`), with what was on its
way. Nobody listens to that (`signaling-client.ts:73-98`): a request in progress goes on waiting until its
timeout. The next `requestConnect` finds the WebSocket not open and makes another (`SigRequest`,
`signaling-client.ts:33` and `:43-65`), which opens (`SigOpens`), or fails or takes too long (`ReconnectFails`) and is then one of the
tries. The first connection that fails ends `connect` (`SignalingFails`). The server learns of a lost
WebSocket later (`ServerHangsUp`), perhaps after the node has asked again on a new one. `close` in one of the `await`s lets `connect` go on. Direct datagrams are
not repeated here: once `peerEndpoint` is set, `send` is that of `UdpTransport`.

`NeverStuck` is how "`connect` returns or fails" is stated without fairness: while a call has not
ended, what it waits for comes (`Awaited`): an event of a socket, one of its timeouts, or the
`identified` that is on its way. Each of these enables a step of the node or of the server, as the guards
show, and none of these steps can be taken for ever (each ends a phase, a try, a message or a grace
period), so a call that is never stuck ends.

### Slip

Each module contains definitions introduced with the word *Slip*: a version of
the action or operator that follows, with a mistake a maintainer might make (mark
the id after the handlers, answer acknowledgements, forget to clear an
interval). Nothing uses them. Put in place of the real definition, each makes TLC
report the property `PROJECT.json` names, which is how one knows that the
property watches that line of the code.

## Runs and what they show

| Run | Instance | Shows |
|---|---|---|
| `eden_pair` | 2 nodes, mutual; 2 events, one each way; 3 subscriptions; crashes, stops, restarts | `AtMostOnce`, `SettledMeansHandled`, `AcksEarned`, `ImplementsPromise` |
| `eden_hub_all` | hub with 2 peers, both answering | **violated**: once an event is not retried any more, *every* subscription that waited was called or a copy is on its way to it |
| `eden_survives_all` | pair, surviving application | **violated**: every waiting subscription was called |
| `eden_fair` | pair, surviving application, fair | `EventuallySettled` |
| `bus_publish` | 2 subscriptions of one type, with and without room, 1 of another; 3 envelopes; depth 2 | `NobodySkipped`, `AtMostOnce`, `OnlySubscribers` |
| `election_cascade` | 3 nodes, times 3:9:3 (the defaults are 2000:6000:2000), 2 stops | `SplitHeals`, `VacancyEnds`, `OrderlySuccession`, `TimersMatchRole` |
| `election_lossy` | 3 nodes, times 2:6:5, one loss, one stop, fair | the same bounds with a lost heartbeat; `Elected` |
| `multi_p2p` | 3 calls of `addPeer`, 2 of them for one peer; 2 sockets; all options on | `BoundOnce`, `RoleHasSentinel`, `MeshElects`, `RelaysHeld`, `CacheFresh`, `OneSentinel` |
| `multi_p2p_closing` | the same | **violated**: no relay and no sentinel is left open behind a `close` |
| `sentinel_outages` | 3 starts; 3 sockets and 2 timers at a time; 1 update of the endpoint; outages at any time | `OneLine`, `EndpointCurrent`, `StaysStopped`, `Reconnects` |
| `p2p_pair` | 2 nodes, of which one makes 2 calls of `requestConnect`, may lose its WebSockets, binds and may close at any time, and the other makes 1 call and sends 3 messages; 111 STUN answers and 49 other messages | `SameMode`, `RelayReaches`, `InOrder`, `HeardOnce`, `NeverStuck`, `HostGenuine` |
| `p2p_readme` | the same without punching, binding, sending or closing, with the README's server | **violated**: what a call of `connect` waits for comes |

Why these bounds are enough. In `EdenDelivery` the events interact only through
the memory an instance loses at a restart and through mistakes that confuse ids,
for which two events suffice; a second subscription at the same node makes
a throwing handler leave something out; a third node is needed only for
asymmetric topologies and hubs. The proofs cover every size. In `Bus`, the
interesting cases need a subscription that runs and one of the same type that was
visited or is to come, hence two, one that arrives under another type, and a
publish within another, of the same type and of another, hence three envelopes and
`MaxDepth = 2`; the same with three subscriptions of one type (four million states)
holds too and takes minutes. In
`SentinelElection` the cascade needs two successors, hence three nodes, and the
stop of two leaves one. `MaxEpoch` bounds promotions; no behaviour of these
instances reaches it, since stops and losses are bounded. In `MultiP2P` two calls for one peer
and one for another make every kind of overlap; a second socket is what a stale
promise or endpoint can be mistaken for; `MaxSentinels` leaves room for a promotion
beside the sentinels that `addPeer` makes. Again the proofs cover every size. In
`SignalingSentinel` three starts allow a first life, a stop, a second one and a `start` too many;
three sockets are one that closes, one that is open and one that is being made; `MaxTimers` is reached
only after a `start` too many, which all properties but `StaysStopped` leave out. In `P2PTransport` two requests are a first, whose answer may be
late or whose WebSocket may be lost, and a last (the code makes five, all but the last of which are alike); three messages can
change places, come twice or leave one out between two; the two roles of the application are on different nodes because they
do not meet (`bind` concerns what a node receives, `send` the other's), and so are the losses of WebSockets, since each node sees its
own only. The proofs cover every number of tries, messages and nodes that lose, bind or close. The STUN answers hold up to two
attributes of zero to nine bytes before the address, every padding twice.

What the election runs say about the default times. The bounds are exact about the
causes: two sentinels last at most until the next heartbeat that is not lost,
`(MaxLosses+1)*Interval + Delay`. A vacancy lasts at most until the last
in the order times out. Orderly succession (never two at once, once all know the order)
needs `Step > MaxLosses*Interval + 2*Delay`: with `cascadeStepMs` equal to
`heartbeatIntervalMs`, as by default, a single lost heartbeat lets two successors
time out together and both promote themselves. `SplitHeals` then still ends the
split. A stale heartbeat of a demoted sentinel re-orders its receivers (any epoch
is accepted by a follower), which is why `Steady`, after which order is expected,
counts two delays.

## Fairness

* `EdenDelivery!Fairness`. The retry interval and the passing of `timeoutMs` are
  weakly fair: `setInterval` fires as long as the process lives. Handling an event or an
  ACK is strongly fair: a datagram that is sent again and again gets through, a link
  that loses some but not all. The code cannot guarantee more and needs no less.
  Crashes, stops and losses are not fair; `EventuallySettled` is
  about instances that from some time on stay up. A handler that throws is no
  obstacle where the application survives it: the retry is then a duplicate and is
  acknowledged. Where it ends the process the hypothesis excludes it.
* `SentinelElection!FairSpec` is `WF_vars(Work)`: as long as a timer is due, a heartbeat is
  on its way or time can pass, one of these happens. Between two ticks only finitely
  much can, since whatever is due or arrives sets its timer anew, so time passes. Nobody has to
  start, to stop or to lose a heartbeat.
* `SignalingSentinel!FairSpec`: a timer fires, an attempt to connect ends (with `"open"` when the
  network works, with `"error"` when it does not), a socket that closes says so, a server that
  works answers `register`. `setTimeout` and `ws` see to the first three. Nothing is said about
  `start`, `stop` or outages; `Reconnects` is about networks that work from some time on.
* `Bus` has no fairness: whether handlers return is up to the application. Nor have `MultiP2P` and
  `P2PTransport`, whose runs check safety and, by `NeverStuck`, that no call of `connect` stops for want of a step.

## Proofs

`EdenDeliveryProofs`, for every set of nodes, events and subscriptions and every
topology:

* `DeliveryTyped`: `TypeOK`; what is due for a retry is pending.
* `HandlerAtMostOnce`: `AtMostOnce`, with and without surviving applications.
  Not inductive by itself; `CalledOnceSeen` is: the number of calls is at most one,
  and zero as long as the Deduplicator does not hold the id. A restart clears both.
* `DeliveryInvariant`: `DeliveryInv`, whose parts need each other.
  `AcksEarned` needs `SeenProcessed` (a duplicate is acknowledged because it was seen,
  so what was seen must have been processed, which fails when an exception is survived) and
  `Accounted` (an event arrives only where its emitter sends). `SettledMeansProcessed`
  needs `AcksEarned`. `WaitingServed` follows a subscription from the emission to the
  call; it says that by the time an acknowledgement is on its way the subscriber's
  instance has seen the event, which needs transports with one peer.
* `AcksAreEarned`, `SettledIsProcessed` from `~Survives`; `SettledIsHandled` from
  `~Survives` and `Unicast`; `KeepsPromise`, the refinement of `EventDelivery`, from
  `~Survives`. The two violated runs show that these assumptions are needed:
  `eden_survives_all` without the first, `eden_hub_all` without the second.

`BusProofs`, for any subscriptions, envelopes, types and rooms and any depth of nesting: `BusTyped`,
`CalledAtMostOnce`, `EveryoneCalled` and `SubscribersOnly`, from `BusInvariant`. The array of a
loop only grows, at its end, and holds nobody twice: `subscribe` makes a new object each time, and
`unsubscribe` copies, so that a running loop keeps its own (`ListOK`). No two loops are about the same envelope, since
`publish` marks it as seen before the first handler can publish it again (`LoopsOK`). So the loop alone calls for its
envelope, and it has called exactly those of the part it visited whose room matches (`TurnsOK`). That is what makes
`AtMostOnce` and `NobodySkipped` inductive: the promised are in the array and stay there, and a publish
returns at its end.

`SentinelElectionProofs`, for every mesh and all times: `ElectionTyped`; `TimersFollowRole`
(inductive with `TypeOK`): a running node has exactly the timer its role needs; and `VacancyFilled`, which states
`VacancyEnds`. Its invariant `VacancyInv` says, while there is no sentinel, that the heartbeats still on
their way arrive within `Delay` of its end, and that no follower's timer goes beyond the bound: one that a late heartbeat
sets anew begins with at most the timeout of the last place. A place is at most the number of nodes less two, because a list names each node once and not its
own.

`SentinelTimingProofs`, for every mesh and times that suit the network. `Punctual` says that a heartbeat
arrives before the next is sent and that a follower waits for longer than heartbeats can be missing;
`Cascading`, that in addition none is lost, a step is longer than two delays and every node
lists all others. The default times are punctual up to one loss and delays below two seconds, and
cascading up to delays below one second; the two runs' instances are among those
meant (`Chosen` in `MCSentinelElection`).

* `SplitIsHealed`, from `Punctual`. That two sentinels hear each other in time is the smaller part
  (`Contested`). The greater one is that no third sentinel comes later and makes the split last: a follower
  promotes itself during a split only in its beginning. `Heard` says why: how long a follower can have heard of
  nobody, on a clock that starts with the split, is explained by the intervals that the losses so far cost,
  by a heartbeat on its way or by one about to be sent; and `Timeout` is longer than all losses
  together explain.
* `SuccessionIsOrderly`, from `Cascading`. Once there has been one sentinel for `Steady`, every
  follower's timer comes from its list, and all were set within `Delay` of each other. Places in one list differ, so the turns of two followers
  differ by a step less a delay, and whoever promotes itself is heard within another delay, before the next
  one's turn (`Early`, `Settling`, `Orderly`).


`MultiP2PProofs`, for any calls, peers, options and bounds: `TransportTyped`, and `TransportSafe`
for `TransportInv`, which joins to the properties what they rest on. `BoundOnce` needs `FirstBind` (a
socket without a promise has not been bound). `RelaysHeld` needs `Alone`: a call
that overlaps no other for its peer finds its place in the map empty at the end, because nobody
else fills it, and so overwrites nothing. `CacheFresh` needs `SameSocket`: without a `close` a
call works on the socket it began with. `OneSentinel` needs `RoleHasSentinel`:
whoever makes a sentinel finds the field empty, unless the last peer was removed. `SocketBoundOnce`, `SentinelFollowsRole`, `SentinelsKnown`, `MeshAlive`, `NoRelayLost`
and `EndpointFresh` state the properties themselves. `CloseLeavesNothing` states `CloseFrees`: with the two exceptions that
the run `multi_p2p_closing` shows, and that of a `close` during an `addPeer`, a closed transport has no sentinel and no relay open.
It needs `NothingUnbound`: while there is no socket nothing is in the fields, because no call of
`addPeer` is between two of its steps (`SameSocket`) and no follower waits for a promotion (`MeshElects`).

`SignalingSentinelProofs`, for any bounds: `SentinelTyped`, and the inductive invariant `LineInv`, of which
`OneLine`, `EndpointCurrent` and `ToldTruth` are parts (`SentinelOneLine`, `SentinelRegistersEndpoint`, `SentinelTellsTruth`). `OneLine`
needs `FieldLive` (a field that is set holds a socket that has not been let go, so while a connection is being made `ws` is `null`)
and `StoppedQuiet` (`stop` leaves nothing that calls back, so the next `start` begins
from nothing). `SentinelStaysStopped`, an action property, follows from `StoppedQuiet`. `Reconnects` is
left to TLC, but `SentinelKeepsTrying` states the safety it rests on, `KeepsTrying`, also for a sentinel that was started
twice: the one failure that schedules nothing is that of a connection beside another, which `FieldLive` says is
still there.

`StunMessageProofs`, for messages of any length: `AnswerIsRead`, the parser finds the address of an answer whatever
attributes come before and after it, and `NothingIsRead`, it finds none where there is none, even if
the value of an attribute looks like one. Both go along the offsets at which attributes begin. What the scan finds from
each is what it finds from the next (`PassesOver`), so of the offsets at which the claim fails none is the last: this
is induction in the form of a least element (`Least`), which is about a set and so within the provers' reach. That the scan,
a recursive function, is defined at all is `FromExists`, by the same means: every attribute takes at least four bytes
(`Advances`). The theorems say nothing of messages that break the format (an attribute or the whole
message shorter than declared, several addresses).

`P2PTransportProofs`, for any pairs of nodes, options, STUN messages and bounds. `PairTyped`
is `TypeOK` with `Phased` (what listens, connects or opens belongs to the place where
`connect` waits), on which the rest stands. Any node may lose its WebSockets at any time. `TypeOK` says that what is waited for
was asked on a WebSocket that had opened and was not closed; it may be lost by now.

* `HandlerHeardOnce` from `Handler`: before `bind` is called, and before there is a socket,
  the handler is on none.
* `EndsAgree` from `Probing` and `Agree`. A node on the direct path has heard a probe, so its peer was
  punching; `Agree` says what keeps the peer from giving up: probes go on through the grace period.
* `RelayIsKnown` from `Registration` and `Told`, with `~Forgets`: "identified" is on its way
  only to a node whose entry is its relay, because who gets as far as the relay was registered
  before, its "register" was the first it said, and a late "close" spares the
  entry of a relay. The README's server is outside this theorem: a "close" can take the entry before
  "identify" arrives.
* `RelayInOrder`, with any server, from `FlowsOK` and `WholeOK`, for a sender that sent nothing on the open WebSocket past the queue. The
  numbers that the peer has received, those on their way from the server, those on their way to it and those queued, one after
  the other, are increasing (`FlowsOK`). As long as the receiver's relay has not ended, every step loses some of the
  oldest of them or, when the sender closes, of the newest, or adds the next (`LineSteps`): so they stay a run
  of numbers without a gap (`Convex`), and so do those that were received (`RunsAreGapless`).
* `HostIsGenuine`, from `MessageTypes` and the two theorems about the parser: what is registered is the address that
  the server saw, or the loopback without an answer.
* `CloseIsFinal` states `ClosedForGood`: what a `close` after the end of `connect` has let go never comes back. It follows from
  `Phased`: whatever could bring it back belongs to a place where `connect` waits.
* `ConnectNeverStuck`, from `Starts` and `Ends`, if the server answers (`Answers`): while a node waits for `identified`, its
  "identify" is on the way to the server or the answer on the way back. A request whose WebSocket is lost waits for its timeout,
  one that makes a new WebSocket for that to open or fail, and a pause between two tries is followed by another, as `tries` has not reached its
  bound then. The run `p2p_readme` shows that the assumption is needed.

Every safety property that a passing run checks is thus also a theorem, some under the assumptions named
above. `KeepsTrying`, `CloseFrees` and `ClosedForGood` are theorems that no run lists; TLC finds no violation of them on
the instances of `sentinel_outages`, `multi_p2p` and `p2p_pair` either.

Checked by TLC only: the liveness properties (`EventuallySettled`, `Elected`, `Reconnects`), which
need fairness and ENABLED. Orderly succession when
heartbeats are lost is neither proved nor checked: the theorem is about networks that lose none, and so is the run.

## Where code and documents differ

1. `eden_hub_all`. `README.md:357`: "Emitter retries until ACK received", for
   every transport (`docs/ARCHITECTURE.md:201`). With several peers the first ACK ends
   the retries for all of them (`emitter.ts:42`), and a copy that is then lost on the way to another
   peer is lost for good. The run ends with the event settled by one peer, no copy on its way to the other, and the
   subscription there never called (`SettledReachesAll`).
2. `eden_survives_all`. `README.md:359`: "Effectively exactly-once". `bus.ts:34` marks
   an id as seen before the handlers run. If one throws and the process survives, a later copy (a
   retry, or one that the network duplicated) is acknowledged as a duplicate and the remaining handlers never get the event.
3. `multi_p2p_closing`. `multi-p2p-transport.ts:109`: "limpar peer existente antes de
   sobrescrever (evita relay leak)". The peer is cleared when `addPeer` begins; of two overlapping calls for
   one peer, the second to end overwrites the relay of the first (line 261, or 184), and `close` does not find
   it. The same property fails in another way: the test "close() para o sentinel"
   (`__tests__/multi-p2p-transport.test.ts:301`) connects once, but a node that connects to
   its only peer anew loses its election in `removePeer` (line 224) and not its sentinel;
   the next election overwrites the field (line 207), and `close` stops the new one only. The theorem
   `CloseLeavesNothing` says that without a `close` during an `addPeer` these two are the only ways.
4. `p2p_readme`. `README.md:247`: "if that fails, it falls back to relay". `RelayClient` takes its connection for
   ready, and sends what it queued, only when the server says `identified` (`relay-client.ts:75`); the protocol
   of `README.md:233-244` has no such message and the server below it sends none. With that server `connect` waits for ever, unless
   the application called `bind` before, when it waits for the WebSocket only.

A publish in progress also calls a subscription that a handler before it has just given
up (`bus.ts:29` leaves the loop its old array), as Node's own `EventEmitter` does; no
document excludes it, and `OnlySubscribers` states what does hold: none whose
publish begins later.

## Not modelled

In the parts that are modelled: datagrams that do not parse and envelopes that do not
validate (they throw before any state changes); one handler function subscribed
twice (two subscriptions in the model: the code gives each an object of its own); a
handler that calls `Eden.stop` during the publish that called it (the ACK then meets a
closed socket); a handler that subscribes anew on every call, which makes a publish
endless; a second `startAs...` of a running election, which nobody calls;
`currentSentinelId`, which is never read; changes of `MultiUdpTransport.peers` at run
time (`Peers` is constant).

In `SignalingSentinel`: the delays of the back-off, and a server that closes the connection of its own will while the
network works (an outage between two steps does the same). In `P2PTransport`: a signaling WebSocket of which only one side notices the loss (for the model the client's `readyState` is no longer open at once, the server is told later); a second `connect` on one transport, which no caller makes; `JSON.parse` of
something else than the protocol's messages; an XOR-MAPPED-ADDRESS shorter than eight bytes at the end of a STUN message, which
makes the parser throw out of the socket's event handler. `buildBindingRequest` writes constants and random bytes.

The connection of a `SignalingSentinel` and that of a relay belong to one entry at the server: a node that is sentinel and
reached its peer by the relay registers once more and so points the entry at a socket where nobody listens for data
(`multi-p2p-transport.ts:207`). No module has both at the server.

`errors.ts`, `index.ts` and `socket.ts` have no behaviour; the benchmarks are not part of the library.

## Plan

Done: every component with behaviour, and the theorems above. What would come next:

1. The server with the connections of sentinel and relay beside each other, and `MultiP2P` on it.
2. Peers that come and go in `EdenDelivery` (`MultiUdpTransport.addPeer`, `removePeer`).
3. Orderly succession with lost heartbeats, in meshes where the orders of two sentinels can then mix.

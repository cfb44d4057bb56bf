-------------------------- MODULE SignalingSentinel --------------------------
(***************************************************************************)
(* One SignalingSentinel: the WebSocket by which a mesh keeps a registered  *)
(* endpoint at the signaling server, opened by start, opened again by a     *)
(* timer whenever it closes, and let go by stop.  A handler of a WebSocket  *)
(* is made for one socket but reads and writes the fields, which may        *)
(* belong to another by the time it runs.                                   *)
(*                                                                          *)
(* Sockets are numbered, and a number is used again once its socket is      *)
(* gone and no handler of it can run.  The delay of a timer is left out: it *)
(* fires at some time.  Definitions under "Slip" are mistakes the code does *)
(* not make.                                                                *)
(***************************************************************************)
EXTENDS Naturals

CONSTANTS
  MaxSockets,   \* bound: WebSockets at a time
  MaxTimers,    \* bound: armed reconnect timers at a time
  MaxStarts,    \* bound: calls of start
  MaxEndpoint   \* bound: calls of updateEndpoint

ASSUME BoundTypes == /\ MaxSockets \in Nat /\ MaxTimers \in Nat
                     /\ MaxStarts \in Nat /\ MaxEndpoint \in Nat

Socket == 1..MaxSockets

VARIABLES
  stopped,         \* the field stopped
  ws,              \* the field ws: a socket, or 0 for null
  connectingWs,    \* the field connectingWs: a socket, or 0 for null
  reconnectTimer,  \* the field reconnectTimer is not null
  timers,          \* armed reconnect timers, the field's one among them
  endpoint,        \* the field endpoint: how often it was updated
  sock,            \* sock[s]: "free", "connecting", "open" or "closing"
  caller,          \* caller[s]: who waits for connectAndRegister on s
  sent,            \* sent[s]: the endpoint last registered on s
  up,              \* the network and the server do their work
  (* What happened so far; no action's outcome depends on it. *)
  starts,          \* calls of start
  twice,           \* start was called on a sentinel that was at work
  established,     \* a connection opened since stop was last called
  told             \* the last the application heard: connected or not

fields == <<stopped, ws, connectingWs, reconnectTimer, timers>>
history == <<starts, twice, established>>
vars == <<fields, endpoint, sock, caller, sent, up, history, told>>

-----------------------------------------------------------------------------
Live == {s \in Socket : sock[s] # "free"}

(* scheduleReconnect: the field forgets a timer it may have held. *)
ScheduleReconnect ==
  /\ timers < MaxTimers
  /\ timers' = timers + 1
  /\ reconnectTimer' = TRUE

NoTimer == UNCHANGED <<timers, reconnectTimer>>

(* sendRegister, on an open connection. *)
SendRegister(s, ep) == sent' = [sent EXCEPT ![s] = ep]

(* connectAndRegister up to its first event. *)
Connect(who) ==
  /\ Live # Socket
  /\ LET s == CHOOSE t \in Socket : t \notin Live
     IN  /\ connectingWs' = s
         /\ sock' = [sock EXCEPT ![s] = "connecting"]
         /\ caller' = [caller EXCEPT ![s] = who]

Init ==
  /\ stopped = FALSE /\ ws = 0 /\ connectingWs = 0
  /\ reconnectTimer = FALSE /\ timers = 0
  /\ endpoint = 0
  /\ sock = [s \in Socket |-> "free"]
  /\ caller = [s \in Socket |-> "none"]
  /\ sent = [s \in Socket |-> 0]
  /\ up \in BOOLEAN
  /\ starts = 0 /\ twice = FALSE /\ established = FALSE /\ told = FALSE

Start ==
  /\ starts < MaxStarts
  /\ starts' = starts + 1
  /\ twice' = (twice \/ Live # {} \/ timers > 0)
  /\ stopped' = FALSE
  /\ Connect("start")
  /\ NoTimer
  /\ UNCHANGED <<ws, endpoint, sent, up, established, told>>

(* A socket is let go: its handlers are gone, and nothing of it is seen. *)
Discard(S) ==
  /\ sock' = [s \in Socket |-> IF s \in S THEN "free" ELSE sock[s]]
  /\ caller' = [s \in Socket |-> IF s \in S THEN "none" ELSE caller[s]]
  /\ sent' = [s \in Socket |-> IF s \in S THEN 0 ELSE sent[s]]

(* stop, but for the timer and the sockets it lets go. *)
StopAlways ==
  /\ stopped' = TRUE
  /\ ws' = 0 /\ connectingWs' = 0
  /\ established' = FALSE /\ told' = FALSE
  /\ UNCHANGED <<endpoint, up, starts, twice>>

(* Slip: the field keeps the timer that was cleared. *)
ClearTimerOnly ==
  /\ timers' = IF reconnectTimer THEN timers - 1 ELSE timers
  /\ UNCHANGED reconnectTimer

ClearTimer ==
  /\ timers' = IF reconnectTimer THEN timers - 1 ELSE timers
  /\ reconnectTimer' = FALSE

(* Slip: a connection that is being made is left alone. *)
StopForgetsConnecting == StopAlways /\ ClearTimer /\ Discard({ws})

Stop == StopAlways /\ ClearTimer /\ Discard({ws, connectingWs})

IsConnected == ws # 0 /\ sock[ws] = "open"

(* Slip: the new endpoint waits for the next connection. *)
UpdateUnsent ==
  /\ endpoint < MaxEndpoint
  /\ endpoint' = endpoint + 1
  /\ UNCHANGED <<fields, sock, caller, sent, up, history, told>>

UpdateEndpoint ==
  /\ endpoint < MaxEndpoint
  /\ endpoint' = endpoint + 1
  /\ IF IsConnected THEN SendRegister(ws, endpoint + 1) ELSE UNCHANGED sent
  /\ UNCHANGED <<fields, sock, caller, up, history, told>>

(* The handler of "open" on a sentinel at work: listeners and register. *)
Adopt(s) ==
  /\ ws' = s
  /\ sock' = [sock EXCEPT ![s] = "open"]
  /\ SendRegister(s, endpoint)
  /\ established' = TRUE
  /\ UNCHANGED <<caller, told>>

(* Slip: a connection that opens is kept whatever happened meanwhile. *)
OpenedAnyway(s) ==
  /\ up /\ sock[s] = "connecting"
  /\ connectingWs' = 0
  /\ Adopt(s)
  /\ NoTimer
  /\ UNCHANGED <<stopped, endpoint, up, starts, twice>>

(* The event "open".  On a stopped sentinel the socket is let go, but the   *)
(* promise resolves, which for a reconnect means onReconnect.               *)
Opened(s) ==
  /\ up /\ sock[s] = "connecting"
  /\ connectingWs' = 0
  /\ IF stopped
     THEN /\ Discard({s})
          /\ told' = TRUE
          /\ UNCHANGED <<ws, established>>
     ELSE Adopt(s)
  /\ NoTimer
  /\ UNCHANGED <<stopped, endpoint, up, starts, twice>>

(* "registered": connectAndRegister is done, and onReconnect called. *)
Registered(s) ==
  /\ up /\ sock[s] = "open" /\ caller[s] # "none"
  /\ caller' = [caller EXCEPT ![s] = "none"]
  /\ told' = TRUE
  /\ UNCHANGED <<fields, endpoint, sock, sent, up, history>>

(* connectAndRegister rejects, unless the sentinel has a connection: then   *)
(* the promise is never settled.  A timer's caller tries again, start's not. *)
Reject(s) ==
  IF ws = 0 /\ caller[s] = "timer" /\ ~stopped THEN ScheduleReconnect ELSE NoTimer

(* The event "error" of a connection that could not be made. *)
Fails(s) ==
  /\ ~up /\ sock[s] = "connecting"
  /\ connectingWs' = 0
  /\ Reject(s)
  /\ Discard({s})
  /\ UNCHANGED <<stopped, ws, endpoint, up, history, told>>

(* An open connection is lost: first the socket closes, with or without the *)
(* event "error", whose handler is the same as before ...                   *)
Drops(s) ==
  /\ ~up /\ sock[s] = "open"
  /\ sock' = [sock EXCEPT ![s] = "closing"]
  /\ UNCHANGED <<fields, endpoint, caller, sent, up, history, told>>

Breaks(s) ==
  /\ ~up /\ sock[s] = "open"
  /\ sock' = [sock EXCEPT ![s] = "closing"]
  /\ connectingWs' = 0
  /\ Reject(s)
  /\ caller' = [caller EXCEPT ![s] = IF ws = 0 THEN "none" ELSE @]
  /\ UNCHANGED <<stopped, ws, endpoint, sent, up, history, told>>

(* ... then handleClose runs: onDisconnect, and a timer for the next try.   *)
(* The field is set to null whichever socket it holds.                      *)
Closed(s) ==
  /\ sock[s] = "closing"
  /\ ws' = 0
  /\ Discard({s})
  /\ IF stopped
     THEN NoTimer /\ UNCHANGED told
     ELSE ScheduleReconnect /\ told' = FALSE
  /\ UNCHANGED <<stopped, connectingWs, endpoint, up, history>>

(* Slip: the connection is made as start makes it, for nobody. *)
TimerFiresOnce ==
  /\ timers > 0
  /\ timers' = timers - 1
  /\ reconnectTimer' = FALSE
  /\ IF stopped THEN UNCHANGED <<connectingWs, sock, caller>> ELSE Connect("start")
  /\ UNCHANGED <<stopped, ws, endpoint, sent, up, history, told>>

(* A reconnect timer, the one the field refers to or another. *)
TimerFires ==
  /\ timers > 0
  /\ timers' = timers - 1
  /\ reconnectTimer' = FALSE
  /\ IF stopped THEN UNCHANGED <<connectingWs, sock, caller>> ELSE Connect("timer")
  /\ UNCHANGED <<stopped, ws, endpoint, sent, up, history, told>>

(* The network, or the server, fails or recovers. *)
Outage ==
  /\ up' = ~up
  /\ UNCHANGED <<fields, endpoint, sock, caller, sent, history, told>>

Next ==
  \/ Start \/ Stop \/ UpdateEndpoint \/ TimerFires \/ Outage
  \/ \E s \in Socket : \/ Opened(s) \/ Registered(s) \/ Fails(s)
                       \/ Drops(s) \/ Breaks(s) \/ Closed(s)

Spec == Init /\ [][Next]_vars

(* Timers fire, a connection attempt ends one way or the other, a socket    *)
(* that closes says so, and a server that works answers.                    *)
FairSpec ==
  /\ Spec
  /\ WF_vars(TimerFires)
  /\ \A s \in Socket : /\ WF_vars(Opened(s)) /\ WF_vars(Registered(s))
                       /\ WF_vars(Fails(s)) /\ WF_vars(Closed(s))

-----------------------------------------------------------------------------
(* Every variable keeps its type, and a timer in the field is armed. *)
FlagsTyped ==
  /\ stopped \in BOOLEAN /\ reconnectTimer \in BOOLEAN /\ up \in BOOLEAN
  /\ twice \in BOOLEAN /\ established \in BOOLEAN /\ told \in BOOLEAN

RestTyped ==
  /\ ws \in 0..MaxSockets /\ connectingWs \in 0..MaxSockets
  /\ timers \in 0..MaxTimers
  /\ reconnectTimer => timers > 0
  /\ endpoint \in Nat /\ starts \in Nat
  /\ sock \in [Socket -> {"free", "connecting", "open", "closing"}]
  /\ caller \in [Socket -> {"none", "start", "timer"}]
  /\ sent \in [Socket -> Nat]

TypeOK == FlagsTyped /\ RestTyped

(* However connections fail, close and are made again, and stop and start   *)
(* come between, the sentinel has one connection or one timer, and the      *)
(* fields know it, so that stop reaches it: nothing of the time before a    *)
(* stop lives on after the next start.                                      *)
OneLine ==
  ~twice =>
    /\ timers <= 1 /\ (reconnectTimer <=> timers = 1)
    /\ \A s \in Live : /\ timers = 0
                       /\ s = IF sock[s] = "connecting" THEN connectingWs ELSE ws
    /\ \A s, t \in Live : s = t

(* The test "stop() interrompe loop de reconnect": a stopped sentinel, even *)
(* one that was started twice and has timers and connections that stop did  *)
(* not find, makes no connection and keeps none that opens.                 *)
StaysStopped ==
  [][stopped' => /\ ws' = 0
                 /\ \A s \in Socket : /\ sock[s] = "free" => sock'[s] = "free"
                                      /\ sock[s] = "connecting" => sock'[s] # "open"]_vars

(* The test "updateEndpoint re-registra em conexao ativa": the server knows *)
(* the present endpoint by the present connection, also when the update     *)
(* came while it was being made or another was closing.                     *)
EndpointCurrent == IsConnected => sent[ws] = endpoint

(* The test "chama onReconnect apos reconexao e onDisconnect quando cai":   *)
(* whoever was last told of a connection has one.                           *)
ToldTruth == ~twice /\ told => ws # 0 /\ caller[ws] = "none"

(* The test "reconecta com exponential backoff quando servidor desconecta": *)
(* a sentinel that was connected once and is not stopped is connected and   *)
(* registered again, and says so, when the outages end, unless it was       *)
(* started twice.                                                           *)
Reconnects ==
  <>[]up => (established ~> (IsConnected /\ told) \/ stopped \/ twice)

-----------------------------------------------------------------------------
(* Why these hold: what every reachable state has in common. *)

(* The field holds a socket until its close was handled. *)
FieldLive == ws # 0 => sock[ws] \in {"open", "closing"}

(* stop ends everything, but for what a second start had hidden from it. *)
StoppedQuiet == stopped => ws = 0 /\ (twice \/ (Live = {} /\ timers = 0))

(* What Reconnects needs of every state: once connected, a sentinel that is *)
(* not stopped always has a timer or a connection, and one that is still    *)
(* being made, should it fail, is followed by a timer.  Sentinels that were *)
(* started twice are no exception.                                          *)
KeepsTrying ==
  established => /\ ~stopped
                 /\ \/ timers > 0
                    \/ \E s \in Live : sock[s] = "connecting" => caller[s] = "timer"

(* The inductive invariant of SignalingSentinelProofs. *)
LineInv == OneLine /\ FieldLive /\ StoppedQuiet /\ EndpointCurrent /\ ToldTruth
=============================================================================

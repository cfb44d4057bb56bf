---------------------- MODULE SignalingSentinelProofs ----------------------
(***************************************************************************)
(* Proofs about SignalingSentinel for any bounds: what it keeps of its      *)
(* connections through outages, stop and start.                             *)
(***************************************************************************)
EXTENDS SignalingSentinel, TLAPS

(* A new connection takes a socket that was free. *)
LEMMA NewSocket ==
  ASSUME NEW who, Connect(who)
  PROVE  \E s \in Socket \ Live :
           /\ connectingWs' = s
           /\ sock' = [sock EXCEPT ![s] = "connecting"]
           /\ caller' = [caller EXCEPT ![s] = who]
<1>1. PICK s \in Socket : s \notin Live
  BY DEF Connect, Live
<1>2. (CHOOSE t \in Socket : t \notin Live) \in Socket \ Live
  BY <1>1
<1> QED
  BY <1>2 DEF Connect

LEMMA NoSocketZero == \A s \in Socket : s # 0 /\ s \in Nat
  BY DEF Socket

LEMMA InitTyped == Init => TypeOK
<1> SUFFICES ASSUME Init
             PROVE  TypeOK
  OBVIOUS
<1>1. FlagsTyped
  BY DEF Init, FlagsTyped
<1>2. RestTyped
  BY BoundTypes DEF Init, RestTyped
<1> QED
  BY <1>1, <1>2 DEF TypeOK

LEMMA NextFlags == TypeOK /\ [Next]_vars => FlagsTyped'
<1> SUFFICES ASSUME TypeOK, [Next]_vars
             PROVE  FlagsTyped'
  OBVIOUS
<1> USE BoundTypes, NoSocketZero DEF TypeOK, FlagsTyped, RestTyped, history, fields
<1>1. CASE Start
  BY <1>1 DEF Start, Connect, NoTimer
<1>2. CASE Stop
  BY <1>2 DEF Stop, StopAlways, ClearTimer, Discard
<1>3. CASE UpdateEndpoint
  BY <1>3 DEF UpdateEndpoint
<1>4. CASE TimerFires
  BY <1>4 DEF TimerFires, Connect
<1>5. CASE Outage
  BY <1>5 DEF Outage
<1>6. ASSUME NEW s \in Socket, Opened(s)
      PROVE  FlagsTyped'
  BY <1>6 DEF Opened, Adopt, Discard, NoTimer
<1>7. ASSUME NEW s \in Socket, Registered(s)
      PROVE  FlagsTyped'
  BY <1>7 DEF Registered
<1>8. ASSUME NEW s \in Socket, Fails(s)
      PROVE  FlagsTyped'
  BY <1>8 DEF Fails, Reject, ScheduleReconnect, NoTimer, Discard
<1>9. ASSUME NEW s \in Socket, Drops(s)
      PROVE  FlagsTyped'
  BY <1>9 DEF Drops
<1>10. ASSUME NEW s \in Socket, Breaks(s)
       PROVE  FlagsTyped'
  BY <1>10 DEF Breaks, Reject, ScheduleReconnect, NoTimer
<1>11. ASSUME NEW s \in Socket, Closed(s)
       PROVE  FlagsTyped'
  BY <1>11 DEF Closed, ScheduleReconnect, NoTimer, Discard
<1>12. CASE UNCHANGED vars
  BY <1>12 DEF vars
<1> QED
  BY <1>1, <1>2, <1>3, <1>4, <1>5, <1>6, <1>7, <1>8, <1>9, <1>10, <1>11, <1>12 DEF Next

LEMMA NextRest == TypeOK /\ [Next]_vars => RestTyped'
<1> SUFFICES ASSUME TypeOK, [Next]_vars
             PROVE  RestTyped'
  OBVIOUS
<1> USE BoundTypes, NoSocketZero DEF TypeOK, FlagsTyped, RestTyped, history, fields
<1>1. CASE Start
  <2>1. PICK s \in Socket \ Live : /\ connectingWs' = s
                                   /\ sock' = [sock EXCEPT ![s] = "connecting"]
                                   /\ caller' = [caller EXCEPT ![s] = "start"]
    BY <1>1, NewSocket DEF Start
  <2> QED
    BY <1>1, <2>1 DEF Start, NoTimer, Socket
<1>2. CASE Stop
  BY <1>2 DEF Stop, StopAlways, ClearTimer, Discard
<1>3. CASE UpdateEndpoint
  <2>1. endpoint + 1 \in Nat
    OBVIOUS
  <2>2. sent' \in [Socket -> Nat]
    <3>1. CASE IsConnected
      BY <1>3, <2>1, <3>1 DEF UpdateEndpoint, SendRegister
    <3>2. CASE ~IsConnected
      BY <1>3, <3>2 DEF UpdateEndpoint, SendRegister
    <3> QED
      BY <3>1, <3>2
  <2> QED
    BY <1>3, <2>1, <2>2 DEF UpdateEndpoint, SendRegister
<1>4. CASE TimerFires
  <2>1. CASE stopped
    BY <1>4, <2>1 DEF TimerFires
  <2>2. CASE ~stopped
    <3>1. PICK s \in Socket \ Live : /\ connectingWs' = s
                                     /\ sock' = [sock EXCEPT ![s] = "connecting"]
                                     /\ caller' = [caller EXCEPT ![s] = "timer"]
      BY <1>4, <2>2, NewSocket DEF TimerFires
    <3> QED
      BY <1>4, <2>2, <3>1 DEF TimerFires, Socket
  <2> QED
    BY <2>1, <2>2
<1>5. CASE Outage
  BY <1>5 DEF Outage
<1>6. ASSUME NEW s \in Socket, Opened(s)
      PROVE  RestTyped'
  <2>1. CASE stopped
    BY <1>6, <2>1 DEF Opened, Discard, NoTimer
  <2>2. CASE ~stopped
    BY <1>6, <2>2 DEF Opened, Adopt, SendRegister, NoTimer, Socket
  <2> QED
    BY <2>1, <2>2
<1>7. ASSUME NEW s \in Socket, Registered(s)
      PROVE  RestTyped'
  BY <1>7 DEF Registered
<1>8. ASSUME NEW s \in Socket, Fails(s)
      PROVE  RestTyped'
  BY <1>8 DEF Fails, Reject, ScheduleReconnect, NoTimer, Discard
<1>9. ASSUME NEW s \in Socket, Drops(s)
      PROVE  RestTyped'
  BY <1>9 DEF Drops
<1>10. ASSUME NEW s \in Socket, Breaks(s)
       PROVE  RestTyped'
  BY <1>10 DEF Breaks, Reject, ScheduleReconnect, NoTimer
<1>11. ASSUME NEW s \in Socket, Closed(s)
       PROVE  RestTyped'
  BY <1>11 DEF Closed, ScheduleReconnect, NoTimer, Discard
<1>12. CASE UNCHANGED vars
  BY <1>12 DEF vars
<1> QED
  BY <1>1, <1>2, <1>3, <1>4, <1>5, <1>6, <1>7, <1>8, <1>9, <1>10, <1>11, <1>12 DEF Next

LEMMA TypeStable == TypeOK /\ [Next]_vars => TypeOK'
BY NextFlags, NextRest DEF TypeOK

(***************************************************************************)
(* The line.  OneLine is not inductive alone: a field that is set must hold *)
(* a socket that is alive (FieldLive), and a start must find nothing left   *)
(* by the stop before it (StoppedQuiet).                                    *)
(***************************************************************************)
LEMMA InitLine == Init => LineInv
<1> SUFFICES ASSUME Init
             PROVE  LineInv
  OBVIOUS
<1> USE NoSocketZero DEF Init, Live
<1>1. OneLine
  BY DEF OneLine
<1>2. FieldLive /\ EndpointCurrent /\ ToldTruth
  BY DEF FieldLive, EndpointCurrent, ToldTruth, IsConnected
<1>3. StoppedQuiet
  BY DEF StoppedQuiet
<1> QED
  BY <1>1, <1>2, <1>3 DEF LineInv

(* While a connection is being made there is nothing else. *)
LEMMA Alone ==
  ASSUME TypeOK, LineInv, ~twice, NEW s \in Socket, sock[s] = "connecting"
  PROVE  /\ Live = {s} /\ timers = 0 /\ reconnectTimer = FALSE
         /\ ws = 0 /\ told = FALSE /\ stopped = FALSE
<1> USE NoSocketZero DEF LineInv, FlagsTyped, RestTyped, TypeOK, Live
<1>1. Live = {s} /\ timers = 0
  BY DEF OneLine
<1>2. reconnectTimer = FALSE
  BY <1>1 DEF OneLine
<1>3. ws = 0
  BY <1>1 DEF FieldLive, Socket
<1> QED
  BY <1>1, <1>2, <1>3 DEF StoppedQuiet, ToldTruth

LEMMA StartLine ==
  ASSUME TypeOK, LineInv, Start
  PROVE  LineInv'
<1> USE BoundTypes, NoSocketZero DEF LineInv, FlagsTyped, RestTyped, TypeOK, fields, history
<1>1. FieldLive' /\ EndpointCurrent'
  BY DEF Start, Connect, NoTimer, FieldLive, EndpointCurrent, IsConnected, StoppedQuiet,
         Live
<1>2. StoppedQuiet'
  BY DEF Start, Connect, NoTimer, FieldLive, StoppedQuiet, Live
<1>3. OneLine'
  <2>1. PICK s \in Socket \ Live : /\ connectingWs' = s
                                   /\ sock' = [sock EXCEPT ![s] = "connecting"]
    BY NewSocket DEF Start
  <2>2. ASSUME ~twice'
        PROVE  Live = {} /\ timers = 0 /\ reconnectTimer = FALSE
    <3>1. ~(twice \/ Live # {} \/ timers > 0)
      BY <2>2, Zenon DEF Start
    <3>2. Live = {} /\ timers = 0
      BY <3>1
    <3> QED
      BY <3>1, <3>2 DEF OneLine
  <2>3. ASSUME ~twice'
        PROVE  Live' = {s} /\ timers' = 0 /\ reconnectTimer' = FALSE
    BY <2>1, <2>2, <2>3 DEF Start, NoTimer, Live
  <2> QED
    BY <2>1, <2>3 DEF OneLine, Live
<1>4. ToldTruth'
  BY DEF Start, Connect, NoTimer, FieldLive, StoppedQuiet, OneLine, ToldTruth, Live
<1> QED
  BY <1>1, <1>2, <1>3, <1>4

LEMMA StopLine ==
  ASSUME TypeOK, LineInv, Stop
  PROVE  LineInv'
<1> USE BoundTypes, NoSocketZero DEF LineInv, FlagsTyped, RestTyped, TypeOK, fields, history
<1>1. FieldLive' /\ EndpointCurrent'
  BY DEF Stop, StopAlways, ClearTimer, Discard, FieldLive, EndpointCurrent, IsConnected,
         StoppedQuiet, Live
<1>2. ASSUME ~twice
      PROVE  Live' = {} /\ timers' = 0
  <2>1. Live \subseteq {ws, connectingWs}
    BY <1>2 DEF OneLine, Live
  <2>2. timers' = 0
    BY <1>2 DEF OneLine, Stop, ClearTimer
  <2> QED
    BY <2>1, <2>2 DEF Stop, Discard, Live
<1>3. OneLine' /\ StoppedQuiet'
  <2>1. twice' = twice /\ ws' = 0 /\ reconnectTimer' = FALSE
    BY DEF Stop, StopAlways, ClearTimer
  <2>2. StoppedQuiet'
    BY <2>1, <1>2 DEF StoppedQuiet
  <2>3. OneLine'
    BY <2>1, <1>2 DEF OneLine, Live
  <2> QED
    BY <2>2, <2>3
<1>4. ToldTruth'
  BY DEF Stop, StopAlways, ClearTimer, Discard, FieldLive, StoppedQuiet, OneLine,
         ToldTruth, Live
<1> QED
  BY <1>1, <1>3, <1>4

LEMMA UpdateEndpointLine ==
  ASSUME TypeOK, LineInv, UpdateEndpoint
  PROVE  LineInv'
<1> USE BoundTypes, NoSocketZero DEF LineInv, FlagsTyped, RestTyped, TypeOK, fields, history
<1>1. FieldLive' /\ EndpointCurrent'
  <2>1. CASE IsConnected
    BY <2>1 DEF UpdateEndpoint, SendRegister, FieldLive, EndpointCurrent, IsConnected,
           Socket
  <2>2. CASE ~IsConnected
    BY <2>2 DEF UpdateEndpoint, SendRegister, FieldLive, EndpointCurrent, IsConnected
  <2> QED
    BY <2>1, <2>2
<1>2. StoppedQuiet'
  BY DEF UpdateEndpoint, FieldLive, StoppedQuiet, Live
<1>3. OneLine'
  BY DEF UpdateEndpoint, FieldLive, StoppedQuiet, OneLine, Live
<1>4. ToldTruth'
  BY DEF UpdateEndpoint, FieldLive, StoppedQuiet, OneLine, ToldTruth, Live
<1> QED
  BY <1>1, <1>2, <1>3, <1>4

LEMMA TimerFiresLine ==
  ASSUME TypeOK, LineInv, TimerFires
  PROVE  LineInv'
<1> USE BoundTypes, NoSocketZero DEF LineInv, FlagsTyped, RestTyped, TypeOK, fields, history
<1>1. FieldLive' /\ EndpointCurrent'
  <2>1. CASE stopped
    BY <2>1 DEF TimerFires, FieldLive, EndpointCurrent, IsConnected, Live
  <2>2. CASE ~stopped
    <3>1. PICK s \in Socket \ Live : /\ connectingWs' = s
                                     /\ sock' = [sock EXCEPT ![s] = "connecting"]
                                     /\ caller' = [caller EXCEPT ![s] = "timer"]
      BY <2>2, NewSocket DEF TimerFires
    <3> QED
      BY <2>2, <3>1 DEF TimerFires, FieldLive, EndpointCurrent, IsConnected, Live
  <2> QED
    BY <2>1, <2>2
<1>2. StoppedQuiet'
  BY DEF TimerFires, FieldLive, StoppedQuiet, Live
<1>3. OneLine'
  <2>1. ASSUME ~twice
        PROVE  stopped = FALSE /\ Live = {} /\ timers = 1
    BY <2>1 DEF TimerFires, OneLine, StoppedQuiet, Live
  <2>2. CASE ~twice
    <3>1. PICK s \in Socket \ Live : /\ connectingWs' = s
                                     /\ sock' = [sock EXCEPT ![s] = "connecting"]
      BY <2>1, <2>2, NewSocket DEF TimerFires
    <3>2. Live' = {s} /\ timers' = 0 /\ reconnectTimer' = FALSE
      BY <2>1, <2>2, <3>1 DEF TimerFires, Live
    <3> QED
      BY <3>1, <3>2 DEF OneLine, Live
  <2>3. CASE twice
    BY <2>3 DEF TimerFires, OneLine
  <2> QED
    BY <2>2, <2>3
<1>4. ToldTruth'
  <2>1. CASE ~twice
    BY <2>1 DEF TimerFires, FieldLive, OneLine, ToldTruth, Live, Socket
  <2>2. CASE twice
    BY <2>2 DEF TimerFires, ToldTruth
  <2> QED
    BY <2>1, <2>2
<1> QED
  BY <1>1, <1>2, <1>3, <1>4

LEMMA OutageLine ==
  ASSUME TypeOK, LineInv, Outage
  PROVE  LineInv'
<1> USE BoundTypes, NoSocketZero DEF LineInv, FlagsTyped, RestTyped, TypeOK, fields, history
<1>1. FieldLive' /\ EndpointCurrent'
  BY DEF Outage, FieldLive, EndpointCurrent, IsConnected, StoppedQuiet, Live
<1>2. StoppedQuiet'
  BY DEF Outage, FieldLive, StoppedQuiet, Live
<1>3. OneLine'
  BY DEF Outage, FieldLive, StoppedQuiet, OneLine, Live
<1>4. ToldTruth'
  BY DEF Outage, FieldLive, StoppedQuiet, OneLine, ToldTruth, Live
<1> QED
  BY <1>1, <1>2, <1>3, <1>4

LEMMA OpenedLine ==
  ASSUME TypeOK, LineInv, NEW s \in Socket, Opened(s)
  PROVE  LineInv'
<1> USE BoundTypes, NoSocketZero DEF LineInv, FlagsTyped, RestTyped, TypeOK, fields, history
<1>1. FieldLive' /\ EndpointCurrent'
  BY DEF Opened, Adopt, SendRegister, Discard, NoTimer, FieldLive, EndpointCurrent,
         IsConnected, StoppedQuiet, Live
<1>2. StoppedQuiet'
  BY DEF Opened, Adopt, Discard, NoTimer, FieldLive, StoppedQuiet, Live
<1>3. OneLine'
  BY DEF Opened, Adopt, Discard, NoTimer, FieldLive, StoppedQuiet, OneLine, Live
<1>4. ToldTruth'
  <2>1. CASE ~twice
    BY <2>1, Alone DEF Opened, Adopt, ToldTruth
  <2>2. CASE twice
    BY <2>2 DEF Opened, ToldTruth
  <2> QED
    BY <2>1, <2>2
<1> QED
  BY <1>1, <1>2, <1>3, <1>4

LEMMA RegisteredLine ==
  ASSUME TypeOK, LineInv, NEW s \in Socket, Registered(s)
  PROVE  LineInv'
<1> USE BoundTypes, NoSocketZero DEF LineInv, FlagsTyped, RestTyped, TypeOK, fields, history
<1>1. FieldLive' /\ EndpointCurrent'
  BY DEF Registered, FieldLive, EndpointCurrent, IsConnected, StoppedQuiet, Live
<1>2. StoppedQuiet'
  BY DEF Registered, FieldLive, StoppedQuiet, Live
<1>3. OneLine'
  BY DEF Registered, FieldLive, StoppedQuiet, OneLine, Live
<1>4. ToldTruth'
  BY DEF Registered, FieldLive, StoppedQuiet, OneLine, ToldTruth, Live
<1> QED
  BY <1>1, <1>2, <1>3, <1>4

LEMMA FailsLine ==
  ASSUME TypeOK, LineInv, NEW s \in Socket, Fails(s)
  PROVE  LineInv'
<1> USE BoundTypes, NoSocketZero DEF LineInv, FlagsTyped, RestTyped, TypeOK, fields, history
<1>1. FieldLive' /\ EndpointCurrent'
  <2>1. ws # s /\ ws' = ws /\ endpoint' = endpoint
    BY DEF Fails, FieldLive
  <2>2. \A t \in Socket \ {s} : sock'[t] = sock[t] /\ sent'[t] = sent[t]
    BY DEF Fails, Discard
  <2> QED
    BY <2>1, <2>2 DEF FieldLive, EndpointCurrent, IsConnected, Socket
<1>2. StoppedQuiet'
  BY DEF Fails, Reject, ScheduleReconnect, NoTimer, Discard, FieldLive, StoppedQuiet, Live
<1>3. OneLine'
  <2>1. CASE ~twice
    <3>1. Live = {s} /\ timers = 0 /\ reconnectTimer = FALSE
      BY <2>1, Alone DEF Fails
    <3>2. Live' = {}
      BY <3>1 DEF Fails, Discard, Live
    <3>3. \/ timers' = 0 /\ reconnectTimer' = FALSE
          \/ timers' = 1 /\ reconnectTimer' = TRUE
      BY <3>1 DEF Fails, Reject, ScheduleReconnect, NoTimer
    <3> QED
      BY <3>2, <3>3 DEF OneLine, Live
  <2>2. CASE twice
    BY <2>2 DEF Fails, OneLine
  <2> QED
    BY <2>1, <2>2
<1>4. ToldTruth'
  <2>1. CASE ~twice
    BY <2>1, Alone DEF Fails, ToldTruth
  <2>2. CASE twice
    BY <2>2 DEF Fails, ToldTruth
  <2> QED
    BY <2>1, <2>2
<1> QED
  BY <1>1, <1>2, <1>3, <1>4

LEMMA DropsLine ==
  ASSUME TypeOK, LineInv, NEW s \in Socket, Drops(s)
  PROVE  LineInv'
<1> USE BoundTypes, NoSocketZero DEF LineInv, FlagsTyped, RestTyped, TypeOK, fields, history
<1>1. FieldLive' /\ EndpointCurrent'
  BY DEF Drops, FieldLive, EndpointCurrent, IsConnected, StoppedQuiet, Live
<1>2. StoppedQuiet'
  BY DEF Drops, FieldLive, StoppedQuiet, Live
<1>3. OneLine'
  BY DEF Drops, FieldLive, StoppedQuiet, OneLine, Live
<1>4. ToldTruth'
  BY DEF Drops, FieldLive, StoppedQuiet, OneLine, ToldTruth, Live
<1> QED
  BY <1>1, <1>2, <1>3, <1>4

LEMMA BreaksLine ==
  ASSUME TypeOK, LineInv, NEW s \in Socket, Breaks(s)
  PROVE  LineInv'
<1> USE BoundTypes, NoSocketZero DEF LineInv, FlagsTyped, RestTyped, TypeOK, fields, history
<1>1. FieldLive' /\ EndpointCurrent'
  BY DEF Breaks, Reject, ScheduleReconnect, NoTimer, FieldLive, EndpointCurrent,
         IsConnected, StoppedQuiet, Live
<1>2. StoppedQuiet'
  BY DEF Breaks, Reject, ScheduleReconnect, NoTimer, FieldLive, StoppedQuiet, Live
<1>3. OneLine'
  BY DEF Breaks, Reject, ScheduleReconnect, NoTimer, FieldLive, StoppedQuiet, OneLine, Live
<1>4. ToldTruth'
  BY DEF Breaks, Reject, ScheduleReconnect, NoTimer, FieldLive, StoppedQuiet, OneLine,
         ToldTruth, Live
<1> QED
  BY <1>1, <1>2, <1>3, <1>4

LEMMA ClosedLine ==
  ASSUME TypeOK, LineInv, NEW s \in Socket, Closed(s)
  PROVE  LineInv'
<1> USE BoundTypes, NoSocketZero DEF LineInv, FlagsTyped, RestTyped, TypeOK, fields, history
<1>1. FieldLive' /\ EndpointCurrent'
  BY DEF Closed, ScheduleReconnect, NoTimer, Discard, FieldLive, EndpointCurrent,
         IsConnected, StoppedQuiet, Live
<1>2. StoppedQuiet'
  BY DEF Closed, ScheduleReconnect, NoTimer, Discard, FieldLive, StoppedQuiet, Live
<1>3. OneLine'
  <2>1. CASE ~twice
    <3>1. Live = {s} /\ timers = 0
      BY <2>1 DEF Closed, OneLine, Live
    <3>2. stopped = FALSE
      BY <2>1, <3>1 DEF StoppedQuiet
    <3>3. Live' = {}
      BY <3>1 DEF Closed, Discard, Live
    <3>4. timers' = 1 /\ reconnectTimer' = TRUE
      BY <3>1, <3>2 DEF Closed, ScheduleReconnect
    <3> QED
      BY <3>3, <3>4 DEF OneLine, Live
  <2>2. CASE twice
    BY <2>2 DEF Closed, OneLine
  <2> QED
    BY <2>1, <2>2
<1>4. ToldTruth'
  BY DEF Closed, ScheduleReconnect, NoTimer, Discard, FieldLive, StoppedQuiet, OneLine,
         ToldTruth, Live
<1> QED
  BY <1>1, <1>2, <1>3, <1>4

LEMMA LineStable == TypeOK /\ LineInv /\ [Next]_vars => LineInv'
<1> SUFFICES ASSUME TypeOK, LineInv, [Next]_vars
             PROVE  LineInv'
  OBVIOUS
<1>1. CASE UNCHANGED vars
  BY <1>1 DEF vars, fields, history, LineInv, OneLine, FieldLive, StoppedQuiet,
              EndpointCurrent, ToldTruth, IsConnected, Live
<1> QED
  BY <1>1, StartLine, StopLine, UpdateEndpointLine, TimerFiresLine, OutageLine, OpenedLine,
     RegisteredLine, FailsLine, DropsLine, BreaksLine, ClosedLine DEF Next

-----------------------------------------------------------------------------
(* Every variable keeps its type, for any bounds. *)
THEOREM SentinelTyped == Spec => []TypeOK
<1>1. Init => TypeOK
  BY InitTyped
<1>2. TypeOK /\ [Next]_vars => TypeOK'
  BY TypeStable
<1> QED
  BY <1>1, <1>2, PTL DEF Spec

(* The inductive invariant holds. *)
LEMMA LineInvariant == Spec => [](TypeOK /\ LineInv)
<1>1. Init => TypeOK /\ LineInv
  BY InitTyped, InitLine
<1>2. TypeOK /\ LineInv /\ [Next]_vars => (TypeOK /\ LineInv)'
  BY TypeStable, LineStable
<1> QED
  BY <1>1, <1>2, PTL DEF Spec

(* However often connections fail, close and are made again around stop and *)
(* start: one connection or one timer, and the fields know it.              *)
THEOREM SentinelOneLine == Spec => []OneLine
<1>1. TypeOK /\ LineInv => OneLine
  BY DEF LineInv
<1> QED
  BY <1>1, LineInvariant, PTL

(* What is registered on the present connection is the present endpoint. *)
THEOREM SentinelRegistersEndpoint == Spec => []EndpointCurrent
<1>1. TypeOK /\ LineInv => EndpointCurrent
  BY DEF LineInv
<1> QED
  BY <1>1, LineInvariant, PTL

(* onReconnect and onDisconnect tell the truth of a sentinel started once   *)
(* at a time: whoever was last told of a connection has a registered one.   *)
THEOREM SentinelTellsTruth == Spec => []ToldTruth
<1>1. TypeOK /\ LineInv => ToldTruth
  BY DEF LineInv
<1> QED
  BY <1>1, LineInvariant, PTL

(* A stopped sentinel opens nothing: by StoppedQuiet its field is empty, so *)
(* a step can open a connection only by way of "open", which lets it go.    *)
THEOREM SentinelStaysStopped == Spec => StaysStopped
<1> DEFINE Quiet == stopped' => /\ ws' = 0
                                /\ \A s \in Socket : /\ sock[s] = "free" => sock'[s] = "free"
                                                     /\ sock[s] = "connecting" => sock'[s] # "open"
<1>1. TypeOK /\ LineInv /\ [Next]_vars => [Quiet]_vars
  <2> SUFFICES ASSUME TypeOK, LineInv, [Next]_vars, stopped'
               PROVE  Quiet
    OBVIOUS
  <2>1. ws' = 0
    BY LineStable DEF LineInv, StoppedQuiet
  <2>2. \A s \in Socket : /\ sock[s] = "free" => sock'[s] = "free"
                          /\ sock[s] = "connecting" => sock'[s] # "open"
    <3> USE DEF TypeOK, RestTyped, FlagsTyped
    <3>1. CASE Start
      BY <3>1 DEF Start
    <3>2. CASE Stop
      BY <3>2 DEF Stop, Discard
    <3>3. CASE UpdateEndpoint
      BY <3>3 DEF UpdateEndpoint
    <3>4. CASE TimerFires
      BY <3>4 DEF TimerFires
    <3>5. CASE Outage
      BY <3>5 DEF Outage
    <3>6. ASSUME NEW s \in Socket, Opened(s)
          PROVE  \A t \in Socket : /\ sock[t] = "free" => sock'[t] = "free"
                                   /\ sock[t] = "connecting" => sock'[t] # "open"
      BY <3>6 DEF Opened, Discard
    <3>7. ASSUME NEW s \in Socket, Registered(s)
          PROVE  sock' = sock
      BY <3>7 DEF Registered
    <3>8. ASSUME NEW s \in Socket, Fails(s)
          PROVE  \A t \in Socket : sock'[t] \in {sock[t], "free"}
      BY <3>8 DEF Fails, Discard
    <3>9. ASSUME NEW s \in Socket, Drops(s) \/ Breaks(s)
          PROVE  /\ sock[s] = "open" /\ sock' = [sock EXCEPT ![s] = "closing"]
      BY <3>9 DEF Drops, Breaks
    <3>10. ASSUME NEW s \in Socket, Closed(s)
           PROVE  \A t \in Socket : sock'[t] \in {sock[t], "free"}
      BY <3>10 DEF Closed, Discard
    <3>11. CASE UNCHANGED vars
      BY <3>11 DEF vars
    <3> QED
      BY <3>1, <3>2, <3>3, <3>4, <3>5, <3>6, <3>7, <3>8, <3>9, <3>10, <3>11 DEF Next
  <2> QED
    BY <2>1, <2>2
<1> QED
  BY <1>1, LineInvariant, PTL DEF Spec, StaysStopped

-----------------------------------------------------------------------------
(* A socket that is not free keeps a sentinel trying; only a connection that *)
(* fails can end this, and it leaves a timer or the connection in the field. *)
LEMMA FailsTrying ==
  ASSUME TypeOK, LineInv, KeepsTrying, NEW s \in Socket, Fails(s)
  PROVE  KeepsTrying'
<1> SUFFICES ASSUME established'
             PROVE  KeepsTrying'
  BY DEF KeepsTrying
<1> USE NoSocketZero DEF LineInv, TypeOK, RestTyped, Live
<1>1. established /\ ~stopped /\ ~stopped' /\ ws' = ws
  BY DEF Fails, history, KeepsTrying
<1>2. \A t \in Socket \ {s} : sock'[t] = sock[t] /\ caller'[t] = caller[t]
  BY DEF Fails, Discard
<1>3. timers' \in Nat /\ timers' >= timers
  BY DEF Fails, Reject, ScheduleReconnect, NoTimer
<1>4. CASE timers > 0
  BY <1>1, <1>3, <1>4 DEF KeepsTrying
<1>5. CASE timers = 0 /\ ws # 0
  <2>1. ws \in Socket \ {s} /\ sock[ws] \in {"open", "closing"}
    BY <1>5 DEF Fails, FieldLive, Socket
  <2>2. sock'[ws] \in {"open", "closing"}
    BY <1>2, <2>1
  <2> QED
    BY <1>1, <2>1, <2>2 DEF KeepsTrying
<1>6. CASE timers = 0 /\ ws = 0
  <2>1. PICK t \in Live : sock[t] = "connecting" => caller[t] = "timer"
    BY <1>1, <1>6 DEF KeepsTrying
  <2>2. CASE t = s
    <3>1. caller[s] = "timer"
      BY <2>1, <2>2 DEF Fails
    <3>2. timers' > 0
      BY <1>1, <1>6, <3>1 DEF Fails, Reject, ScheduleReconnect
    <3> QED
      BY <1>1, <3>2 DEF KeepsTrying
  <2>3. CASE t # s
    BY <1>1, <1>2, <2>1, <2>3 DEF KeepsTrying
  <2> QED
    BY <2>2, <2>3
<1> QED
  BY <1>4, <1>5, <1>6 DEF RestTyped

LEMMA TryingStable == TypeOK /\ LineInv /\ KeepsTrying /\ [Next]_vars => KeepsTrying'
<1> SUFFICES ASSUME TypeOK, LineInv, KeepsTrying, [Next]_vars, established'
             PROVE  KeepsTrying'
  BY DEF KeepsTrying
<1> USE NoSocketZero DEF TypeOK, FlagsTyped, RestTyped, Live, fields, history
<1>1. CASE Start
  <2>1. established /\ ~stopped'
    BY <1>1 DEF Start
  <2>2. PICK s \in Socket \ Live : /\ connectingWs' = s
                                   /\ sock' = [sock EXCEPT ![s] = "connecting"]
                                   /\ caller' = [caller EXCEPT ![s] = "start"]
    BY <1>1, NewSocket DEF Start
  <2>3. \A t \in Live : t \in Live' /\ sock'[t] = sock[t] /\ caller'[t] = caller[t]
    BY <2>2
  <2> QED
    BY <1>1, <2>1, <2>3 DEF Start, NoTimer, KeepsTrying
<1>2. CASE Stop
  BY <1>2 DEF Stop, StopAlways
<1>3. CASE UpdateEndpoint
  BY <1>3 DEF UpdateEndpoint, KeepsTrying
<1>4. CASE TimerFires
  <2>1. ~stopped /\ ~stopped'
    BY <1>4 DEF TimerFires, KeepsTrying
  <2>2. PICK s \in Socket \ Live : /\ connectingWs' = s
                                   /\ sock' = [sock EXCEPT ![s] = "connecting"]
                                   /\ caller' = [caller EXCEPT ![s] = "timer"]
    BY <1>4, <2>1, NewSocket DEF TimerFires
  <2>3. s \in Live' /\ caller'[s] = "timer"
    BY <2>2
  <2> QED
    BY <2>1, <2>3 DEF KeepsTrying
<1>5. CASE Outage
  BY <1>5 DEF Outage, KeepsTrying
<1>6. ASSUME NEW s \in Socket, Opened(s)
      PROVE  KeepsTrying'
  <2>1. ~stopped /\ ~stopped'
    BY <1>6 DEF Opened, KeepsTrying
  <2>2. s \in Live' /\ sock'[s] = "open"
    BY <1>6, <2>1 DEF Opened, Adopt
  <2> QED
    BY <2>1, <2>2 DEF KeepsTrying
<1>7. ASSUME NEW s \in Socket, Registered(s)
      PROVE  KeepsTrying'
  BY <1>7 DEF Registered, KeepsTrying
<1>8. ASSUME NEW s \in Socket, Fails(s)
      PROVE  KeepsTrying'
  BY <1>8, FailsTrying
<1>9. ASSUME NEW s \in Socket, Drops(s) \/ Breaks(s)
      PROVE  KeepsTrying'
  <2>1. ~stopped'
    BY <1>9 DEF Drops, Breaks, KeepsTrying
  <2>2. s \in Live' /\ sock'[s] = "closing"
    BY <1>9 DEF Drops, Breaks
  <2> QED
    BY <2>1, <2>2 DEF KeepsTrying
<1>10. ASSUME NEW s \in Socket, Closed(s)
       PROVE  KeepsTrying'
  <2>1. ~stopped /\ ~stopped'
    BY <1>10 DEF Closed, KeepsTrying
  <2>2. timers' > 0
    BY <1>10, <2>1 DEF Closed, ScheduleReconnect
  <2> QED
    BY <2>1, <2>2 DEF KeepsTrying
<1>11. CASE UNCHANGED vars
  BY <1>11 DEF vars, KeepsTrying
<1> QED
  BY <1>1, <1>2, <1>3, <1>4, <1>5, <1>6, <1>7, <1>8, <1>9, <1>10, <1>11 DEF Next

(* The safety half of Reconnects, for any bounds and however outages, stop   *)
(* and start, even a second start, come between: a sentinel that was once    *)
(* connected and is not stopped never has neither a connection nor a timer.  *)
THEOREM SentinelKeepsTrying == Spec => []KeepsTrying
<1>1. Init => KeepsTrying
  BY DEF Init, KeepsTrying
<1> QED
  BY <1>1, TryingStable, LineInvariant, PTL DEF Spec
=============================================================================

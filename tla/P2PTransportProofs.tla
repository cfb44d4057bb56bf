------------------------- MODULE P2PTransportProofs -------------------------
(***************************************************************************)
(* Theorems about P2PTransport, for any nodes, options and bounds: its      *)
(* types; the application hears each datagram once; the two ends agree on   *)
(* how they talk; the server knows the relay of who waited for it; what     *)
(* goes by the relay keeps its order and has no gap; the address that is    *)
(* registered is genuine; connect waits for nothing that does not come; and *)
(* what close left stays left.                                              *)
(***************************************************************************)
EXTENDS P2PTransport, StunMessageProofs, TLAPS

Flags == {"unread", "bind", "raced", "unheard", "early", "close"}

LEMMA Others == \A n \in Node : Other[n] \in Node /\ Other[Other[n]] = n
BY OtherType

-----------------------------------------------------------------------------
(* Types that several of the theorems need, and how the parts of a node     *)
(* hang together: what listens, connects or opens belongs to a phase.       *)
CallsOK ==
  /\ phase \in [Node -> Phases]
  /\ hasty \in [Node -> SUBSET Flags]

SocketsOK ==
  /\ udp \in [Node -> {"none", "binding", "open", "closed"}]
  /\ heard \in [Node -> Nat]
  /\ app \subseteq Node /\ closed \subseteq Node

ConnectionsOK ==
  /\ sig \in [Node -> {"none", "connecting", "open", "dead", "closed"}]
  /\ relay \in [Node -> {"none", "connecting", "open", "dead", "closed"}]

PunchersOK == listens \subseteq Node /\ probing \subseteq Node /\ probes \subseteq Node

PartsOK == CallsOK /\ SocketsOK /\ ConnectionsOK /\ PunchersOK

Phased ==
  \A n \in Node :
    /\ n \in listens <=> phase[n] = "punch"
    /\ sig[n] = "connecting" => phase[n] \in {"register", "request", "failed"}
    /\ relay[n] = "connecting" => phase[n] = "relay"
    /\ phase[n] = "idle" <=> udp[n] = "none"
    /\ udp[n] = "binding" => phase[n] = "bind"
    /\ udp[n] = "closed" <=> n \in closed
    /\ phase[n] \notin {"relay", "done", "failed"} => relay[n] = "none"

LEMMA InitParts == Init => PartsOK /\ Phased
<1> SUFFICES ASSUME Init
             PROVE  PartsOK /\ Phased
  OBVIOUS
<1> USE DEF Init, SignalingInit, RelayInit, PuncherInit
<1>1. PartsOK
  BY DEF PartsOK, CallsOK, SocketsOK, ConnectionsOK, PunchersOK, Phases, Flags
<1>2. Phased
  BY DEF Phased
<1> QED
  BY <1>1, <1>2

(***************************************************************************)
(* What a step can do to each group, whichever action it is.                *)
(***************************************************************************)
Rejects(n) == NotFound(n) \/ RequestTimeout(n) \/ ReconnectFails(n)

LEMMA RejectionWorks ==
  ASSUME NEW n \in Node, Rejects(n)
  PROVE  /\ phase[n] = "request"
         /\ \E ws, left : /\ Rejected(n, ws, left)
                          /\ ws \in {sig[n], "dead"}
                          /\ left \in {answers, Took(answers, n)}
         /\ UNCHANGED <<udp, app, heard, host, peerEndpoint, sent, closed,
                        puncher, registry, asked, frames, incoming, hasty>>
BY DEF Rejects, NotFound, RequestTimeout, ReconnectFails

LEMMA CallSteps ==
  ASSUME [Next]_vars
  PROVE  /\ UNCHANGED phase \/ \E n \in Node, p \in Phases : Goes(n, p)
         /\ UNCHANGED hasty \/ \E n \in Node, x \in SUBSET Flags : Notes(n, x)
<1>1. UNCHANGED phase \/ \E n \in Node, p \in Phases : Goes(n, p)
  BY ZenonT(60) DEF Next, vars, Progress,
       Connect, AppBind, Send, Close, Serve, PassedOver, SignalingLost, Probe, ProbeLost,
       RelayDies, Bound, Discovered, SignalingOpens, SignalingFails, Registered, Found, NotFound,
       RequestTimeout, ReconnectFails, RegisterTimeout, AnswerIgnored, Retry, Punched, Silent,
       NotPunched,
       RelayUp, RelayIdentified, RelayDelivers, Rejected, SetupRelay, Phases
<1>2. UNCHANGED hasty \/ \E n \in Node, x \in SUBSET Flags : Notes(n, x)
  BY ZenonT(60) DEF Next, vars, Progress,
       Connect, AppBind, Send, Close, Serve, PassedOver, SignalingLost, Probe, ProbeLost,
       RelayDies, Bound, Discovered, SignalingOpens, SignalingFails, Registered, Found, NotFound,
       RequestTimeout, ReconnectFails, RegisterTimeout, AnswerIgnored, Retry, Punched, Silent,
       NotPunched,
       RelayUp, RelayIdentified, RelayDelivers, Rejected, SetupRelay, Flags
<1> QED
  BY <1>1, <1>2

LEMMA SocketSteps ==
  ASSUME [Next]_vars
  PROVE  \/ UNCHANGED <<udp, app, heard, closed>>
         \/ \E n \in Node : Connect(n) \/ Bound(n) \/ AppBind(n) \/ Close(n)
<1> USE DEF transport
<1>1. CASE UNCHANGED vars
  BY <1>1 DEF vars
<1>2. ASSUME NEW n \in Node, Progress(n)
      PROVE  UNCHANGED <<udp, app, heard, closed>> \/ Bound(n)
  BY <1>2 DEF Progress, Discovered, SignalingOpens, SignalingFails, Registered, Found, NotFound,
       RequestTimeout, ReconnectFails, RegisterTimeout, AnswerIgnored, Retry, Punched, Silent,
       NotPunched,
       RelayUp, RelayIdentified, RelayDelivers
<1>3. ASSUME NEW n \in Node,
             Send(n) \/ Serve(n) \/ PassedOver(n) \/ SignalingLost(n) \/ Probe(n) \/ ProbeLost(n)
               \/ RelayDies(n)
      PROVE  UNCHANGED <<udp, app, heard, closed>>
  BY <1>3 DEF Send, Serve, PassedOver, SignalingLost, Probe, ProbeLost, RelayDies
<1> QED
  BY <1>1, <1>2, <1>3 DEF Next

LEMMA ConnectionSteps ==
  ASSUME [Next]_vars, ConnectionsOK
  PROVE  ConnectionsOK'
<1>1. \/ UNCHANGED sig
      \/ \E n \in Node, s \in {"connecting", "open", "dead", "closed"} :
           sig' = [sig EXCEPT ![n] = s]
  <2> USE DEF clients, signaling
  <2>1. CASE UNCHANGED vars
    BY <2>1 DEF vars
  <2>2. ASSUME NEW n \in Node, Progress(n)
        PROVE  \/ UNCHANGED sig
               \/ \E s \in {"connecting", "open", "dead", "closed"} : sig' = [sig EXCEPT ![n] = s]
    <3>1. CASE Rejects(n)
      <4>1. \E s \in {sig[n], "dead", "closed"} : sig' = [sig EXCEPT ![n] = s]
        BY <3>1, RejectionWorks DEF Rejected, SigClose
      <4> QED
        BY <4>1 DEF ConnectionsOK
    <3>2. CASE Registered(n) \/ Retry(n)
      BY <3>2 DEF Registered, Retry, Request, SigRequest, SigConnect
    <3>3. CASE Discovered(n) \/ SignalingOpens(n) \/ SignalingFails(n) \/ Found(n)
      BY <3>3 DEF Discovered, SignalingOpens, SignalingFails, Found, SigConnect, SigOpens,
         SigFails, SigClose
    <3>4. CASE Bound(n) \/ RegisterTimeout(n) \/ AnswerIgnored(n) \/ Punched(n) \/ Silent(n)
                 \/ NotPunched(n) \/ RelayUp(n) \/ RelayIdentified(n) \/ RelayDelivers(n)
      BY <3>4 DEF Bound, RegisterTimeout, AnswerIgnored, Punched, Silent, NotPunched,
         RelayUp, RelayIdentified, RelayDelivers
    <3> QED
      BY <2>2, <3>1, <3>2, <3>3, <3>4 DEF Progress, Rejects
  <2>3. ASSUME NEW n \in Node,
               Connect(n) \/ AppBind(n) \/ Send(n) \/ Close(n) \/ Serve(n) \/ PassedOver(n)
                 \/ Probe(n) \/ ProbeLost(n) \/ RelayDies(n)
        PROVE  UNCHANGED sig
    BY <2>3 DEF Connect, AppBind, Send, Close, Serve, PassedOver, Probe, ProbeLost, RelayDies
  <2>4. ASSUME NEW n \in Node, SignalingLost(n)
        PROVE  sig' = [sig EXCEPT ![n] = "dead"]
    BY <2>4 DEF SignalingLost, SigLost
  <2> QED
    BY <2>1, <2>2, <2>3, <2>4 DEF Next
<1>2. \/ UNCHANGED relay
      \/ \E n \in Node, s \in {"none", "connecting", "open", "dead", "closed"} :
           relay' = [relay EXCEPT ![n] = s]
  <2> USE DEF ConnectionsOK, clients, relaying
  <2>1. CASE UNCHANGED vars
    BY <2>1 DEF vars
  <2>2. ASSUME NEW n \in Node, Close(n)
        PROVE  relay' = [relay EXCEPT ![n] = IF relay[n] = "none" THEN "none" ELSE "closed"]
    BY <2>2 DEF Close, RelayClose
  <2>3. ASSUME NEW n \in Node, Progress(n)
        PROVE  \/ UNCHANGED relay
               \/ \E s \in {"connecting", "open"} : relay' = [relay EXCEPT ![n] = s]
    BY <2>3 DEF Progress, Bound, Discovered, SignalingOpens, SignalingFails, Registered,
         Found, NotFound, RequestTimeout, ReconnectFails, RegisterTimeout, AnswerIgnored, Retry,
         Punched, Silent, NotPunched, RelayUp, RelayIdentified, RelayDelivers, Rejected, SetupRelay,
         RelayConnect, RelayOpens, Identified, RelayData
  <2>4. ASSUME NEW n \in Node,
               Connect(n) \/ AppBind(n) \/ Send(n) \/ Serve(n) \/ PassedOver(n)
                 \/ SignalingLost(n) \/ Probe(n) \/ ProbeLost(n) \/ RelayDies(n)
        PROVE  UNCHANGED relay \/ relay' = [relay EXCEPT ![n] = "dead"]
    BY <2>4 DEF Connect, AppBind, Send, Serve, PassedOver, SignalingLost, Probe, ProbeLost,
         RelayDies, RelaySend, RelayLost
  <2> QED
    BY <2>1, <2>2, <2>3, <2>4 DEF Next
<1> QED
  BY <1>1, <1>2 DEF ConnectionsOK

LEMMA PuncherSteps ==
  ASSUME [Next]_vars
  PROVE  \/ UNCHANGED <<listens, probing, probes>>
         \/ \E n \in Node : \/ (Found(n) /\ Punch(n)) \/ Punched(n) \/ NotPunched(n)
                            \/ Silent(n) \/ Probe(n) \/ ProbeLost(n)
<1> USE DEF clients, puncher
<1>1. CASE UNCHANGED vars
  BY <1>1 DEF vars
<1>2. ASSUME NEW n \in Node, Progress(n)
      PROVE  \/ UNCHANGED <<listens, probing, probes>>
             \/ (Found(n) /\ Punch(n)) \/ Punched(n) \/ NotPunched(n) \/ Silent(n)
  BY <1>2 DEF Progress, Bound, Discovered, SignalingOpens, SignalingFails, Registered, Found,
       NotFound, RequestTimeout, ReconnectFails, RegisterTimeout, AnswerIgnored, Retry,
       RelayUp, RelayIdentified, RelayDelivers
<1>3. ASSUME NEW n \in Node,
             Connect(n) \/ AppBind(n) \/ Send(n) \/ Close(n) \/ Serve(n) \/ PassedOver(n)
               \/ SignalingLost(n) \/ RelayDies(n)
      PROVE  UNCHANGED <<listens, probing, probes>>
  BY <1>3 DEF Connect, AppBind, Send, Close, Serve, PassedOver, SignalingLost, RelayDies
<1> QED
  BY <1>1, <1>2, <1>3 DEF Next

LEMMA NextParts == PartsOK /\ [Next]_vars => PartsOK'
<1> SUFFICES ASSUME PartsOK, [Next]_vars
             PROVE  PartsOK'
  OBVIOUS
<1>1. CallsOK'
  BY CallSteps DEF PartsOK, CallsOK, Goes, Notes
<1>2. SocketsOK'
  BY SocketSteps DEF PartsOK, SocketsOK, Connect, Bound, AppBind, Close
<1>3. ConnectionsOK'
  BY ConnectionSteps DEF PartsOK
<1>4. PunchersOK'
  BY PuncherSteps DEF PartsOK, PunchersOK, Punch, Punched, NotPunched, Silent, Probe, ProbeLost,
     Hears, GivesUp, GraceEnds, SendProbe, LoseProbe
<1> QED
  BY <1>1, <1>2, <1>3, <1>4 DEF PartsOK

LEMMA NextPhased == PartsOK /\ Phased /\ [Next]_vars => Phased'
<1> SUFFICES ASSUME PartsOK, Phased, [Next]_vars
             PROVE  Phased'
  OBVIOUS
<1> USE DEF PartsOK, CallsOK, SocketsOK, ConnectionsOK, PunchersOK, Phased, Goes, transport,
   clients, signaling, relaying, puncher
<1>1. ASSUME NEW n \in Node, Connect(n)
      PROVE  Phased'
  BY <1>1 DEF Connect
<1>2. ASSUME NEW n \in Node, Close(n)
      PROVE  Phased'
  BY <1>2 DEF Close, RelayClose
<1>3. ASSUME NEW n \in Node, Bound(n)
      PROVE  Phased'
  BY <1>3 DEF Bound
<1>4. ASSUME NEW n \in Node, Discovered(n)
      PROVE  Phased'
  BY <1>4 DEF Discovered, SigConnect
<1>5. ASSUME NEW n \in Node, SignalingOpens(n)
      PROVE  Phased'
  BY <1>5 DEF SignalingOpens, SigOpens
<1>6. ASSUME NEW n \in Node, SignalingFails(n)
      PROVE  Phased'
  BY <1>6 DEF SignalingFails, SigFails
<1>7. ASSUME NEW n \in Node, Registered(n)
      PROVE  Phased'
  <2>1. /\ phase[n] = "register" /\ phase' = [phase EXCEPT ![n] = "request"]
        /\ UNCHANGED sig \/ sig' = [sig EXCEPT ![n] = "connecting"]
        /\ UNCHANGED <<relay, udp, closed, listens>>
    BY <1>7 DEF Registered, Request, SigRequest, SigConnect
  <2> QED
    BY <2>1
<1>8. ASSUME NEW n \in Node, Found(n)
      PROVE  Phased'
  BY <1>8 DEF Found, SigClose, SetupRelay, RelayConnect, Punch
<1>9. ASSUME NEW n \in Node, Rejects(n)
      PROVE  Phased'
  <2>1. /\ phase[n] = "request" /\ UNCHANGED <<udp, closed, listens>>
        /\ \E s \in {sig[n], "dead", "closed"} : sig' = [sig EXCEPT ![n] = s]
        /\ \/ UNCHANGED <<phase, relay>>
           \/ /\ phase' = [phase EXCEPT ![n] = "relay"]
              /\ relay' = [relay EXCEPT ![n] = "connecting"]
              /\ sig' = [sig EXCEPT ![n] = "closed"]
    BY <1>9, RejectionWorks DEF Rejected, SigClose, SetupRelay, RelayConnect
  <2> QED
    BY <2>1
<1>10. ASSUME NEW n \in Node, Retry(n)
      PROVE  Phased'
  <2>1. /\ phase[n] = "request" /\ UNCHANGED <<phase, relay, udp, closed, listens>>
        /\ UNCHANGED sig \/ sig' = [sig EXCEPT ![n] = "connecting"]
    BY <1>10 DEF Retry, Request, SigRequest, SigConnect
  <2> QED
    BY <2>1
<1>11. ASSUME NEW n \in Node, RegisterTimeout(n)
      PROVE  Phased'
  <2>1. /\ phase[n] = "register" /\ phase' = [phase EXCEPT ![n] = "failed"]
        /\ UNCHANGED <<sig, relay, udp, closed, listens>>
    BY <1>11 DEF RegisterTimeout
  <2> QED
    BY <2>1
<1>12. ASSUME NEW n \in Node, Punched(n)
      PROVE  Phased'
  BY <1>12 DEF Punched, Hears
<1>13. ASSUME NEW n \in Node, NotPunched(n)
      PROVE  Phased'
  BY <1>13 DEF NotPunched, GivesUp, SetupRelay, RelayConnect
<1>14. ASSUME NEW n \in Node, RelayUp(n)
      PROVE  Phased'
  BY <1>14 DEF RelayUp, RelayOpens
<1>15. ASSUME NEW n \in Node, RelayIdentified(n)
      PROVE  Phased'
  <2>1. /\ relay[n] = "open" /\ UNCHANGED <<sig, relay, udp, closed, listens>>
        /\ \/ phase[n] = "relay" /\ phase' = [phase EXCEPT ![n] = "done"]
           \/ UNCHANGED phase
    BY <1>15 DEF RelayIdentified, Identified, Arrives
  <2> QED
    BY <2>1
<1>16. ASSUME NEW n \in Node, RelayDies(n)
      PROVE  Phased'
  BY <1>16 DEF RelayDies, RelayLost
<1>17. ASSUME NEW n \in Node,
             AppBind(n) \/ Send(n) \/ Serve(n) \/ PassedOver(n) \/ Probe(n) \/ ProbeLost(n)
               \/ AnswerIgnored(n) \/ Silent(n) \/ RelayDelivers(n)
       PROVE  UNCHANGED <<phase, sig, relay, udp, closed, listens>>
  BY <1>17 DEF AppBind, Send, Serve, PassedOver, Probe, ProbeLost, AnswerIgnored,
     Silent, RelayDelivers, RelaySend, SendProbe, LoseProbe, SigTakes, GraceEnds, RelayData
<1>18. CASE UNCHANGED vars
  BY <1>18 DEF vars
<1>19. ASSUME NEW n \in Node, SignalingLost(n)
       PROVE  Phased'
  <2>1. sig' = [sig EXCEPT ![n] = "dead"] /\ UNCHANGED <<phase, relay, udp, closed, listens>>
    BY <1>19 DEF SignalingLost, SigLost
  <2> QED
    BY <2>1
<1> QED
  BY <1>1, <1>2, <1>3, <1>4, <1>5, <1>6, <1>7, <1>8, <1>9, <1>10, <1>11, <1>12, <1>13, <1>14,
     <1>15, <1>16, <1>17, <1>18, <1>19 DEF Next, Progress, Rejects

LEMMA HastyGrows ==
  ASSUME PartsOK, [Next]_vars, NEW n \in Node
  PROVE  hasty[n] \subseteq hasty'[n]
BY CallSteps DEF PartsOK, CallsOK, Notes

-----------------------------------------------------------------------------
(* How often the handler is on a socket: not before bind is called, once    *)
(* when it is open, and once at most unless bind came while it was bound.   *)
Handler ==
  \A n \in Node :
    /\ n \notin app \/ udp[n] = "none" => heard[n] = 0
    /\ udp[n] = "binding" /\ "bind" \notin hasty[n] => heard[n] = 0
    /\ "bind" \notin hasty[n] => heard[n] <= 1
    /\ udp[n] = "open" /\ n \in app => heard[n] >= 1

LEMMA NextHandler == PartsOK /\ Phased /\ Handler /\ [Next]_vars => Handler'
<1> SUFFICES ASSUME PartsOK, Phased, Handler, [Next]_vars
             PROVE  Handler'
  OBVIOUS
<1> USE HastyGrows DEF PartsOK, CallsOK, SocketsOK, Handler
<1>1. ASSUME NEW n \in Node, Connect(n)
      PROVE  Handler'
  <2>1. /\ udp' = [udp EXCEPT ![n] = "binding"] /\ UNCHANGED <<app, heard, hasty>>
    BY <1>1 DEF Connect
  <2>2. heard[n] = 0
    BY <1>1 DEF Connect, Phased
  <2> QED
    BY <2>1, <2>2
<1>2. ASSUME NEW n \in Node, Bound(n)
      PROVE  Handler'
  BY <1>2 DEF Bound
<1>3. ASSUME NEW n \in Node, AppBind(n)
      PROVE  Handler'
  <2>1. /\ n \notin app /\ app' = app \union {n} /\ UNCHANGED udp
        /\ heard' = [heard EXCEPT ![n] = IF udp[n] \in {"binding", "open"} THEN @ + 1 ELSE @]
    BY <1>3 DEF AppBind
  <2>2. udp[n] = "binding" => "bind" \in hasty'[n]
    BY <1>3 DEF AppBind, Notes
  <2> QED
    BY <2>1, <2>2
<1>4. ASSUME NEW n \in Node, Close(n)
      PROVE  Handler'
  <2>1. udp' = [udp EXCEPT ![n] = "closed"] /\ UNCHANGED <<app, heard>>
    BY <1>4 DEF Close
  <2> QED
    BY <2>1
<1>5. CASE UNCHANGED <<udp, app, heard, closed>>
  BY <1>5
<1> QED
  BY <1>1, <1>2, <1>3, <1>4, <1>5, SocketSteps

-----------------------------------------------------------------------------
LEMMA Once == PartsOK /\ Phased /\ Handler => HeardOnce
<1> SUFFICES ASSUME PartsOK, Phased, Handler, NEW n \in Node
             PROVE  /\ "bind" \notin hasty[n] => heard[n] <= 1
                    /\ n \in app /\ Direct(n) /\ n \notin closed => heard[n] >= 1
  BY DEF HeardOnce
<1>1. Direct(n) /\ n \notin closed => udp[n] = "open"
  BY DEF PartsOK, SocketsOK, Phased, Direct
<1> QED
  BY <1>1 DEF Handler

(* For whatever nodes, options and bounds the application hears a datagram   *)
(* once, and is not left without a handler on a direct connection: bind may  *)
(* come before, during or after connect.  Only one that comes while the      *)
(* socket is being bound puts the handler on it twice.                       *)
THEOREM HandlerHeardOnce == Spec => []HeardOnce
<1>1. Init => PartsOK /\ Phased /\ Handler
  <2>1. Init => Handler
    BY DEF Init, Handler
  <2> QED
    BY <2>1, InitParts
<1>2. PartsOK /\ Phased /\ Handler /\ [Next]_vars => (PartsOK /\ Phased /\ Handler)'
  BY NextParts, NextPhased, NextHandler
<1> QED
  BY <1>1, <1>2, Once, PTL DEF Spec

-----------------------------------------------------------------------------
(* Whether a node punches or talks directly changes only when it starts to  *)
(* punch and when punch ends; nothing ends a direct connection.             *)
Talks(n) == phase[n] = "punch" \/ Direct(n)

Still == \A n \in Node : /\ phase'[n] = "punch" <=> phase[n] = "punch"
                         /\ Direct(n)' <=> Direct(n)

LEMMA Stills ==
  ASSUME PartsOK, Phased, [Next]_vars
  PROVE  Still \/ \E n \in Node : (Found(n) /\ Punch(n)) \/ Punched(n) \/ NotPunched(n)
<1> USE DEF PartsOK, CallsOK, ConnectionsOK, Phased, Still, Direct, Goes, clients, relaying
<1>1. ASSUME NEW n \in Node,
             Connect(n) \/ Bound(n) \/ Discovered(n) \/ SignalingFails(n) \/ Registered(n)
      PROVE  Still
  <2>1. /\ phase[n] \in {"idle", "bind", "stun", "register", "request", "failed"}
        /\ UNCHANGED relay
        /\ \E p \in Phases \ {"punch", "done"} : phase' = [phase EXCEPT ![n] = p]
    BY <1>1 DEF Connect, Bound, Discovered, SignalingFails, SigFails, Registered, Phases
  <2> QED
    BY <2>1
<1>2. ASSUME NEW n \in Node, RegisterTimeout(n)
      PROVE  Still
  <2>1. /\ phase[n] = "register" /\ UNCHANGED relay
        /\ phase' = [phase EXCEPT ![n] = "failed"]
    BY <1>2 DEF RegisterTimeout
  <2> QED
    BY <2>1
<1>3. ASSUME NEW n \in Node, Found(n), ~Punch(n)
      PROVE  Still
  BY <1>3 DEF Found, SetupRelay, RelayConnect
<1>4. ASSUME NEW n \in Node, Rejects(n)
      PROVE  Still
  BY <1>4, RejectionWorks DEF Rejected, SetupRelay, RelayConnect
<1>5. ASSUME NEW n \in Node, SignalingLost(n)
      PROVE  Still
  <2>1. UNCHANGED <<phase, relay>>
    BY <1>5 DEF SignalingLost
  <2> QED
    BY <2>1
<1>6. ASSUME NEW n \in Node, RelayUp(n)
      PROVE  Still
  BY <1>6 DEF RelayUp, RelayOpens
<1>7. ASSUME NEW n \in Node, RelayIdentified(n)
      PROVE  Still
  <2>1. /\ relay[n] = "open" /\ UNCHANGED relay
        /\ \/ phase[n] = "relay" /\ phase' = [phase EXCEPT ![n] = "done"]
           \/ UNCHANGED phase
    BY <1>7 DEF RelayIdentified, Identified, Arrives
  <2> QED
    BY <2>1
<1>8. ASSUME NEW n \in Node, RelayDies(n)
      PROVE  Still
  BY <1>8 DEF RelayDies, RelayLost
<1>9. ASSUME NEW n \in Node, Close(n)
      PROVE  Still
  <2>1. /\ relay' = [relay EXCEPT ![n] = IF relay[n] = "none" THEN "none" ELSE "closed"]
        /\ \/ UNCHANGED phase
           \/ relay[n] = "connecting" /\ phase' = [phase EXCEPT ![n] = "failed"]
    BY <1>9 DEF Close, RelayClose
  <2> QED
    BY <2>1
<1>10. ASSUME NEW n \in Node,
              AppBind(n) \/ Send(n) \/ Serve(n) \/ PassedOver(n) \/ Probe(n) \/ ProbeLost(n)
                \/ SignalingOpens(n) \/ AnswerIgnored(n) \/ Retry(n) \/ Silent(n)
                \/ RelayDelivers(n)
       PROVE  Still
  <2>1. UNCHANGED <<phase, relay>>
    BY <1>10 DEF AppBind, Send, Serve, PassedOver, Probe, ProbeLost, SignalingOpens,
       AnswerIgnored, Retry, Silent, RelayDelivers, RelaySend, RelayData
  <2> QED
    BY <2>1
<1>11. CASE UNCHANGED vars
  <2>1. UNCHANGED <<phase, relay>>
    BY <1>11 DEF vars
  <2> QED
    BY <2>1
<1> QED
  BY <1>1, <1>2, <1>3, <1>4, <1>5, <1>6, <1>7, <1>8, <1>9, <1>10, <1>11
     DEF Next, Progress, Rejects

-----------------------------------------------------------------------------
(* Probes are sent by who punches or talks directly, and on their way only  *)
(* from there, unless a timeout cut punch short.                            *)
Probing ==
  \A n \in Node :
    /\ n \in listens => n \in probing \/ n \in closed
    /\ n \in probing => Talks(n)
    /\ n \in probes => Talks(n) \/ "raced" \in hasty[n]

(* The other end of a direct connection talks directly too or will: it      *)
(* punches and this end still answers.                                      *)
Excused(n) ==
  \/ "unheard" \in hasty[n] \/ "raced" \in hasty[Other[n]]
  \/ n \in closed \/ Other[n] \in closed

Answered(n) == Talks(Other[n]) /\ (phase[Other[n]] = "punch" => n \in probing)

Agree == \A n \in Node : Direct(n) => Excused(n) \/ Answered(n)

(* What a node that ends punch does to its modes. *)
LEMMA PunchedEffect ==
  ASSUME PartsOK, Phased, NEW n \in Node, Punched(n)
  PROVE  /\ n \in listens /\ Other[n] \in probes
         /\ probes' = probes \ {Other[n]} /\ listens' = listens \ {n}
         /\ UNCHANGED <<probing, closed, hasty>>
         /\ Direct(n)' /\ phase'[n] = "done" /\ phase[n] = "punch"
         /\ \A m \in Node \ {n} : phase'[m] = phase[m] /\ (Direct(m)' <=> Direct(m))
<1> USE DEF PartsOK, CallsOK, Phased
<1>1. /\ n \in listens /\ Other[n] \in probes
      /\ probes' = probes \ {Other[n]} /\ listens' = listens \ {n}
      /\ UNCHANGED <<probing, closed, hasty>>
  BY DEF Punched, Hears, transport
<1>2. phase' = [phase EXCEPT ![n] = "done"] /\ UNCHANGED relay
  BY DEF Punched, Goes, relaying
<1>3. relay[n] = "none" /\ phase[n] = "punch"
  BY <1>1
<1> QED
  BY <1>1, <1>2, <1>3 DEF Direct

LEMMA NotPunchedEffect ==
  ASSUME PartsOK, Phased, NEW n \in Node, NotPunched(n)
  PROVE  /\ n \in listens /\ phase[n] = "punch" /\ ~Talks(n)'
         /\ listens' = listens \ {n} /\ probing' = probing \ {n}
         /\ UNCHANGED <<probes, closed>>
         /\ n \in probes \/ Other[n] \in probing \ listens => "raced" \in hasty'[n]
         /\ \A m \in Node \ {n} : phase'[m] = phase[m] /\ (Direct(m)' <=> Direct(m))
<1> USE DEF PartsOK, CallsOK, Phased, ConnectionsOK
<1>1. /\ n \in listens
      /\ listens' = listens \ {n} /\ probing' = probing \ {n}
      /\ UNCHANGED <<probes, closed>>
  BY DEF NotPunched, GivesUp, transport
<1>2. phase' = [phase EXCEPT ![n] = "relay"] /\ relay' = [relay EXCEPT ![n] = "connecting"]
  BY DEF NotPunched, SetupRelay, RelayConnect, Goes
<1>3. n \in probes \/ Other[n] \in probing \ listens => "raced" \in hasty'[n]
  BY DEF NotPunched, Notes
<1> QED
  BY <1>1, <1>2, <1>3 DEF Direct, Talks

LEMMA PunchEffect ==
  ASSUME PartsOK, Phased, NEW n \in Node, Found(n), Punch(n)
  PROVE  /\ phase'[n] = "punch" /\ ~Direct(n) /\ ~Direct(n)'
         /\ UNCHANGED <<closed, hasty>>
         /\ listens' = listens \union {n}
         /\ probing' = probing \union {n} /\ probes' = probes \union {n}
         /\ \A m \in Node \ {n} : phase'[m] = phase[m] /\ (Direct(m)' <=> Direct(m))
<1> USE DEF PartsOK, CallsOK, Phased
<1>1. phase[n] = "request" /\ UNCHANGED <<closed, hasty>>
  BY DEF Found
<1>2. /\ listens' = listens \union {n}
      /\ probing' = probing \union {n} /\ probes' = probes \union {n}
  BY DEF Punch
<1>3. n \notin listens
  BY <1>1
<1>4. phase' = [phase EXCEPT ![n] = "punch"] /\ UNCHANGED relay
  BY <1>2, <1>3 DEF Found, Goes, puncher, relaying
<1> QED
  BY <1>1, <1>2, <1>4 DEF Direct

(* The steps of the puncher that change no mode. *)
LEMMA ProbeEffects ==
  ASSUME PartsOK, Phased, [Next]_vars, Still
  PROVE  \/ UNCHANGED <<listens, probing, probes>>
         \/ \E n \in Node :
              /\ UNCHANGED <<listens, closed>>
              /\ \/ n \in probing /\ probes' = probes \union {n} /\ UNCHANGED probing
                 \/ udp[n] # "open" /\ probing' = probing \ {n} /\ UNCHANGED probes
                 \/ probes' = probes \ {n} /\ UNCHANGED probing
                 \/ /\ probing' = probing \ {n} /\ UNCHANGED probes
                    /\ n \notin listens
                    /\ Other[n] \in listens => "unheard" \in hasty'[n]
<1> USE DEF PartsOK, CallsOK
<1>1. ASSUME NEW n \in Node, Found(n), Punch(n)
      PROVE  FALSE
  BY <1>1, PunchEffect DEF Still, Found
<1>2. ASSUME NEW n \in Node, Punched(n)
      PROVE  FALSE
  BY <1>2, PunchedEffect DEF Still
<1>3. ASSUME NEW n \in Node, NotPunched(n)
      PROVE  FALSE
  BY <1>3, NotPunchedEffect DEF Still, Talks
<1>4. ASSUME NEW n \in Node, Silent(n)
      PROVE  /\ UNCHANGED <<listens, closed>>
             /\ probing' = probing \ {n} /\ UNCHANGED probes
             /\ n \notin listens
             /\ Other[n] \in listens => "unheard" \in hasty'[n]
  <2>1. /\ UNCHANGED <<listens, closed>> /\ n \notin listens
        /\ probing' = probing \ {n} /\ UNCHANGED probes
    BY <1>4 DEF Silent, GraceEnds, transport
  <2>2. Other[n] \in listens => "unheard" \in hasty'[n]
    BY <1>4 DEF Silent, Notes
  <2> QED
    BY <2>1, <2>2
<1>5. ASSUME NEW n \in Node, Probe(n)
      PROVE  /\ UNCHANGED <<listens, closed>>
             /\ \/ n \in probing /\ probes' = probes \union {n} /\ UNCHANGED probing
                \/ udp[n] # "open" /\ probing' = probing \ {n} /\ UNCHANGED probes
  BY <1>5 DEF Probe, SendProbe, transport
<1>6. ASSUME NEW n \in Node, ProbeLost(n)
      PROVE  /\ UNCHANGED <<listens, closed>>
             /\ probes' = probes \ {n} /\ UNCHANGED probing
  BY <1>6 DEF ProbeLost, LoseProbe, transport
<1> QED
  BY <1>1, <1>2, <1>3, <1>4, <1>5, <1>6, PuncherSteps

LEMMA ClosedGrows ==
  ASSUME [Next]_vars
  PROVE  closed \subseteq closed'
BY SocketSteps DEF Connect, Bound, AppBind, Close

LEMMA NextProbing == PartsOK /\ Phased /\ Probing /\ [Next]_vars => Probing'
<1> SUFFICES ASSUME PartsOK, Phased, Probing, [Next]_vars
             PROVE  Probing'
  OBVIOUS
<1> USE HastyGrows, ClosedGrows DEF Probing, Talks
<1>1. ASSUME NEW n \in Node, Found(n), Punch(n)
      PROVE  Probing'
  BY <1>1, PunchEffect
<1>2. ASSUME NEW n \in Node, Punched(n)
      PROVE  Probing'
  BY <1>2, PunchedEffect
<1>3. ASSUME NEW n \in Node, NotPunched(n)
      PROVE  Probing'
  BY <1>3, NotPunchedEffect
<1>4. ASSUME Still
      PROVE  Probing'
  <2>1. \A n \in Node : Talks(n)' <=> Talks(n)
    BY <1>4 DEF Still
  <2>2. \A n \in Node : n \in listens /\ n \notin closed => udp[n] = "open"
    BY DEF Phased, PartsOK, SocketsOK
  <2> QED
    BY <1>4, <2>1, <2>2, ProbeEffects
<1> QED
  BY <1>1, <1>2, <1>3, <1>4, Stills

LEMMA NextAgree == PartsOK /\ Phased /\ Probing /\ Agree /\ [Next]_vars => Agree'
<1> SUFFICES ASSUME PartsOK, Phased, Probing, Agree, [Next]_vars, NEW n \in Node, Direct(n)'
             PROVE  (Excused(n) \/ Answered(n))'
  BY DEF Agree
<1> DEFINE m == Other[n]
<1>0. m \in Node /\ Other[m] = n
  BY Others
<1> HIDE DEF m
<1>a. Excused(n) => Excused(n)'
  BY <1>0, HastyGrows, ClosedGrows DEF Excused, m
<1>1. ASSUME NEW k \in Node, Found(k), Punch(k)
      PROVE  (Excused(n) \/ Answered(n))'
  BY <1>0, <1>1, <1>a, PunchEffect DEF Agree, Answered, Talks, m
<1>2. ASSUME NEW k \in Node, Punched(k)
      PROVE  (Excused(n) \/ Answered(n))'
  BY <1>0, <1>2, <1>a, PunchedEffect DEF Agree, Answered, Excused, Talks, Probing, m
<1>3. ASSUME NEW k \in Node, NotPunched(k)
      PROVE  (Excused(n) \/ Answered(n))'
  BY <1>0, <1>3, <1>a, NotPunchedEffect DEF Agree, Answered, Excused, Talks, Phased, Direct, m
<1>4. CASE Still
  <2>1. Direct(n) /\ (Talks(m)' <=> Talks(m)) /\ (phase'[m] = "punch" <=> phase[m] = "punch")
    BY <1>0, <1>4 DEF Still, Talks
  <2>2. n \notin closed => udp[n] = "open"
    BY <2>1 DEF Phased, PartsOK, SocketsOK, Direct
  <2>3. phase[m] = "punch" <=> m \in listens
    BY <1>0 DEF Phased
  <2> QED
    BY <1>0, <1>4, <1>a, <2>1, <2>2, <2>3, ProbeEffects, ClosedGrows
       DEF Agree, Answered, Excused, m
<1> QED
  BY <1>1, <1>2, <1>3, <1>4, Stills

-----------------------------------------------------------------------------
LEMMA Agreed == Agree => SameMode
BY Others DEF Agree, Excused, Answered, Talks, SameMode, Direct, Relayed

(* The two ends of a connection do not end up one on the direct path and    *)
(* the other on the relay, for whatever nodes and options, but for the lost *)
(* grace, the race of a timeout and the close that SameMode names.          *)
THEOREM EndsAgree == Spec => []SameMode
<1>1. Init => PartsOK /\ Phased /\ Probing /\ Agree
  <2>1. Init => Probing /\ Agree
    BY DEF Init, PuncherInit, Probing, Agree, Direct
  <2> QED
    BY <2>1, InitParts
<1>2. PartsOK /\ Phased /\ Probing /\ Agree /\ [Next]_vars =>
        (PartsOK /\ Phased /\ Probing /\ Agree)'
  BY NextParts, NextPhased, NextProbing, NextAgree
<1> QED
  BY <1>1, <1>2, Agreed, PTL DEF Spec

-----------------------------------------------------------------------------
(* Channels, one for each node, and what is on one. *)
Channel(S) == [Node -> Seq(S)]

Said(s) == {s[i] : i \in DOMAIN s}

LEMMA Puts ==
  ASSUME NEW S, NEW c \in Channel(S), NEW n \in Node, NEW m \in S
  PROVE  /\ Put(c, n, m) \in Channel(S)
         /\ Said(Put(c, n, m)[n]) = Said(c[n]) \union {m}
         /\ c[n] = <<>> => Put(c, n, m)[n] = <<m>>
         /\ \A k \in Node \ {n} : Put(c, n, m)[k] = c[k]
<1> USE DEF Channel
<1>1. Put(c, n, m) \in Channel(S)
  BY DEF Put
<1>2. Put(c, n, m)[n] = Append(c[n], m) /\ \A k \in Node \ {n} : Put(c, n, m)[k] = c[k]
  BY DEF Put
<1>3. Said(Append(c[n], m)) = Said(c[n]) \union {m}
  <2> DEFINE s == c[n]
  <2>1. s \in Seq(S)
    OBVIOUS
  <2> HIDE DEF s
  <2>2. DOMAIN s = 1..Len(s) /\ DOMAIN Append(s, m) = 1..Len(s) + 1 /\ Len(s) \in Nat
    BY <2>1
  <2>3. /\ \A i \in 1..Len(s) : Append(s, m)[i] = s[i]
        /\ Append(s, m)[Len(s) + 1] = m
    BY <2>1
  <2>4. Said(Append(s, m)) \subseteq Said(s) \union {m}
    BY <2>2, <2>3 DEF Said
  <2>5. Said(s) \union {m} \subseteq Said(Append(s, m))
    BY <2>2, <2>3 DEF Said
  <2> QED
    BY <2>4, <2>5 DEF s
<1>4. Append(<<>>, m) = <<m>>
  OBVIOUS
<1> QED
  BY <1>1, <1>2, <1>3, <1>4

LEMMA Takes ==
  ASSUME NEW S, NEW c \in Channel(S), NEW n \in Node, c[n] # <<>>
  PROVE  /\ Took(c, n) \in Channel(S)
         /\ Head(c[n]) \in S /\ Head(c[n]) \in Said(c[n])
         /\ Said(Took(c, n)[n]) \subseteq Said(c[n])
         /\ \A k \in Node \ {n} : Took(c, n)[k] = c[k]
<1> USE DEF Channel
<1>1. Took(c, n) \in Channel(S)
  BY DEF Took
<1>2. Took(c, n)[n] = Tail(c[n]) /\ \A k \in Node \ {n} : Took(c, n)[k] = c[k]
  BY DEF Took
<1>3. Head(c[n]) \in S /\ Head(c[n]) \in Said(c[n])
  BY DEF Said
<1>4. Said(Tail(c[n])) \subseteq Said(c[n])
  BY DEF Said
<1> QED
  BY <1>1, <1>2, <1>3, <1>4

LEMMA Nobody == Said(<<>>) = {}
BY DEF Said

-----------------------------------------------------------------------------
(* A node's own path through connect, as far as signaling sees it.          *)
Early == {"idle", "bind", "stun"}

Asks(n) == phase[n] \in {"request", "punch"} \/ relay[n] # "none"

LEMMA PhaseOrder ==
  ASSUME PartsOK, Phased, [Next]_vars, NEW k \in Node
  PROVE  /\ phase'[k] \in Early => phase[k] \in Early
         /\ phase'[k] = "register" => phase[k] \in Early \union {"register"}
         /\ phase'[k] = "request" => phase[k] = "request" \/ Registered(k)
         /\ Asks(k)' => Asks(k) \/ Registered(k)
         /\ relay[k] # "none" => relay'[k] # "none"
         /\ Relayed(k)' => \/ Relayed(k) \/ RelayIdentified(k)
                           \/ RelayUp(k) /\ waits[k] = "open"
<1> DEFINE Ordered == /\ phase'[k] \in Early => phase[k] \in Early
                      /\ phase'[k] = "register" => phase[k] \in Early \union {"register"}
                      /\ phase'[k] = "request" => phase[k] = "request" \/ Registered(k)
                      /\ Asks(k)' => Asks(k) \/ Registered(k)
                      /\ relay[k] # "none" => relay'[k] # "none"
                      /\ Relayed(k)' => \/ Relayed(k) \/ RelayIdentified(k)
                                        \/ RelayUp(k) /\ waits[k] = "open"
<1> SUFFICES Ordered
  OBVIOUS
<1> USE DEF PartsOK, CallsOK, ConnectionsOK, Phased, Early, Asks, Relayed, Goes, clients,
            relaying
<1>1. ASSUME NEW n \in Node, Connect(n) \/ Bound(n)
      PROVE  Ordered
  <2>1. /\ phase[n] \in Early /\ UNCHANGED relay
        /\ \E p \in Early : phase' = [phase EXCEPT ![n] = p]
    BY <1>1 DEF Connect, Bound
  <2> QED
    BY <2>1
<1>2. ASSUME NEW n \in Node, Discovered(n) \/ SignalingFails(n) \/ RegisterTimeout(n)
      PROVE  Ordered
  <2>1. /\ UNCHANGED relay
        /\ \/ phase[n] = "stun" /\ phase' = [phase EXCEPT ![n] = "register"]
           \/ phase' = [phase EXCEPT ![n] = "failed"]
    BY <1>2 DEF Discovered, SignalingFails, RegisterTimeout
  <2> QED
    BY <2>1
<1>3. ASSUME NEW n \in Node, Registered(n)
      PROVE  Ordered
  <2>1. UNCHANGED relay /\ phase' = [phase EXCEPT ![n] = "request"]
    BY <1>3 DEF Registered
  <2> QED
    BY <1>3, <2>1
<1>4. ASSUME NEW n \in Node, Found(n)
      PROVE  Ordered
  <2>1. /\ phase[n] = "request"
        /\ \/ UNCHANGED relay
           \/ relay' = [relay EXCEPT ![n] = "connecting"]
        /\ \E p \in {"punch", "relay", "failed"} : phase' = [phase EXCEPT ![n] = p]
    BY <1>4 DEF Found, SetupRelay, RelayConnect
  <2> QED
    BY <2>1
<1>5. ASSUME NEW n \in Node, Rejects(n)
      PROVE  Ordered
  <2>1. /\ phase[n] = "request"
        /\ \/ UNCHANGED <<relay, phase>>
           \/ /\ relay' = [relay EXCEPT ![n] = "connecting"]
              /\ phase' = [phase EXCEPT ![n] = "relay"]
    BY <1>5, RejectionWorks DEF Rejected, SetupRelay, RelayConnect
  <2> QED
    BY <2>1
<1>6. ASSUME NEW n \in Node, Punched(n)
      PROVE  Ordered
  <2>1. UNCHANGED relay /\ phase' = [phase EXCEPT ![n] = "done"] /\ phase[n] = "punch"
    BY <1>6 DEF Punched, Hears
  <2> QED
    BY <2>1
<1>7. ASSUME NEW n \in Node, NotPunched(n)
      PROVE  Ordered
  <2>1. /\ phase[n] = "punch" /\ phase' = [phase EXCEPT ![n] = "relay"]
        /\ relay' = [relay EXCEPT ![n] = "connecting"]
    BY <1>7 DEF NotPunched, GivesUp, SetupRelay, RelayConnect
  <2> QED
    BY <2>1
<1>8. ASSUME NEW n \in Node, RelayUp(n) \/ RelayIdentified(n)
      PROVE  Ordered
  <2>1. /\ UNCHANGED relay \/ relay' = [relay EXCEPT ![n] = "open"]
        /\ relay[n] # "none"
        /\ \/ UNCHANGED phase
           \/ /\ phase' = [phase EXCEPT ![n] = "done"]
              /\ RelayUp(n) => waits[n] = "open"
    BY <1>8 DEF RelayUp, RelayOpens, RelayIdentified, Identified, Arrives
  <2> QED
    BY <1>8, <2>1
<1>11. ASSUME NEW n \in Node, RelayDies(n) \/ Close(n)
       PROVE  Ordered
  <2>1. CASE RelayDies(n)
    <3>1. /\ relay[n] # "none" /\ relay' = [relay EXCEPT ![n] = "dead"]
          /\ UNCHANGED phase \/ phase' = [phase EXCEPT ![n] = "failed"]
      BY <2>1 DEF RelayDies, RelayLost
    <3> QED
      BY <3>1
  <2>2. CASE Close(n)
    <3>1. relay' = [relay EXCEPT ![n] = IF relay[n] = "none" THEN "none" ELSE "closed"]
      BY <2>2 DEF Close, RelayClose
    <3>2. UNCHANGED phase \/ phase' = [phase EXCEPT ![n] = "failed"]
      BY <2>2 DEF Close
    <3> QED
      BY <3>1, <3>2
  <2> QED
    BY <1>11, <2>1, <2>2
<1>9. ASSUME NEW n \in Node,
             AppBind(n) \/ Send(n) \/ Serve(n) \/ PassedOver(n) \/ SignalingLost(n) \/ Probe(n)
               \/ ProbeLost(n) \/ SignalingOpens(n) \/ AnswerIgnored(n) \/ Retry(n) \/ Silent(n)
               \/ RelayDelivers(n)
      PROVE  Ordered
  <2>1. UNCHANGED <<phase, relay>>
    BY <1>9 DEF AppBind, Send, Serve, PassedOver, SignalingLost, Probe, ProbeLost, SignalingOpens,
       AnswerIgnored, Retry, Silent, RelayDelivers, RelaySend, RelayData
  <2> QED
    BY <2>1
<1>10. CASE UNCHANGED vars
  <2>1. UNCHANGED <<phase, relay>>
    BY <1>10 DEF vars
  <2> QED
    BY <2>1
<1> QED
  BY <1>1, <1>2, <1>3, <1>4, <1>5, <1>6, <1>7, <1>8, <1>9, <1>10, <1>11
     DEF Next, Progress, Rejects

-----------------------------------------------------------------------------
(* What a step does to signaling, whichever action it is. *)
Fails(n) ==
  /\ sig[n] = "connecting" /\ sig' = [sig EXCEPT ![n] = "dead"]
  /\ UNCHANGED waiting \/ SigSettled(n)
  /\ UNCHANGED <<asked, answers, gone, registry>>

Requests(n) == SigRequest(n) /\ UNCHANGED <<gone, registry>>

Hangs(n) == SigClose(n) /\ UNCHANGED <<asked, registry>>

Settles(n) ==
  /\ UNCHANGED waiting \/ SigSettled(n)
  /\ UNCHANGED answers \/ (answers[n] # <<>> /\ answers' = Took(answers, n))
  /\ UNCHANGED <<sig, asked, gone, registry>>

LEMMA SignalingSteps ==
  ASSUME PartsOK, [Next]_vars
  PROVE  \/ /\ UNCHANGED <<sig, waiting, asked, answers, gone>>
            /\ UNCHANGED registry \/ \E n \in Node : ServerRelays(n, RelayOpen)
         \/ \E n \in Node :
              \/ /\ phase[n] = "stun" /\ phase'[n] = "register" /\ SigConnect(n)
                 /\ UNCHANGED <<asked, answers, gone, registry>>
              \/ /\ phase[n] = "register" /\ SigOpens(n, "register", "registered")
                 /\ UNCHANGED <<phase, answers, gone, registry>>
              \/ /\ phase[n] = "request" /\ SigOpens(n, "request", "peer_endpoint")
                 /\ UNCHANGED <<phase, answers, gone, registry>>
              \/ Fails(n)
              \/ /\ Registered(n) /\ answers[n] # <<>> /\ phase'[n] = "request"
                 /\ answers' = Took(answers, n) /\ Requests(n)
              \/ phase[n] = "request" /\ UNCHANGED <<phase, answers>> /\ Requests(n)
              \/ phase[n] = "request" /\ phase'[n] # "request" /\ Hangs(n)
              \/ Settles(n)
              \/ SigLost(n) /\ UNCHANGED <<phase, registry>>
              \/ ServerAnswers(n, SigOpen) /\ UNCHANGED <<phase, sig, waiting>>
              \/ ServerHangsUp(n) /\ UNCHANGED <<phase, sig, waiting>>
<1> USE DEF PartsOK, CallsOK, signaling, server
<1>1. ASSUME NEW n \in Node, Discovered(n)
      PROVE  /\ phase[n] = "stun" /\ phase'[n] = "register" /\ SigConnect(n)
             /\ UNCHANGED <<asked, answers, gone, registry>>
  BY <1>1 DEF Discovered, Goes
<1>2. ASSUME NEW n \in Node, SignalingOpens(n)
      PROVE  /\ UNCHANGED <<phase, answers, gone, registry>>
             /\ \/ phase[n] = "register" /\ SigOpens(n, "register", "registered")
                \/ phase[n] = "request" /\ SigOpens(n, "request", "peer_endpoint")
  BY <1>2 DEF SignalingOpens
<1>3. ASSUME NEW n \in Node, SignalingFails(n)
      PROVE  Fails(n)
  BY <1>3 DEF SignalingFails, SigFails, Fails
<1>4. ASSUME NEW n \in Node, Registered(n)
      PROVE  /\ answers[n] # <<>> /\ phase'[n] = "request"
             /\ answers' = Took(answers, n) /\ Requests(n)
  BY <1>4 DEF Registered, Accepted, Goes, SigTakes, Request, Requests
<1>5. ASSUME NEW n \in Node, Retry(n)
      PROVE  phase[n] = "request" /\ UNCHANGED <<phase, answers>> /\ Requests(n)
  BY <1>5 DEF Retry, Request, Requests
<1>6. ASSUME NEW n \in Node, Found(n)
      PROVE  phase[n] = "request" /\ phase'[n] # "request" /\ Hangs(n)
  BY <1>6 DEF Found, SetupRelay, Goes, Hangs
<1>7. ASSUME NEW n \in Node, Rejects(n), ~(tries[n] < Tries[n])
      PROVE  phase[n] = "request" /\ phase'[n] # "request" /\ Hangs(n)
  BY <1>7, RejectionWorks DEF Rejected, SetupRelay, Goes, Hangs
<1>8. ASSUME NEW n \in Node, Rejects(n), tries[n] < Tries[n]
      PROVE  Fails(n) \/ Settles(n)
  <2>1. [sig EXCEPT ![n] = sig[n]] = sig
    BY DEF ConnectionsOK
  <2>2. CASE NotFound(n)
    BY <1>8, <2>1, <2>2 DEF NotFound, Rejected, Refused, Settles
  <2>3. CASE RequestTimeout(n)
    BY <1>8, <2>1, <2>3 DEF RequestTimeout, Rejected, Settles
  <2>4. CASE ReconnectFails(n)
    BY <1>8, <2>4 DEF ReconnectFails, Rejected, Fails
  <2> QED
    BY <1>8, <2>2, <2>3, <2>4 DEF Rejects
<1>9. ASSUME NEW n \in Node, RegisterTimeout(n)
      PROVE  Settles(n)
  BY <1>9 DEF RegisterTimeout, Settles
<1>10. ASSUME NEW n \in Node, AnswerIgnored(n)
       PROVE  Settles(n)
  BY <1>10 DEF AnswerIgnored, Ignored, SigTakes, Settles
<1>11. ASSUME NEW n \in Node, Serve(n)
       PROVE  \/ ServerAnswers(n, SigOpen) /\ UNCHANGED <<phase, sig, waiting>>
              \/ ServerHangsUp(n) /\ UNCHANGED <<phase, sig, waiting>>
              \/ ServerRelays(n, RelayOpen) /\ UNCHANGED <<sig, waiting, asked, answers, gone>>
  BY <1>11 DEF Serve, ServerRelays
<1>12. ASSUME NEW n \in Node,
              Connect(n) \/ Bound(n) \/ AppBind(n) \/ Send(n) \/ Close(n) \/ PassedOver(n)
                \/ Probe(n) \/ ProbeLost(n) \/ Punched(n) \/ Silent(n) \/ NotPunched(n)
                \/ RelayUp(n) \/ RelayIdentified(n) \/ RelayDelivers(n) \/ RelayDies(n)
       PROVE  UNCHANGED <<sig, waiting, asked, answers, gone, registry>>
  BY <1>12 DEF Connect, Bound, AppBind, Send, Close, PassedOver, Probe, ProbeLost, Punched,
     Silent, NotPunched, RelayUp, RelayIdentified, RelayDelivers, RelayDies, clients
<1>13. CASE UNCHANGED vars
  BY <1>13 DEF vars, clients
<1>14. ASSUME NEW n \in Node, SignalingLost(n)
       PROVE  SigLost(n) /\ UNCHANGED <<phase, registry>>
  BY <1>14 DEF SignalingLost
<1> QED
  BY <1>1, <1>2, <1>3, <1>4, <1>5, <1>6, <1>7, <1>8, <1>9, <1>10, <1>11, <1>12, <1>13, <1>14
     DEF Next, Progress, Rejects

-----------------------------------------------------------------------------
(* Types of signaling, and what is said on it by when. *)
Questions == {"register", "request"}
Replies == {"registered", "peer_endpoint", "error"}

SignalingOK ==
  /\ registry \in [Node -> {"none", "signaling", "closed", "relay"}]
  /\ asked \in Channel(Questions)
  /\ answers \in Channel(Replies)
  /\ waiting \in [Node -> {"nothing", "registered", "peer_endpoint"}]
  /\ gone \subseteq Node

(* Who waits, waits on a WebSocket that had opened, and nothing comes on one *)
(* that is not open; before the first one is, nothing was said.              *)
LinesOK ==
  \A n \in Node :
    /\ phase[n] \in Early => sig[n] = "none"
    /\ phase[n] \in Early \/ (phase[n] = "register" /\ sig[n] = "connecting") =>
         asked[n] = <<>>
    /\ answers[n] # <<>> => sig[n] = "open"
    /\ waiting[n] # "nothing" => sig[n] \in {"open", "dead"}

(* The server hears "register" once and first, from whoever was answered and *)
(* whoever asks for more; who registered is known to a server that forgets   *)
(* nobody.                                                                   *)
Known(n) == (Forgets \/ registry[n] # "none") /\ "register" \notin Said(asked[n])

Registration ==
  \A n \in Node :
    /\ answers[n] # <<>> \/ Asks(n) => Known(n)
    /\ "request" \in Said(asked[n]) => Known(n)
    /\ "register" \in Said(asked[n]) => asked[n] = <<"register">>

LEMMA Answering ==
  ASSUME SignalingOK, NEW n \in Node, ServerAnswers(n, SigOpen)
  PROVE  /\ asked[n] # <<>> /\ asked' = Took(asked, n) /\ UNCHANGED gone
         /\ UNCHANGED answers \/ \E m \in Replies : sig[n] = "open" /\ answers' = Put(answers, n, m)
         /\ \/ /\ Head(asked[n]) = "register"
               /\ registry' = [registry EXCEPT ![n] = "signaling"]
            \/ Head(asked[n]) = "request" /\ UNCHANGED registry
<1>1. asked[n] # <<>> /\ asked' = Took(asked, n) /\ UNCHANGED gone
  BY DEF ServerAnswers
<1>2. Head(asked[n]) \in Questions
  BY <1>1, Takes DEF SignalingOK
<1>3. CASE Head(asked[n]) = "register"
  BY <1>1, <1>3 DEF ServerAnswers, Reply, SigOpen, Replies
<1>4. CASE Head(asked[n]) = "request"
  BY <1>1, <1>4 DEF ServerAnswers, Reply, SigOpen, Replies
<1> QED
  BY <1>1, <1>2, <1>3, <1>4 DEF Questions

LEMMA Relaying ==
  ASSUME NEW n \in Node, ServerRelays(n, RelayOpen)
  PROVE  /\ frames[n] # <<>> /\ frames' = Took(frames, n)
         /\ \/ /\ Head(frames[n]) = Identify
               /\ registry' = [registry EXCEPT ![n] =
                                 IF registry[n] = "none" THEN "none" ELSE "relay"]
               /\ \/ UNCHANGED incoming
                  \/ relay[n] = "open" /\ incoming' = Put(incoming, n, Identify)
            \/ /\ Head(frames[n]) # Identify /\ UNCHANGED registry
               /\ \/ /\ UNCHANGED incoming
                     /\ ~(registry[Other[n]] = "relay" /\ relay[Other[n]] = "open")
                  \/ /\ registry[Other[n]] = "relay" /\ relay[Other[n]] = "open"
                     /\ incoming' = Put(incoming, Other[n], Head(frames[n]))
<1>1. frames[n] # <<>> /\ frames' = Took(frames, n)
  BY DEF ServerRelays
<1>2. CASE Head(frames[n]) = Identify
  BY <1>1, <1>2 DEF ServerRelays, RelayOpen
<1>3. CASE Head(frames[n]) # Identify
  <2>1. Other[n] \in Node
    BY Others
  <2> QED
    BY <1>1, <1>3, <2>1 DEF ServerRelays, RelayOpen
<1> QED
  BY <1>1, <1>2, <1>3

LEMMA InitSignaling == Init => SignalingOK /\ LinesOK
BY DEF Init, ServerInit, SignalingInit, RelayInit, SignalingOK, LinesOK, Channel, Early

(* A question is put, or the WebSocket for it is made. *)
LEMMA Asked ==
  ASSUME SignalingOK, NEW n \in Node, NEW m \in Questions, asked' = Put(asked, n, m)
  PROVE  /\ asked' \in Channel(Questions)
         /\ Said(asked'[n]) = Said(asked[n]) \union {m}
         /\ asked[n] = <<>> => asked'[n] = <<m>>
         /\ \A k \in Node \ {n} : asked'[k] = asked[k]
<1>1. asked \in Channel(Questions)
  BY DEF SignalingOK
<1> QED
  BY <1>1, Puts

LEMMA Requesting ==
  ASSUME SignalingOK, NEW n \in Node, Requests(n)
  PROVE  /\ UNCHANGED <<gone, registry>> /\ asked' \in Channel(Questions)
         /\ Said(asked'[n]) \subseteq Said(asked[n]) \union {"request"}
         /\ \A k \in Node \ {n} : asked'[k] = asked[k]
         /\ \/ /\ sig[n] = "open" /\ UNCHANGED sig
               /\ waiting' = [waiting EXCEPT ![n] = "peer_endpoint"]
            \/ /\ sig[n] # "open" /\ sig' = [sig EXCEPT ![n] = "connecting"]
               /\ waiting' = [waiting EXCEPT ![n] = "nothing"]
<1>1. CASE sig[n] = "open"
  <2>1. PICK m \in Questions : m = "request"
    BY DEF Questions
  <2>2. asked' = Put(asked, n, m) /\ UNCHANGED sig
        /\ waiting' = [waiting EXCEPT ![n] = "peer_endpoint"]
    BY <1>1, <2>1 DEF Requests, SigRequest, Asking
  <2> QED
    BY <1>1, <2>1, <2>2, Asked DEF Requests
<1>2. CASE sig[n] # "open"
  BY <1>2 DEF Requests, SigRequest, SigConnect, SigSettled, SignalingOK
<1> QED
  BY <1>1, <1>2

LEMMA NextSignaling ==
  PartsOK /\ Phased /\ SignalingOK /\ LinesOK /\ [Next]_vars => SignalingOK' /\ LinesOK'
<1> SUFFICES ASSUME PartsOK, Phased, SignalingOK, LinesOK, [Next]_vars
             PROVE  SignalingOK' /\ LinesOK'
  OBVIOUS
<1> DEFINE Line(k) ==
      /\ phase[k] \in Early => sig[k] = "none"
      /\ phase[k] \in Early \/ (phase[k] = "register" /\ sig[k] = "connecting") =>
           asked[k] = <<>>
      /\ answers[k] # <<>> => sig[k] = "open"
      /\ waiting[k] # "nothing" => sig[k] \in {"open", "dead"}
<1>l. \A k \in Node : Line(k)
  BY DEF LinesOK
<1>m. SUFFICES SignalingOK' /\ \A k \in Node : Line(k)'
  BY DEF LinesOK
<1>p. \A k \in Node : /\ phase'[k] \in Early => phase[k] \in Early
                      /\ phase'[k] = "register" => phase[k] \in Early \union {"register"}
  BY PhaseOrder
<1>s. sig \in [Node -> {"none", "connecting", "open", "dead", "closed"}]
  BY DEF PartsOK, ConnectionsOK
<1>e. "register" \notin Early /\ "request" \notin Early /\ "stun" \in Early
  BY DEF Early
<1>k. ASSUME NEW k \in Node, sig'[k] = sig[k], asked[k] = <<>> => asked'[k] = <<>>,
             answers'[k] # <<>> => answers[k] # <<>> \/ sig[k] = "open",
             waiting'[k] # "nothing" => waiting[k] # "nothing"
      PROVE  Line(k)'
  BY <1>k, <1>l, <1>p, <1>e
<1> USE DEF SignalingOK
<1>1. CASE /\ UNCHANGED <<sig, waiting, asked, answers, gone>>
           /\ UNCHANGED registry \/ \E n \in Node : ServerRelays(n, RelayOpen)
  <2>1. registry' \in [Node -> {"none", "signaling", "closed", "relay"}]
    BY <1>1, Relaying
  <2>2. \A k \in Node : Line(k)'
    BY <1>1, <1>k
  <2> QED
    BY <1>1, <2>1, <2>2
<1>2. ASSUME NEW n \in Node, phase[n] = "stun", phase'[n] = "register", SigConnect(n),
             UNCHANGED <<asked, answers, gone, registry>>
      PROVE  SignalingOK' /\ \A k \in Node : Line(k)'
  <2>1. sig' = [sig EXCEPT ![n] = "connecting"] /\ waiting' = [waiting EXCEPT ![n] = "nothing"]
    BY <1>2 DEF SigConnect, SigSettled
  <2>2. asked[n] = <<>> /\ answers[n] = <<>>
    BY <1>2, <1>l, <1>e
  <2>3. Line(n)'
    BY <1>2, <1>e, <1>s, <2>1, <2>2
  <2>4. \A k \in Node \ {n} : Line(k)'
    BY <1>2, <1>k, <2>1
  <2> QED
    BY <1>2, <2>1, <2>3, <2>4
<1>3. ASSUME NEW n \in Node, NEW m \in Questions, NEW a \in {"registered", "peer_endpoint"},
             phase[n] \in {"register", "request"}, SigOpens(n, m, a),
             UNCHANGED <<phase, answers, gone, registry>>
      PROVE  SignalingOK' /\ \A k \in Node : Line(k)'
  <2>1. /\ sig[n] = "connecting" /\ sig' = [sig EXCEPT ![n] = "open"]
        /\ waiting' = [waiting EXCEPT ![n] = a] /\ asked' = Put(asked, n, m)
    BY <1>3 DEF SigOpens, Asking
  <2>2. /\ asked' \in Channel(Questions)
        /\ \A k \in Node \ {n} : asked'[k] = asked[k]
    BY <2>1, Asked
  <2>3. Line(n)'
    BY <1>3, <1>e, <1>s, <2>1
  <2>4. \A k \in Node \ {n} : Line(k)'
    BY <1>3, <1>k, <2>1, <2>2
  <2> QED
    BY <1>3, <2>1, <2>2, <2>3, <2>4
<1>4. ASSUME NEW n \in Node, Fails(n)
      PROVE  SignalingOK' /\ \A k \in Node : Line(k)'
  <2>1. /\ sig[n] = "connecting" /\ sig' = [sig EXCEPT ![n] = "dead"]
        /\ UNCHANGED waiting \/ waiting' = [waiting EXCEPT ![n] = "nothing"]
        /\ UNCHANGED <<asked, answers, gone, registry>>
    BY <1>4 DEF Fails, SigSettled
  <2>2. answers[n] = <<>> /\ phase[n] \notin Early
    BY <1>l, <2>1
  <2>3. Line(n)'
    BY <1>p, <1>s, <2>1, <2>2
  <2>4. \A k \in Node \ {n} : Line(k)'
    BY <1>k, <2>1
  <2> QED
    BY <2>1, <2>3, <2>4
<1>5. ASSUME NEW n \in Node, phase'[n] = "request", Requests(n),
             \/ UNCHANGED answers
             \/ answers[n] # <<>> /\ answers' = Took(answers, n)
      PROVE  SignalingOK' /\ \A k \in Node : Line(k)'
  <2>1. /\ UNCHANGED <<gone, registry>> /\ asked' \in Channel(Questions)
        /\ \A k \in Node \ {n} : asked'[k] = asked[k]
        /\ \/ /\ sig[n] = "open" /\ UNCHANGED sig
              /\ waiting' = [waiting EXCEPT ![n] = "peer_endpoint"]
           \/ /\ sig[n] # "open" /\ sig' = [sig EXCEPT ![n] = "connecting"]
              /\ waiting' = [waiting EXCEPT ![n] = "nothing"]
    BY <1>5, Requesting
  <2>2. /\ answers' \in Channel(Replies)
        /\ \A k \in Node \ {n} : answers'[k] = answers[k]
        /\ answers'[n] # <<>> => answers[n] # <<>>
    BY <1>5, Takes
  <2>3. Line(n)'
    BY <1>5, <1>e, <1>l, <1>s, <2>1, <2>2
  <2>5. \A k \in Node \ {n} : sig'[k] = sig[k] /\ waiting'[k] = waiting[k]
    BY <1>s, <2>1
  <2>4. \A k \in Node \ {n} : Line(k)'
    BY <1>k, <2>1, <2>2, <2>5
  <2> QED
    BY <2>1, <2>2, <2>3, <2>4
<1>6. ASSUME NEW n \in Node, phase[n] = "request", phase'[n] # "request", Hangs(n)
      PROVE  SignalingOK' /\ \A k \in Node : Line(k)'
  <2>1. /\ sig' = [sig EXCEPT ![n] = "closed"] /\ UNCHANGED <<asked, registry>>
        /\ waiting' = [waiting EXCEPT ![n] = "nothing"]
        /\ answers' = [answers EXCEPT ![n] = <<>>]
        /\ gone' \subseteq gone \union {n}
    BY <1>6 DEF Hangs, SigClose, SigSettled
  <2>2. answers' \in Channel(Replies)
    BY <2>1 DEF Channel
  <2>3. phase'[n] \notin Early /\ phase'[n] # "register"
    BY <1>6, <1>p, <1>e
  <2>4. Line(n)'
    BY <1>s, <2>1, <2>3 DEF Channel
  <2>5. \A k \in Node \ {n} : Line(k)'
    BY <1>k, <2>1 DEF Channel
  <2> QED
    BY <2>1, <2>2, <2>4, <2>5
<1>7. ASSUME NEW n \in Node, Settles(n)
      PROVE  SignalingOK' /\ \A k \in Node : Line(k)'
  <2>1. /\ UNCHANGED <<sig, asked, gone, registry>>
        /\ UNCHANGED waiting \/ waiting' = [waiting EXCEPT ![n] = "nothing"]
        /\ UNCHANGED answers \/ (answers[n] # <<>> /\ answers' = Took(answers, n))
    BY <1>7 DEF Settles, SigSettled
  <2>2. /\ answers' \in Channel(Replies)
        /\ \A k \in Node \ {n} : answers'[k] = answers[k]
        /\ answers[n] = <<>> => answers'[n] = <<>>
    BY <2>1, Takes
  <2>3. \A k \in Node : Line(k)'
    BY <1>k, <2>1, <2>2
  <2> QED
    BY <2>1, <2>2, <2>3
<1>8. ASSUME NEW n \in Node, ServerAnswers(n, SigOpen), UNCHANGED <<phase, sig, waiting>>
      PROVE  SignalingOK' /\ \A k \in Node : Line(k)'
  <2>1. /\ asked' \in Channel(Questions) /\ UNCHANGED gone
        /\ \A k \in Node \ {n} : asked'[k] = asked[k]
        /\ asked[n] # <<>>
    BY <1>8, Answering, Takes
  <2>2. /\ answers' \in Channel(Replies)
        /\ \A k \in Node \ {n} : answers'[k] = answers[k]
        /\ answers'[n] = answers[n] \/ sig[n] = "open"
    BY <1>8, Answering, Puts
  <2>3. registry' \in [Node -> {"none", "signaling", "closed", "relay"}]
    BY <1>8, Answering
  <2>4. \A k \in Node : Line(k)'
    BY <1>8, <1>k, <2>1, <2>2
  <2> QED
    BY <1>8, <2>1, <2>2, <2>3, <2>4
<1>9. ASSUME NEW n \in Node, SigLost(n), UNCHANGED <<phase, registry>>
      PROVE  SignalingOK' /\ \A k \in Node : Line(k)'
  <2>1. /\ sig[n] = "open" /\ sig' = [sig EXCEPT ![n] = "dead"] /\ UNCHANGED waiting
        /\ answers' = [answers EXCEPT ![n] = <<>>]
        /\ UNCHANGED asked \/ asked' = [asked EXCEPT ![n] = <<>>]
        /\ gone' = gone \union {n}
    BY <1>9 DEF SigLost
  <2>a. answers' \in Channel(Replies)
    BY <2>1 DEF Channel
  <2>b. [asked EXCEPT ![n] = <<>>] \in Channel(Questions)
    BY DEF Channel
  <2>2. answers' \in Channel(Replies) /\ asked' \in Channel(Questions)
    BY <2>1, <2>a, <2>b
  <2>3. Line(n)'
    BY <1>9, <1>l, <1>s, <2>1 DEF Channel
  <2>4. \A k \in Node \ {n} : Line(k)'
    BY <1>k, <2>1 DEF Channel
  <2> QED
    BY <1>9, <2>1, <2>2, <2>3, <2>4
<1>10. ASSUME NEW n \in Node, ServerHangsUp(n), UNCHANGED <<phase, sig, waiting>>
       PROVE  SignalingOK' /\ \A k \in Node : Line(k)'
  <2>1. UNCHANGED <<asked, answers>> /\ gone' = gone \ {n}
    BY <1>10 DEF ServerHangsUp
  <2>2. registry' \in [Node -> {"none", "signaling", "closed", "relay"}]
    BY <1>10 DEF ServerHangsUp
  <2>3. \A k \in Node : Line(k)'
    BY <1>10, <1>k, <2>1
  <2> QED
    BY <1>10, <2>1, <2>2, <2>3
<1> HIDE DEF Line, SignalingOK
<1>11. ASSUME NEW n \in Node,
              \/ /\ phase[n] = "register" /\ SigOpens(n, "register", "registered")
                 /\ UNCHANGED <<phase, answers, gone, registry>>
              \/ /\ phase[n] = "request" /\ SigOpens(n, "request", "peer_endpoint")
                 /\ UNCHANGED <<phase, answers, gone, registry>>
       PROVE  SignalingOK' /\ \A k \in Node : Line(k)'
  <2>1. "register" \in Questions /\ "request" \in Questions
    BY DEF Questions
  <2> QED
    BY <1>3, <1>11, <2>1
<1> QED
  BY <1>1, <1>2, <1>4, <1>5, <1>6, <1>7, <1>8, <1>9, <1>10, <1>11, SignalingSteps

LEMMA NextRegistration ==
  ASSUME PartsOK, Phased, SignalingOK, LinesOK, Registration, [Next]_vars
  PROVE  Registration'
<1> DEFINE Fine(k) ==
      /\ Known(k) => Known(k)'
      /\ answers'[k] # <<>> => Known(k)'
      /\ "request" \in Said(asked'[k]) => Known(k)'
      /\ "register" \in Said(asked'[k]) => asked'[k] = <<"register">>
<1>1. ASSUME \A k \in Node : Fine(k)
      PROVE  Registration'
  <2>1. \A k \in Node : Registered(k) => answers[k] # <<>>
    BY DEF Registered, Accepted
  <2>2. \A k \in Node : Asks(k)' => Known(k)
    BY <2>1, PhaseOrder DEF Registration
  <2> QED
    BY <1>1, <2>2 DEF Registration
<1>2. ASSUME NEW k \in Node, asked'[k] = asked[k], answers'[k] # <<>> => answers[k] # <<>>,
             registry[k] # "none" => registry'[k] # "none"
      PROVE  Fine(k)
  BY <1>2 DEF Registration, Known
<1>3. CASE /\ UNCHANGED <<sig, waiting, asked, answers, gone>>
           /\ UNCHANGED registry \/ \E n \in Node : ServerRelays(n, RelayOpen)
  <2>1. \A k \in Node : registry[k] # "none" => registry'[k] # "none"
    BY <1>3, Relaying DEF SignalingOK
  <2> QED
    BY <1>1, <1>2, <1>3, <2>1
<1>4. ASSUME NEW n \in Node, UNCHANGED <<asked, answers, registry>>
      PROVE  Registration'
  BY <1>1, <1>2, <1>4
<1>5. ASSUME NEW n \in Node, phase[n] = "register", SigOpens(n, "register", "registered"),
             UNCHANGED <<phase, answers, gone, registry>>
      PROVE  Registration'
  <2>1. sig[n] = "connecting" /\ asked' = Put(asked, n, "register")
    BY <1>5 DEF SigOpens, Asking
  <2>2. asked[n] = <<>> /\ answers[n] = <<>> /\ ~Asks(n)
    BY <1>5, <2>1 DEF LinesOK, Asks, Phased
  <2>3. /\ asked'[n] = <<"register">> /\ Said(asked'[n]) = {"register"}
        /\ \A k \in Node \ {n} : asked'[k] = asked[k]
    <3>1. PICK m \in Questions : m = "register"
      BY DEF Questions
    <3>2. /\ Said(asked'[n]) = Said(asked[n]) \union {m}
          /\ asked[n] = <<>> => asked'[n] = <<m>>
          /\ \A k \in Node \ {n} : asked'[k] = asked[k]
      BY <2>1, <3>1, Asked
    <3>3. Said(asked[n]) = {}
      BY <2>2, Nobody
    <3> QED
      BY <2>2, <3>1, <3>2, <3>3
  <2>4. ~Asks(n)'
    BY <2>2, PhaseOrder DEF Registered, Accepted
  <2>5. \A k \in Node \ {n} : Asks(k)' => Asks(k) \/ answers[k] # <<>>
    BY PhaseOrder DEF Registered, Accepted
  <2>6. \A k \in Node \ {n} : Known(k) => Known(k)'
    BY <1>5, <2>3 DEF Known
  <2> QED
    BY <1>5, <2>2, <2>3, <2>4, <2>5, <2>6 DEF Registration
<1>6. ASSUME NEW n \in Node, Known(n), UNCHANGED registry,
             Said(asked'[n]) \subseteq Said(asked[n]) \union {"request"},
             \A k \in Node \ {n} : asked'[k] = asked[k] /\ answers'[k] = answers[k]
      PROVE  Registration'
  <2>1. Fine(n)
    BY <1>6 DEF Known
  <2> QED
    BY <1>1, <1>2, <1>6, <2>1
<1>7. ASSUME NEW n \in Node, Settles(n)
      PROVE  Registration'
  <2>1. \A k \in Node : answers'[k] # <<>> => answers[k] # <<>>
    <3>1. CASE UNCHANGED answers
      BY <3>1
    <3>2. CASE answers[n] # <<>> /\ answers' = Took(answers, n)
      <4>1. \A k \in Node \ {n} : Took(answers, n)[k] = answers[k]
        BY <3>2, Takes DEF SignalingOK
      <4> QED
        BY <3>2, <4>1
    <3> QED
      BY <1>7, <3>1, <3>2 DEF Settles
  <2>2. UNCHANGED <<asked, registry>>
    BY <1>7 DEF Settles
  <2> QED
    BY <1>1, <1>2, <2>1, <2>2
<1>8. ASSUME NEW n \in Node, ServerAnswers(n, SigOpen)
      PROVE  Registration'
  <2>1. /\ asked[n] # <<>> /\ Head(asked[n]) \in Said(asked[n])
        /\ Said(asked'[n]) \subseteq Said(asked[n])
        /\ \A k \in Node \ {n} : asked'[k] = asked[k]
    <3>1. asked[n] # <<>> /\ asked' = Took(asked, n)
      BY <1>8, Answering
    <3> QED
      BY <3>1, Takes DEF SignalingOK
  <2>2. \A k \in Node \ {n} : answers'[k] = answers[k] /\ registry'[k] = registry[k]
    BY <1>8, Answering, Puts DEF SignalingOK
  <2>3. Known(n)'
    <3>1. CASE Head(asked[n]) = "register"
      <4>1. asked[n] = <<"register">> /\ asked' = Took(asked, n)
        BY <1>8, <2>1, <3>1, Answering DEF Registration
      <4>2. Said(asked'[n]) = {}
        BY <4>1, Nobody DEF Took, SignalingOK, Channel
      <4>3. registry'[n] = "signaling"
        BY <1>8, <3>1, Answering DEF SignalingOK
      <4> QED
        BY <4>2, <4>3 DEF Known
    <3>2. CASE Head(asked[n]) # "register"
      <4>1. Head(asked[n]) = "request" /\ UNCHANGED registry
        BY <1>8, <3>2, Answering
      <4>2. Known(n)
        BY <2>1, <4>1 DEF Registration
      <4> QED
        BY <2>1, <4>1, <4>2 DEF Known
    <3> QED
      BY <3>1, <3>2
  <2>4. Fine(n)
    BY <2>3 DEF Known
  <2> QED
    BY <1>1, <1>2, <2>1, <2>2, <2>4
<1>9. ASSUME NEW n \in Node, Known(n), Requests(n),
             UNCHANGED answers \/ (answers[n] # <<>> /\ answers' = Took(answers, n))
      PROVE  Registration'
  <2>1. \A k \in Node \ {n} : answers'[k] = answers[k]
    BY <1>9, Takes DEF SignalingOK
  <2> QED
    BY <1>6, <1>9, <2>1, Requesting
<1>10. ASSUME NEW n \in Node, Hangs(n)
       PROVE  Registration'
  <2>1. \A k \in Node : answers'[k] # <<>> => answers[k] # <<>>
    BY <1>10 DEF Hangs, SigClose, SignalingOK, Channel
  <2> QED
    BY <1>1, <1>2, <1>10, <2>1 DEF Hangs
<1>11. ASSUME NEW n \in Node, SigLost(n), UNCHANGED registry
       PROVE  Registration'
  <2>1. /\ answers' = [answers EXCEPT ![n] = <<>>]
        /\ UNCHANGED asked \/ asked' = [asked EXCEPT ![n] = <<>>]
    BY <1>11 DEF SigLost
  <2>2. \A k \in Node : answers'[k] # <<>> => answers[k] # <<>>
    BY <2>1 DEF SignalingOK, Channel
  <2>3. \A k \in Node : asked'[k] = asked[k] \/ Said(asked'[k]) = {}
    BY <2>1, Nobody DEF SignalingOK, Channel
  <2>4. \A k \in Node : Fine(k)
    BY <1>11, <2>2, <2>3 DEF Registration, Known
  <2> QED
    BY <1>1, <2>4
<1>12. ASSUME NEW n \in Node, ServerHangsUp(n)
       PROVE  Registration'
  <2>1. UNCHANGED <<asked, answers>>
    BY <1>12 DEF ServerHangsUp
  <2>2. \A k \in Node : Forgets \/ (registry[k] # "none" => registry'[k] # "none")
    BY <1>12 DEF ServerHangsUp, SignalingOK
  <2>3. \A k \in Node : Fine(k)
    BY <2>1, <2>2 DEF Registration, Known
  <2> QED
    BY <1>1, <2>3
<1>13. ASSUME NEW n \in Node, phase[n] = "request", SigOpens(n, "request", "peer_endpoint"),
              UNCHANGED <<answers, registry>>
       PROVE  Registration'
  <2>1. PICK m \in Questions : m = "request"
    BY DEF Questions
  <2>2. asked' = Put(asked, n, m)
    BY <1>13, <2>1 DEF SigOpens, Asking
  <2>3. Known(n)
    BY <1>13 DEF Registration, Asks
  <2> QED
    BY <1>6, <1>13, <2>1, <2>2, <2>3, Asked
<1> QED
  <2>1. ASSUME NEW n \in Node, answers[n] # <<>>, answers' = Took(answers, n), Requests(n)
        PROVE  Registration'
    <3>1. Known(n)
      BY <2>1 DEF Registration
    <3> QED
      BY <1>9, <2>1, <3>1
  <2>2. ASSUME NEW n \in Node, phase[n] = "request", UNCHANGED answers, Requests(n)
        PROVE  Registration'
    <3>1. Known(n)
      BY <2>2 DEF Registration, Asks
    <3> QED
      BY <1>9, <2>2, <3>1
  <2>3. ASSUME NEW n \in Node, Fails(n)
        PROVE  Registration'
    BY <1>4, <2>3 DEF Fails
  <2> HIDE DEF Fine
  <2> QED
    BY <1>3, <1>4, <1>5, <1>7, <1>8, <1>10, <1>11, <1>12, <1>13, <2>1, <2>2, <2>3,
       SignalingSteps

-----------------------------------------------------------------------------
(* What a step does to the relay's WebSocket, whichever action it is. *)
LEMMA RelaySteps ==
  ASSUME PartsOK, [Next]_vars
  PROVE  \/ UNCHANGED <<waits, frames, incoming, queue, sent, received>>
         \/ \E n \in Node :
              \/ /\ phase'[n] = "relay" /\ UNCHANGED <<frames, incoming, queue, sent, received>>
                 /\ \E w \in {"open", "identified"} : waits' = [waits EXCEPT ![n] = w]
              \/ RelayOpens(n) /\ UNCHANGED <<incoming, sent>>
              \/ Identified(n) /\ UNCHANGED sent
              \/ RelayData(n, n \in app) /\ UNCHANGED sent
              \/ RelayLost(n) /\ UNCHANGED <<frames, sent>>
              \/ /\ RelaySend(n, sent[n] + 1) /\ sent' = [sent EXCEPT ![n] = @ + 1]
                 /\ UNCHANGED incoming
                 /\ relay[n] = "open" /\ queue[n] # <<>> => "early" \in hasty'[n]
              \/ RelayClose(n) /\ UNCHANGED <<frames, sent>>
              \/ ServerRelays(n, RelayOpen) /\ UNCHANGED <<relay, waits, queue, sent, received>>
<1> USE DEF PartsOK, CallsOK, transport, relaying
<1>1. ASSUME NEW n \in Node,
             Found(n) \/ Rejects(n) \/ NotPunched(n)
      PROVE  \/ UNCHANGED <<waits, frames, incoming, queue, sent, received>>
             \/ /\ phase'[n] = "relay" /\ UNCHANGED <<frames, incoming, queue, sent, received>>
                /\ \E w \in {"open", "identified"} : waits' = [waits EXCEPT ![n] = w]
  <2>1. UNCHANGED <<frames, incoming, sent>>
    BY <1>1, RejectionWorks DEF Found, NotPunched, server
  <2>2. UNCHANGED relaying \/ SetupRelay(n)
    BY <1>1, RejectionWorks DEF Found, NotPunched, Rejected
  <2>3. CASE SetupRelay(n)
    <3>1. phase'[n] = "relay" /\ UNCHANGED <<queue, received>>
      BY <2>3 DEF SetupRelay, Goes, RelayConnect
    <3>2. waits' = [waits EXCEPT ![n] = IF n \in app THEN "open" ELSE "identified"]
      BY <2>3 DEF SetupRelay, RelayConnect
    <3> QED
      BY <2>1, <3>1, <3>2
  <2> QED
    BY <2>1, <2>2, <2>3
<1>2. ASSUME NEW n \in Node, RelayUp(n)
      PROVE  RelayOpens(n) /\ UNCHANGED <<incoming, sent>>
  BY <1>2 DEF RelayUp
<1>3. ASSUME NEW n \in Node, RelayIdentified(n)
      PROVE  Identified(n) /\ UNCHANGED sent
  BY <1>3 DEF RelayIdentified
<1>4. ASSUME NEW n \in Node, RelayDelivers(n)
      PROVE  RelayData(n, n \in app) /\ UNCHANGED sent
  BY <1>4 DEF RelayDelivers
<1>5. ASSUME NEW n \in Node, RelayDies(n)
      PROVE  RelayLost(n) /\ UNCHANGED <<frames, sent>>
  BY <1>5 DEF RelayDies
<1>6. ASSUME NEW n \in Node, Send(n)
      PROVE  /\ RelaySend(n, sent[n] + 1) /\ sent' = [sent EXCEPT ![n] = @ + 1]
             /\ UNCHANGED incoming
             /\ relay[n] = "open" /\ queue[n] # <<>> => "early" \in hasty'[n]
  <2>1. relay[n] = "open" /\ queue[n] # <<>> => "early" \in hasty'[n]
    BY <1>6 DEF Send, Notes
  <2> QED
    BY <1>6, <2>1 DEF Send
<1>7. ASSUME NEW n \in Node, Close(n)
      PROVE  RelayClose(n) /\ UNCHANGED <<frames, sent>>
  BY <1>7 DEF Close
<1>8. ASSUME NEW n \in Node, Serve(n)
      PROVE  \/ UNCHANGED <<waits, frames, incoming, queue, sent, received>>
             \/ ServerRelays(n, RelayOpen) /\ UNCHANGED <<relay, waits, queue, sent, received>>
  BY <1>8 DEF Serve, ServerAnswers, ServerHangsUp
<1>9. ASSUME NEW n \in Node,
             Connect(n) \/ Bound(n) \/ AppBind(n) \/ Discovered(n) \/ SignalingOpens(n)
               \/ SignalingFails(n) \/ Registered(n) \/ RegisterTimeout(n)
               \/ AnswerIgnored(n) \/ Retry(n) \/ PassedOver(n) \/ SignalingLost(n)
               \/ Probe(n) \/ ProbeLost(n)
               \/ Punched(n) \/ Silent(n)
      PROVE  UNCHANGED <<waits, frames, incoming, queue, sent, received>>
  BY <1>9 DEF Connect, Bound, AppBind, Discovered, SignalingOpens, SignalingFails,
     Registered, RegisterTimeout, AnswerIgnored, Retry, PassedOver, SignalingLost, Probe, ProbeLost,
     Punched, Silent, clients, server, Request
<1>10. CASE UNCHANGED vars
  BY <1>10 DEF vars, clients, server
<1> QED
  BY <1>1, <1>2, <1>3, <1>4, <1>5, <1>6, <1>7, <1>8, <1>9, <1>10
     DEF Next, Progress, Rejects

Numbers == Nat

RelayOK ==
  /\ frames \in Channel(Numbers) /\ incoming \in Channel(Numbers) /\ queue \in Channel(Numbers)
  /\ received \in Channel(Numbers)
  /\ sent \in [Node -> Nat]
  /\ waits \in [Node -> {"nothing", "open", "identified"}]

LEMMA InitRelay == Init => RelayOK
BY DEF Init, ServerInit, RelayInit, RelayOK, Channel, Numbers

LEMMA Incoming ==
  ASSUME RelayOK, NEW n \in Node, NEW m \in Numbers
  PROVE  /\ Said(Put(incoming, n, m)[n]) = Said(incoming[n]) \union {m}
         /\ \A k \in Node \ {n} : Put(incoming, n, m)[k] = incoming[k]
<1>1. incoming \in Channel(Numbers)
  BY DEF RelayOK
<1> QED
  BY <1>1, Puts

LEMMA NextRelay ==
  ASSUME PartsOK, RelayOK, [Next]_vars
  PROVE  RelayOK'
<1> USE DEF RelayOK
<1>1. CASE UNCHANGED <<waits, frames, incoming, queue, sent, received>>
  BY <1>1
<1>2. ASSUME NEW n \in Node, NEW w \in {"open", "identified"},
             UNCHANGED <<frames, incoming, queue, sent, received>>, waits' = [waits EXCEPT ![n] = w]
      PROVE  RelayOK'
  BY <1>2
<1>3. ASSUME NEW n \in Node, RelayOpens(n), UNCHANGED <<incoming, sent>>
      PROVE  RelayOK'
  <2>1. frames' \in Channel(Numbers)
    BY <1>3, Puts DEF RelayOpens, Identify, Numbers
  <2> QED
    BY <1>3, <2>1 DEF RelayOpens
<1>4. ASSUME NEW n \in Node, Identified(n), UNCHANGED sent
      PROVE  RelayOK'
  <2>1. incoming' \in Channel(Numbers)
    BY <1>4, Takes DEF Identified, Arrives
  <2>2. frames' \in Channel(Numbers) /\ queue' \in Channel(Numbers)
    BY <1>4 DEF Identified, Channel
  <2> QED
    BY <1>4, <2>1, <2>2 DEF Identified
<1>5. ASSUME NEW n \in Node, RelayData(n, n \in app), UNCHANGED sent
      PROVE  RelayOK'
  <2>1. incoming[n] # <<>> /\ incoming' = Took(incoming, n)
    BY <1>5 DEF RelayData, Arrives
  <2>2. incoming' \in Channel(Numbers) /\ Head(incoming[n]) \in Numbers
    BY <2>1, Takes
  <2>3. received' \in Channel(Numbers)
    BY <1>5, <2>2, Puts DEF RelayData
  <2> QED
    BY <1>5, <2>2, <2>3 DEF RelayData
<1>6. ASSUME NEW n \in Node, RelayLost(n), UNCHANGED <<frames, sent>>
      PROVE  RelayOK'
  BY <1>6 DEF RelayLost, Channel
<1>7. ASSUME NEW n \in Node, RelaySend(n, sent[n] + 1), sent' = [sent EXCEPT ![n] = @ + 1],
             UNCHANGED incoming
      PROVE  RelayOK'
  <2>1. sent[n] + 1 \in Numbers
    BY DEF Numbers
  <2>2. frames' \in Channel(Numbers) /\ queue' \in Channel(Numbers)
    BY <1>7, <2>1, Puts DEF RelaySend
  <2> QED
    BY <1>7, <2>2 DEF RelaySend
<1>8. ASSUME NEW n \in Node, RelayClose(n), UNCHANGED <<frames, sent>>
      PROVE  RelayOK'
  BY <1>8 DEF RelayClose, Channel
<1>9. ASSUME NEW n \in Node, ServerRelays(n, RelayOpen), UNCHANGED <<waits, queue, sent, received>>
      PROVE  RelayOK'
  <2>1. frames' \in Channel(Numbers) /\ Head(frames[n]) \in Numbers
    BY <1>9, Relaying, Takes
  <2>2. \/ UNCHANGED incoming
        \/ \E k \in Node, m \in Numbers : incoming' = Put(incoming, k, m)
    BY <1>9, <2>1, Relaying, Others DEF Identify, Numbers
  <2>3. incoming' \in Channel(Numbers)
    BY <2>2, Puts
  <2> QED
    BY <1>9, <2>1, <2>3
<1> HIDE DEF RelayOK
<1> QED
  BY <1>1, <1>2, <1>3, <1>4, <1>5, <1>6, <1>7, <1>8, <1>9, RelaySteps

-----------------------------------------------------------------------------
(* "identified" comes only from a server that knows the relay, and whoever  *)
(* waited for it is known by it.                                            *)
Told ==
  \A n \in Node :
    /\ Identify \in Said(incoming[n]) => registry[n] = "relay" /\ relay[n] # "none"
    /\ Relayed(n) /\ waits[n] = "identified" => registry[n] = "relay"

LEMMA RelayStaysKnown ==
  ASSUME PartsOK, Phased, SignalingOK, LinesOK, Registration, [Next]_vars,
         NEW k \in Node, registry[k] = "relay", relay[k] # "none"
  PROVE  registry'[k] = "relay"
<1>1. Known(k)
  BY DEF Registration, Asks
<1>2. CASE UNCHANGED registry
  BY <1>2
<1>3. ASSUME NEW n \in Node, ServerRelays(n, RelayOpen)
      PROVE  registry'[k] = "relay"
  BY <1>3, Relaying DEF SignalingOK
<1>4. ASSUME NEW n \in Node, ServerAnswers(n, SigOpen)
      PROVE  registry'[k] = "relay"
  <2>1. n = k => Head(asked[k]) # "register"
    BY <1>1, <1>4, Answering, Takes DEF SignalingOK, Known
  <2> QED
    BY <1>4, <2>1, Answering DEF SignalingOK
<1>5. ASSUME NEW n \in Node, ServerHangsUp(n)
      PROVE  registry'[k] = "relay"
  BY <1>5 DEF ServerHangsUp, SignalingOK
<1> QED
  BY <1>2, <1>3, <1>4, <1>5, SignalingSteps DEF Fails, Requests, Hangs, Settles

LEMMA NextTold ==
  ASSUME ~Forgets, PartsOK, Phased, SignalingOK, LinesOK, Registration, RelayOK, Told, [Next]_vars
  PROVE  Told'
<1>1. ASSUME NEW k \in Node, Identify \in Said(incoming'[k])
      PROVE  registry'[k] = "relay" /\ relay'[k] # "none"
  <2>1. CASE Identify \in Said(incoming[k])
    BY <2>1, PhaseOrder, RelayStaysKnown DEF Told
  <2>2. CASE ~(Identify \in Said(incoming[k]))
    <3>1. PICK n \in Node : ServerRelays(n, RelayOpen)
      <4>1. ASSUME NEW n \in Node, Identified(n) \/ RelayData(n, n \in app)
            PROVE  FALSE
        <5>1. incoming[n] # <<>> /\ incoming' = Took(incoming, n) /\ incoming \in Channel(Numbers)
          BY <4>1 DEF Identified, RelayData, Arrives, RelayOK
        <5>2. /\ Said(Took(incoming, n)[n]) \subseteq Said(incoming[n])
              /\ \A j \in Node \ {n} : Took(incoming, n)[j] = incoming[j]
          BY <5>1, Takes
        <5> QED
          BY <1>1, <2>2, <5>1, <5>2
      <4>2. ASSUME NEW n \in Node, RelayLost(n) \/ RelayClose(n)
            PROVE  FALSE
        <5>1. incoming'[k] = incoming[k] \/ incoming'[k] = <<>>
          BY <4>2 DEF RelayLost, RelayClose, RelayOK, Channel
        <5> QED
          BY <1>1, <2>2, <5>1, Nobody
      <4>3. ~(incoming' = incoming)
        BY <1>1, <2>2
      <4> QED
        BY <4>1, <4>2, <4>3, RelaySteps
    <3>2. Head(frames[n]) \in Numbers
      BY <3>1, Relaying, Takes DEF RelayOK
    <3>3. /\ n = k /\ Head(frames[n]) = Identify /\ relay[k] = "open"
      <4>1. ASSUME NEW j \in Node, NEW m \in Numbers, incoming' = Put(incoming, j, m)
            PROVE  j = k /\ m = Identify
        BY <1>1, <2>2, <4>1, Incoming
      <4>2. ~(incoming' = incoming)
        BY <1>1, <2>2
      <4>3. Identify \in Numbers /\ Other[n] \in Node
        BY Others DEF Identify, Numbers
      <4> QED
        BY <3>1, <3>2, <4>1, <4>2, <4>3, Relaying
    <3>4. Known(k)
      BY <3>3 DEF Registration, Asks
    <3>5. registry'[k] = "relay"
      BY <3>1, <3>3, <3>4, Relaying DEF Known, SignalingOK
    <3> QED
      BY <3>3, <3>5, PhaseOrder
  <2> QED
    BY <2>1, <2>2
<1>2. ASSUME NEW k \in Node, Relayed(k)', waits'[k] = "identified"
      PROVE  registry'[k] = "relay"
  <2>1. waits'[k] = waits[k]
    <3>1. phase'[k] # "relay"
      BY <1>2 DEF Relayed
    <3> QED
      BY <3>1, RelaySteps DEF RelayOK, RelayOpens, Identified, RelayData, RelayLost,
         RelaySend, RelayClose
  <2>2. CASE Relayed(k)
    BY <1>2, <2>1, <2>2, RelayStaysKnown DEF Told, Relayed
  <2>3. CASE RelayIdentified(k)
    <3>1. incoming[k] # <<>> /\ Head(incoming[k]) = Identify
      BY <2>3 DEF RelayIdentified, Identified, Arrives
    <3>2. Identify \in Said(incoming[k])
      BY <3>1, Takes DEF RelayOK
    <3> QED
      BY <3>2, RelayStaysKnown DEF Told
  <2>4. CASE RelayUp(k) /\ waits[k] = "open"
    BY <1>2, <2>1, <2>4
  <2> QED
    BY <1>2, <2>2, <2>3, <2>4, PhaseOrder
<1> QED
  BY <1>1, <1>2 DEF Told

(* With a server that forgets nobody, whether it says "identified" or not,  *)
(* a node that waited for it gets what its peer sends: the entry of the     *)
(* server is its relay, whenever the close of signaling gets there.         *)
THEOREM RelayIsKnown == ~Forgets => (Spec => []RelayReaches)
<1> SUFFICES ASSUME ~Forgets
             PROVE  Spec => []RelayReaches
  OBVIOUS
<1> DEFINE Inv == /\ PartsOK /\ Phased /\ SignalingOK /\ LinesOK /\ Registration
                  /\ RelayOK /\ Told
<1>1. Init => Inv
  <2> SUFFICES ASSUME Init
               PROVE  Inv
    OBVIOUS
  <2>1. PartsOK /\ Phased
    BY InitParts
  <2>4. Registration /\ Told
    BY Nobody DEF Init, ServerInit, RelayInit, Registration, Told, Asks, Relayed
  <2> QED
    BY <2>1, <2>4, InitSignaling, InitRelay
<1>2. Inv /\ [Next]_vars => Inv'
  BY NextParts, NextPhased, NextSignaling, NextRegistration, NextRelay, NextTold
<1>3. Inv => RelayReaches
  BY DEF Told, RelayReaches
<1> QED
  BY <1>1, <1>2, <1>3, PTL DEF Spec

-----------------------------------------------------------------------------
(* Another request is made only while the bound allows one, and an answer is *)
(* waited for where connect waits for it.                                    *)
TriesOK ==
  /\ tries \in [Node -> Nat]
  /\ peerEndpoint \subseteq Node /\ identified \subseteq Node
  /\ \A n \in Node :
       /\ tries[n] <= Tries[n]
       /\ phase[n] \in Early \union {"register"} => tries[n] = 0
       /\ phase[n] = "request" /\ waiting[n] = "nothing" /\ sig[n] # "connecting" =>
            tries[n] < Tries[n]
       /\ waiting[n] = "registered" => phase[n] = "register"
       /\ waiting[n] = "peer_endpoint" => phase[n] = "request"

LEMMA InitTries == Init => TriesOK
BY CountTypes DEF Init, RelayInit, SignalingInit, TriesOK

LEMMA OtherTypes ==
  ASSUME [Next]_vars, peerEndpoint \subseteq Node, identified \subseteq Node
  PROVE  peerEndpoint' \subseteq Node /\ identified' \subseteq Node
<1> USE DEF clients, transport, relaying
<1>1. ASSUME NEW n \in Node, Punched(n) \/ Close(n)
      PROVE  peerEndpoint' \subseteq Node /\ identified' \subseteq Node
  BY <1>1 DEF Punched, Close, RelayClose
<1>2. ASSUME NEW n \in Node, RelayIdentified(n)
      PROVE  peerEndpoint' \subseteq Node /\ identified' \subseteq Node
  BY <1>2 DEF RelayIdentified, Identified
<1>3. ASSUME NEW n \in Node,
             Connect(n) \/ AppBind(n) \/ Send(n) \/ Serve(n) \/ PassedOver(n)
               \/ SignalingLost(n) \/ Probe(n) \/ ProbeLost(n) \/ RelayDies(n) \/ Bound(n)
               \/ Discovered(n) \/ SignalingOpens(n) \/ SignalingFails(n) \/ Registered(n)
      PROVE  UNCHANGED <<peerEndpoint, identified>>
  BY <1>3 DEF Connect, AppBind, Send, Serve, PassedOver, SignalingLost, Probe, ProbeLost,
     RelayDies, Bound, Discovered, SignalingOpens, SignalingFails, Registered, RelaySend, RelayLost
<1>4. ASSUME NEW n \in Node,
             Found(n) \/ Rejects(n) \/ RegisterTimeout(n) \/ AnswerIgnored(n) \/ Retry(n)
               \/ Silent(n) \/ NotPunched(n) \/ RelayUp(n) \/ RelayDelivers(n)
      PROVE  UNCHANGED <<peerEndpoint, identified>>
  BY <1>4, RejectionWorks DEF Found, RegisterTimeout, AnswerIgnored, Retry, Silent, NotPunched,
     RelayUp, RelayDelivers, Rejected, SetupRelay, RelayConnect, RelayOpens,
     RelayData
<1>5. CASE UNCHANGED vars
  BY <1>5 DEF vars
<1> QED
  BY <1>1, <1>2, <1>3, <1>4, <1>5 DEF Next, Progress, Rejects

LEMMA NextTries ==
  ASSUME PartsOK, Phased, SignalingOK, LinesOK, TriesOK, [Next]_vars
  PROVE  TriesOK'
<1> DEFINE Bounded(k) ==
      /\ tries[k] <= Tries[k]
      /\ phase[k] \in Early \union {"register"} => tries[k] = 0
      /\ phase[k] = "request" /\ waiting[k] = "nothing" /\ sig[k] # "connecting" =>
           tries[k] < Tries[k]
      /\ waiting[k] = "registered" => phase[k] = "register"
      /\ waiting[k] = "peer_endpoint" => phase[k] = "request"
<1>b. /\ tries \in [Node -> Nat] /\ Tries \in [Node -> Nat \ {0}]
      /\ \A k \in Node : Bounded(k)
  BY CountTypes DEF TriesOK
<1>y. /\ phase \in [Node -> Phases]
      /\ sig \in [Node -> {"none", "connecting", "open", "dead", "closed"}]
      /\ waiting \in [Node -> {"nothing", "registered", "peer_endpoint"}]
  BY DEF PartsOK, CallsOK, ConnectionsOK, SignalingOK
<1>t. peerEndpoint' \subseteq Node /\ identified' \subseteq Node
  BY OtherTypes DEF TriesOK
<1>m. SUFFICES tries' \in [Node -> Nat] /\ \A k \in Node : Bounded(k)'
  BY <1>t DEF TriesOK
<1>o. \A k \in Node : phase'[k] \in Early => phase[k] \in Early
  BY PhaseOrder
<1>k. ASSUME NEW k \in Node, tries'[k] = tries[k], waiting'[k] = waiting[k], sig'[k] = sig[k],
             \/ phase'[k] = phase[k]
             \/ {phase[k], phase'[k]} \intersect {"register", "request"} = {}
      PROVE  Bounded(k)'
  BY <1>b, <1>k, <1>o
<1>1. ASSUME NEW n \in Node, Registered(n) \/ Retry(n)
      PROVE  tries' \in [Node -> Nat] /\ \A k \in Node : Bounded(k)'
  <2>1. /\ tries' = [tries EXCEPT ![n] = @ + 1] /\ Requests(n)
        /\ phase' = [phase EXCEPT ![n] = "request"]
    <3>1. CASE Registered(n)
      BY <3>1 DEF Registered, Request, Requests, Goes
    <3>2. CASE Retry(n)
      BY <1>y, <3>2 DEF Retry, Request, Requests
    <3> QED
      BY <1>1, <3>1, <3>2
  <2>2. tries[n] < Tries[n]
    BY <1>1, <1>b DEF Registered, Retry
  <2>3. \/ UNCHANGED sig /\ waiting' = [waiting EXCEPT ![n] = "peer_endpoint"]
        \/ /\ sig' = [sig EXCEPT ![n] = "connecting"]
           /\ waiting' = [waiting EXCEPT ![n] = "nothing"]
    BY <2>1, Requesting
  <2>4. tries[n] + 1 <= Tries[n] /\ tries[n] + 1 \in Nat
    BY <1>b, <2>2
  <2>5. Bounded(n)'
    BY <1>y, <1>b, <2>1, <2>3, <2>4 DEF Early
  <2>6. \A k \in Node \ {n} : /\ tries'[k] = tries[k] /\ waiting'[k] = waiting[k]
                              /\ sig'[k] = sig[k] /\ phase'[k] = phase[k]
    BY <1>y, <1>b, <2>1, <2>3
  <2>7. \A k \in Node \ {n} : Bounded(k)'
    BY <1>k, <2>6
  <2> QED
    BY <1>b, <2>1, <2>4, <2>5, <2>7
<1>3. ASSUME NEW n \in Node, NEW p \in {"punch", "relay", "failed"}, NEW s,
             phase' = [phase EXCEPT ![n] = p], sig' = [sig EXCEPT ![n] = s],
             tries' = [tries EXCEPT ![n] = 0] \/ UNCHANGED tries,
             waiting' = [waiting EXCEPT ![n] = "nothing"]
      PROVE  tries' \in [Node -> Nat] /\ \A k \in Node : Bounded(k)'
  <2>1. Bounded(n)'
    BY <1>y, <1>b, <1>3 DEF Early
  <2>2. \A k \in Node \ {n} : Bounded(k)'
    BY <1>y, <1>b, <1>k, <1>3
  <2> QED
    BY <1>b, <1>3, <2>1, <2>2
<1>4. ASSUME NEW n \in Node, NEW s, phase[n] = "request", tries[n] < Tries[n],
             UNCHANGED <<phase, tries>>, sig' = [sig EXCEPT ![n] = s],
             waiting' = [waiting EXCEPT ![n] = "nothing"]
      PROVE  tries' \in [Node -> Nat] /\ \A k \in Node : Bounded(k)'
  <2>1. Bounded(n)'
    BY <1>y, <1>b, <1>4 DEF Early
  <2>2. \A k \in Node \ {n} : Bounded(k)'
    BY <1>y, <1>b, <1>k, <1>4
  <2> QED
    BY <1>b, <1>4, <2>1, <2>2
<1>5. ASSUME NEW n \in Node, Found(n)
      PROVE  tries' \in [Node -> Nat] /\ \A k \in Node : Bounded(k)'
  <2>1. /\ tries' = [tries EXCEPT ![n] = 0]
        /\ sig' = [sig EXCEPT ![n] = "closed"]
        /\ waiting' = [waiting EXCEPT ![n] = "nothing"]
    BY <1>5 DEF Found, SigClose, SigSettled
  <2>2. \E p \in {"punch", "relay", "failed"} : phase' = [phase EXCEPT ![n] = p]
    BY <1>5 DEF Found, SetupRelay, Goes
  <2> QED
    BY <1>3, <2>1, <2>2
<1>6. ASSUME NEW n \in Node, Rejects(n)
      PROVE  tries' \in [Node -> Nat] /\ \A k \in Node : Bounded(k)'
  <2>0. PICK ws, left : Rejected(n, ws, left) /\ phase[n] = "request"
    BY <1>6, RejectionWorks
  <2>1. CASE tries[n] < Tries[n]
    BY <1>4, <2>0, <2>1 DEF Rejected, SigSettled
  <2>2. CASE ~(tries[n] < Tries[n])
    <3>1. /\ tries' = [tries EXCEPT ![n] = 0] /\ waiting' = [waiting EXCEPT ![n] = "nothing"]
          /\ phase' = [phase EXCEPT ![n] = "relay"] /\ sig' = [sig EXCEPT ![n] = "closed"]
      BY <2>0, <2>2 DEF Rejected, SigClose, SigSettled, SetupRelay, Goes
    <3> QED
      BY <1>3, <3>1
  <2> QED
    BY <2>1, <2>2
<1>8. ASSUME NEW n \in Node, RegisterTimeout(n) \/ SignalingFails(n)
      PROVE  tries' \in [Node -> Nat] /\ \A k \in Node : Bounded(k)'
  <2>1. CASE RegisterTimeout(n)
    <3>1. /\ phase' = [phase EXCEPT ![n] = "failed"] /\ UNCHANGED <<tries, sig>>
          /\ waiting' = [waiting EXCEPT ![n] = "nothing"]
      BY <2>1 DEF RegisterTimeout, SigSettled, Goes, transport
    <3>2. sig' = [sig EXCEPT ![n] = sig[n]]
      BY <1>y, <3>1
    <3> QED
      BY <1>3, <3>1, <3>2
  <2>2. CASE SignalingFails(n)
    <3>1. /\ phase' = [phase EXCEPT ![n] = "failed"] /\ UNCHANGED <<tries, waiting>>
          /\ sig[n] = "connecting" /\ sig' = [sig EXCEPT ![n] = "dead"]
      BY <2>2 DEF SignalingFails, SigFails, Goes, transport
    <3>2. waiting[n] = "nothing"
      BY <3>1 DEF LinesOK
    <3>3. waiting' = [waiting EXCEPT ![n] = "nothing"]
      BY <1>y, <3>1, <3>2
    <3> QED
      BY <1>3, <3>1, <3>3
  <2> QED
    BY <1>8, <2>1, <2>2
<1>9. ASSUME NEW n \in Node, SignalingOpens(n)
      PROVE  tries' \in [Node -> Nat] /\ \A k \in Node : Bounded(k)'
  <2>1. /\ UNCHANGED <<phase, tries>> /\ sig' = [sig EXCEPT ![n] = "open"]
        /\ \/ phase[n] = "register" /\ waiting' = [waiting EXCEPT ![n] = "registered"]
           \/ phase[n] = "request" /\ waiting' = [waiting EXCEPT ![n] = "peer_endpoint"]
    BY <1>9 DEF SignalingOpens, SigOpens, Asking, transport
  <2>2. Bounded(n)'
    BY <1>y, <1>b, <2>1 DEF Early
  <2>3. \A k \in Node \ {n} : /\ tries'[k] = tries[k] /\ waiting'[k] = waiting[k]
                              /\ sig'[k] = sig[k] /\ phase'[k] = phase[k]
    BY <1>y, <2>1
  <2>4. \A k \in Node \ {n} : Bounded(k)'
    BY <1>k, <2>3
  <2> QED
    BY <1>b, <2>1, <2>2, <2>4
<1>10. ASSUME NEW n \in Node, SignalingLost(n)
       PROVE  tries' \in [Node -> Nat] /\ \A k \in Node : Bounded(k)'
  <2>1. /\ UNCHANGED <<phase, tries, waiting>> /\ sig[n] = "open"
        /\ sig' = [sig EXCEPT ![n] = "dead"]
    BY <1>10 DEF SignalingLost, SigLost, transport
  <2>2. Bounded(n)'
    BY <1>y, <1>b, <2>1
  <2>3. \A k \in Node \ {n} : Bounded(k)'
    BY <1>y, <1>k, <2>1
  <2> QED
    BY <1>b, <2>1, <2>2, <2>3
<1>11. ASSUME NEW n \in Node, Discovered(n)
       PROVE  tries' \in [Node -> Nat] /\ \A k \in Node : Bounded(k)'
  <2>1. /\ phase[n] = "stun" /\ phase' = [phase EXCEPT ![n] = "register"] /\ UNCHANGED tries
        /\ sig' = [sig EXCEPT ![n] = "connecting"]
        /\ waiting' = [waiting EXCEPT ![n] = "nothing"]
    BY <1>11 DEF Discovered, SigConnect, SigSettled, Goes
  <2>2. Bounded(n)'
    BY <1>y, <1>b, <2>1 DEF Early
  <2>3. \A k \in Node \ {n} : Bounded(k)'
    BY <1>y, <1>k, <2>1
  <2> QED
    BY <1>b, <2>1, <2>2, <2>3
<1>12. ASSUME NEW n \in Node,
              Connect(n) \/ Bound(n) \/ Punched(n) \/ NotPunched(n) \/ RelayUp(n)
                \/ RelayIdentified(n) \/ RelayDies(n) \/ Close(n)
       PROVE  tries' \in [Node -> Nat] /\ \A k \in Node : Bounded(k)'
  <2>1. UNCHANGED <<tries, waiting, sig>>
    BY <1>12 DEF Connect, Bound, Punched, NotPunched, RelayUp, RelayIdentified, RelayDies,
       Close, clients, transport, signaling
  <2>2. \/ UNCHANGED phase
        \/ /\ phase[n] \notin {"register", "request"}
           /\ \E p \in Phases \ {"register", "request"} : phase' = [phase EXCEPT ![n] = p]
    <3>1. CASE Connect(n) \/ Bound(n)
      BY <3>1 DEF Connect, Bound, Goes, Phases
    <3>2. CASE Punched(n) \/ NotPunched(n)
      BY <3>2 DEF Punched, NotPunched, Hears, GivesUp, SetupRelay, Goes, Phases, Phased
    <3>3. CASE RelayUp(n)
      BY <3>3 DEF RelayUp, RelayOpens, Goes, Phases, Phased
    <3>4. CASE RelayIdentified(n) \/ RelayDies(n)
      BY <3>4 DEF RelayIdentified, RelayDies, Goes, Phases
    <3>5. CASE Close(n)
      BY <3>5 DEF Close, Goes, Phases, Phased
    <3> QED
      BY <1>12, <3>1, <3>2, <3>3, <3>4, <3>5
  <2>3. \A k \in Node : \/ phase'[k] = phase[k]
                        \/ {phase[k], phase'[k]} \intersect {"register", "request"} = {}
    BY <1>y, <2>2
  <2> QED
    BY <1>b, <1>k, <2>1, <2>3
<1>13. ASSUME UNCHANGED <<phase, tries, waiting, sig>>
       PROVE  tries' \in [Node -> Nat] /\ \A k \in Node : Bounded(k)'
  BY <1>b, <1>k, <1>13
<1>14. ASSUME NEW n \in Node,
              AppBind(n) \/ Send(n) \/ Serve(n) \/ PassedOver(n) \/ AnswerIgnored(n)
                \/ Probe(n) \/ ProbeLost(n) \/ Silent(n) \/ RelayDelivers(n)
       PROVE  UNCHANGED <<phase, tries, waiting, sig>>
  BY <1>14 DEF AppBind, Send, Serve, PassedOver, AnswerIgnored, Probe, ProbeLost, Silent,
     RelayDelivers, clients, transport, signaling
<1>15. CASE UNCHANGED vars
  BY <1>13, <1>15 DEF vars, clients, transport, signaling
<1> HIDE DEF Bounded
<1> QED
  BY <1>1, <1>5, <1>6, <1>8, <1>9, <1>10, <1>11, <1>12, <1>13, <1>14, <1>15
     DEF Next, Progress, Rejects

LEMMA Typed ==
  PartsOK /\ Phased /\ SignalingOK /\ LinesOK /\ RelayOK /\ TriesOK => TypeOK
BY DEF PartsOK, CallsOK, SocketsOK, ConnectionsOK, PunchersOK, Phased, SignalingOK, LinesOK,
   RelayOK, TriesOK, TypeOK, Flags

(* The transport keeps its types for whatever bounds, servers and STUN      *)
(* messages, and its parts agree with where connect waits.                  *)
THEOREM PairTyped == Spec => []TypeOK
<1> DEFINE Inv == PartsOK /\ Phased /\ SignalingOK /\ LinesOK /\ RelayOK /\ TriesOK
<1>1. Init => Inv
  BY InitParts, InitSignaling, InitRelay, InitTries
<1>2. Inv /\ [Next]_vars => Inv'
  BY NextParts, NextPhased, NextSignaling, NextRelay, NextTries
<1>3. Inv => TypeOK
  BY Typed
<1> QED
  BY <1>1, <1>2, <1>3, PTL DEF Spec

-----------------------------------------------------------------------------
(* The messages from one node to the other: those the application got, those *)
(* that come to it, those on their way to the server and those still queued. *)
Data(s) == Said(s) \ {Identify}

Sorted(s) == \A i, j \in DOMAIN s :
               i < j /\ s[i] # Identify /\ s[j] # Identify => s[i] < s[j]

Precedes(A, B) == \A x \in A, y \in B : x < y

Line4(got, in, out, later) == Data(got) \union Data(in) \union Data(out) \union Data(later)

Flow(got, in, out, later, top) ==
  /\ Sorted(got) /\ Sorted(in) /\ Sorted(out) /\ Sorted(later)
  /\ Identify \notin Said(got)
  /\ Precedes(Data(got), Data(in)) /\ Precedes(Data(got), Data(out))
  /\ Precedes(Data(got), Data(later))
  /\ Precedes(Data(in), Data(out)) /\ Precedes(Data(in), Data(later))
  /\ Precedes(Data(out), Data(later))
  /\ \A x \in Line4(got, in, out, later) : x <= top

LEMMA NoData == Sorted(<<>>) /\ Data(<<>>) = {} /\ Identify \notin Said(<<>>)
BY Nobody DEF Sorted, Data

LEMMA AppendData ==
  ASSUME NEW s \in Seq(Nat), NEW x \in Nat
  PROVE  /\ Append(s, x) \in Seq(Nat)
         /\ Said(Append(s, x)) = Said(s) \union {x}
         /\ Data(Append(s, x)) = Data(s) \union ({x} \ {Identify})
         /\ Sorted(s) /\ (\A y \in Data(s) : x = Identify \/ y < x) => Sorted(Append(s, x))
<1>1. DOMAIN s = 1..Len(s) /\ DOMAIN Append(s, x) = 1..Len(s) + 1 /\ Len(s) \in Nat
  OBVIOUS
<1>2. /\ \A i \in 1..Len(s) : Append(s, x)[i] = s[i]
      /\ Append(s, x)[Len(s) + 1] = x
  OBVIOUS
<1>3. Said(Append(s, x)) = Said(s) \union {x}
  <2>1. Said(Append(s, x)) \subseteq Said(s) \union {x}
    BY <1>1, <1>2 DEF Said
  <2>2. Said(s) \union {x} \subseteq Said(Append(s, x))
    BY <1>1, <1>2 DEF Said
  <2> QED
    BY <2>1, <2>2
<1>4. ASSUME Sorted(s), \A y \in Data(s) : x = Identify \/ y < x
      PROVE  Sorted(Append(s, x))
  <2> SUFFICES ASSUME NEW i \in 1..Len(s) + 1, NEW j \in 1..Len(s) + 1, i < j,
                      Append(s, x)[i] # Identify, Append(s, x)[j] # Identify
               PROVE  Append(s, x)[i] < Append(s, x)[j]
    BY <1>1 DEF Sorted
  <2>1. i \in 1..Len(s) /\ Append(s, x)[i] = s[i]
    BY <1>1, <1>2
  <2>2. CASE j \in 1..Len(s)
    BY <1>1, <1>2, <1>4, <2>1, <2>2 DEF Sorted
  <2>3. CASE j = Len(s) + 1
    <3>1. s[i] \in Data(s)
      BY <1>1, <2>1 DEF Data, Said
    <3> QED
      BY <1>2, <1>4, <2>1, <2>3, <3>1
  <2> QED
    BY <1>1, <2>2, <2>3
<1> QED
  BY <1>3, <1>4 DEF Data

LEMMA TailSaid ==
  ASSUME NEW s \in Seq(Nat), s # <<>>
  PROVE  /\ Tail(s) \in Seq(Nat) /\ Head(s) \in Nat /\ Head(s) \in Said(s)
         /\ Said(s) = {Head(s)} \union Said(Tail(s))
         /\ Data(s) = ({Head(s)} \ {Identify}) \union Data(Tail(s))
<1>1. /\ DOMAIN s = 1..Len(s) /\ Len(s) \in Nat \ {0} /\ Head(s) = s[1]
      /\ DOMAIN Tail(s) = 1..Len(s) - 1
      /\ \A i \in 1..Len(s) - 1 : Tail(s)[i] = s[i + 1]
  OBVIOUS
<1>2. Tail(s) \in Seq(Nat) /\ Head(s) \in Nat
  OBVIOUS
<1>3. Said(s) \subseteq {Head(s)} \union Said(Tail(s))
  <2> SUFFICES ASSUME NEW i \in 1..Len(s), i # 1
               PROVE  s[i] \in Said(Tail(s))
    BY <1>1 DEF Said
  <2>1. i - 1 \in 1..Len(s) - 1 /\ i - 1 + 1 = i
    BY <1>1
  <2>2. Tail(s)[i - 1] = s[i]
    BY <1>1, <2>1
  <2> QED
    BY <1>1, <2>1, <2>2 DEF Said
<1>4. Head(s) \in Said(s) /\ Said(Tail(s)) \subseteq Said(s)
  BY <1>1 DEF Said
<1> QED
  BY <1>2, <1>3, <1>4 DEF Data

LEMMA TailData ==
  ASSUME NEW s \in Seq(Nat), s # <<>>, Sorted(s)
  PROVE  /\ Sorted(Tail(s))
         /\ Head(s) # Identify => \A y \in Data(Tail(s)) : Head(s) < y
<1>1. /\ DOMAIN s = 1..Len(s) /\ Len(s) \in Nat \ {0} /\ Head(s) = s[1]
      /\ DOMAIN Tail(s) = 1..Len(s) - 1
      /\ \A i \in 1..Len(s) - 1 : Tail(s)[i] = s[i + 1]
  OBVIOUS
<1>2. Sorted(Tail(s))
  BY SMTT(30), <1>1 DEF Sorted
<1>3. ASSUME Head(s) # Identify, NEW y \in Data(Tail(s))
      PROVE  Head(s) < y
  <2>1. PICK i \in 1..Len(s) - 1 : y = s[i + 1] /\ y # Identify
    BY <1>1 DEF Data, Said
  <2>2. 1 \in DOMAIN s /\ i + 1 \in DOMAIN s /\ 1 < i + 1
    BY <1>1
  <2> QED
    BY <1>1, <1>3, <2>1, <2>2 DEF Sorted
<1> QED
  BY <1>2, <1>3

LEMMA JoinedData ==
  ASSUME NEW s \in Seq(Nat), NEW t \in Seq(Nat)
  PROVE  /\ Data(s \o t) = Data(s) \union Data(t)
         /\ Sorted(s) /\ Sorted(t) /\ Precedes(Data(s), Data(t)) => Sorted(s \o t)
<1>1. /\ DOMAIN s = 1..Len(s) /\ DOMAIN t = 1..Len(t) /\ Len(s) \in Nat /\ Len(t) \in Nat
      /\ DOMAIN (s \o t) = 1..Len(s) + Len(t)
  OBVIOUS
<1>2. \A i \in 1..Len(s) + Len(t) : (s \o t)[i] = IF i <= Len(s) THEN s[i] ELSE t[i - Len(s)]
  OBVIOUS
<1>3. Data(s \o t) = Data(s) \union Data(t)
  <2>1. Data(s \o t) \subseteq Data(s) \union Data(t)
    BY <1>1, <1>2 DEF Data, Said
  <2>2. Said(s) \subseteq Said(s \o t)
    <3>1. \A i \in 1..Len(s) : i \in 1..Len(s) + Len(t) /\ (s \o t)[i] = s[i]
      BY <1>1, <1>2
    <3> QED
      BY <1>1, <3>1 DEF Said
  <2>3. Said(t) \subseteq Said(s \o t)
    <3>1. ASSUME NEW i \in 1..Len(t)
          PROVE  i + Len(s) \in 1..Len(s) + Len(t) /\ (s \o t)[i + Len(s)] = t[i]
      <4>1. /\ i + Len(s) \in 1..Len(s) + Len(t) /\ ~(i + Len(s) <= Len(s))
            /\ i + Len(s) - Len(s) = i
        BY <1>1
      <4> QED
        BY <1>2, <4>1
    <3> QED
      BY <1>1, <3>1 DEF Said
  <2> QED
    BY <2>1, <2>2, <2>3 DEF Data
<1>4. ASSUME Sorted(s), Sorted(t), Precedes(Data(s), Data(t))
      PROVE  Sorted(s \o t)
  <2> SUFFICES ASSUME NEW i \in 1..Len(s) + Len(t), NEW j \in 1..Len(s) + Len(t), i < j,
                      (s \o t)[i] # Identify, (s \o t)[j] # Identify
               PROVE  (s \o t)[i] < (s \o t)[j]
    BY <1>1 DEF Sorted
  <2>1. CASE j <= Len(s)
    <3>1. i <= Len(s) /\ i \in 1..Len(s) /\ j \in 1..Len(s)
      BY <1>1, <2>1
    <3>2. (s \o t)[i] = s[i] /\ (s \o t)[j] = s[j]
      BY <1>2, <2>1, <3>1
    <3> QED
      BY <1>1, <1>4, <3>1, <3>2 DEF Sorted
  <2>2. CASE i > Len(s)
    <3>1. i - Len(s) \in 1..Len(t) /\ j - Len(s) \in 1..Len(t) /\ i - Len(s) < j - Len(s)
      BY <1>1, <2>2
    <3>2. (s \o t)[i] = t[i - Len(s)] /\ (s \o t)[j] = t[j - Len(s)]
      <4>1. ~(i <= Len(s)) /\ ~(j <= Len(s))
        BY <1>1, <2>2
      <4> QED
        BY <1>2, <4>1
    <3> QED
      BY <1>1, <1>4, <3>1, <3>2 DEF Sorted
  <2>3. CASE i <= Len(s) /\ j > Len(s)
    <3>1. (s \o t)[i] = s[i] /\ (s \o t)[j] = t[j - Len(s)]
      BY <1>1, <1>2, <2>3
    <3>2. i \in 1..Len(s) /\ j - Len(s) \in 1..Len(t)
      BY <1>1, <2>3
    <3>3. s[i] \in Data(s) /\ t[j - Len(s)] \in Data(t)
      BY <1>1, <3>1, <3>2 DEF Data, Said
    <3> QED
      BY <1>4, <3>1, <3>3 DEF Precedes
  <2> QED
    BY <1>1, <2>1, <2>2, <2>3
<1> QED
  BY <1>3, <1>4

(* What becomes of a flow at each of its ends. *)
LEMMA FlowSteps ==
  ASSUME NEW got \in Seq(Nat), NEW in \in Seq(Nat), NEW out \in Seq(Nat), NEW later \in Seq(Nat),
         NEW top \in Nat, Flow(got, in, out, later, top)
  PROVE  /\ Flow(got, <<>>, out, later, top) /\ Flow(got, in, out, <<>>, top)
         /\ Flow(got, Append(in, Identify), out, later, top)
         /\ Flow(got, in, Append(out, Identify), later, top)
         /\ in # <<>> => /\ Flow(got, Tail(in), out, later, top)
                         /\ Head(in) # Identify =>
                              Flow(Append(got, Head(in)), Tail(in), out, later, top)
         /\ out # <<>> => /\ Flow(got, in, Tail(out), later, top)
                          /\ Head(out) # Identify =>
                               Flow(got, Append(in, Head(out)), Tail(out), later, top)
         /\ Flow(got, in, out \o later, <<>>, top)
         /\ Flow(got, in, out, Append(later, top + 1), top + 1)
         /\ later = <<>> => Flow(got, in, Append(out, top + 1), later, top + 1)
<1> USE NoData DEF Line4
<1>0. Identify \in Nat /\ top + 1 \in Nat /\ top + 1 # Identify
  BY DEF Identify
<1>i. PICK z \in Nat : z = Identify
  BY <1>0
<1>n. /\ \A x \in Data(got) : x \in Nat
      /\ \A x \in Data(in) : x \in Nat
      /\ \A x \in Data(out) : x \in Nat
      /\ \A x \in Data(later) : x \in Nat
  BY DEF Data, Said
<1>1. Flow(got, <<>>, out, later, top) /\ Flow(got, in, out, <<>>, top)
  BY DEF Flow, Precedes
<1>2. Flow(got, Append(in, Identify), out, later, top)
  <2>1. Sorted(Append(in, z)) /\ Data(Append(in, z)) = Data(in) \union ({z} \ {Identify})
    BY <1>i, AppendData DEF Flow
  <2>2. Data(Append(in, z)) = Data(in)
    BY <1>i, <2>1
  <2> QED
    BY <1>i, <2>1, <2>2 DEF Flow
<1>3. Flow(got, in, Append(out, Identify), later, top)
  <2>1. Sorted(Append(out, z)) /\ Data(Append(out, z)) = Data(out) \union ({z} \ {Identify})
    BY <1>i, AppendData DEF Flow
  <2>2. Data(Append(out, z)) = Data(out)
    BY <1>i, <2>1
  <2> QED
    BY <1>i, <2>1, <2>2 DEF Flow
<1>4. ASSUME in # <<>>
      PROVE  /\ Flow(got, Tail(in), out, later, top)
             /\ Head(in) # Identify =>
                  Flow(Append(got, Head(in)), Tail(in), out, later, top)
  <2>1. /\ Sorted(Tail(in)) /\ Data(Tail(in)) \subseteq Data(in) /\ Head(in) \in Nat
        /\ Head(in) # Identify => /\ Head(in) \in Data(in)
                                  /\ \A y \in Data(Tail(in)) : Head(in) < y
    BY <1>4, TailSaid, TailData DEF Flow
  <2>2. Flow(got, Tail(in), out, later, top)
    BY <2>1 DEF Flow, Precedes
  <2>3. ASSUME Head(in) # Identify
        PROVE  Flow(Append(got, Head(in)), Tail(in), out, later, top)
    <3>1. PICK h \in Nat : h = Head(in)
      BY <2>1
    <3>2. h \in Data(in) /\ h # Identify /\ \A y \in Data(Tail(in)) : h < y
      BY <2>1, <2>3, <3>1
    <3>3. \A y \in Data(got) : y < h
      BY <3>2 DEF Flow, Precedes
    <3>4. /\ Sorted(Append(got, h)) /\ Said(Append(got, h)) = Said(got) \union {h}
          /\ Data(Append(got, h)) = Data(got) \union ({h} \ {Identify})
      BY <3>3, AppendData DEF Flow
    <3>5. \A x \in Data(Append(got, h)) : x \in Data(got) \/ x = h
      BY <3>4
    <3>6. Flow(Append(got, h), Tail(in), out, later, top)
      BY <2>1, <2>2, <3>2, <3>4, <3>5 DEF Flow, Precedes
    <3> QED
      BY <3>1, <3>6
  <2> QED
    BY <2>2, <2>3
<1>5. ASSUME out # <<>>
      PROVE  /\ Flow(got, in, Tail(out), later, top)
             /\ Head(out) # Identify =>
                  Flow(got, Append(in, Head(out)), Tail(out), later, top)
  <2>1. /\ Sorted(Tail(out)) /\ Data(Tail(out)) \subseteq Data(out) /\ Head(out) \in Nat
        /\ Head(out) # Identify => /\ Head(out) \in Data(out)
                                   /\ \A y \in Data(Tail(out)) : Head(out) < y
    BY <1>5, TailSaid, TailData DEF Flow
  <2>2. Flow(got, in, Tail(out), later, top)
    BY <2>1 DEF Flow, Precedes
  <2>3. ASSUME Head(out) # Identify
        PROVE  Flow(got, Append(in, Head(out)), Tail(out), later, top)
    <3>1. PICK h \in Nat : h = Head(out)
      BY <2>1
    <3>2. h \in Data(out) /\ h # Identify /\ \A y \in Data(Tail(out)) : h < y
      BY <2>1, <2>3, <3>1
    <3>3. \A y \in Data(in) : y < h
      BY <3>2 DEF Flow, Precedes
    <3>4. /\ Sorted(Append(in, h))
          /\ Data(Append(in, h)) = Data(in) \union ({h} \ {Identify})
      BY <3>3, AppendData DEF Flow
    <3>5. \A x \in Data(Append(in, h)) : x \in Data(in) \/ x = h
      BY <3>4
    <3>6. Flow(got, Append(in, h), Tail(out), later, top)
      BY <2>1, <2>2, <3>2, <3>4, <3>5 DEF Flow, Precedes
    <3> QED
      BY <3>1, <3>6
  <2> QED
    BY <2>2, <2>3
<1>6. Flow(got, in, out \o later, <<>>, top)
  <2>1. Sorted(out \o later) /\ Data(out \o later) = Data(out) \union Data(later)
    BY JoinedData DEF Flow
  <2> QED
    BY <2>1 DEF Flow, Precedes
<1>7. Flow(got, in, out, Append(later, top + 1), top + 1)
  <2>1. \A y \in Data(later) : y < top + 1
    BY <1>n DEF Flow
  <2>2. /\ Sorted(Append(later, top + 1))
        /\ Data(Append(later, top + 1)) = Data(later) \union ({top + 1} \ {Identify})
    BY <1>0, <2>1, AppendData DEF Flow
  <2>3. \A x \in Data(Append(later, top + 1)) : x \in Data(later) \/ x = top + 1
    BY <2>2
  <2>4. \A x \in Line4(got, in, out, later) : x <= top /\ x < top + 1
    BY <1>n DEF Flow
  <2> QED
    BY <1>n, <2>2, <2>3, <2>4 DEF Flow, Precedes
<1>8. ASSUME later = <<>>
      PROVE  Flow(got, in, Append(out, top + 1), later, top + 1)
  <2>1. \A y \in Data(out) : y < top + 1
    BY <1>n DEF Flow
  <2>2. /\ Sorted(Append(out, top + 1))
        /\ Data(Append(out, top + 1)) = Data(out) \union ({top + 1} \ {Identify})
    BY <1>0, <2>1, AppendData DEF Flow
  <2>3. \A x \in Data(Append(out, top + 1)) : x \in Data(out) \/ x = top + 1
    BY <2>2
  <2>4. \A x \in Line4(got, in, out, later) : x <= top /\ x < top + 1
    BY <1>n DEF Flow
  <2> QED
    BY <1>n, <1>8, <2>2, <2>3, <2>4 DEF Flow, Precedes
<1> QED
  BY <1>1, <1>2, <1>3, <1>4, <1>5, <1>6, <1>7, <1>8

(* What the sender numbered increases along the way, unless a message       *)
(* overtook the queue.                                                      *)
Flowing(k) ==
  Flow(received[k], incoming[k], frames[Other[k]], queue[Other[k]], sent[Other[k]])

FlowsOK == \A k \in Node : "early" \notin hasty[Other[k]] => Flowing(k)

LEMMA NextFlows ==
  ASSUME PartsOK, RelayOK, FlowsOK, [Next]_vars
  PROVE  FlowsOK'
<1>t. \A k \in Node : /\ incoming[k] \in Seq(Nat) /\ frames[k] \in Seq(Nat)
                      /\ queue[k] \in Seq(Nat) /\ received[k] \in Seq(Nat) /\ sent[k] \in Nat
  BY DEF RelayOK, Channel, Numbers
<1>o. \A k \in Node : Other[k] \in Node /\ Other[Other[k]] = k
  BY Others
<1>h. \A k \in Node : "early" \notin hasty'[Other[k]] => Flowing(k)
  BY <1>o, HastyGrows DEF FlowsOK
<1>k. ASSUME \A k \in Node : "early" \notin hasty'[Other[k]] /\ Flowing(k) => Flowing(k)'
      PROVE  FlowsOK'
  BY <1>h, <1>k DEF FlowsOK
<1>1. CASE UNCHANGED <<waits, frames, incoming, queue, sent, received>>
  BY <1>k, <1>1 DEF Flowing
<1>2. ASSUME UNCHANGED <<frames, incoming, queue, sent, received>>
      PROVE  \A k \in Node : Flowing(k) => Flowing(k)'
  BY <1>2 DEF Flowing
<1>3. ASSUME NEW n \in Node, RelayOpens(n), UNCHANGED <<incoming, sent>>, NEW k \in Node, Flowing(k)
      PROVE  Flowing(k)'
  <2>1. /\ frames'[n] = Append(frames[n], Identify)
        /\ \A j \in Node \ {n} : frames'[j] = frames[j]
        /\ UNCHANGED <<queue, received>>
    BY <1>3 DEF RelayOpens, Put, RelayOK, Channel
  <2>2. CASE Other[k] = n
    <3>1. Flow(received[k], incoming[k], Append(frames[n], Identify), queue[n], sent[n])
      BY <1>t, <1>o, <1>3, <2>2, FlowSteps DEF Flowing
    <3> QED
      BY <1>3, <2>1, <2>2, <3>1 DEF Flowing
  <2>3. CASE Other[k] # n
    BY <1>3, <1>o, <2>1, <2>3 DEF Flowing
  <2> QED
    BY <2>2, <2>3
<1>4. ASSUME NEW n \in Node, Identified(n), UNCHANGED sent, NEW k \in Node, Flowing(k)
      PROVE  Flowing(k)'
  <2>1. /\ incoming[n] # <<>> /\ incoming'[n] = Tail(incoming[n])
        /\ \A j \in Node \ {n} : incoming'[j] = incoming[j]
        /\ UNCHANGED received
    BY <1>4 DEF Identified, Arrives, Took, RelayOK, Channel
  <2>2. /\ frames'[n] = frames[n] \o queue[n] /\ queue'[n] = <<>>
        /\ \A j \in Node \ {n} : frames'[j] = frames[j] /\ queue'[j] = queue[j]
    BY <1>4 DEF Identified, RelayOK, Channel
  <2>3. /\ incoming'[k] \in Seq(Nat)
        /\ Flow(received[k], incoming'[k], frames[Other[k]], queue[Other[k]], sent[Other[k]])
    <3>1. CASE k = n
      <4>1. Tail(incoming[n]) \in Seq(Nat)
        BY <1>t, <2>1
      <4>2. Flow(received[k], Tail(incoming[n]), frames[Other[k]], queue[Other[k]], sent[Other[k]])
        BY <1>t, <1>o, <1>4, <2>1, <3>1, FlowSteps DEF Flowing
      <4> QED
        BY <2>1, <3>1, <4>1, <4>2
    <3>2. CASE k # n
      BY <1>4, <1>t, <2>1, <3>2 DEF Flowing
    <3> QED
      BY <3>1, <3>2
  <2>4. CASE Other[k] = n
    <3>1. Flow(received[k], incoming'[k], frames[n] \o queue[n], <<>>, sent[n])
      BY <1>t, <2>3, <2>4, FlowSteps
    <3> QED
      BY <1>4, <2>1, <2>2, <2>4, <3>1 DEF Flowing
  <2>5. CASE Other[k] # n
    BY <1>4, <1>o, <2>1, <2>2, <2>3, <2>5 DEF Flowing
  <2> QED
    BY <2>4, <2>5
<1>5. ASSUME NEW n \in Node, RelayData(n, n \in app), UNCHANGED sent, NEW k \in Node, Flowing(k)
      PROVE  Flowing(k)'
  <2>1. /\ incoming[n] # <<>> /\ incoming'[n] = Tail(incoming[n]) /\ Head(incoming[n]) # Identify
        /\ \A j \in Node \ {n} : incoming'[j] = incoming[j] /\ received'[j] = received[j]
        /\ UNCHANGED <<frames, queue>>
        /\ received'[n] = received[n] \/ received'[n] = Append(received[n], Head(incoming[n]))
    BY <1>5 DEF RelayData, Arrives, Took, Put, RelayOK, Channel
  <2>2. CASE k = n
    <3>1. /\ Flow(received[k], Tail(incoming[n]), frames[Other[k]], queue[Other[k]], sent[Other[k]])
          /\ Flow(Append(received[k], Head(incoming[n])), Tail(incoming[n]), frames[Other[k]],
                  queue[Other[k]], sent[Other[k]])
      BY <1>t, <1>o, <1>5, <2>1, <2>2, FlowSteps DEF Flowing
    <3> QED
      BY <1>5, <2>1, <2>2, <3>1 DEF Flowing
  <2>3. CASE k # n
    BY <1>5, <1>t, <2>1, <2>3 DEF Flowing
  <2> QED
    BY <2>2, <2>3
<1>6. ASSUME NEW n \in Node, RelayLost(n), UNCHANGED <<frames, sent>>, NEW k \in Node, Flowing(k)
      PROVE  Flowing(k)'
  <2>1. /\ incoming'[n] = <<>> /\ \A j \in Node \ {n} : incoming'[j] = incoming[j]
        /\ UNCHANGED <<queue, received>>
    BY <1>6 DEF RelayLost, RelayOK, Channel
  <2>2. Flow(received[k], <<>>, frames[Other[k]], queue[Other[k]], sent[Other[k]])
    BY <1>t, <1>o, <1>6, FlowSteps DEF Flowing
  <2> QED
    BY <1>6, <2>1, <2>2 DEF Flowing
<1>7. ASSUME NEW n \in Node, RelayClose(n), UNCHANGED <<frames, sent>>, NEW k \in Node, Flowing(k)
      PROVE  Flowing(k)'
  <2>1. /\ incoming'[n] = <<>> /\ \A j \in Node \ {n} : incoming'[j] = incoming[j]
        /\ queue'[n] = <<>> /\ \A j \in Node \ {n} : queue'[j] = queue[j]
        /\ UNCHANGED received
    BY <1>7 DEF RelayClose, RelayOK, Channel
  <2>2. /\ incoming'[k] \in Seq(Nat)
        /\ Flow(received[k], incoming'[k], frames[Other[k]], queue[Other[k]], sent[Other[k]])
    <3>1. CASE k = n
      <4>1. Flow(received[k], <<>>, frames[Other[k]], queue[Other[k]], sent[Other[k]])
        BY <1>t, <1>o, <1>7, FlowSteps DEF Flowing
      <4>2. <<>> \in Seq(Nat)
        OBVIOUS
      <4> QED
        BY <2>1, <3>1, <4>1, <4>2
    <3>2. CASE k # n
      BY <1>7, <1>t, <2>1, <3>2 DEF Flowing
    <3> QED
      BY <3>1, <3>2
  <2>3. Flow(received[k], incoming'[k], frames[Other[k]], <<>>, sent[Other[k]])
    BY <1>t, <1>o, <2>2, FlowSteps
  <2> QED
    BY <1>7, <1>o, <2>1, <2>2, <2>3 DEF Flowing
<1>8. ASSUME NEW n \in Node, RelaySend(n, sent[n] + 1), sent' = [sent EXCEPT ![n] = @ + 1],
             UNCHANGED incoming, relay[n] = "open" /\ queue[n] # <<>> => "early" \in hasty'[n],
             NEW k \in Node, Flowing(k), "early" \notin hasty'[Other[k]]
      PROVE  Flowing(k)'
  <2>1. sent'[n] = sent[n] + 1 /\ \A j \in Node \ {n} : sent'[j] = sent[j]
    BY <1>8 DEF RelayOK
  <2>2. /\ \/ /\ frames'[n] = Append(frames[n], sent[n] + 1) /\ queue'[n] = queue[n]
              /\ relay[n] = "open"
           \/ queue'[n] = Append(queue[n], sent[n] + 1) /\ frames'[n] = frames[n]
        /\ \A j \in Node \ {n} : frames'[j] = frames[j] /\ queue'[j] = queue[j]
        /\ UNCHANGED received
    BY <1>8 DEF RelaySend, Put, RelayOK, Channel
  <2>3. CASE Other[k] = n
    <3>1. /\ Flow(received[k], incoming[k], frames[n], Append(queue[n], sent[n] + 1), sent[n] + 1)
          /\ queue[n] = <<>> =>
               Flow(received[k], incoming[k], Append(frames[n], sent[n] + 1), queue[n], sent[n] + 1)
      BY <1>t, <1>o, <1>8, <2>3, FlowSteps DEF Flowing
    <3>2. relay[n] = "open" => queue[n] = <<>>
      BY <1>8, <2>3
    <3> QED
      BY <1>8, <2>1, <2>2, <2>3, <3>1, <3>2 DEF Flowing
  <2>4. CASE Other[k] # n
    BY <1>8, <1>o, <2>1, <2>2, <2>4 DEF Flowing
  <2> QED
    BY <2>3, <2>4
<1>9. ASSUME NEW n \in Node, ServerRelays(n, RelayOpen), UNCHANGED <<waits, queue, sent, received>>,
             NEW k \in Node, Flowing(k)
      PROVE  Flowing(k)'
  <2>1. /\ frames[n] # <<>> /\ frames'[n] = Tail(frames[n])
        /\ \A j \in Node \ {n} : frames'[j] = frames[j]
    BY <1>9, Relaying DEF Took, RelayOK, Channel
  <2>2. /\ frames'[Other[k]] \in Seq(Nat)
        /\ Flow(received[k], incoming[k], frames'[Other[k]], queue[Other[k]], sent[Other[k]])
    <3>1. CASE Other[k] = n
      <4>1. Tail(frames[n]) \in Seq(Nat)
        BY <1>t, <2>1
      <4>3. Flow(received[k], incoming[k], frames[n], queue[n], sent[n])
        BY <1>9, <3>1 DEF Flowing
      <4>2. Flow(received[k], incoming[k], Tail(frames[n]), queue[n], sent[n])
        BY <1>t, <2>1, <4>3, FlowSteps
      <4> QED
        BY <2>1, <3>1, <4>1, <4>2
    <3>2. CASE Other[k] # n
      BY <1>9, <1>o, <1>t, <2>1, <3>2 DEF Flowing
    <3> QED
      BY <3>1, <3>2
  <2>3. CASE incoming'[k] = incoming[k]
    BY <1>9, <2>2, <2>3 DEF Flowing
  <2>4. CASE incoming'[k] = Append(incoming[k], Identify)
    <3>1. Flow(received[k], Append(incoming[k], Identify), frames'[Other[k]], queue[Other[k]],
               sent[Other[k]])
      BY <1>t, <1>o, <2>2, FlowSteps
    <3> QED
      BY <1>9, <2>4, <3>1 DEF Flowing
  <2>5. CASE /\ Other[k] = n /\ Head(frames[n]) # Identify
             /\ incoming'[k] = Append(incoming[k], Head(frames[n]))
    <3>1. Flow(received[k], Append(incoming[k], Head(frames[n])), Tail(frames[n]), queue[n],
               sent[n])
      BY <1>t, <1>o, <1>9, <2>1, <2>5, FlowSteps DEF Flowing
    <3> QED
      BY <1>9, <2>1, <2>5, <3>1 DEF Flowing
  <2>6. \/ incoming'[k] = incoming[k]
        \/ incoming'[k] = Append(incoming[k], Identify)
        \/ /\ Other[k] = n /\ Head(frames[n]) # Identify
           /\ incoming'[k] = Append(incoming[k], Head(frames[n]))
    <3>1. CASE UNCHANGED incoming
      BY <3>1
    <3>2. CASE incoming' = Put(incoming, n, Identify)
      BY <3>2 DEF Put, RelayOK, Channel
    <3>3. CASE Head(frames[n]) # Identify /\ incoming' = Put(incoming, Other[n], Head(frames[n]))
      <4>1. CASE k = Other[n]
        <5>1. Other[k] = n
          BY <1>o, <4>1
        <5>2. incoming'[k] = Append(incoming[k], Head(frames[n]))
          BY <1>o, <3>3, <4>1 DEF Put, RelayOK, Channel
        <5> QED
          BY <3>3, <5>1, <5>2
      <4>2. CASE k # Other[n]
        BY <1>o, <3>3, <4>2 DEF Put, RelayOK, Channel
      <4> QED
        BY <4>1, <4>2
    <3> QED
      BY <1>9, <3>1, <3>2, <3>3, Relaying
  <2> QED
    BY <2>3, <2>4, <2>5, <2>6
<1>10. ASSUME NEW n \in Node,
              \/ UNCHANGED <<frames, incoming, queue, sent, received>>
              \/ RelayOpens(n) /\ UNCHANGED <<incoming, sent>>
              \/ Identified(n) /\ UNCHANGED sent
              \/ RelayData(n, n \in app) /\ UNCHANGED sent
              \/ RelayLost(n) /\ UNCHANGED <<frames, sent>>
              \/ /\ RelaySend(n, sent[n] + 1) /\ sent' = [sent EXCEPT ![n] = @ + 1]
                 /\ UNCHANGED incoming
                 /\ relay[n] = "open" /\ queue[n] # <<>> => "early" \in hasty'[n]
              \/ RelayClose(n) /\ UNCHANGED <<frames, sent>>
              \/ ServerRelays(n, RelayOpen) /\ UNCHANGED <<waits, queue, sent, received>>
       PROVE  FlowsOK'
  <2>1. \A k \in Node : "early" \notin hasty'[Other[k]] /\ Flowing(k) => Flowing(k)'
    BY <1>10, <1>2, <1>3, <1>4, <1>5, <1>6, <1>7, <1>8, <1>9
  <2> QED
    BY <1>k, <2>1
<1> QED
  BY <1>1, <1>10, RelaySteps

(* How far a relay's WebSocket has come, and what it takes for data to have *)
(* come to a node.                                                          *)
Live == {"none", "connecting", "open"}

LEMMA RelayOrder ==
  ASSUME PartsOK, Phased, [Next]_vars, NEW k \in Node
  PROVE  /\ relay'[k] \in Live => relay[k] \in Live
         /\ relay[k] = "closed" => relay'[k] = "closed"
         /\ relay'[k] = "none" => relay[k] = "none"
         /\ relay[k] \notin {"none", "connecting"} => relay'[k] \notin {"none", "connecting"}
<1> USE DEF PartsOK, ConnectionsOK, clients, relaying
<1>1. \/ UNCHANGED relay
      \/ \E n \in Node :
           \/ relay[n] = "none" /\ relay' = [relay EXCEPT ![n] = "connecting"]
           \/ relay[n] = "connecting" /\ relay' = [relay EXCEPT ![n] = "open"]
           \/ relay[n] \in {"connecting", "open"} /\ relay' = [relay EXCEPT ![n] = "dead"]
           \/ relay' = [relay EXCEPT ![n] = IF relay[n] = "none" THEN "none" ELSE "closed"]
  <2>1. CASE UNCHANGED vars
    BY <2>1 DEF vars
  <2>2. ASSUME NEW n \in Node, Close(n)
        PROVE  relay' = [relay EXCEPT ![n] = IF relay[n] = "none" THEN "none" ELSE "closed"]
    BY <2>2 DEF Close, RelayClose
  <2>3. ASSUME NEW n \in Node, Found(n) \/ Rejects(n) \/ NotPunched(n)
        PROVE  \/ UNCHANGED relay
               \/ relay[n] = "none" /\ relay' = [relay EXCEPT ![n] = "connecting"]
    <3>1. UNCHANGED relay \/ relay' = [relay EXCEPT ![n] = "connecting"]
      BY <2>3, RejectionWorks DEF Found, NotPunched, Rejected, SetupRelay, RelayConnect
    <3>2. phase[n] \in {"request", "punch"}
      BY <2>3, RejectionWorks DEF Found, NotPunched, GivesUp, Phased
    <3> QED
      BY <3>1, <3>2 DEF Phased
  <2>4. ASSUME NEW n \in Node, RelayUp(n)
        PROVE  relay[n] = "connecting" /\ relay' = [relay EXCEPT ![n] = "open"]
    BY <2>4 DEF RelayUp, RelayOpens
  <2>5. ASSUME NEW n \in Node,
               Bound(n) \/ Discovered(n) \/ SignalingOpens(n) \/ SignalingFails(n)
                 \/ Registered(n) \/ RegisterTimeout(n) \/ AnswerIgnored(n) \/ Retry(n)
                 \/ Punched(n) \/ Silent(n) \/ RelayIdentified(n) \/ RelayDelivers(n)
        PROVE  UNCHANGED relay
    BY <2>5 DEF Bound, Discovered, SignalingOpens, SignalingFails, Registered, RegisterTimeout,
       AnswerIgnored, Retry, Punched, Silent, RelayIdentified, RelayDelivers, Identified, RelayData
  <2>6. ASSUME NEW n \in Node,
               Connect(n) \/ AppBind(n) \/ Send(n) \/ Serve(n) \/ PassedOver(n)
                 \/ SignalingLost(n) \/ Probe(n) \/ ProbeLost(n)
        PROVE  UNCHANGED relay
    BY <2>6 DEF Connect, AppBind, Send, Serve, PassedOver, SignalingLost, Probe, ProbeLost,
       RelaySend
  <2>7. ASSUME NEW n \in Node, RelayDies(n)
        PROVE  relay[n] \in {"connecting", "open"} /\ relay' = [relay EXCEPT ![n] = "dead"]
    BY <2>7 DEF RelayDies, RelayLost
  <2> QED
    BY <2>1, <2>2, <2>3, <2>4, <2>5, <2>6, <2>7 DEF Next, Progress, Rejects
<1> QED
  BY <1>1 DEF Live

(* Data comes only to a relay that had opened and that the server knows,     *)
(* from then on; and who once gave a message to a handler has one.          *)
Ready(k) ==
  /\ Data(received[k]) \union Data(incoming[k]) # {} =>
       registry[k] = "relay" /\ relay[k] \notin {"none", "connecting"}
  /\ received[k] # <<>> => k \in app
  /\ relay[k] = "none" => queue[k] = <<>>

LEMMA NextReady ==
  ASSUME PartsOK, Phased, SignalingOK, LinesOK, Registration, RelayOK, [Next]_vars,
         NEW k \in Node, Ready(k)
  PROVE  Ready(k)'
<1>t. \A n \in Node : incoming[n] \in Seq(Nat) /\ received[n] \in Seq(Nat)
  BY DEF RelayOK, Channel, Numbers
<1>a. k \in app => k \in app'
  BY SocketSteps DEF Connect, Bound, AppBind, Close
<1>i. PICK z \in Nat : z = Identify
  BY DEF Identify
<1>1. ASSUME Data(received'[k]) \union Data(incoming'[k]) \subseteq
                Data(received[k]) \union Data(incoming[k]),
             received'[k] # <<>> => k \in app,
             queue'[k] # <<>> => queue[k] # <<>> \/ relay[k] # "none"
      PROVE  Ready(k)'
  BY <1>1, <1>a, RelayStaysKnown, RelayOrder DEF Ready
<1>2. ASSUME UNCHANGED <<incoming, queue, received>>
      PROVE  Ready(k)'
  BY <1>1, <1>2 DEF Ready
<1>3. ASSUME NEW n \in Node, RelayOpens(n), UNCHANGED incoming
      PROVE  Ready(k)'
  BY <1>2, <1>3 DEF RelayOpens
<1>4. ASSUME NEW n \in Node, Identified(n)
      PROVE  Ready(k)'
  <2>1. /\ incoming[n] # <<>> /\ incoming' = Took(incoming, n) /\ UNCHANGED received
        /\ queue' = [queue EXCEPT ![n] = <<>>]
    BY <1>4 DEF Identified, Arrives
  <2>2. Data(incoming'[k]) \subseteq Data(incoming[k])
    BY <1>t, <2>1, TailSaid DEF Took, RelayOK, Channel
  <2>3. queue'[k] # <<>> => queue[k] # <<>>
    BY <2>1 DEF RelayOK, Channel
  <2> QED
    BY <1>1, <2>1, <2>2, <2>3 DEF Ready
<1>5. ASSUME NEW n \in Node, RelayData(n, n \in app)
      PROVE  Ready(k)'
  <2>1. /\ incoming[n] # <<>> /\ Head(incoming[n]) # Identify /\ UNCHANGED queue
        /\ incoming'[n] = Tail(incoming[n])
        /\ received'[n] = IF n \in app THEN Append(received[n], Head(incoming[n])) ELSE received[n]
        /\ \A j \in Node \ {n} : incoming'[j] = incoming[j] /\ received'[j] = received[j]
    BY <1>5 DEF RelayData, Arrives, Took, Put, RelayOK, Channel
  <2>2. CASE k = n
    <3>1. PICK h \in Nat : h = Head(incoming[n])
      BY <1>t, <2>1
    <3>2. Data(incoming[n]) = ({h} \ {Identify}) \union Data(Tail(incoming[n]))
      BY <1>t, <2>1, <3>1, TailSaid
    <3>3. Data(Append(received[n], h)) = Data(received[n]) \union ({h} \ {Identify})
      BY <1>t, AppendData
    <3>4. Data(received'[k]) \union Data(incoming'[k]) \subseteq
             Data(received[k]) \union Data(incoming[k])
      BY <2>1, <2>2, <3>1, <3>2, <3>3
    <3> QED
      BY <1>1, <2>1, <2>2, <3>4 DEF Ready
  <2>3. CASE k # n
    BY <1>1, <2>1, <2>3 DEF Ready
  <2> QED
    BY <2>2, <2>3
<1>6. ASSUME NEW n \in Node, RelayLost(n)
      PROVE  Ready(k)'
  <2>1. incoming'[k] \in {incoming[k], <<>>} /\ UNCHANGED <<queue, received>>
    BY <1>6 DEF RelayLost, RelayOK, Channel
  <2> QED
    BY <1>1, <2>1, NoData DEF Ready
<1>7. ASSUME NEW n \in Node, RelaySend(n, sent[n] + 1), UNCHANGED incoming
      PROVE  Ready(k)'
  <2>1. UNCHANGED received /\ relay[n] # "none" /\ (k # n => queue'[k] = queue[k])
    BY <1>7 DEF RelaySend, Put, RelayOK, Channel
  <2> QED
    BY <1>1, <1>7, <2>1 DEF Ready
<1>8. ASSUME NEW n \in Node, RelayClose(n)
      PROVE  Ready(k)'
  <2>1. /\ incoming'[k] \in {incoming[k], <<>>} /\ queue'[k] \in {queue[k], <<>>}
        /\ UNCHANGED received
    BY <1>8 DEF RelayClose, RelayOK, Channel
  <2> QED
    BY <1>1, <2>1, NoData DEF Ready
<1>9. ASSUME NEW n \in Node, ServerRelays(n, RelayOpen), UNCHANGED <<queue, received>>
      PROVE  Ready(k)'
  <2>1. CASE UNCHANGED incoming
    BY <1>2, <1>9, <2>1
  <2>2. CASE incoming' = Put(incoming, n, Identify)
    <3>1. incoming'[k] = incoming[k] \/ incoming'[k] = Append(incoming[k], z)
      BY <1>i, <2>2 DEF Put, RelayOK, Channel
    <3>2. Data(Append(incoming[k], z)) = Data(incoming[k]) \union ({z} \ {Identify})
      BY <1>t, AppendData
    <3>3. Data(incoming'[k]) \subseteq Data(incoming[k])
      BY <1>i, <3>1, <3>2
    <3> QED
      BY <1>1, <1>9, <3>3 DEF Ready
  <2>3. CASE /\ registry[Other[n]] = "relay" /\ relay[Other[n]] = "open"
             /\ incoming' = Put(incoming, Other[n], Head(frames[n]))
    <3>1. CASE k = Other[n]
      <4>1. relay[k] = "open" /\ registry[k] = "relay"
        BY <2>3, <3>1
      <4>2. registry'[k] = "relay" /\ relay'[k] \notin {"none", "connecting"}
        BY <4>1, RelayStaysKnown, RelayOrder
      <4> QED
        BY <1>a, <1>9, <4>2 DEF Ready
    <3>2. CASE k # Other[n]
      <4>1. incoming'[k] = incoming[k]
        BY <2>3, <3>2 DEF Put, RelayOK, Channel
      <4> QED
        BY <1>1, <1>9, <4>1 DEF Ready
    <3> QED
      BY <3>1, <3>2
  <2> QED
    BY <1>9, <2>1, <2>2, <2>3, Relaying
<1> QED
  BY <1>2, <1>3, <1>4, <1>5, <1>6, <1>7, <1>8, <1>9, RelaySteps

(* What a step does to all that is between two nodes: it loses some of the  *)
(* oldest or, when the sender closes, of the newest messages, or adds the    *)
(* next one, as long as the receiver's relay has not ended.                 *)
Pending(k) == Line4(received[k], incoming[k], frames[Other[k]], queue[Other[k]])

LineStep(k, U, V) ==
  \/ /\ V \subseteq U /\ Precedes(U \ V, V)
     /\ sent'[Other[k]] = sent[Other[k]]
  \/ /\ V \subseteq U /\ Precedes(V, U \ V)
     /\ relay'[Other[k]] = "closed"
  \/ /\ V = U \union {sent[Other[k]] + 1} /\ sent'[Other[k]] = sent[Other[k]] + 1
     /\ relay'[Other[k]] # "closed"
  \/ relay'[k] \notin Live

LEMMA LineSteps ==
  ASSUME PartsOK, Phased, RelayOK, [Next]_vars,
         NEW k \in Node, Ready(k), Ready(Other[k]), Flowing(k)
  PROVE  LineStep(k, Pending(k), Pending(k)')
<1> DEFINE j == Other[k]
           Line == LineStep(k, Pending(k), Pending(k)')
<1>t. \A n \in Node : /\ incoming[n] \in Seq(Nat) /\ received[n] \in Seq(Nat)
                      /\ frames[n] \in Seq(Nat) /\ queue[n] \in Seq(Nat) /\ sent[n] \in Nat
  BY DEF RelayOK, Channel, Numbers
<1>o. j \in Node /\ Other[j] = k
  BY Others
<1>i. PICK z \in Nat : z = Identify
  BY DEF Identify
<1>z. \A s \in Seq(Nat) : Data(Append(s, z)) = Data(s)
  <2> TAKE s \in Seq(Nat)
  <2>1. Data(Append(s, z)) = Data(s) \union ({z} \ {Identify})
    BY AppendData
  <2> QED
    BY <1>i, <2>1
<1>s. ASSUME Pending(k)' = Pending(k), sent'[j] = sent[j]
      PROVE  Line
  BY <1>s DEF LineStep, Precedes
<1> HIDE DEF Line
<1>1. ASSUME UNCHANGED <<frames, incoming, queue, sent, received>>
      PROVE  Line
  BY <1>s, <1>1 DEF Pending
<1>2. ASSUME NEW n \in Node, RelayOpens(n), UNCHANGED <<incoming, sent>>
      PROVE  Line
  <2>1. /\ frames'[j] = frames[j] \/ frames'[j] = Append(frames[j], z)
        /\ UNCHANGED <<queue, received>>
    BY <1>2, <1>i, <1>o DEF RelayOpens, Put, RelayOK, Channel
  <2>2. Data(frames'[j]) = Data(frames[j])
    BY <1>t, <1>o, <1>z, <2>1
  <2> QED
    BY <1>s, <1>2, <2>1, <2>2 DEF Pending, Line4
<1>3. ASSUME NEW n \in Node, Identified(n), UNCHANGED sent
      PROVE  Line
  <2>1. /\ incoming[n] # <<>> /\ incoming'[n] = Tail(incoming[n]) /\ Head(incoming[n]) = Identify
        /\ \A i \in Node \ {n} : incoming'[i] = incoming[i]
        /\ UNCHANGED received
    BY <1>3 DEF Identified, Arrives, Took, RelayOK, Channel
  <2>2. /\ frames'[n] = frames[n] \o queue[n] /\ queue'[n] = <<>>
        /\ \A i \in Node \ {n} : frames'[i] = frames[i] /\ queue'[i] = queue[i]
    BY <1>3 DEF Identified, RelayOK, Channel
  <2>3. Data(incoming'[k]) = Data(incoming[k])
    <3>1. Data(incoming[n]) = ({Head(incoming[n])} \ {Identify}) \union Data(Tail(incoming[n]))
      BY <1>t, <2>1, TailSaid
    <3> QED
      BY <2>1, <3>1
  <2>4. Data(frames'[j]) \union Data(queue'[j]) = Data(frames[j]) \union Data(queue[j])
    <3>1. Data(frames[n] \o queue[n]) = Data(frames[n]) \union Data(queue[n])
      BY <1>t, JoinedData
    <3> QED
      BY <1>o, <2>2, <3>1, NoData
  <2> QED
    BY <1>s, <1>3, <2>1, <2>3, <2>4 DEF Pending, Line4
<1>4. ASSUME NEW n \in Node, RelayData(n, n \in app), UNCHANGED sent
      PROVE  Line
  <2>1. /\ incoming[n] # <<>> /\ Head(incoming[n]) # Identify /\ UNCHANGED <<frames, queue>>
        /\ incoming'[n] = Tail(incoming[n])
        /\ received'[n] = IF n \in app THEN Append(received[n], Head(incoming[n])) ELSE received[n]
        /\ \A i \in Node \ {n} : incoming'[i] = incoming[i] /\ received'[i] = received[i]
    BY <1>4 DEF RelayData, Arrives, Took, Put, RelayOK, Channel
  <2>2. PICK h \in Nat : h = Head(incoming[n])
    BY <1>t, <2>1
  <2>3. Data(incoming[n]) = {h} \union Data(Tail(incoming[n]))
    <3>1. Data(incoming[n]) = ({h} \ {Identify}) \union Data(Tail(incoming[n]))
      BY <1>t, <2>1, <2>2, TailSaid
    <3> QED
      BY <2>1, <2>2, <3>1
  <2>4. CASE k # n
    BY <1>s, <1>4, <2>1, <2>4 DEF Pending
  <2>5. CASE k = n /\ n \in app
    <3>1. Data(Append(received[n], h)) = Data(received[n]) \union {h}
      <4>1. Data(Append(received[n], h)) = Data(received[n]) \union ({h} \ {Identify})
        BY <1>t, AppendData
      <4> QED
        BY <2>1, <2>2, <4>1
    <3> QED
      BY <1>s, <1>4, <2>1, <2>2, <2>3, <2>5, <3>1 DEF Pending, Line4
  <2>6. CASE k = n /\ n \notin app
    <3>1. received[k] = <<>> /\ received'[k] = <<>>
      BY <2>1, <2>6 DEF Ready
    <3>2. \A y \in Data(Tail(incoming[k])) : h < y
      BY <1>t, <2>1, <2>2, <2>6, TailData DEF Flowing, Flow
    <3>3. \A y \in Data(frames[j]) \union Data(queue[j]) : h < y
      BY <2>3, <2>6 DEF Flowing, Flow, Precedes
    <3>4. /\ Pending(k) = {h} \union Pending(k)'
          /\ \A y \in Pending(k)' : h < y
      BY <2>1, <2>3, <2>6, <3>1, <3>2, <3>3, NoData DEF Pending, Line4
    <3> QED
      BY <1>4, <3>4 DEF Line, LineStep, Precedes
  <2> QED
    BY <2>4, <2>5, <2>6
<1>5. ASSUME NEW n \in Node, RelayLost(n), UNCHANGED <<frames, sent>>
      PROVE  Line
  <2>1. CASE k = n
    BY <1>5, <2>1 DEF RelayLost, Line, LineStep, Live, PartsOK, ConnectionsOK
  <2>2. CASE k # n
    <3>1. incoming'[k] = incoming[k] /\ UNCHANGED <<queue, received>>
      BY <1>5, <2>2 DEF RelayLost, RelayOK, Channel
    <3> QED
      BY <1>s, <1>5, <3>1 DEF Pending
  <2> QED
    BY <2>1, <2>2
<1>6. ASSUME NEW n \in Node, RelaySend(n, sent[n] + 1), sent' = [sent EXCEPT ![n] = @ + 1],
             UNCHANGED incoming
      PROVE  Line
  <2>1. UNCHANGED <<relay, received>> /\ relay[n] \in {"connecting", "open", "dead"}
    BY <1>6 DEF RelaySend
  <2>2. CASE j # n
    <3>1. frames'[j] = frames[j] /\ queue'[j] = queue[j] /\ sent'[j] = sent[j]
      BY <1>6, <1>o, <2>2 DEF RelaySend, Put, RelayOK, Channel
    <3> QED
      BY <1>s, <1>6, <2>1, <3>1 DEF Pending
  <2>3. CASE j = n
    <3>1. PICK m \in Nat : m = sent[j] + 1
      BY <1>t, <1>o
    <3>2. m # Identify /\ sent'[j] = m
      BY <1>6, <1>o, <1>t, <2>3, <3>1 DEF Identify, RelayOK
    <3>3. \A s \in Seq(Nat) : Data(Append(s, m)) = Data(s) \union {m}
      <4> TAKE s \in Seq(Nat)
      <4>1. Data(Append(s, m)) = Data(s) \union ({m} \ {Identify})
        BY AppendData
      <4> QED
        BY <3>2, <4>1
    <3>4. \/ frames'[j] = Append(frames[j], m) /\ queue'[j] = queue[j]
          \/ queue'[j] = Append(queue[j], m) /\ frames'[j] = frames[j]
      BY <1>6, <1>o, <2>3, <3>1 DEF RelaySend, Put, RelayOK, Channel
    <3>5. Data(frames'[j]) \union Data(queue'[j]) = Data(frames[j]) \union Data(queue[j]) \union {m}
      BY <1>t, <1>o, <3>3, <3>4
    <3>6. Pending(k)' = Pending(k) \union {m}
      BY <1>6, <2>1, <3>5 DEF Pending, Line4
    <3> QED
      BY <2>1, <2>3, <3>1, <3>2, <3>6 DEF Line, LineStep
  <2> QED
    BY <2>2, <2>3
<1>7. ASSUME NEW n \in Node, RelayClose(n), UNCHANGED <<frames, sent>>
      PROVE  Line
  <2>1. /\ relay' = [relay EXCEPT ![n] = IF relay[n] = "none" THEN "none" ELSE "closed"]
        /\ queue'[n] = <<>> /\ \A i \in Node \ {n} : queue'[i] = queue[i]
        /\ incoming'[n] = <<>> /\ \A i \in Node \ {n} : incoming'[i] = incoming[i]
        /\ UNCHANGED received
    BY <1>7 DEF RelayClose, RelayOK, Channel
  <2>2. CASE k = n /\ relay[k] # "none"
    BY <2>1, <2>2 DEF Line, LineStep, Live, PartsOK, ConnectionsOK
  <2>3. CASE k # n \/ relay[k] = "none"
    <3>1. Data(incoming'[k]) = Data(incoming[k])
      BY <2>1, <2>3, NoData DEF Ready
    <3>2. CASE j # n \/ relay[j] = "none"
      <4>1. queue'[j] = queue[j]
        BY <1>o, <2>1, <3>2 DEF Ready
      <4> QED
        BY <1>s, <1>7, <2>1, <3>1, <4>1 DEF Pending, Line4
    <3>3. CASE j = n /\ relay[j] # "none"
      <4>1. relay'[j] = "closed"
        BY <2>1, <3>3 DEF PartsOK, ConnectionsOK
      <4>2. /\ Pending(k)' = Data(received[k]) \union Data(incoming[k]) \union Data(frames[j])
            /\ Pending(k) = Pending(k)' \union Data(queue[j])
        BY <1>7, <2>1, <3>1, <3>3, NoData DEF Pending, Line4
      <4>3. Precedes(Pending(k)', Data(queue[j]))
        BY <4>2 DEF Flowing, Flow, Precedes
      <4> QED
        BY <4>1, <4>2, <4>3 DEF Line, LineStep, Precedes
    <3> QED
      BY <3>2, <3>3
  <2> QED
    BY <2>2, <2>3
<1>8. ASSUME NEW n \in Node, ServerRelays(n, RelayOpen), UNCHANGED <<relay, queue, sent, received>>
      PROVE  Line
  <2>1. /\ frames[n] # <<>> /\ frames'[n] = Tail(frames[n])
        /\ \A i \in Node \ {n} : frames'[i] = frames[i]
    BY <1>8, Relaying DEF Took, RelayOK, Channel
  <2>2. PICK h \in Nat : h = Head(frames[n])
    BY <1>t, <2>1
  <2>3. Data(frames[n]) = ({h} \ {Identify}) \union Data(Tail(frames[n]))
    BY <1>t, <2>1, <2>2, TailSaid
  <2>4. CASE h = Identify
    <3>1. Data(frames'[j]) = Data(frames[j])
      BY <1>o, <2>1, <2>3, <2>4
    <3>2. incoming'[k] = incoming[k] \/ incoming'[k] = Append(incoming[k], z)
      <4>1. UNCHANGED incoming \/ incoming' = Put(incoming, n, z)
        BY <1>8, <1>i, <2>2, <2>4, Relaying
      <4> QED
        BY <4>1 DEF Put, RelayOK, Channel
    <3>3. Data(incoming'[k]) = Data(incoming[k])
      BY <1>t, <1>z, <3>2
    <3> QED
      BY <1>s, <1>8, <3>1, <3>3 DEF Pending, Line4
  <2>5. CASE h # Identify /\ j # n
    <3>1. k # Other[n]
      BY <1>o, <2>5, Others
    <3>2. UNCHANGED incoming \/ incoming' = Put(incoming, Other[n], Head(frames[n]))
      BY <1>8, <2>2, <2>5, Relaying
    <3>3. incoming'[k] = incoming[k]
      BY <3>1, <3>2 DEF Put, RelayOK, Channel
    <3> QED
      BY <1>s, <1>8, <1>o, <2>1, <2>5, <3>3 DEF Pending
  <2>6. CASE h # Identify /\ j = n /\ incoming' = Put(incoming, k, h)
    <3>1. Data(incoming'[k]) = Data(incoming[k]) \union {h}
      <4>1. incoming'[k] = Append(incoming[k], h)
        BY <2>6 DEF Put, RelayOK, Channel
      <4>2. Data(Append(incoming[k], h)) = Data(incoming[k]) \union ({h} \ {Identify})
        BY <1>t, AppendData
      <4> QED
        BY <2>6, <4>1, <4>2
    <3>2. Data(frames[j]) = {h} \union Data(frames'[j])
      BY <2>1, <2>3, <2>6
    <3> QED
      BY <1>s, <1>8, <3>1, <3>2 DEF Pending, Line4
  <2>7. CASE /\ h # Identify /\ j = n /\ UNCHANGED incoming
             /\ ~(registry[k] = "relay" /\ relay[k] = "open")
    <3>1. CASE relay[k] \in Live
      <4>1. ~(registry[k] = "relay" /\ relay[k] \notin {"none", "connecting"})
        BY <2>7, <3>1 DEF Live
      <4>2. Data(received[k]) = {} /\ Data(incoming[k]) = {}
        BY <4>1 DEF Ready
      <4>3. Data(frames[j]) = {h} \union Data(Tail(frames[j]))
        BY <2>3, <2>7
      <4>4. \A y \in Data(Tail(frames[j])) \union Data(queue[j]) : h < y
        <5>1. \A y \in Data(Tail(frames[j])) : h < y
          BY <1>t, <2>1, <2>2, <2>7, TailData DEF Flowing, Flow
        <5> QED
          BY <4>3, <5>1 DEF Flowing, Flow, Precedes
      <4>5. /\ Pending(k)' = Data(Tail(frames[j])) \union Data(queue[j])
            /\ Pending(k) = {h} \union Pending(k)'
        BY <1>8, <2>1, <2>7, <4>2, <4>3 DEF Pending, Line4
      <4> QED
        BY <1>8, <4>4, <4>5 DEF Line, LineStep, Precedes
    <3>2. CASE relay[k] \notin Live
      BY <1>8, <3>2 DEF Line, LineStep
    <3> QED
      BY <3>1, <3>2
  <2>8. h # Identify /\ j = n =>
          \/ incoming' = Put(incoming, k, h)
          \/ UNCHANGED incoming /\ ~(registry[k] = "relay" /\ relay[k] = "open")
    BY <1>8, <1>o, <2>2, Relaying
  <2> QED
    BY <2>4, <2>5, <2>6, <2>7, <2>8
<1> QED
  BY <1>1, <1>2, <1>3, <1>4, <1>5, <1>6, <1>7, <1>8, RelaySteps DEF Line

(* No gap: what is lost of a flow is lost at its ends, so that what is left  *)
(* is a run of numbers, up to the last one sent unless the sender closed.   *)
Convex(U) == \A x, z \in U, y \in Nat : x < y /\ y < z => y \in U

Gapless(s) == \A i \in 1..Len(s) - 1 : s[i + 1] = s[i] + 1

Whole(k) ==
  /\ relay[k] \in Live =>
       /\ Convex(Pending(k))
       /\ relay[Other[k]] # "closed" => Pending(k) = {} \/ sent[Other[k]] \in Pending(k)
  /\ Gapless(received[k])

WholeOK == \A k \in Node : "early" \notin hasty[Other[k]] => Whole(k)

LEMMA Runs ==
  ASSUME NEW U \in SUBSET Nat, NEW V \in SUBSET Nat, Convex(U)
  PROVE  /\ V \subseteq U /\ Precedes(U \ V, V) => Convex(V)
         /\ V \subseteq U /\ Precedes(V, U \ V) => Convex(V)
         /\ \A m \in Nat : V = U \union {m + 1} /\ (U = {} \/ m \in U) /\ (\A x \in U : x <= m)
                             => Convex(V)
<1>1. ASSUME V \subseteq U, Precedes(U \ V, V) \/ Precedes(V, U \ V),
             NEW x \in V, NEW z \in V, NEW y \in Nat, x < y, y < z
      PROVE  y \in V
  <2>1. y \in U
    BY <1>1 DEF Convex
  <2> QED
    BY <1>1, <2>1 DEF Precedes
<1>2. ASSUME NEW m \in Nat, V = U \union {m + 1}, U = {} \/ m \in U, \A x \in U : x <= m,
             NEW x \in V, NEW z \in V, NEW y \in Nat, x < y, y < z
      PROVE  y \in V
  <2>1. x \in U /\ y <= m /\ m \in U
    BY <1>2
  <2>2. CASE y = m
    BY <1>2, <2>1, <2>2
  <2>3. CASE y < m
    BY <1>2, <2>1, <2>3 DEF Convex
  <2> QED
    BY <2>1, <2>2, <2>3
<1> QED
  BY <1>1, <1>2 DEF Convex

LEMMA RunsAreGapless ==
  ASSUME NEW got \in Seq(Nat), NEW in \in Seq(Nat), NEW out \in Seq(Nat), NEW later \in Seq(Nat),
         NEW top \in Nat, Flow(got, in, out, later, top), Convex(Line4(got, in, out, later))
  PROVE  Gapless(got)
<1> SUFFICES ASSUME NEW i \in 1..Len(got) - 1
             PROVE  got[i + 1] = got[i] + 1
  BY DEF Gapless
<1>1. /\ DOMAIN got = 1..Len(got) /\ Len(got) \in Nat /\ i \in DOMAIN got /\ i + 1 \in DOMAIN got
      /\ got[i] \in Nat /\ got[i + 1] \in Nat
  OBVIOUS
<1>2. \A p \in DOMAIN got : got[p] \in Data(got) /\ got[p] # Identify /\ got[p] \in Nat
  BY DEF Flow, Data, Said
<1>3. \A p, q \in DOMAIN got : p < q => got[p] < got[q]
  BY <1>2 DEF Flow, Sorted
<1>4. got[i] < got[i + 1]
  BY <1>1, <1>3
<1> SUFFICES ASSUME got[i] + 1 < got[i + 1]
             PROVE  FALSE
  BY <1>1, <1>4
<1>5. PICK y \in Nat : y = got[i] + 1 /\ got[i] < y /\ y < got[i + 1]
  BY <1>1
<1>6. y \in Line4(got, in, out, later)
  BY <1>1, <1>2, <1>5 DEF Convex, Line4
<1>7. y \notin Data(in) \union Data(out) \union Data(later)
  <2>1. ASSUME y \in Data(in) \union Data(out) \union Data(later)
        PROVE  got[i + 1] < y
    BY <1>1, <1>2, <2>1 DEF Flow, Precedes
  <2> QED
    BY <1>1, <1>5, <2>1
<1>8. PICK p \in DOMAIN got : got[p] = y
  BY <1>6, <1>7 DEF Line4, Data, Said
<1>9. PICK q \in DOMAIN got : q = i + 1
  BY <1>1
<1>10. p = i \/ p < i \/ p = q \/ q < p
  <2>1. p \in Nat /\ i \in Nat /\ q = i + 1
    <3>1. p \in 1..Len(got)
      BY <1>1
    <3>2. p \in Nat
      BY <3>1
    <3> QED
      BY <1>9, <3>2
  <2>2. \A a, b \in Nat : a = b \/ a < b \/ a = b + 1 \/ b + 1 < a
    OBVIOUS
  <2> QED
    BY <2>1, <2>2
<1>11. (p < i => got[p] < got[i]) /\ (q < p => got[q] < got[p])
  BY <1>1, <1>3, <1>9
<1>12. got[i] < y /\ y < got[q]
  BY <1>5, <1>9
<1>13. got[i] < got[p] /\ got[p] < got[q]
  BY <1>8, <1>12
<1>14. p # i /\ p # q
  <2>1. \A x \in Nat : ~(x < x)
    OBVIOUS
  <2> QED
    BY <1>1, <1>2, <1>9, <1>13, <2>1
<1>15. ~(p < i) /\ ~(q < p)
  <2>1. \A x, z \in Nat : ~(x < z /\ z < x)
    OBVIOUS
  <2> QED
    BY <1>1, <1>2, <1>8, <1>9, <1>11, <1>13, <2>1
<1> QED
  BY <1>10, <1>14, <1>15

LEMMA NextWhole ==
  ASSUME PartsOK, Phased, RelayOK, RelayOK', FlowsOK, FlowsOK', WholeOK,
         \A n \in Node : Ready(n), [Next]_vars
  PROVE  WholeOK'
<1> SUFFICES ASSUME NEW k \in Node, "early" \notin hasty'[Other[k]]
             PROVE  Whole(k)'
  BY DEF WholeOK
<1> DEFINE j == Other[k]
<1>o. j \in Node
  BY Others
<1>f. Flowing(k) /\ Flowing(k)' /\ Whole(k)
  BY <1>o, HastyGrows DEF FlowsOK, WholeOK
<1>t. /\ \A n \in Node : /\ incoming[n] \in Seq(Nat) /\ received[n] \in Seq(Nat)
                         /\ frames[n] \in Seq(Nat) /\ queue[n] \in Seq(Nat) /\ sent[n] \in Nat
      /\ \A n \in Node : /\ incoming'[n] \in Seq(Nat) /\ received'[n] \in Seq(Nat)
                         /\ frames'[n] \in Seq(Nat) /\ queue'[n] \in Seq(Nat) /\ sent'[n] \in Nat
  BY DEF RelayOK, Channel, Numbers
<1>d. \A s \in Seq(Nat) : Data(s) \subseteq Nat
  BY DEF Data, Said
<1>p. Pending(k) \subseteq Nat /\ Pending(k)' \subseteq Nat
  BY <1>d, <1>t, <1>o DEF Pending, Line4
<1>u. PICK U \in SUBSET Nat : U = Pending(k)
  BY <1>p
<1>v. PICK V \in SUBSET Nat : V = Pending(k)'
  BY <1>p
<1>1. ASSUME relay'[k] \in Live
      PROVE  /\ Convex(V)
             /\ relay'[j] # "closed" => V = {} \/ sent'[j] \in V
  <2>1. /\ Convex(U)
        /\ relay[j] # "closed" => U = {} \/ sent[j] \in U
    BY <1>1, <1>f, <1>u, RelayOrder DEF Whole
  <2>2. LineStep(k, U, V)
    BY <1>o, <1>f, <1>u, <1>v, LineSteps
  <2>3. CASE V \subseteq U /\ Precedes(U \ V, V) /\ sent'[j] = sent[j]
    <3>1. Convex(V)
      BY <2>1, <2>3, Runs
    <3>2. ASSUME relay'[j] # "closed", V # {}
          PROVE  sent'[j] \in V
      <4>1. relay[j] # "closed"
        BY <1>o, <3>2, RelayOrder
      <4>2. PICK x \in V : x \in U
        BY <2>3, <3>2
      <4>3. sent[j] \in U /\ x <= sent[j]
        BY <1>f, <1>u, <2>1, <4>1, <4>2 DEF Flowing, Flow, Pending
      <4> QED
        BY <1>o, <1>t, <2>3, <4>2, <4>3 DEF Precedes
    <3> QED
      BY <3>1, <3>2
  <2>4. CASE V \subseteq U /\ Precedes(V, U \ V) /\ relay'[j] = "closed"
    <3>1. Convex(V)
      BY <2>1, <2>4, Runs
    <3> QED
      BY <2>4, <3>1
  <2>5. CASE V = U \union {sent[j] + 1} /\ sent'[j] = sent[j] + 1 /\ relay'[j] # "closed"
    <3>1. relay[j] # "closed"
      BY <1>o, <2>5, RelayOrder
    <3>2. \A x \in U : x <= sent[j]
      BY <1>f, <1>u DEF Flowing, Flow, Pending
    <3>3. PICK m \in Nat : m = sent[j]
      BY <1>o, <1>t
    <3>4. Convex(V)
      BY <2>1, <2>5, <3>1, <3>2, <3>3, Runs
    <3> QED
      BY <2>5, <3>4
  <2> QED
    BY <1>1, <2>2, <2>3, <2>4, <2>5 DEF LineStep
<1>2. Gapless(received'[k])
  <2>1. CASE relay'[k] \in Live
    <3>1. Convex(Pending(k)')
      BY <1>1, <1>v, <2>1
    <3>2. Convex(Line4(received'[k], incoming'[k], frames'[j], queue'[j]))
      BY <3>1 DEF Pending
    <3>3. Flow(received'[k], incoming'[k], frames'[j], queue'[j], sent'[j])
      BY <1>f DEF Flowing
    <3> QED
      BY <1>o, <1>t, <3>2, <3>3, RunsAreGapless
  <2>2. CASE relay'[k] \notin Live
    <3>1. received'[k] = received[k]
      <4>1. ASSUME NEW n \in Node, RelayData(n, n \in app)
            PROVE  received'[k] = received[k]
        BY <2>2, <4>1 DEF RelayData, Arrives, Put, RelayOK, Channel, Live
      <4> QED
        BY <4>1, RelaySteps DEF RelayOpens, Identified, RelayLost, RelaySend, RelayClose
    <3> QED
      BY <1>f, <3>1 DEF Whole
  <2> QED
    BY <2>1, <2>2
<1> QED
  BY <1>1, <1>2, <1>v DEF Whole

(* Messages come out of the relay in the order they were sent, none twice   *)
(* and none missing in between, unless one was sent on the open WebSocket    *)
(* while others were queued: for any server, also one that forgets or does   *)
(* not answer, whatever is lost and whoever closes when.                    *)
THEOREM RelayInOrder == Spec => []InOrder
<1> DEFINE Inv == /\ PartsOK /\ Phased /\ SignalingOK /\ LinesOK /\ Registration
                  /\ RelayOK /\ FlowsOK /\ WholeOK
                  /\ \A n \in Node : Ready(n)
<1>1. Init => Inv
  <2> SUFFICES ASSUME Init
               PROVE  Inv
    OBVIOUS
  <2>1. \A n \in Node : /\ received[n] = <<>> /\ incoming[n] = <<>> /\ frames[n] = <<>>
                        /\ queue[n] = <<>> /\ sent[n] = 0 /\ answers[n] = <<>> /\ asked[n] = <<>>
                        /\ relay[n] = "none" /\ phase[n] = "idle"
    BY DEF Init, ServerInit, RelayInit
  <2>2. \A n \in Node : Pending(n) = {} /\ Flowing(n) /\ Ready(n)
    BY <2>1, NoData, Others DEF Pending, Line4, Flowing, Flow, Precedes, Ready
  <2>3. \A n \in Node : Whole(n)
    BY <2>1, <2>2 DEF Whole, Convex, Gapless
  <2>4. Registration
    BY <2>1, Nobody DEF Registration, Asks
  <2> QED
    BY <2>2, <2>3, <2>4, InitParts, InitSignaling, InitRelay DEF FlowsOK, WholeOK
<1>2. Inv /\ [Next]_vars => Inv'
  <2> SUFFICES ASSUME Inv, [Next]_vars
               PROVE  Inv'
    OBVIOUS
  <2>1. PartsOK' /\ Phased' /\ SignalingOK' /\ LinesOK' /\ Registration' /\ RelayOK'
    BY NextParts, NextPhased, NextSignaling, NextRegistration, NextRelay
  <2>2. FlowsOK' /\ \A n \in Node : Ready(n)'
    BY NextFlows, NextReady
  <2>3. WholeOK'
    BY <2>1, <2>2, NextWhole
  <2> QED
    BY <2>1, <2>2, <2>3
<1>3. Inv => InOrder
  BY DEF WholeOK, Whole, Gapless, InOrder
<1> QED
  BY <1>1, <1>2, <1>3, PTL DEF Spec

-----------------------------------------------------------------------------
(* The address to register: what discover reads in what servers send.       *)
LEMMA Readings ==
  /\ Outcome \subseteq {Mapped, Null}
  /\ Unread = {}
<1>1. ASSUME NEW m \in Message
      PROVE  Parse(m) = IF m \in Genuine THEN Mapped ELSE Null
  BY MessageTypes, AnswerIsRead, NothingIsRead
<1>2. ASSUME NEW m \in Genuine
      PROVE  Mapped # Null
  <2>1. Says(m, Mapped) /\ m \in Seq(0..255)
    BY MessageTypes
  <2> QED
    BY <2>1, SaysSomething DEF Null
<1>3. Genuine \subseteq Message
  BY MessageTypes
<1> QED
  BY <1>1, <1>2, <1>3 DEF Outcome, Unread

HostOK ==
  /\ host \in [Node -> {Mapped.ip, Loopback}]
  /\ \A n \in Node : "unread" \notin hasty[n]

LEMMA HostSteps ==
  ASSUME [Next]_vars
  PROVE  \/ UNCHANGED host
         \/ \E n \in Node, o \in Outcome :
              host' = [host EXCEPT ![n] = IF o = Null THEN Loopback ELSE o.ip]
         \/ \E n \in Node : host' = [host EXCEPT ![n] = Loopback]
<1> USE DEF transport
<1>1. CASE UNCHANGED vars
  BY <1>1 DEF vars
<1>2. ASSUME NEW n \in Node, Discovered(n)
      PROVE  \E o \in Outcome : host' = [host EXCEPT ![n] = IF o = Null THEN Loopback ELSE o.ip]
  BY <1>2 DEF Discovered
<1>3. ASSUME NEW n \in Node, Registered(n)
      PROVE  host' = [host EXCEPT ![n] = Loopback]
  BY <1>3 DEF Registered
<1>4. ASSUME NEW n \in Node, Progress(n)
      PROVE  UNCHANGED host \/ Discovered(n) \/ Registered(n)
  BY <1>4, RejectionWorks DEF Progress, Rejects, Bound, SignalingOpens, SignalingFails, Found,
     RegisterTimeout, AnswerIgnored, Retry, Punched, Silent, NotPunched, RelayUp,
     RelayIdentified, RelayDelivers
<1>5. ASSUME NEW n \in Node,
             \/ Connect(n) \/ AppBind(n) \/ Send(n) \/ Close(n) \/ Serve(n)
             \/ PassedOver(n) \/ SignalingLost(n) \/ Probe(n) \/ ProbeLost(n) \/ RelayDies(n)
      PROVE  UNCHANGED host
  BY <1>5 DEF Connect, AppBind, Send, Close, Serve, PassedOver, SignalingLost, Probe, ProbeLost,
     RelayDies
<1> QED
  BY <1>1, <1>2, <1>3, <1>4, <1>5 DEF Next

LEMMA ReadSteps ==
  ASSUME [Next]_vars
  PROVE  \/ UNCHANGED hasty
         \/ \E n \in Node, x \in SUBSET (Flags \ {"unread"}) : Notes(n, x)
         \/ \E n \in Node : Notes(n, {x \in {"unread"} : Unread # {}})
BY ZenonT(60) DEF Next, vars, Progress,
       Connect, AppBind, Send, Close, Serve, PassedOver, SignalingLost, Probe, ProbeLost,
       RelayDies, Bound, Discovered, SignalingOpens, SignalingFails, Registered, Found, NotFound,
       RequestTimeout, ReconnectFails, RegisterTimeout, AnswerIgnored, Retry, Punched, Silent,
       NotPunched,
       RelayUp, RelayIdentified, RelayDelivers, Rejected, SetupRelay, Flags

LEMMA NextHost == CallsOK /\ HostOK /\ [Next]_vars => HostOK'
<1> SUFFICES ASSUME CallsOK, HostOK, [Next]_vars
             PROVE  HostOK'
  OBVIOUS
<1>1. host' \in [Node -> {Mapped.ip, Loopback}]
  BY HostSteps, Readings DEF HostOK
<1>2. \A n \in Node : "unread" \notin hasty'[n]
  <2>1. \/ UNCHANGED hasty
        \/ \E n \in Node, x \in SUBSET Flags : "unread" \notin x /\ Notes(n, x)
    BY ReadSteps, Readings
  <2> QED
    BY <2>1 DEF HostOK, CallsOK, Notes
<1> QED
  BY <1>1, <1>2 DEF HostOK

(* What is registered at the signaling server is the address that the STUN   *)
(* servers saw or, when none answered, the loopback: no message that they    *)
(* may send is misread, and no answer is passed over.                        *)
THEOREM HostIsGenuine == Spec => []HostGenuine
<1>1. Init => PartsOK /\ HostOK
  BY InitParts DEF Init, HostOK
<1>2. PartsOK /\ HostOK /\ [Next]_vars => PartsOK' /\ HostOK'
  BY NextParts, NextHost DEF PartsOK
<1>3. HostOK => HostGenuine
  BY DEF HostOK, HostGenuine
<1> QED
  BY <1>1, <1>2, <1>3, PTL DEF Spec

-----------------------------------------------------------------------------
(* What each wait is for.  Up to the requests this is about the node alone; *)
(* then it takes an answer, which is on its way behind "identify".          *)
Starts(n) ==
  /\ phase[n] = "bind" => udp[n] \in {"binding", "closed"}
  /\ phase[n] = "register" => sig[n] = "connecting" \/ waiting[n] = "registered"

Ends(n) ==
  /\ relay[n] = "closed" => n \in closed
  /\ phase[n] = "relay" => relay[n] # "none" /\ waits[n] # "nothing"
  /\ phase[n] = "relay" /\ relay[n] = "open" =>
       /\ waits[n] = "identified"
       /\ Identify \in Said(frames[n]) \union Said(incoming[n])

LEMMA Leaves ==
  ASSUME NEW S, NEW c \in Channel(S), NEW n \in Node, c[n] # <<>>
  PROVE  Said(c[n]) \subseteq {Head(c[n])} \union Said(Took(c, n)[n])
<1> DEFINE s == c[n]
<1>1. s \in Seq(S) /\ s # <<>> /\ Took(c, n)[n] = Tail(s)
  BY DEF Channel, Took
<1> HIDE DEF s
<1>2. DOMAIN s = 1..Len(s) /\ Len(s) \in Nat /\ DOMAIN Tail(s) = 1..(Len(s) - 1)
  BY <1>1
<1>3. ASSUME NEW i \in 1..Len(s)
      PROVE  s[i] \in {Head(s)} \union Said(Tail(s))
  <2>1. CASE i = 1
    BY <1>1, <2>1
  <2>2. CASE i # 1
    <3>1. i - 1 \in 1..(Len(s) - 1)
      BY <1>2, <2>2
    <3>2. Tail(s)[i - 1] = s[i]
      BY <1>1, <1>2, <3>1
    <3> QED
      BY <1>2, <3>1, <3>2 DEF Said
  <2> QED
    BY <2>1, <2>2
<1>4. Said(s) \subseteq {Head(s)} \union Said(Tail(s))
  BY <1>2, <1>3 DEF Said
<1> QED
  BY <1>1, <1>4 DEF s

LEMMA Keeps ==
  ASSUME NEW S, NEW c \in Channel(S), NEW n \in Node, NEW m \in S, NEW k \in Node
  PROVE  Said(c[k]) \subseteq Said(Put(c, n, m)[k])
<1>1. CASE k = n
  BY <1>1, Puts
<1>2. CASE k # n
  BY <1>2, Puts
<1> QED
  BY <1>1, <1>2

LEMMA Framed ==
  ASSUME RelayOK, NEW n \in Node, NEW m \in Numbers
  PROVE  /\ m \in Said(Put(frames, n, m)[n])
         /\ \A k \in Node \ {n} : Put(frames, n, m)[k] = frames[k]
<1>1. frames \in Channel(Numbers)
  BY DEF RelayOK
<1> QED
  BY <1>1, Puts

LEMMA NextStarts ==
  ASSUME PartsOK, Phased, SignalingOK, [Next]_vars, NEW k \in Node, Starts(k)
  PROVE  Starts(k)'
<1> USE DEF PartsOK, CallsOK, SocketsOK, ConnectionsOK, SignalingOK, Starts, Goes
<1>1. ASSUME NEW n \in Node, Connect(n) \/ Bound(n)
      PROVE  Starts(k)'
  BY <1>1 DEF Connect, Bound, clients, signaling
<1>2. ASSUME NEW n \in Node, Discovered(n) \/ SignalingOpens(n) \/ SignalingFails(n)
      PROVE  Starts(k)'
  BY <1>2 DEF Discovered, SignalingOpens, SignalingFails, SigConnect, SigSettled, SigOpens, Asking,
     SigFails, transport, Phased
<1>3. ASSUME NEW n \in Node, RegisterTimeout(n)
      PROVE  Starts(k)'
  BY <1>3 DEF RegisterTimeout, SigSettled, transport
<1>4. ASSUME NEW n \in Node, Registered(n) \/ Retry(n) \/ Found(n) \/ Rejects(n)
      PROVE  Starts(k)'
  <2>1. phase'[n] \notin {"bind", "register"} /\ UNCHANGED udp
    <3>1. CASE Registered(n) \/ Retry(n)
      BY <3>1 DEF Registered, Retry
    <3>2. CASE Found(n)
      BY <3>2 DEF Found, SetupRelay
    <3>3. CASE Rejects(n)
      BY <3>3, RejectionWorks DEF Rejected, SetupRelay
    <3> QED
      BY <1>4, <3>1, <3>2, <3>3
  <2>2. \A j \in Node \ {n} : phase'[j] = phase[j] /\ sig'[j] = sig[j] /\ waiting'[j] = waiting[j]
    <3>1. CASE Registered(n) \/ Retry(n)
      <4>1. \A j \in Node \ {n} : sig'[j] = sig[j] /\ waiting'[j] = waiting[j]
        BY <3>1 DEF Registered, Retry, Request, SigRequest, Asking, SigConnect, SigSettled
      <4> QED
        BY <3>1, <4>1 DEF Registered, Retry
    <3>2. CASE Found(n)
      BY <3>2 DEF Found, SetupRelay, SigClose, SigSettled
    <3>3. CASE Rejects(n)
      BY <3>3, RejectionWorks DEF Rejected, SetupRelay, SigClose, SigSettled
    <3> QED
      BY <1>4, <3>1, <3>2, <3>3
  <2> QED
    BY <2>1, <2>2
<1>5. ASSUME NEW n \in Node, Punched(n) \/ NotPunched(n)
      PROVE  Starts(k)'
  BY <1>5 DEF Punched, NotPunched, SetupRelay, transport, signaling
<1>6. ASSUME NEW n \in Node, RelayUp(n) \/ RelayIdentified(n) \/ RelayDies(n)
      PROVE  Starts(k)'
  BY <1>6 DEF RelayUp, RelayIdentified, RelayDies, transport, signaling
<1>7. ASSUME NEW n \in Node, Close(n)
      PROVE  Starts(k)'
  BY <1>7 DEF Close, signaling
<1>8. ASSUME NEW n \in Node,
             AppBind(n) \/ Send(n) \/ Serve(n) \/ PassedOver(n) \/ Probe(n) \/ ProbeLost(n)
               \/ AnswerIgnored(n) \/ Silent(n) \/ RelayDelivers(n)
      PROVE  Starts(k)'
  <2>1. UNCHANGED <<phase, udp, sig, waiting>>
    BY <1>8 DEF AppBind, Send, Serve, PassedOver, Probe, ProbeLost, AnswerIgnored, Silent,
       RelayDelivers, transport, clients, signaling
  <2> QED
    BY <2>1
<1>9. ASSUME NEW n \in Node, SignalingLost(n)
      PROVE  Starts(k)'
  BY <1>9 DEF SignalingLost, SigLost, transport
<1>10. CASE UNCHANGED vars
  BY <1>10 DEF vars, transport, clients, signaling
<1> QED
  BY <1>1, <1>2, <1>3, <1>4, <1>5, <1>6, <1>7, <1>8, <1>9, <1>10 DEF Next, Progress, Rejects

LEMMA NextEnds ==
  ASSUME Answers, PartsOK, Phased, RelayOK, [Next]_vars, NEW k \in Node, Ends(k)
  PROVE  Ends(k)'
<1> USE DEF PartsOK, CallsOK, SocketsOK, ConnectionsOK, Ends, Goes
<1>1. ASSUME NEW n \in Node, NEW p \in Phases \ {"relay"}, Goes(n, p),
             UNCHANGED <<relay, waits, closed, frames, incoming>>
      PROVE  Ends(k)'
  BY <1>1
<1>2. ASSUME UNCHANGED <<phase, relay, waits, closed, frames, incoming>>
      PROVE  Ends(k)'
  BY <1>2
<1>3. ASSUME NEW n \in Node, SetupRelay(n), UNCHANGED <<closed, frames, incoming>>
      PROVE  Ends(k)'
  BY <1>3 DEF SetupRelay, RelayConnect, RelayOK
<1>4. ASSUME NEW n \in Node, RelayUp(n)
      PROVE  Ends(k)'
  <2>1. /\ relay' = [relay EXCEPT ![n] = "open"] /\ frames' = Put(frames, n, Identify)
        /\ relay[n] = "connecting" /\ UNCHANGED <<waits, closed, incoming>>
        /\ phase' = IF waits[n] = "open" THEN [phase EXCEPT ![n] = "done"] ELSE phase
    BY <1>4 DEF RelayUp, RelayOpens, transport
  <2>2. /\ Identify \in Said(frames'[n])
        /\ \A j \in Node \ {n} : frames'[j] = frames[j]
    <3>1. PICK m \in Numbers : m = Identify
      BY DEF Identify, Numbers
    <3> QED
      BY <2>1, <3>1, Framed
  <2>3. CASE k = n
    <3>1. phase'[n] = "relay" => phase[n] = "relay" /\ waits[n] = "identified"
      BY <2>1, <2>3 DEF RelayOK
    <3> QED
      BY <2>1, <2>2, <2>3, <3>1
  <2>4. CASE k # n
    BY <2>1, <2>2, <2>4
  <2> QED
    BY <2>3, <2>4
<1>5. ASSUME NEW n \in Node, RelayIdentified(n)
      PROVE  Ends(k)'
  <2>1. /\ incoming' = Took(incoming, n) /\ frames' = [frames EXCEPT ![n] = @ \o queue[n]]
        /\ relay[n] = "open" /\ UNCHANGED <<relay, waits, closed>>
        /\ phase' = IF phase[n] = "relay" /\ waits[n] = "identified"
                    THEN [phase EXCEPT ![n] = "done"] ELSE phase
    BY <1>5 DEF RelayIdentified, Identified, Arrives, transport
  <2>2. CASE k = n
    BY <2>1, <2>2
  <2>3. CASE k # n
    BY <2>1, <2>3 DEF Took, RelayOK, Channel
  <2> QED
    BY <2>2, <2>3
<1>6. ASSUME NEW n \in Node, RelayDelivers(n)
      PROVE  Ends(k)'
  <2>1. /\ incoming' = Took(incoming, n) /\ incoming[n] # <<>> /\ Head(incoming[n]) # Identify
        /\ UNCHANGED <<phase, relay, waits, closed, frames>>
    BY <1>6 DEF RelayDelivers, RelayData, Arrives, transport
  <2>2. Said(incoming[n]) \subseteq {Head(incoming[n])} \union Said(incoming'[n])
    BY <2>1, Leaves DEF RelayOK
  <2>3. \A j \in Node \ {n} : incoming'[j] = incoming[j]
    BY <2>1 DEF Took, RelayOK, Channel
  <2>4. Identify \in Said(incoming[k]) => Identify \in Said(incoming'[k])
    BY <2>1, <2>2, <2>3
  <2> QED
    BY <2>1, <2>4
<1>7. ASSUME NEW n \in Node, RelayDies(n)
      PROVE  Ends(k)'
  BY <1>7 DEF RelayDies, RelayLost, transport, RelayOK, Channel
<1>8. ASSUME NEW n \in Node, Send(n)
      PROVE  Ends(k)'
  <2>1. /\ UNCHANGED <<phase, relay, waits, closed, incoming>>
        /\ UNCHANGED frames \/ frames' = Put(frames, n, sent[n] + 1)
    BY <1>8 DEF Send, RelaySend
  <2>2. PICK m \in Numbers : m = sent[n] + 1
    BY DEF RelayOK, Numbers
  <2>3. Said(frames[k]) \subseteq Said(frames'[k])
    <3>1. UNCHANGED frames \/ frames' = Put(frames, n, m)
      BY <2>1, <2>2
    <3>2. Said(frames[k]) \subseteq Said(Put(frames, n, m)[k])
      BY Keeps DEF RelayOK
    <3> QED
      BY <3>1, <3>2
  <2> QED
    BY <2>1, <2>3
<1>9. ASSUME NEW n \in Node, Close(n)
      PROVE  Ends(k)'
  BY <1>9 DEF Close, RelayClose, RelayOK, Channel
<1>10. ASSUME NEW n \in Node, ServerRelays(n, RelayOpen),
              UNCHANGED <<phase, relay, waits, closed>>
       PROVE  Ends(k)'
  <2>1. frames[n] # <<>> /\ frames' = Took(frames, n) /\ Head(frames[n]) \in Numbers
    BY <1>10, Takes DEF ServerRelays, RelayOK
  <2>2. /\ Said(frames[n]) \subseteq {Head(frames[n])} \union Said(frames'[n])
        /\ \A j \in Node \ {n} : frames'[j] = frames[j]
    BY ZenonT(60), <2>1, Leaves, Takes DEF RelayOK
  <2>3. UNCHANGED incoming \/ \E j \in Node, m \in Numbers : incoming' = Put(incoming, j, m)
    BY <1>10, <2>1, Relaying, Others DEF Identify, Numbers
  <2>4. Said(incoming[k]) \subseteq Said(incoming'[k])
    <3>1. ASSUME NEW j \in Node, NEW m \in Numbers, incoming' = Put(incoming, j, m)
          PROVE  Said(incoming[k]) \subseteq Said(incoming'[k])
      BY <3>1, Keeps DEF RelayOK
    <3> QED
      BY <2>3, <3>1
  <2>5. CASE k = n /\ relay[k] = "open" /\ Head(frames[k]) = Identify
    <3>1. incoming' = Put(incoming, k, Identify)
      BY <1>10, <2>5 DEF ServerRelays, RelayOpen
    <3>2. Identify \in Numbers
      BY DEF Identify, Numbers
    <3>3. Identify \in Said(incoming'[k])
      BY SMTT(30), <3>1, <3>2, Incoming
    <3> QED
      BY <1>10, <3>3
  <2>6. CASE ~(k = n /\ relay[k] = "open" /\ Head(frames[k]) = Identify)
    <3>1. relay[k] = "open" /\ Identify \in Said(frames[k]) => Identify \in Said(frames'[k])
      BY <2>2, <2>6
    <3> QED
      BY <1>10, <2>4, <3>1
  <2> QED
    BY <2>5, <2>6
<1>11. ASSUME NEW n \in Node, Found(n) \/ Rejects(n) \/ NotPunched(n)
       PROVE  Ends(k)'
  <2>1. UNCHANGED <<closed, frames, incoming>>
    BY <1>11, RejectionWorks DEF Found, NotPunched, transport, server
  <2>2. \/ SetupRelay(n)
        \/ UNCHANGED <<phase, relay, waits>>
        \/ \E p \in {"punch", "failed"} : Goes(n, p) /\ UNCHANGED <<relay, waits>>
    BY <1>11, RejectionWorks DEF Found, NotPunched, Rejected, relaying
  <2> QED
    BY <1>1, <1>2, <1>3, <2>1, <2>2 DEF Phases
<1>12. ASSUME NEW n \in Node,
              Connect(n) \/ Bound(n) \/ Discovered(n) \/ SignalingFails(n) \/ Registered(n)
                \/ RegisterTimeout(n) \/ Punched(n)
       PROVE  Ends(k)'
  <2>1. UNCHANGED <<relay, waits, closed, frames, incoming>>
    BY <1>12 DEF Connect, Bound, Discovered, SignalingFails, Registered, RegisterTimeout,
       Punched, transport, clients, relaying, server
  <2>2. \E p \in {"bind", "stun", "register", "failed", "request", "done"} : Goes(n, p)
    BY <1>12 DEF Connect, Bound, Discovered, SignalingFails, Registered, RegisterTimeout, Punched
  <2> QED
    BY <1>1, <2>1, <2>2 DEF Phases
<1>13. ASSUME NEW n \in Node,
              AppBind(n) \/ PassedOver(n) \/ SignalingLost(n) \/ Probe(n) \/ ProbeLost(n)
                \/ SignalingOpens(n) \/ AnswerIgnored(n) \/ Retry(n) \/ Silent(n)
       PROVE  Ends(k)'
  <2>1. UNCHANGED <<phase, relay, waits, closed, frames, incoming>>
    BY <1>13 DEF AppBind, PassedOver, SignalingLost, Probe, ProbeLost, SignalingOpens,
       AnswerIgnored, Retry, Request, Silent, transport, clients, relaying, server
  <2> QED
    BY <1>2, <2>1
<1>14. ASSUME NEW n \in Node, Serve(n)
       PROVE  Ends(k)'
  <2>1. UNCHANGED <<phase, relay, waits, closed>>
    BY <1>14 DEF Serve, transport, relaying
  <2>2. ServerRelays(n, RelayOpen) \/ UNCHANGED <<frames, incoming>>
    BY <1>14 DEF Serve, ServerAnswers, ServerHangsUp
  <2> QED
    BY <1>2, <1>10, <2>1, <2>2
<1>15. CASE UNCHANGED vars
  <2>1. UNCHANGED <<phase, relay, waits, closed, frames, incoming>>
    BY <1>15 DEF vars, transport, clients, relaying, server
  <2> QED
    BY <1>2, <2>1
<1> QED
  BY <1>4, <1>5, <1>6, <1>7, <1>8, <1>9, <1>11, <1>12, <1>13, <1>14, <1>15
     DEF Next, Progress, Rejects

(* With a server that answers "identify", what connect waits for comes,     *)
(* whatever is refused or late and also when the signaling WebSocket is lost *)
(* and made again, until the transport is closed or the relay's is lost.    *)
THEOREM ConnectNeverStuck == Answers => (Spec => []NeverStuck)
<1> SUFFICES ASSUME Answers
             PROVE  Spec => []NeverStuck
  OBVIOUS
<1> DEFINE Inv == /\ PartsOK /\ Phased /\ SignalingOK /\ LinesOK /\ RelayOK /\ TriesOK
                  /\ \A n \in Node : Starts(n) /\ Ends(n)
<1>1. Init => Inv
  <2> SUFFICES ASSUME Init
               PROVE  Inv
    OBVIOUS
  <2>1. \A n \in Node : Starts(n) /\ Ends(n)
    BY DEF Init, RelayInit, Starts, Ends
  <2> QED
    BY <2>1, InitParts, InitSignaling, InitRelay, InitTries
<1>2. Inv /\ [Next]_vars => Inv'
  BY NextParts, NextPhased, NextSignaling, NextRelay, NextTries, NextStarts, NextEnds
<1>3. Inv => NeverStuck
  <2> SUFFICES ASSUME Inv, NEW n \in Node, InProgress(n), n \notin closed, relay[n] # "dead"
               PROVE  Awaited(n)
    BY DEF NeverStuck
  <2>1. phase[n] \in {"bind", "stun", "register", "request", "punch", "relay"}
    BY DEF PartsOK, CallsOK, Phases, InProgress
  <2>2. phase[n] = "bind" => udp[n] = "binding"
    BY DEF Starts, Phased
  <2>3. phase[n] = "relay" => relay[n] \in {"connecting", "open"}
    BY DEF Ends, PartsOK, ConnectionsOK
  <2>4. Said(frames[n]) = Range(frames[n]) /\ Said(incoming[n]) = Range(incoming[n])
    BY DEF Said, Range
  <2>5. phase[n] = "request" =>
          sig[n] = "connecting" \/ waiting[n] = "peer_endpoint" \/ tries[n] < Tries[n]
    BY DEF TriesOK, SignalingOK
  <2>6. phase[n] = "punch" => n \in listens
    BY DEF Phased
  <2> QED
    BY <2>1, <2>2, <2>3, <2>4, <2>5, <2>6 DEF Awaited, Starts, Ends
<1> QED
  BY <1>1, <1>2, <1>3, PTL DEF Spec

-----------------------------------------------------------------------------
(* What a close leaves, when connect had ended, is of no use to any step. *)
Released(k) ==
  /\ phase[k] \in {"done", "failed"}
  /\ udp[k] = "closed" /\ k \notin peerEndpoint
  /\ relay[k] \in {"none", "dead", "closed"}

Closing(k) == k \in closed /\ "close" \notin hasty[k] => Released(k)

LEMMA CloseEnds ==
  ASSUME PartsOK, NEW k \in Node, Close(k), "close" \notin hasty'[k]
  PROVE  Released(k)'
<1> USE DEF PartsOK, CallsOK, SocketsOK, ConnectionsOK
<1>1. ~InProgress(k) /\ phase[k] # "idle"
  BY DEF Close, Notes
<1>2. phase[k] \in {"done", "failed"}
  BY <1>1 DEF InProgress
<1>3. phase'[k] \in {"done", "failed"}
  BY <1>2 DEF Close, Goes
<1>4. udp'[k] = "closed" /\ k \notin peerEndpoint'
  BY DEF Close
<1>5. relay'[k] \in {"none", "closed"}
  BY DEF Close, RelayClose
<1> QED
  BY <1>3, <1>4, <1>5 DEF Released

LEMMA ReleasedKept ==
  ASSUME PartsOK, Phased, [Next]_vars, NEW k \in Node, Released(k), ~Close(k)
  PROVE  Released(k)'
<1> USE DEF PartsOK, CallsOK, SocketsOK, ConnectionsOK
<1> DEFINE Elsewhere(n) == /\ \A j \in Node \ {n} : /\ phase'[j] = phase[j] /\ udp'[j] = udp[j]
                                                  /\ relay'[j] = relay[j]
                           /\ peerEndpoint' \subseteq peerEndpoint \union {n}
<1>1. ASSUME NEW n \in Node \ {k}, Elsewhere(n)
      PROVE  Released(k)'
  BY <1>1 DEF Released
<1>2. ASSUME UNCHANGED <<phase, udp, relay, peerEndpoint>>
      PROVE  Released(k)'
  BY <1>2 DEF Released
<1> HIDE DEF Elsewhere
<1>3. ASSUME NEW n \in Node,
             Connect(n) \/ Bound(n) \/ Discovered(n) \/ Registered(n) \/ RegisterTimeout(n)
      PROVE  Released(k)'
  <2>1. n # k
    BY <1>3 DEF Released, Connect, Bound, Discovered, Registered, RegisterTimeout
  <2>2. Elsewhere(n)
    BY <1>3 DEF Elsewhere, Goes, Connect, Bound, Discovered, Registered, RegisterTimeout, transport,
       relaying, clients
  <2> QED
    BY <1>1, <2>1, <2>2
<1>4. ASSUME NEW n \in Node, Found(n) \/ Rejects(n) \/ NotPunched(n)
      PROVE  Released(k)'
  <2>1. phase[n] \in {"request", "punch"}
    BY <1>4, RejectionWorks DEF Found, NotPunched, GivesUp, Phased
  <2>2. n # k
    BY <2>1 DEF Released
  <2>3. Elsewhere(n)
    <3>1. CASE Found(n)
      BY <3>1 DEF Elsewhere, Goes, Found, SetupRelay, RelayConnect, relaying
    <3>2. CASE Rejects(n)
      BY <3>2, RejectionWorks DEF Elsewhere, Goes, Rejected, SetupRelay, RelayConnect, relaying
    <3>3. CASE NotPunched(n)
      BY <3>3 DEF Elsewhere, Goes, NotPunched, SetupRelay, RelayConnect, transport
    <3> QED
      BY <1>4, <3>1, <3>2, <3>3
  <2> QED
    BY <1>1, <2>2, <2>3
<1>5. ASSUME NEW n \in Node, Punched(n)
      PROVE  Released(k)'
  <2>1. n # k
    BY <1>5 DEF Released, Punched
  <2>2. Elsewhere(n)
    BY <1>5 DEF Elsewhere, Goes, Punched, relaying
  <2> QED
    BY <1>1, <2>1, <2>2
<1>6. ASSUME NEW n \in Node, RelayUp(n) \/ RelayIdentified(n) \/ RelayDies(n)
      PROVE  Released(k)'
  <2>1. n # k
    BY <1>6 DEF Released, RelayUp, RelayOpens, RelayIdentified, Identified, Arrives, RelayDies,
       RelayLost
  <2>2. Elsewhere(n)
    BY <1>6 DEF Elsewhere, Goes, RelayUp, RelayOpens, RelayIdentified, Identified, RelayDies,
       RelayLost, transport
  <2> QED
    BY <1>1, <2>1, <2>2
<1>7. ASSUME NEW n \in Node, SignalingFails(n)
      PROVE  Released(k)'
  BY <1>7 DEF Released, SignalingFails, Goes, transport, relaying
<1>8. ASSUME NEW n \in Node, Close(n)
      PROVE  Released(k)'
  <2>1. n # k
    BY <1>8
  <2>2. Elsewhere(n)
    BY <1>8 DEF Elsewhere, Goes, Close, RelayClose
  <2> QED
    BY <1>1, <2>1, <2>2
<1>9. ASSUME NEW n \in Node,
             AppBind(n) \/ Send(n) \/ Serve(n) \/ PassedOver(n) \/ SignalingLost(n) \/ Probe(n)
               \/ ProbeLost(n) \/ SignalingOpens(n) \/ AnswerIgnored(n) \/ Retry(n) \/ Silent(n)
               \/ RelayDelivers(n)
      PROVE  Released(k)'
  <2>1. UNCHANGED <<phase, udp, relay, peerEndpoint>>
    BY <1>9 DEF AppBind, Send, Serve, PassedOver, SignalingLost, Probe, ProbeLost, SignalingOpens,
       AnswerIgnored, Retry, Silent, RelayDelivers, RelaySend, RelayData, transport, clients,
       relaying
  <2> QED
    BY <1>2, <2>1
<1>10. CASE UNCHANGED vars
  BY <1>2, <1>10 DEF vars, transport, clients, relaying
<1> QED
  BY <1>3, <1>4, <1>5, <1>6, <1>7, <1>8, <1>9, <1>10
     DEF Next, Progress, Rejects

(* A transport that is closed after its connect has ended is closed for good, *)
(* for any options and bounds: whatever is still on its way to it.            *)
THEOREM CloseIsFinal == Spec => []ClosedForGood
<1> DEFINE Inv == PartsOK /\ Phased /\ \A k \in Node : Closing(k)
<1>1. Init => Inv
  BY InitParts DEF Init, Closing
<1>2. Inv /\ [Next]_vars => Inv'
  <2> SUFFICES ASSUME Inv, [Next]_vars, NEW k \in Node
               PROVE  Closing(k)'
    BY NextParts, NextPhased
  <2>1. CASE Close(k)
    BY <2>1, CloseEnds DEF Closing
  <2>2. CASE ~Close(k)
    <3>1. k \in closed' => k \in closed
      <4>1. ASSUME NEW n \in Node, Close(n)
            PROVE  closed' = closed \union {n} /\ n # k
        BY <2>2, <4>1 DEF Close
      <4>2. ASSUME NEW n \in Node, Connect(n) \/ Bound(n) \/ AppBind(n)
            PROVE  closed' = closed
        BY <4>2 DEF Connect, Bound, AppBind
      <4> QED
        BY <4>1, <4>2, SocketSteps
    <3> QED
      BY <2>2, <3>1, HastyGrows, ReleasedKept DEF Closing
  <2> QED
    BY <2>1, <2>2
<1>3. Inv => ClosedForGood
  <2> SUFFICES ASSUME Inv, NEW k \in closed, "close" \notin hasty[k]
               PROVE  Released(k) /\ ~InProgress(k)
    BY DEF ClosedForGood, Released
  <2>1. k \in Node
    BY DEF PartsOK, SocketsOK
  <2> QED
    BY <2>1 DEF Closing, Released, InProgress
<1> QED
  BY <1>1, <1>2, <1>3, PTL DEF Spec
=============================================================================

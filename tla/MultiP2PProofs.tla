--------------------------- MODULE MultiP2PProofs ---------------------------
(* Theorems about MultiP2P, for any calls, peers, options and bounds. *)
EXTENDS MultiP2P, TLAPS

LEMMA ConstantsTyped ==
  /\ Target \in [Call -> Peer]
  /\ MaxSockets \in Nat
  /\ "none" \notin Call /\ "direct" \notin Call
BY TargetType, BoundTypes, CallsAreCalls

-----------------------------------------------------------------------------
(* Types, by groups of variables that most actions change or leave together. *)

SocketsOK ==
  /\ sockets \in 0..MaxSockets
  /\ socket \in {0, sockets}
  /\ binds \in [1..MaxSockets -> Nat]
  /\ listening \subseteq 1..sockets
  /\ bindPromise \in {0, socket}
  /\ publicEndpoint \in 0..sockets

PeersOK ==
  /\ peers \in [Peer -> {"none", "direct"} \union Call]
  /\ relays \subseteq Call

RolesOK ==
  /\ election \in {"none", "sentinel", "follower"}
  /\ sentinels \in Nat
  /\ sentinel \in 0..sentinels
  /\ running \subseteq 1..sentinels

CallsOK ==
  /\ pc \in [Call -> Places]
  /\ on \in [Call -> 0..sockets]
  /\ hasty \subseteq {"overlap", "emptied", "close", "relay only"}

LEMMA TypeParts ==
  /\ TypeOK <=> SocketsOK /\ PeersOK /\ RolesOK /\ CallsOK
  /\ TypeOK' <=> SocketsOK' /\ PeersOK' /\ RolesOK' /\ CallsOK'
BY DEF TypeOK, SocketsOK, PeersOK, RolesOK, CallsOK

LEMMA SocketsSame == ASSUME SocketsOK, UNCHANGED binding PROVE SocketsOK'
BY DEF SocketsOK, binding

LEMMA RolesSame == ASSUME RolesOK, UNCHANGED roles PROVE RolesOK'
BY DEF RolesOK, roles

LEMMA InitTyped == Init => TypeOK
BY ConstantsTyped DEF Init, TypeOK, Places

LEMMA RemoveTyped ==
  ASSUME PeersOK, RolesOK, NEW p \in Peer, Remove(p)
  PROVE  PeersOK' /\ election' \in {"none", "sentinel", "follower"}
BY DEF PeersOK, RolesOK, Remove

LEMMA NewSentinelTyped ==
  ASSUME RolesOK, NewSentinel
  PROVE  sentinels' \in Nat /\ sentinel' \in 0..sentinels' /\ running' \subseteq 1..sentinels'
BY DEF RolesOK, NewSentinel

LEMMA ElectTyped ==
  ASSUME RolesOK, Elect
  PROVE  RolesOK'
<1>1. CASE Sentinel /\ election = "none"
  BY <1>1, NewSentinelTyped DEF RolesOK, Elect
<1>2. CASE ~(Sentinel /\ election = "none")
  BY <1>2, RolesSame DEF Elect
<1> QED
  BY <1>1, <1>2

(* A call that moves on, on a socket there is. *)
LEMMA CallsTyped ==
  ASSUME CallsOK, sockets' = sockets,
         NEW c \in Call, NEW place \in Places, Goes(c, place),
         \/ UNCHANGED on
         \/ \E s \in 0..sockets : on' = [on EXCEPT ![c] = s],
         hasty' \subseteq {"overlap", "emptied", "close", "relay only"}
  PROVE  CallsOK'
BY DEF CallsOK, Goes

LEMMA NextTyped == TypeOK /\ [Next]_vars => TypeOK'
<1> SUFFICES ASSUME SocketsOK, PeersOK, RolesOK, CallsOK, [Next]_vars
             PROVE  SocketsOK' /\ PeersOK' /\ RolesOK' /\ CallsOK'
  BY TypeParts
<1> USE ConstantsTyped
<1>1. CASE Bind
  <2>1. sockets' \in 0..MaxSockets /\ socket' = sockets' /\ sockets' = sockets + 1
    BY <1>1 DEF SocketsOK, Bind
  <2>2. \A i : i \in 0..sockets => i \in 0..sockets'
    BY <2>1 DEF SocketsOK
  <2>3. SocketsOK'
    BY <1>1, <2>1, <2>2 DEF SocketsOK, Bind
  <2>4. CallsOK'
    BY <1>1, <2>2 DEF CallsOK, Bind
  <2> QED
    BY <1>1, <2>3, <2>4, RolesSame DEF PeersOK, Bind
<1>2. CASE Listening
  <2>1. SocketsOK'
    BY <1>2 DEF SocketsOK, Listening
  <2> QED
    BY <1>2, <2>1, RolesSame DEF PeersOK, CallsOK, Listening
<1>3. CASE Close
  <2>1. SocketsOK'
    BY <1>3 DEF SocketsOK, Close, CloseAll
  <2>2. PeersOK'
    BY <1>3 DEF PeersOK, Close, CloseAll
  <2>3. RolesOK'
    BY <1>3 DEF RolesOK, Close, CloseAll
  <2>4. CallsOK'
    BY <1>3 DEF CallsOK, Close, CloseAll
  <2> QED
    BY <2>1, <2>2, <2>3, <2>4
<1>4. CASE Promoted
  <2>1. RolesOK'
    BY <1>4, NewSentinelTyped DEF RolesOK, Promoted
  <2> QED
    BY <1>4, <2>1, SocketsSame DEF PeersOK, CallsOK, Promoted, binding
<1>5. CASE Demoted
  <2>1. RolesOK'
    BY <1>5 DEF RolesOK, Demoted
  <2> QED
    BY <1>5, <2>1, SocketsSame DEF PeersOK, CallsOK, Demoted, binding
<1>6. ASSUME NEW p \in Peer, RemovePeer(p)
      PROVE  SocketsOK' /\ PeersOK' /\ RolesOK' /\ CallsOK'
  <2>1. PeersOK' /\ RolesOK'
    BY <1>6, RemoveTyped DEF RemovePeer, RolesOK
  <2> QED
    BY <1>6, <2>1, SocketsSame DEF CallsOK, RemovePeer, binding
<1>7. ASSUME NEW c \in Call, AddPeer(c)
      PROVE  SocketsOK' /\ PeersOK' /\ RolesOK' /\ CallsOK'
  <2>1. Target[c] \in Peer
    OBVIOUS
  <2>2. PeersOK' /\ RolesOK'
    BY <1>7, <2>1, RemoveTyped DEF AddPeer, RolesOK
  <2>3. SocketsOK'
    BY <1>7 DEF SocketsOK, AddPeer, BindSocketOnce
  <2>4. bindPromise' \in 0..sockets
    BY <1>7 DEF SocketsOK, AddPeer, BindSocketOnce
  <2>5. CallsOK'
    BY <1>7, <2>4, CallsTyped DEF CallsOK, AddPeer, Places
  <2> QED
    BY <2>2, <2>3, <2>5
<1>8. ASSUME NEW c \in Call, Bound(c) \/ Discovered(c) \/ Registered(c)
      PROVE  SocketsOK' /\ PeersOK' /\ RolesOK' /\ CallsOK'
  <2>1. socket \in 0..sockets
    BY DEF SocketsOK
  <2>2. CallsOK'
    BY <1>8, <2>1, CallsTyped DEF CallsOK, Bound, Discovered, Registered, Places, binding
  <2>3. SocketsOK'
    BY <1>8, SocketsSame DEF SocketsOK, CallsOK, Bound, Discovered, Registered
  <2> QED
    BY <1>8, <2>2, <2>3, RolesSame DEF PeersOK, Bound, Discovered, Registered
<1>9. ASSUME NEW c \in Call, NotFound(c) \/ Found(c) \/ NotPunched(c) \/ RelayFails(c)
      PROVE  SocketsOK' /\ PeersOK' /\ RolesOK' /\ CallsOK'
  <2>1. socket \in 0..sockets
    BY DEF SocketsOK
  <2>2. CallsOK'
    BY <1>9, <2>1, CallsTyped
       DEF CallsOK, NotFound, Found, NotPunched, RelayFails, SetupRelay, Places, binding
  <2>3. PeersOK'
    BY <1>9 DEF PeersOK, NotFound, Found, NotPunched, RelayFails, SetupRelay
  <2> QED
    BY <1>9, <2>2, <2>3, SocketsSame, RolesSame DEF NotFound, Found, NotPunched, RelayFails
<1>10. ASSUME NEW c \in Call, Punched(c)
       PROVE  SocketsOK' /\ PeersOK' /\ RolesOK' /\ CallsOK'
  <2>1. CallsOK'
    BY <1>10, CallsTyped DEF CallsOK, Punched, Places, binding
  <2> QED
    BY <1>10, <2>1, SocketsSame, ElectTyped DEF PeersOK, Punched
<1>11. ASSUME NEW c \in Call, RelayReady(c)
       PROVE  SocketsOK' /\ PeersOK' /\ RolesOK' /\ CallsOK'
  <2>1. CallsOK'
    BY <1>11, CallsTyped DEF CallsOK, RelayReady, Places, binding
  <2>2. RolesOK'
    BY <1>11, ElectTyped, RolesSame DEF RelayReady
  <2> QED
    BY <1>11, <2>1, <2>2, SocketsSame DEF PeersOK, RelayReady
<1>12. CASE UNCHANGED vars
  BY <1>12, SocketsSame, RolesSame DEF PeersOK, CallsOK, vars, binding
<1> QED
  BY <1>1, <1>2, <1>3, <1>4, <1>5, <1>6, <1>7, <1>8, <1>9, <1>10, <1>11, <1>12 DEF Next

(* Every variable keeps its type; the promise kept for sharing is always    *)
(* that of the present socket.                                              *)
THEOREM TransportTyped == Spec => []TypeOK
BY InitTyped, NextTyped, PTL DEF Spec

-----------------------------------------------------------------------------
(* The strengthening, one lemma for each of its parts or pair of parts. *)

LEMMA InitInv == Init => TransportInv
<1> SUFFICES ASSUME Init PROVE TransportInv
  OBVIOUS
<1>1. FirstBind
  BY DEF Init, FirstBind
<1>2. RelayTargets
  BY ConstantsTyped DEF Init, RelayTargets
<1>3. Alone /\ SameSocket
  BY DEF Init, Alone, SameSocket, InProgress
<1>4. MeshElects
  BY DEF Init, MeshElects, NoPeers
<1> QED
  BY <1>1, <1>2, <1>3, <1>4
     DEF Init, TransportInv, RoleHasSentinel, RelaysHeld, NoRelayLeaks, CacheFresh,
         OneSentinel

LEMMA FirstBindKept ==
  ASSUME SocketsOK, FirstBind, [Next]_vars
  PROVE  FirstBind'
<1> DEFINE Same == UNCHANGED <<sockets, socket, binds, bindPromise>>
<1>1. CASE Bind
  <2>1. bindPromise = 0 /\ socket = 0 /\ sockets \in Nat
    BY <1>1, ConstantsTyped DEF SocketsOK, Bind
  <2> QED
    BY <1>1, <2>1, ConstantsTyped DEF SocketsOK, FirstBind, Bind
<1>2. ASSUME NEW c \in Call, AddPeer(c) PROVE FirstBind'
  BY <1>2, ConstantsTyped DEF SocketsOK, FirstBind, AddPeer, BindSocketOnce
<1>3. CASE Close
  BY <1>3, ConstantsTyped DEF SocketsOK, FirstBind, Close, CloseAll
<1>4. CASE Same
  BY <1>4 DEF FirstBind
<1>5. Bind \/ Close \/ Same \/ \E c \in Call : AddPeer(c)
  BY DEF Next, vars, binding, Listening, Promoted, Demoted, RemovePeer, Bound, Discovered,
         Registered, NotFound, Found, NotPunched, Punched, RelayReady, RelayFails
<1> QED
  BY <1>1, <1>2, <1>3, <1>4, <1>5

(* What a step can do to the roles and to the history they depend on. *)
Quiet == UNCHANGED roles /\ hasty \subseteq hasty'

Removes ==
  /\ election' = IF NoPeers(peers') THEN "none" ELSE election
  /\ UNCHANGED <<sentinel, sentinels, running>>
  /\ hasty \subseteq hasty'
  /\ NoPeers(peers') /\ sentinel # 0 => "emptied" \in hasty'

Starts == election = "none" /\ NewSentinel /\ election' = "sentinel" /\ UNCHANGED hasty

LEMMA RoleSteps ==
  ASSUME [Next]_vars
  PROVE  Quiet \/ Removes \/ Starts \/ Close \/ Promoted \/ Demoted
<1>1. ASSUME NEW p \in Peer, RemovePeer(p) PROVE Removes
  BY <1>1 DEF RemovePeer, Remove, Removes
<1>2. ASSUME NEW c \in Call, AddPeer(c) PROVE Removes
  BY <1>2 DEF AddPeer, Remove, Removes
<1>3. ASSUME NEW c \in Call, Punched(c) \/ RelayReady(c) PROVE Quiet \/ Starts
  BY <1>3 DEF Punched, RelayReady, Elect, Quiet, Starts
<1>4. CASE Bind \/ Listening \/ UNCHANGED vars
  BY <1>4 DEF Bind, Listening, vars, roles, Quiet
<1>5. ASSUME NEW c \in Call,
             \/ Bound(c) \/ Discovered(c) \/ Registered(c) \/ NotFound(c)
             \/ Found(c) \/ NotPunched(c) \/ RelayFails(c)
      PROVE  Quiet
  BY <1>5 DEF Bound, Discovered, Registered, NotFound, Found, NotPunched, RelayFails, Quiet
<1> QED
  BY <1>1, <1>2, <1>3, <1>4, <1>5 DEF Next

LEMMA RolesKept ==
  ASSUME RolesOK, RoleHasSentinel, OneSentinel, [Next]_vars
  PROVE  RoleHasSentinel' /\ OneSentinel'
<1>1. CASE Quiet
  BY <1>1 DEF Quiet, roles, RoleHasSentinel, OneSentinel
<1>2. CASE Removes
  BY <1>2 DEF Removes, RoleHasSentinel, OneSentinel
<1>3. CASE Starts
  BY <1>3 DEF Starts, NewSentinel, RolesOK, RoleHasSentinel, OneSentinel
<1>4. CASE Close
  BY <1>4 DEF Close, CloseAll, RoleHasSentinel, OneSentinel
<1>5. CASE Promoted
  BY <1>5 DEF Promoted, NewSentinel, RolesOK, RoleHasSentinel, OneSentinel
<1>6. CASE Demoted
  BY <1>6 DEF Demoted, RolesOK, RoleHasSentinel, OneSentinel
<1> QED
  BY <1>1, <1>2, <1>3, <1>4, <1>5, <1>6, RoleSteps

LEMMA MeshElectsKept ==
  ASSUME PeersOK, RolesOK, MeshElects, [Next]_vars
  PROVE  MeshElects'
<1>1. ASSUME NEW p \in Peer, Remove(p),
             NoPeers(peers) => NoPeers(peers'), hasty \subseteq hasty'
      PROVE  MeshElects'
  BY <1>1 DEF Remove, MeshElects
<1>2. ASSUME NEW p \in Peer, Remove(p) PROVE NoPeers(peers) => NoPeers(peers')
  BY <1>2 DEF PeersOK, Remove, NoPeers
<1>3. ASSUME NEW p \in Peer, RemovePeer(p) PROVE MeshElects'
  BY <1>1, <1>2, <1>3 DEF RemovePeer
<1>4. ASSUME NEW c \in Call, AddPeer(c) PROVE MeshElects'
  <2>1. Target[c] \in Peer
    BY ConstantsTyped
  <2> QED
    BY <1>1, <1>2, <1>4, <2>1 DEF AddPeer
<1>5. ASSUME NEW c \in Call, Punched(c) \/ RelayReady(c) PROVE MeshElects'
  <2>1. Target[c] \in Peer /\ peers'[Target[c]] # "none"
    BY <1>5, ConstantsTyped DEF PeersOK, Punched, RelayReady
  <2>2. ~NoPeers(peers')
    BY <2>1 DEF NoPeers
  <2>3. Elect \/ "relay only" \in hasty'
    BY <1>5 DEF Punched, RelayReady
  <2>4. Elect => ~Sentinel \/ election' # "none"
    BY DEF Elect, roles
  <2> QED
    BY <2>2, <2>3, <2>4 DEF MeshElects
<1>6. CASE Bind \/ Listening \/ UNCHANGED vars
  BY <1>6 DEF Bind, Listening, vars, roles, MeshElects
<1>7. ASSUME NEW c \in Call,
             \/ Bound(c) \/ Discovered(c) \/ Registered(c) \/ NotFound(c)
             \/ Found(c) \/ NotPunched(c) \/ RelayFails(c)
      PROVE  MeshElects'
  BY <1>7 DEF Bound, Discovered, Registered, NotFound, Found, NotPunched, RelayFails,
              roles, MeshElects
<1>8. CASE Close
  BY <1>8 DEF Close, CloseAll, NoPeers, MeshElects
<1>9. CASE Promoted \/ Demoted
  BY <1>9 DEF Promoted, Demoted, MeshElects
<1> QED
  BY <1>3, <1>4, <1>5, <1>6, <1>7, <1>8, <1>9 DEF Next

(* The socket a call works on, and what was found with it. *)
LEMMA CacheKept ==
  ASSUME SocketsOK, CallsOK, SameSocket, CacheFresh, [Next]_vars
  PROVE  SameSocket' /\ CacheFresh'
<1> DEFINE Later == /\ UNCHANGED <<socket, publicEndpoint, on>>
                    /\ hasty \subseteq hasty'
                    /\ \A c \in Call : /\ (InProgress(c))' => InProgress(c)
                                       /\ pc'[c] = "stun" => pc[c] = "stun"
<1>1. CASE Later
  BY <1>1 DEF SameSocket, CacheFresh
<1>2. CASE Bind
  BY <1>2 DEF Bind, SameSocket, CacheFresh, InProgress
<1>3. CASE Close
  BY <1>3 DEF Close, CloseAll, SameSocket, CacheFresh, InProgress
<1>4. ASSUME NEW c \in Call, AddPeer(c) PROVE SameSocket' /\ CacheFresh'
  BY <1>4 DEF AddPeer, CallsOK, Goes, SameSocket, CacheFresh, InProgress
<1>5. ASSUME NEW c \in Call, Bound(c) PROVE SameSocket' /\ CacheFresh'
  BY <1>5 DEF Bound, CallsOK, Goes, SameSocket, CacheFresh, InProgress, binding
<1>6. ASSUME NEW c \in Call, Discovered(c) PROVE SameSocket' /\ CacheFresh'
  BY <1>6 DEF Discovered, CallsOK, Goes, SameSocket, CacheFresh, InProgress
<1>7. ASSUME NEW c \in Call, Found(c) PROVE SameSocket' /\ CacheFresh'
  BY <1>7 DEF Found, SetupRelay, CallsOK, Goes, SameSocket, CacheFresh, InProgress, binding
<1>8. ASSUME NEW c \in Call,
             \/ Registered(c) \/ NotFound(c) \/ NotPunched(c) \/ Punched(c)
             \/ RelayReady(c) \/ RelayFails(c)
      PROVE  Later
  BY <1>8 DEF Registered, NotFound, NotPunched, Punched, RelayReady, RelayFails, SetupRelay,
              CallsOK, Goes, InProgress, binding
<1>9. Listening \/ Promoted \/ Demoted \/ UNCHANGED vars => Later
  BY DEF Listening, Promoted, Demoted, vars, binding, InProgress
<1>10. ASSUME NEW p \in Peer, RemovePeer(p) PROVE Later
  BY <1>10 DEF RemovePeer, binding, InProgress
<1> QED
  BY <1>1, <1>2, <1>3, <1>4, <1>5, <1>6, <1>7, <1>8, <1>9, <1>10 DEF Next

-----------------------------------------------------------------------------
(* Relays: what the map and the calls hold. *)

LEMMA RelayTargetsKept ==
  ASSUME PeersOK, RelayTargets, [Next]_vars
  PROVE  RelayTargets'
<1> USE ConstantsTyped
<1>1. ASSUME NEW p \in Peer, Remove(p) PROVE RelayTargets'
  BY <1>1 DEF PeersOK, Remove, RelayTargets
<1>2. ASSUME NEW c \in Call, AddPeer(c) PROVE RelayTargets'
  <2>1. Target[c] \in Peer
    OBVIOUS
  <2> QED
    BY <1>1, <1>2, <2>1 DEF AddPeer
<1>3. ASSUME NEW c \in Call, Punched(c) \/ RelayReady(c) PROVE RelayTargets'
  <2>1. \/ peers' = [peers EXCEPT ![Target[c]] = "direct"]
        \/ peers' = [peers EXCEPT ![Target[c]] = c]
    BY <1>3 DEF Punched, RelayReady
  <2>2. CASE peers' = [peers EXCEPT ![Target[c]] = "direct"]
    BY <2>2 DEF PeersOK, RelayTargets
  <2>3. CASE peers' = [peers EXCEPT ![Target[c]] = c]
    BY <2>3 DEF PeersOK, RelayTargets
  <2> QED
    BY <2>1, <2>2, <2>3
<1>4. CASE Close
  BY <1>4 DEF Close, CloseAll, RelayTargets
<1>5. CASE UNCHANGED peers
  BY <1>5 DEF RelayTargets
<1>6. \/ UNCHANGED peers \/ Close
      \/ \E p \in Peer : RemovePeer(p)
      \/ \E c \in Call : AddPeer(c) \/ Punched(c) \/ RelayReady(c)
  BY DEF Next, vars, Bind, Listening, Promoted, Demoted, Bound, Discovered, Registered,
         NotFound, Found, NotPunched, RelayFails
<1> QED
  BY <1>1, <1>2, <1>3, <1>4, <1>5, <1>6 DEF RemovePeer

LEMMA AloneKept ==
  ASSUME PeersOK, CallsOK, Alone, [Next]_vars
  PROVE  Alone'
<1> USE ConstantsTyped
<1> DEFINE Later == /\ UNCHANGED peers
                    /\ hasty \subseteq hasty'
                    /\ \A c \in Call : (InProgress(c))' => InProgress(c)
<1>1. CASE Later
  BY <1>1 DEF Alone
<1>2. ASSUME NEW p \in Peer, RemovePeer(p) PROVE Alone'
  BY <1>2 DEF PeersOK, RemovePeer, Remove, Alone, InProgress
<1>3. ASSUME NEW c \in Call, AddPeer(c) PROVE Alone'
  <2>1. SUFFICES ASSUME "overlap" \notin hasty' PROVE Alone'
    BY DEF Alone
  <2>2. "overlap" \notin hasty /\ \A d \in Call : InProgress(d) => Target[d] # Target[c]
    BY <1>3, <2>1 DEF AddPeer
  <2>3. \A d \in Call : (InProgress(d))' => d = c \/ InProgress(d)
    BY <1>3 DEF AddPeer, Goes, CallsOK, InProgress
  <2>4. peers' = [peers EXCEPT ![Target[c]] = "none"] /\ Target[c] \in Peer
    BY <1>3 DEF AddPeer, Remove
  <2> QED
    BY <2>2, <2>3, <2>4 DEF PeersOK, Alone
<1>4. ASSUME NEW c \in Call, Punched(c) \/ RelayReady(c) PROVE Alone'
  <2>1. SUFFICES ASSUME "overlap" \notin hasty' PROVE Alone'
    BY DEF Alone
  <2>2. "overlap" \notin hasty /\ InProgress(c)
    BY <1>4, <2>1 DEF Punched, RelayReady, InProgress
  <2>3. \A d \in Call : (InProgress(d))' => d # c /\ InProgress(d)
    BY <1>4 DEF Punched, RelayReady, Goes, CallsOK, InProgress
  <2>4. \A p \in Peer : p # Target[c] => peers'[p] = peers[p]
    BY <1>4 DEF Punched, RelayReady, PeersOK
  <2> QED
    BY <2>2, <2>3, <2>4 DEF PeersOK, Alone
<1>5. CASE Close
  BY <1>5 DEF Close, CloseAll, Alone, InProgress
<1>6. ASSUME NEW c \in Call,
             \/ Bound(c) \/ Discovered(c) \/ Registered(c) \/ NotFound(c)
             \/ Found(c) \/ NotPunched(c) \/ RelayFails(c)
      PROVE  Later
  BY <1>6 DEF Bound, Discovered, Registered, NotFound, Found, NotPunched, RelayFails,
              SetupRelay, CallsOK, Goes, InProgress
<1>7. Bind \/ Listening \/ Promoted \/ Demoted \/ UNCHANGED vars => Later
  BY DEF Bind, Listening, Promoted, Demoted, vars, InProgress
<1> QED
  BY <1>1, <1>2, <1>3, <1>4, <1>5, <1>6, <1>7 DEF Next

LEMMA RelaysHeldKept ==
  ASSUME PeersOK, CallsOK, RelayTargets, Alone, RelaysHeld, [Next]_vars
  PROVE  RelaysHeld'
<1> USE ConstantsTyped
<1> SUFFICES ASSUME "overlap" \notin hasty', NEW r \in relays' PROVE (Held(r))'
  BY DEF RelaysHeld, NoRelayLeaks
<1>1. "overlap" \notin hasty
  BY DEF Next, vars, Bind, Listening, Close, CloseAll, Promoted, Demoted, RemovePeer, AddPeer,
         Bound, Discovered, Registered, NotFound, Found, NotPunched, Punched, RelayReady,
         RelayFails
<1>2. \A d \in relays : Held(d)
  BY <1>1 DEF RelaysHeld, NoRelayLeaks
<1>3. ASSUME NEW p \in Peer, Remove(p), \A d \in relays' : UNCHANGED pc[d]
      PROVE  (Held(r))'
  <2>1. r \in relays /\ r # peers[p] /\ r \in Call
    BY <1>3 DEF PeersOK, Remove
  <2>2. CASE peers[Target[r]] = r
    BY <1>3, <2>1, <2>2 DEF PeersOK, Remove, Held
  <2>3. CASE pc[r] \in {"relay", "relay only"}
    BY <1>3, <2>3 DEF Held
  <2> QED
    BY <1>2, <2>1, <2>2, <2>3 DEF Held
<1>4. ASSUME NEW p \in Peer, RemovePeer(p) PROVE (Held(r))'
  BY <1>3, <1>4 DEF RemovePeer
<1>5. ASSUME NEW c \in Call, AddPeer(c) PROVE (Held(r))'
  <2>1. c \notin relays'
    BY <1>2, <1>5 DEF AddPeer, Remove, Held
  <2>2. \A d \in relays' : UNCHANGED pc[d]
    BY <1>5, <2>1 DEF AddPeer, Remove, PeersOK, CallsOK, Goes
  <2>3. Target[c] \in Peer
    OBVIOUS
  <2> QED
    BY <1>3, <1>5, <2>2, <2>3 DEF AddPeer
<1>6. ASSUME NEW c \in Call, Punched(c) \/ RelayReady(c) PROVE (Held(r))'
  <2>1. InProgress(c) /\ pc'[c] = "done"
    BY <1>6 DEF Punched, RelayReady, CallsOK, Goes, InProgress
  <2>2. peers[Target[c]] = "none"
    BY <1>1, <2>1 DEF Alone
  <2>3. r \in relays /\ Held(r) /\ r \in Call
    BY <1>2, <1>6 DEF Punched, RelayReady, PeersOK
  <2>4. CASE r = c
    <3>1. pc[c] \in {"relay", "relay only"}
      BY <2>2, <2>3, <2>4 DEF Held
    <3> QED
      BY <1>6, <2>4, <3>1 DEF Punched, RelayReady, PeersOK, Held
  <2>5. CASE r # c
    <3>1. pc'[r] = pc[r]
      BY <1>6, <2>3, <2>5 DEF Punched, RelayReady, CallsOK, Goes
    <3>2. peers[Target[r]] = r => peers'[Target[r]] = r
      BY <1>6, <2>2, <2>3 DEF Punched, RelayReady, PeersOK
    <3> QED
      BY <2>3, <3>1, <3>2 DEF Held
  <2> QED
    BY <2>4, <2>5
<1>7. ASSUME NEW c \in Call, UNCHANGED peers,
             \/ \E place \in {"relay", "relay only"} : SetupRelay(c, place)
             \/ /\ UNCHANGED relays /\ pc[c] \notin {"relay", "relay only"}
                /\ \E place \in Places : Goes(c, place)
             \/ relays' = relays \ {c} /\ \E place \in Places : Goes(c, place)
      PROVE  (Held(r))'
  <2>1. r \in Call
    BY <1>7 DEF PeersOK, SetupRelay
  <2>2. CASE r = c
    BY <1>2, <1>7, <2>1, <2>2 DEF SetupRelay, Goes, CallsOK, Held
  <2>3. CASE r # c
    BY <1>2, <1>7, <2>1, <2>3 DEF SetupRelay, Goes, CallsOK, Held
  <2> QED
    BY <2>2, <2>3
<1>8. ASSUME NEW c \in Call, NotFound(c) \/ NotPunched(c) \/ RelayFails(c)
      PROVE  (Held(r))'
  BY <1>7, <1>8 DEF NotFound, NotPunched, RelayFails, Places
<1>9. ASSUME NEW c \in Call, Bound(c) \/ Discovered(c) \/ Registered(c) \/ Found(c)
      PROVE  (Held(r))'
  BY <1>7, <1>9 DEF Bound, Discovered, Registered, Found, Places
<1>10. CASE Close
  BY <1>2, <1>10 DEF Close, CloseAll, PeersOK, Held
<1>11. CASE Bind \/ Listening \/ Promoted \/ Demoted \/ UNCHANGED vars
  BY <1>2, <1>11 DEF Bind, Listening, Promoted, Demoted, vars, Held
<1> QED
  BY <1>4, <1>5, <1>6, <1>8, <1>9, <1>10, <1>11 DEF Next

LEMMA NextInv == TypeOK /\ TransportInv /\ [Next]_vars => TransportInv'
BY TypeParts, FirstBindKept, RolesKept, MeshElectsKept, CacheKept, RelayTargetsKept,
   AloneKept, RelaysHeldKept DEF TransportInv

(* Through every interleaving of bind, addPeer, removePeer, close and the   *)
(* election's callbacks, the parts of the invariant hold together.          *)
THEOREM TransportSafe == Spec => []TransportInv
BY InitTyped, NextTyped, InitInv, NextInv, PTL DEF Spec

(* However many calls of addPeer run beside each other, and however often   *)
(* the transport is closed and bound again, no socket is bound twice.       *)
THEOREM SocketBoundOnce == Spec => []BoundOnce
<1>1. TypeOK /\ TransportInv => BoundOnce
  <2> SUFFICES ASSUME TypeOK, FirstBind, NEW s \in 1..MaxSockets PROVE binds[s] <= 1
    BY DEF TransportInv, BoundOnce
  <2>1. binds[s] \in Nat /\ (binds[s] <= 0 \/ binds[s] <= 1)
    BY DEF TypeOK, FirstBind
  <2> QED
    BY <2>1
<1> QED
  BY <1>1, TransportTyped, TransportSafe, PTL

(* The transport knows a SignalingSentinel that it started while its        *)
(* election says sentinel and none while it says follower; without an       *)
(* election only one that the removal of the last peer left.                *)
THEOREM SentinelFollowsRole == Spec => []RoleHasSentinel
<1>1. TransportInv => RoleHasSentinel
  BY DEF TransportInv
<1> QED
  BY <1>1, TransportSafe, PTL

(* It loses none of its SignalingSentinels while it has peers: what it does *)
(* not know of was given up by the removal of the last peer.                *)
THEOREM SentinelsKnown == Spec => []OneSentinel
<1>1. TransportInv => OneSentinel
  BY DEF TransportInv
<1> QED
  BY <1>1, TransportSafe, PTL

(* The mesh elects as long as it has peers, but for the relay-only start.   *)
THEOREM MeshAlive == Spec => []MeshElects
<1>1. TransportInv => MeshElects
  BY DEF TransportInv
<1> QED
  BY <1>1, TransportSafe, PTL

(* Calls for one peer that do not overlap leak no relay. *)
THEOREM NoRelayLost == Spec => []RelaysHeld
<1>1. TransportInv => RelaysHeld
  BY DEF TransportInv
<1> QED
  BY <1>1, TransportSafe, PTL

(* The cached public endpoint belongs to the socket in use. *)
THEOREM EndpointFresh == Spec => []CacheFresh
<1>1. TransportInv => CacheFresh
  BY DEF TransportInv
<1> QED
  BY <1>1, TransportSafe, PTL

-----------------------------------------------------------------------------
(* While there is no socket, no call of addPeer is between two of its steps, *)
(* so nothing comes to be; while there is one, nothing is claimed.           *)
LEMMA UnboundKept ==
  ASSUME TypeOK, TransportInv, NothingUnbound, [Next]_vars
  PROVE  NothingUnbound'
<1> SUFFICES ASSUME socket' = 0, "close" \notin hasty'
             PROVE  sentinel' = 0 /\ NoPeers(peers')
  BY DEF NothingUnbound
<1>1. CASE Close
  BY <1>1 DEF Close, CloseAll, NoPeers
<1>2. ASSUME socket = 0, "close" \notin hasty
      PROVE  sentinel' = 0 /\ NoPeers(peers')
  <2>1. sentinel = 0 /\ NoPeers(peers)
    BY <1>2 DEF NothingUnbound
  <2>2. election # "follower"
    BY <2>1 DEF TransportInv, MeshElects
  <2>3. \A c \in Call : ~InProgress(c)
    BY <1>2 DEF TransportInv, SameSocket
  <2>4. ASSUME NEW c \in Call, AddPeer(c) PROVE FALSE
    BY <1>2, <2>4 DEF AddPeer
  <2>5. ASSUME NEW c \in Call, Punched(c) \/ RelayReady(c) PROVE FALSE
    BY <2>3, <2>5 DEF Punched, RelayReady, InProgress
  <2>6. ASSUME NEW p \in Peer, RemovePeer(p)
        PROVE  sentinel' = 0 /\ NoPeers(peers')
    BY <2>1, <2>6 DEF RemovePeer, Remove, TypeOK, NoPeers
  <2>7. CASE Promoted
    BY <2>2, <2>7 DEF Promoted
  <2>8. CASE Bind \/ Listening \/ Demoted \/ UNCHANGED vars
    BY <2>1, <2>8 DEF Bind, Listening, Demoted, vars, roles
  <2>9. ASSUME NEW c \in Call,
               \/ Bound(c) \/ Discovered(c) \/ Registered(c) \/ NotFound(c)
               \/ Found(c) \/ NotPunched(c) \/ RelayFails(c)
        PROVE  sentinel' = 0 /\ NoPeers(peers')
    BY <2>1, <2>9 DEF Bound, Discovered, Registered, NotFound, Found, NotPunched,
                      RelayFails, roles
  <2> QED
    BY <1>1, <2>4, <2>5, <2>6, <2>7, <2>8, <2>9 DEF Next
<1>3. Close \/ (hasty \subseteq hasty' /\ (socket' = 0 => socket = 0))
  <2>1. ASSUME Bind PROVE socket' # 0
    <3>1. SocketsOK
      BY TypeParts
    <3>2. sockets \in Nat
      BY <3>1, ConstantsTyped DEF SocketsOK
    <3> QED
      BY <2>1, <3>2 DEF Bind
  <2>2. ASSUME NEW c \in Call, AddPeer(c) PROVE hasty \subseteq hasty' /\ socket' = socket
    BY <2>2 DEF AddPeer
  <2>3. ASSUME NEW p \in Peer, RemovePeer(p) PROVE hasty \subseteq hasty' /\ socket' = socket
    BY <2>3 DEF RemovePeer, binding
  <2>4. ASSUME NEW c \in Call, RelayReady(c) PROVE hasty \subseteq hasty' /\ socket' = socket
    BY <2>4 DEF RelayReady, binding
  <2>5. CASE Listening \/ Promoted \/ Demoted \/ UNCHANGED vars
    BY <2>5 DEF Listening, Promoted, Demoted, vars, binding
  <2>6. ASSUME NEW c \in Call,
               \/ Bound(c) \/ Discovered(c) \/ Registered(c) \/ NotFound(c)
               \/ Found(c) \/ NotPunched(c) \/ Punched(c) \/ RelayFails(c)
        PROVE  hasty' = hasty /\ socket' = socket
    BY <2>6 DEF Bound, Discovered, Registered, NotFound, Found, NotPunched, Punched,
                RelayFails, binding
  <2>7. CASE Bind
    BY <2>1, <2>7 DEF Bind
  <2> QED
    BY <2>2, <2>3, <2>4, <2>5, <2>6, <2>7 DEF Next
<1> QED
  BY <1>1, <1>2, <1>3

LEMMA UnboundInvariant == Spec => []NothingUnbound
<1>1. Init => NothingUnbound
  BY DEF Init, NothingUnbound, NoPeers
<1>2. TypeOK /\ TransportInv /\ NothingUnbound /\ [Next]_vars => NothingUnbound'
  BY UnboundKept
<1> QED
  BY <1>1, <1>2, TransportTyped, TransportSafe, PTL DEF Spec

(* What CloseReleases would say, with all its exceptions: a close that cuts *)
(* no addPeer short leaves no sentinel behind but one that the removal of   *)
(* the last peer had given up, and no relay but one of two overlapping      *)
(* calls.                                                                   *)
THEOREM CloseLeavesNothing == Spec => []CloseFrees
<1>1. TypeOK /\ TransportInv /\ NothingUnbound => CloseFrees
  <2> SUFFICES ASSUME TypeOK, TransportInv, socket = 0, "close" \notin hasty,
                      sentinel = 0, NoPeers(peers)
               PROVE  /\ "emptied" \notin hasty => running = {}
                      /\ "overlap" \notin hasty => relays = {}
    BY DEF CloseFrees, NothingUnbound
  <2>1. "emptied" \notin hasty => running = {}
    <3>1. "emptied" \notin hasty => running \subseteq {0}
      BY DEF TransportInv, OneSentinel
    <3>2. sentinels \in Nat /\ running \subseteq 1..sentinels
      BY DEF TypeOK
    <3> QED
      BY <3>1, <3>2
  <2>2. \A c \in Call : ~Held(c)
    <3>1. \A c \in Call : pc[c] \notin {"relay", "relay only"}
      BY DEF TransportInv, SameSocket, InProgress
    <3>2. \A c \in Call : peers[Target[c]] # c
      BY ConstantsTyped DEF NoPeers
    <3> QED
      BY <3>1, <3>2 DEF Held
  <2>3. "overlap" \notin hasty => relays = {}
    BY <2>2 DEF TransportInv, RelaysHeld, NoRelayLeaks, TypeOK
  <2> QED
    BY <2>1, <2>3
<1> QED
  BY <1>1, UnboundInvariant, TransportTyped, TransportSafe, PTL
=============================================================================

-------------------------------- MODULE Bus --------------------------------
(***************************************************************************)
(* Bus.publish handler by handler.  Handlers are code of the application:   *)
(* while one runs it may subscribe, unsubscribe (itself, one already        *)
(* called, one still to come), publish another envelope (over a transport   *)
(* that delivers synchronously) or throw.                                   *)
(*                                                                          *)
(* publish iterates over the array it found in the subscriptions map.       *)
(* subscribe pushes onto the array that is in the map, so a running loop    *)
(* sees it as long as that is its own array; unsubscribe puts a filtered    *)
(* copy in the map and leaves running loops with the old one.               *)
(*                                                                          *)
(* Definitions under "Slip" are mistakes the code does not make: each       *)
(* breaks a property when put in the place of the one that follows.         *)
(***************************************************************************)
EXTENDS Naturals, SequencesExt

CONSTANTS
  Sub,        \* Subscription objects: each call of subscribe makes one
  Envelope,   \* envelopes, by id
  Type,       \* event types
  Room,       \* rooms
  NoRoom,     \* the room of an envelope or subscription without one
  SubType, SubRoom,   \* type and options.room of each subscription
  EnvType, EnvRoom,   \* type and room of each envelope
  MaxDepth    \* bound: publishes nested in one another's handlers

ASSUME NoRoomIsNoRoom == NoRoom \notin Room
ASSUME SubTypeType ==
  SubType \in [Sub -> Type] /\ SubRoom \in [Sub -> Room \union {NoRoom}]
ASSUME EnvTypeType ==
  EnvType \in [Envelope -> Type] /\ EnvRoom \in [Envelope -> Room \union {NoRoom}]
ASSUME DepthType == MaxDepth \in Nat \ {0}

VARIABLES
  subscriptions,  \* the map: the array of each type, <<>> when it has none
  made,           \* subscriptions made so far
  left,           \* those whose unsubscribe was called
  seen,           \* Deduplicator.seen$
  stack,          \* publish calls in progress, the innermost first
  (* What happened so far; no action reads the rest. *)
  calls,          \* calls[s][v]: times s's handler was called for envelope v
  promised,       \* promised[v]: subscriptions v matched when its publish began
  former,         \* former[v]: subscriptions given up before v's publish began
  aborted         \* envelopes whose publish ended with an exception

vars == <<subscriptions, made, left, seen, stack, calls, promised, former, aborted>>

(* A publish in progress: "list" is the array it iterates, "shared" whether *)
(* that array is still the one in the map, "at" how many entries it has     *)
(* visited, "running" whether the handler of list[at] is executing.         *)
Frame == [envelope : Envelope, list : Seq(Sub), shared : BOOLEAN,
          at : Nat, running : BOOLEAN]

(* Application code runs at top level or in a handler. *)
InUserCode == stack # <<>> => Head(stack).running

RoomMatches(s, v) ==
  \/ EnvRoom[v] = NoRoom
  \/ SubRoom[s] = NoRoom
  \/ SubRoom[s] = EnvRoom[v]

-----------------------------------------------------------------------------
Init ==
  /\ subscriptions = [t \in Type |-> <<>>]
  /\ made = {}
  /\ left = {}
  /\ seen = {}
  /\ stack = <<>>
  /\ calls = [s \in Sub |-> [v \in Envelope |-> 0]]
  /\ promised = [v \in Envelope |-> {}]
  /\ former = [v \in Envelope |-> {}]
  /\ aborted = {}

(* Slip: any loop in progress sees the new subscription. *)
SubscribeToAllLoops(s) ==
  /\ InUserCode
  /\ s \notin made
  /\ made' = made \union {s}
  /\ subscriptions' = [subscriptions EXCEPT ![SubType[s]] = Append(@, s)]
  /\ stack' = [i \in DOMAIN stack |-> [stack[i] EXCEPT !.list = Append(@, s)]]
  /\ UNCHANGED <<left, seen, calls, promised, former, aborted>>

(* subscribe: a push onto the array in the map, seen by loops that share it. *)
Subscribe(s) ==
  LET t == SubType[s]
      Grown(f) == IF f.shared /\ EnvType[f.envelope] = t
                  THEN [f EXCEPT !.list = Append(@, s)] ELSE f
  IN /\ InUserCode
     /\ s \notin made
     /\ made' = made \union {s}
     /\ subscriptions' = [subscriptions EXCEPT ![t] = Append(@, s)]
     /\ stack' = [i \in DOMAIN stack |-> Grown(stack[i])]
     /\ UNCHANGED <<left, seen, calls, promised, former, aborted>>

(* Slip: unsubscribe splices the array that running loops iterate. *)
UnsubscribeInPlace(s) ==
  LET t == SubType[s]
  IN /\ InUserCode
     /\ s \in made
     /\ left' = left \union {s}
     /\ subscriptions' = [subscriptions EXCEPT ![t] = RemoveFirst(@, s)]
     /\ stack' = [i \in DOMAIN stack |-> [stack[i] EXCEPT !.list = RemoveFirst(@, s)]]
     /\ UNCHANGED <<made, seen, calls, promised, former, aborted>>

(* Slip: the map loses the type instead of getting the filtered array. *)
UnsubscribeDeletes(s) ==
  /\ InUserCode
  /\ s \in made
  /\ left' = left \union {s}
  /\ subscriptions' = [t \in DOMAIN subscriptions \ {SubType[s]} |-> subscriptions[t]]
  /\ UNCHANGED <<made, seen, stack, calls, promised, former, aborted>>

(* The function subscribe returned, which may be called again: the map gets *)
(* a new array even when s is no longer in it.  An array holds s once, as   *)
(* it is pushed once: what the filter leaves is the array without the first. *)
Unsubscribe(s) ==
  LET t == SubType[s]
      Left(f) == IF EnvType[f.envelope] = t THEN [f EXCEPT !.shared = FALSE] ELSE f
  IN /\ InUserCode
     /\ s \in made
     /\ left' = left \union {s}
     /\ subscriptions' = [subscriptions EXCEPT ![t] = RemoveFirst(@, s)]
     /\ stack' = [i \in DOMAIN stack |-> Left(stack[i])]
     /\ UNCHANGED <<made, seen, calls, promised, former, aborted>>

(* Slip: the id is not remembered before the handlers run. *)
PublishUnmarked(v) ==
  LET t == EnvType[v]
  IN /\ InUserCode
     /\ Len(stack) < MaxDepth
     /\ stack' = <<[envelope |-> v, list |-> subscriptions[t],
                    shared |-> \E s \in made : SubType[s] = t,
                    at |-> 0, running |-> FALSE]>> \o stack
     /\ UNCHANGED <<subscriptions, made, left, seen, calls, promised, former, aborted>>

(* publish up to the loop.  A type never subscribed to has no array in the  *)
(* map, and the empty one taken instead is not put there.                   *)
Publish(v) ==
  LET t == EnvType[v]
  IN /\ InUserCode
     /\ Len(stack) < MaxDepth
     /\ v \notin seen
     /\ seen' = seen \union {v}
     /\ stack' = <<[envelope |-> v, list |-> subscriptions[t],
                    shared |-> \E s \in made : SubType[s] = t,
                    at |-> 0, running |-> FALSE]>> \o stack
     /\ promised' = [promised EXCEPT ![v] =
                       {s \in Range(subscriptions[t]) : RoomMatches(s, v)}]
     /\ former' = [former EXCEPT ![v] = left]
     /\ UNCHANGED <<subscriptions, made, left, calls, aborted>>

(* Slip: the room is not compared. *)
VisitAnyRoom ==
  /\ stack # <<>>
  /\ LET f == Head(stack)
     IN /\ ~f.running
        /\ f.at < Len(f.list)
        /\ stack' = [stack EXCEPT ![1] = [f EXCEPT !.at = @ + 1, !.running = TRUE]]
        /\ calls' = [calls EXCEPT ![f.list[f.at + 1]][f.envelope] = @ + 1]
  /\ UNCHANGED <<subscriptions, made, left, seen, promised, former, aborted>>

(* One turn of the loop: the next entry is called if its room matches. *)
Visit ==
  /\ stack # <<>>
  /\ LET f == Head(stack)
         s == f.list[f.at + 1]
         matches == RoomMatches(s, f.envelope)
     IN /\ ~f.running
        /\ f.at < Len(f.list)
        /\ stack' = [stack EXCEPT ![1] = [f EXCEPT !.at = @ + 1, !.running = matches]]
        /\ calls' = IF matches THEN [calls EXCEPT ![s][f.envelope] = @ + 1] ELSE calls
  /\ UNCHANGED <<subscriptions, made, left, seen, promised, former, aborted>>

HandlerReturns ==
  /\ stack # <<>>
  /\ Head(stack).running
  /\ stack' = [stack EXCEPT ![1].running = FALSE]
  /\ UNCHANGED <<subscriptions, made, left, seen, calls, promised, former, aborted>>

(* The exception leaves publish; a handler that had called it catches it or *)
(* throws in its turn.                                                      *)
HandlerThrows ==
  /\ stack # <<>>
  /\ Head(stack).running
  /\ stack' = Tail(stack)
  /\ aborted' = aborted \union {Head(stack).envelope}
  /\ UNCHANGED <<subscriptions, made, left, seen, calls, promised, former>>

(* The loop is over when it has visited the array, as long as it is by now. *)
Return ==
  /\ stack # <<>>
  /\ ~Head(stack).running
  /\ Head(stack).at = Len(Head(stack).list)
  /\ stack' = Tail(stack)
  /\ UNCHANGED <<subscriptions, made, left, seen, calls, promised, former, aborted>>

Next ==
  \/ \E s \in Sub : Subscribe(s) \/ Unsubscribe(s)
  \/ \E v \in Envelope : Publish(v)
  \/ Visit \/ HandlerReturns \/ HandlerThrows \/ Return

Spec == Init /\ [][Next]_vars

-----------------------------------------------------------------------------
(* Every variable keeps its type. *)
TypeOK ==
  /\ subscriptions \in [Type -> Seq(Sub)]
  /\ left \subseteq made /\ made \subseteq Sub
  /\ seen \subseteq Envelope
  /\ stack \in Seq(Frame)
  /\ Len(stack) <= MaxDepth
  /\ calls \in [Sub -> [Envelope -> Nat]]
  /\ promised \in [Envelope -> SUBSET Sub]
  /\ former \in [Envelope -> SUBSET Sub]
  /\ aborted \subseteq Envelope

(* README, "your handler is never called twice for the same event": not     *)
(* even when handlers publish, subscribe and unsubscribe while the arrays   *)
(* that hold them are being iterated.                                       *)
AtMostOnce == \A s \in Sub, v \in Envelope : calls[s][v] <= 1

InProgress == {stack[i].envelope : i \in DOMAIN stack}

(* README, "delivered to all listeners of that event type": a publish that  *)
(* returned has called every subscription it matched when it began, whoever *)
(* came or went during the loop.                                            *)
NobodySkipped ==
  \A v \in seen \ (aborted \union InProgress) :
    \A s \in promised[v] : calls[s][v] = 1

(* README, "delivered only to listeners subscribed to that room": a handler *)
(* is called for envelopes of its type and room only, and never for one     *)
(* whose publish began after its subscription was given up.                 *)
OnlySubscribers ==
  \A s \in Sub, v \in Envelope : calls[s][v] > 0 =>
    SubType[s] = EnvType[v] /\ RoomMatches(s, v) /\ s \notin former[v]
=============================================================================

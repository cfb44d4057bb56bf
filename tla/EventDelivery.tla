--------------------------- MODULE EventDelivery ---------------------------
(***************************************************************************)
(* What Eden promises its users (README, "Delivery guarantees"), without    *)
(* saying how: an emitted event stays in its emitter's outbox until a peer  *)
(* that answers to that emitter has run its handlers, and an instance runs  *)
(* its handlers for an event at most once.  Nothing survives a restart.     *)
(* EdenDelivery implements this module.                                     *)
(***************************************************************************)
CONSTANTS Node,     \* Eden instances (a restarted one keeps its name)
          Event,    \* envelope ids
          Origin,   \* Origin[e]: the instance that emits e
          Peers     \* Peers[n]: the instances that n's transport sends to

VARIABLES posted,     \* events emitted so far
          outbox,     \* events whose emitter still owes a delivery
          handled,    \* handled[n]: events n's current incarnation has handled
          processed   \* processed[n]: events some incarnation of n has handled

vars == <<posted, outbox, handled, processed>>

(* p both receives what n sends and sends its acknowledgements to n. *)
Mutual(n, p) == p \in Peers[n] /\ n \in Peers[p]

Init == /\ posted = {}
        /\ outbox = {}
        /\ handled = [n \in Node |-> {}]
        /\ processed = [n \in Node |-> {}]

(* An instance emits an event. *)
Post(e) == /\ e \notin posted
           /\ posted' = posted \union {e}
           /\ outbox' = outbox \union {e}
           /\ UNCHANGED <<handled, processed>>

(* An instance the event was sent to runs its handlers, once. *)
Process(n, e) == /\ e \in posted
                 /\ n \in Peers[Origin[e]]
                 /\ e \notin handled[n]
                 /\ handled' = [handled EXCEPT ![n] = @ \union {e}]
                 /\ processed' = [processed EXCEPT ![n] = @ \union {e}]
                 /\ UNCHANGED <<posted, outbox>>

(* The emitter stops owing an event, which a peer has handled by then. *)
Settle(e) == /\ e \in outbox
             /\ \E p \in Node : Mutual(Origin[e], p) /\ e \in processed[p]
             /\ outbox' = outbox \ {e}
             /\ UNCHANGED <<posted, handled, processed>>

(* An instance is lost with everything it kept in memory. *)
Abandon(n) == /\ outbox' = {e \in outbox : Origin[e] # n}
              /\ handled' = [handled EXCEPT ![n] = {}]
              /\ UNCHANGED <<posted, processed>>

Next == \/ \E e \in Event : Post(e) \/ Settle(e)
        \/ \E n \in Node : Abandon(n)
        \/ \E n \in Node, e \in Event : Process(n, e)

Spec == Init /\ [][Next]_vars
=============================================================================

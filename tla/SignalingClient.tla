--------------------------- MODULE SignalingClient ---------------------------
(***************************************************************************)
(* The SignalingClient that a call of connect makes for itself: a WebSocket *)
(* and, for a request that finds it lost, another one; one request at a     *)
(* time; and an answer known by its type only, so that the late answer to a *)
(* request that timed out answers the next.  Nobody listens to the close of *)
(* a WebSocket: a request that waits on it goes on waiting.                 *)
(***************************************************************************)
EXTENDS SignalingServer

VARIABLES
  sig,       \* sig[n]: the WebSocket, "none" before it, "dead" once it is lost
             \* or could not be opened, and "closed" after close
  waiting    \* waiting[n]: the type of answer waited for, or "nothing"

signaling == <<sig, waiting>>

SigOpen == {n \in Node : sig[n] = "open"}

SignalingInit ==
  /\ sig = [n \in Node |-> "none"]
  /\ waiting = [n \in Node |-> "nothing"]

(* The request is over, and with it its listener. *)
SigSettled(n) == waiting' = [waiting EXCEPT ![n] = "nothing"]

(* connect, without a WebSocket that is open. *)
SigConnect(n) ==
  /\ sig' = [sig EXCEPT ![n] = "connecting"]
  /\ SigSettled(n)

(* A message of the client, and the type of its answer. *)
Asking(n, message, answer) ==
  /\ waiting' = [waiting EXCEPT ![n] = answer]
  /\ asked' = Put(asked, n, message)

(* Either it opens and the request goes out, or connect rejects, also when  *)
(* it takes too long.                                                       *)
SigOpens(n, message, answer) ==
  /\ sig[n] = "connecting"
  /\ sig' = [sig EXCEPT ![n] = "open"]
  /\ Asking(n, message, answer)

SigFails(n) ==
  /\ sig[n] = "connecting"
  /\ sig' = [sig EXCEPT ![n] = "dead"]
  /\ UNCHANGED waiting

(* An open WebSocket is lost, with what was on its way on it: only its       *)
(* "register" may still get there.  The request goes on waiting.             *)
SigLost(n) ==
  /\ sig[n] = "open"
  /\ sig' = [sig EXCEPT ![n] = "dead"]
  /\ answers' = [answers EXCEPT ![n] = <<>>]
  /\ \/ asked' = [asked EXCEPT ![n] = <<>>]
     \/ asked[n] = <<"register">> /\ UNCHANGED asked
  /\ gone' = gone \union {n}
  /\ UNCHANGED waiting

(* requestConnect: on the open WebSocket at once, or once another one is. *)
SigRequest(n) ==
  \/ sig[n] = "open" /\ Asking(n, "request", "peer_endpoint") /\ UNCHANGED sig
  \/ sig[n] # "open" /\ SigConnect(n) /\ UNCHANGED asked

(* The next message of the server answers the request, refuses it, whatever *)
(* it was (this server refuses no "register"), or is late and of another    *)
(* kind.                                                                    *)
Accepted(n) == answers[n] # <<>> /\ waiting[n] = Head(answers[n])
Refused(n) == answers[n] # <<>> /\ waiting[n] # "nothing" /\ Head(answers[n]) = "error"
Ignored(n) == answers[n] # <<>> /\ ~Accepted(n) /\ ~Refused(n)

(* The message is taken, and the others stay. *)
SigTakes(n) == answers' = Took(answers, n)

(* Slip: the request that was waiting goes on waiting. *)
SigCloseWaiting(n) ==
  /\ sig' = [sig EXCEPT ![n] = "closed"]
  /\ UNCHANGED waiting
  /\ answers' = [answers EXCEPT ![n] = <<>>]
  /\ gone' = gone \union ({n} \intersect SigOpen)

(* close: an open WebSocket ends after what it still has to send, and what   *)
(* it still gets is for nobody.                                              *)
SigClose(n) ==
  /\ sig' = [sig EXCEPT ![n] = "closed"]
  /\ SigSettled(n)
  /\ answers' = [answers EXCEPT ![n] = <<>>]
  /\ gone' = gone \union ({n} \intersect SigOpen)
=============================================================================

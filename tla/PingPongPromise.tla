--------------------------- MODULE PingPongPromise ---------------------------
(***************************************************************************)
(* What the TCP programs promise: on each connection, requests and answers *)
(* take turns, and main() reports a run without a FAIL line only when      *)
(* every request has been answered and every answer has arrived.           *)
(***************************************************************************)
EXTENDS Integers

CONSTANTS
  Connections,
  Count(_)     (* the requests to be made on a connection *)

VARIABLES
  answered,    (* answered[c]: the requests the server has answered        *)
  received,    (* received[c]: the answers the client has read             *)
  outcome      (* of the program                                           *)

promiseVars == <<answered, received, outcome>>

Init ==
  /\ answered = [c \in Connections |-> 0]
  /\ received = [c \in Connections |-> 0]
  /\ outcome = "running"

Answer(c) ==
  /\ outcome = "running"
  /\ answered[c] = received[c] /\ answered[c] < Count(c)
  /\ answered' = [answered EXCEPT ![c] = @ + 1]
  /\ UNCHANGED <<received, outcome>>

Receive(c) ==
  /\ outcome = "running"
  /\ received[c] < answered[c]
  /\ received' = [received EXCEPT ![c] = @ + 1]
  /\ UNCHANGED <<answered, outcome>>

Succeed ==
  /\ outcome = "running"
  /\ \A c \in Connections : received[c] = Count(c)
  /\ outcome' = "passed"
  /\ UNCHANGED <<answered, received>>

Fail ==
  /\ outcome = "running"
  /\ outcome' \in {"failed", "terminated"}
  /\ UNCHANGED <<answered, received>>

Next == Succeed \/ Fail \/ \E c \in Connections : Answer(c) \/ Receive(c)

Spec == Init /\ [][Next]_promiseVars
=============================================================================

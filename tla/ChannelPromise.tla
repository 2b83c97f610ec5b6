--------------------------- MODULE ChannelPromise ---------------------------
(***************************************************************************)
(* What a channel benchmark promises, whatever the library: do_bench()     *)
(* moves every element to exactly one consumer, and only then reports.     *)
(* How the consumers learn that no more elements will come is left to the  *)
(* programs that implement it.                                             *)
(***************************************************************************)
EXTENDS ChannelBench

VARIABLES
  got,      (* got[c]: the elements consumer c has received                *)
  reported  (* has do_bench() returned?                                    *)

promiseVars == <<got, reported>>

Init ==
  /\ got = [c \in Consumers |-> {}]
  /\ ~ reported

Deliver(c) ==
  /\ ~ reported
  /\ \E e \in Elements \ Received(got) : got' = [got EXCEPT ![c] = @ \cup {e}]
  /\ UNCHANGED reported

Report ==
  /\ ~ reported
  /\ Received(got) = Elements
  /\ reported' = TRUE
  /\ UNCHANGED got

Next == Report \/ \E c \in Consumers : Deliver(c)

Spec == Init /\ [][Next]_promiseVars

LiveSpec == Spec /\ WF_promiseVars(Next)
=============================================================================

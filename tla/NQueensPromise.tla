---------------------------- MODULE NQueensPromise ----------------------------
(***************************************************************************)
(* What a search promises: each solution is found once, and the number     *)
(* found is checked when all have been.                                    *)
(***************************************************************************)
CONSTANT Solutions   (* the placements *)

VARIABLES
  found,     (* the solutions found so far *)
  verdict    (* of check_answer()           *)

promiseVars == <<found, verdict>>

Init == found = {} /\ verdict = "running"

Find ==
  /\ verdict = "running"
  /\ \E b \in Solutions \ found : found' = found \cup {b}
  /\ UNCHANGED verdict

Check ==
  /\ verdict = "running"
  /\ found = Solutions
  /\ verdict' = "correct"
  /\ UNCHANGED found

Next == Find \/ Check

Spec == Init /\ [][Next]_promiseVars
=============================================================================

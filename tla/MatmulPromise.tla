---------------------------- MODULE MatmulPromise ----------------------------
(***************************************************************************)
(* What a matrix multiplication promises, whatever the library and however *)
(* it divides the work: each product a[r,x] * b[x,s] is added to c[r,s]    *)
(* once, and the result is looked at when all of them have been.           *)
(***************************************************************************)
EXTENDS Integers

CONSTANT N   (* the matrices are N by N *)

VARIABLES
  summed,    (* summed[e]: the products that element e of c sums *)
  verdict    (* of validate_result()                             *)

promiseVars == <<summed, verdict>>

Cells == (0 .. N-1) \X (0 .. N-1)
Product(r, x, s) == [a |-> <<r, x>>, b |-> <<x, s>>]
ProductsOf(e) == {Product(e[1], x, e[2]) : x \in 0 .. N-1}

Init ==
  /\ summed = [e \in Cells |-> {}]
  /\ verdict = "running"

Add(e) ==
  /\ verdict = "running"
  /\ \E p \in ProductsOf(e) \ summed[e] :
       summed' = [summed EXCEPT ![e] = @ \cup {p}]
  /\ UNCHANGED verdict

Validate ==
  /\ verdict = "running"
  /\ \A e \in Cells : summed[e] = ProductsOf(e)
  /\ verdict' = "correct"
  /\ UNCHANGED summed

Next == Validate \/ \E e \in Cells : Add(e)

Spec == Init /\ [][Next]_promiseVars

LiveSpec == Spec /\ WF_promiseVars(Next)
=============================================================================

------------------------------- MODULE Matmul -------------------------------
(***************************************************************************)
(* One call of run_matmul() and validate_result(), in any of the eleven    *)
(* matmul.cpp programs: c = a * b by recursive calls that run in parallel. *)
(* The lines named are those of cpp/TooManyCooks/matmul.cpp where all      *)
(* programs are the same.                                                  *)
(*                                                                         *)
(* An int* into a matrix is the element it points to, as <<row, column>>:  *)
(* p + k is k columns further, p + k * N is k rows further.                *)
(* Every element of a and b is 1.  What a test of the values in c cannot   *)
(* tell, which products they sum, is kept in summed.                       *)
(***************************************************************************)
EXTENDS MatmulPrograms, FiniteSets

CONSTANTS
  N,          (* the matrices are N by N                                   *)
  BaseCase,   (* the size up to which matmul_small() is used, 32           *)
  Sizes,      (* the sizes n that matmul() is called with                  *)
  Runtimes    (* the programs                                              *)

(* main() wants a power of 2.  What matmul() needs is that n / 2 loses     *)
(* nothing for any n above the base case.                                  *)
ASSUME SizesAssumption ==
  /\ BaseCase \in Nat \ {0}
  /\ Sizes \subseteq Nat \ {0}
  /\ N \in Sizes
  /\ \A n \in Sizes : n > BaseCase => n % 2 = 0 /\ n \div 2 \in Sizes

ASSUME RuntimesAssumption == Runtimes \subseteq DOMAIN Body

VARIABLES
  runtime,  (* the program that runs                                       *)
  calls,    (* the calls of matmul() made so far, by their arguments       *)
  pc,       (* pc[t]: the next statement of the recursive case of t        *)
  loop,     (* loop[t]: the loop counters of matmul_small() for t, and the *)
            (* value of c that it has loaded                               *)
  c,        (* the matrix                                                  *)
  summed,   (* history: the products that each element of c sums           *)
  verdict   (* of validate_result()                                        *)

callVars == <<calls, pc, loop>>
matrixVars == <<c, summed>>
vars == <<runtime, callVars, matrixVars, verdict>>

Cells == (0 .. N-1) \X (0 .. N-1)
Task  == [a : Cells, b : Cells, c : Cells, n : Sizes]

NotLoaded == -1
Turn(i, k, j) == [i |-> i, k |-> k, j |-> j, reg |-> NotLoaded]
LoopStart == Turn(0, 0, 0)

Root == [a |-> <<0, 0>>, b |-> <<0, 0>>, c |-> <<0, 0>>, n |-> N]

Init ==
  /\ runtime \in Runtimes
  /\ calls = {Root}
  /\ pc = [t \in calls |-> 1]
  /\ loop = [t \in calls |-> LoopStart]
  /\ c = [e \in Cells |-> 0]
  /\ summed = [e \in Cells |-> {}]
  /\ verdict = "running"
-----------------------------------------------------------------------------
(***************************************************************************)
(* The recursive case.                                                     *)
(***************************************************************************)
(* What a call adds to a pointer: nothing, k, k * N, or k * N + k.         *)
Here     == <<0, 0>>
Right    == <<0, 1>>
Down     == <<1, 0>>
Diagonal == <<1, 1>>
Args(da, db, dc) == [a |-> da, b |-> db, c |-> dc]

FirstSection ==
  <<Args(Here, Here, Here), Args(Here, Right, Right),
    Args(Down, Here, Down), Args(Down, Right, Diagonal)>>

(* Two slips of SecondSection: the wrong block of b in one call, which the *)
(* values in c do not show, and the wrong block of c.                      *)
SecondSectionWrongB ==
  <<Args(Right, Down, Here), Args(Right, Down, Right),
    Args(Diagonal, Down, Down), Args(Diagonal, Diagonal, Diagonal)>>
SecondSectionWrongC ==
  <<Args(Right, Down, Here), Args(Right, Diagonal, Right),
    Args(Diagonal, Down, Here), Args(Diagonal, Diagonal, Diagonal)>>
SecondSection ==
  <<Args(Right, Down, Here), Args(Right, Diagonal, Right),
    Args(Diagonal, Down, Down), Args(Diagonal, Diagonal, Diagonal)>>

Site(q) == IF q =< 4 THEN FirstSection[q] ELSE SecondSection[q - 4]

Plus(p, d, k) == <<p[1] + d[1] * k, p[2] + d[2] * k>>

(* Call q in the body of call t.                                           *)
Child(t, q) ==
  LET k == t.n \div 2
  IN  [a |-> Plus(t.a, Site(q).a, k), b |-> Plus(t.b, Site(q).b, k),
       c |-> Plus(t.c, Site(q).c, k), n |-> k]

Leaf(t) == t.n =< BaseCase
Recursive(t) == t \in calls /\ ~ Leaf(t) /\ pc[t] =< Len(Body[runtime])
Statement(t) == Body[runtime][pc[t]]

Returned(t) ==
  t \in calls /\ IF Leaf(t) THEN loop[t].i = t.n ELSE pc[t] > Len(Body[runtime])

Extend(f, S, v) == [t \in DOMAIN f \cup S |-> IF t \in DOMAIN f THEN f[t] ELSE v]

ForkCalls(t) ==
  /\ Recursive(t)
  /\ Statement(t).op = "fork"
  /\ LET new == {Child(t, q) : q \in Statement(t).sites}
     IN  /\ calls' = calls \cup new
         /\ pc' = Extend([pc EXCEPT ![t] = @ + 1], new, 1)
         /\ loop' = Extend(loop, new, LoopStart)
  /\ UNCHANGED <<runtime, matrixVars, verdict>>

(* The calls that t waits for have returned; a slip: one of them has.      *)
OneReturned(t) == \E q \in Statement(t).sites : Returned(Child(t, q))
AllReturned(t) == \A q \in Statement(t).sites : Returned(Child(t, q))

AwaitCalls(t) ==
  /\ Recursive(t)
  /\ Statement(t).op = "await"
  /\ AllReturned(t)
  /\ pc' = [pc EXCEPT ![t] = @ + 1]
  /\ UNCHANGED <<runtime, calls, loop, matrixVars, verdict>>
-----------------------------------------------------------------------------
(***************************************************************************)
(* The base case, matmul_small(): c[i][j] += a[i][k] * b[k][j].  The load  *)
(* and the store of an element of c are two steps.                         *)
(***************************************************************************)
InLoop(t) == t \in calls /\ Leaf(t) /\ ~ Returned(t)

Element(p, row, col) == <<p[1] + row, p[2] + col>>
Target(t)  == Element(t.c, loop[t].i, loop[t].j)
Factors(t) == [a |-> Element(t.a, loop[t].i, loop[t].k),
               b |-> Element(t.b, loop[t].k, loop[t].j)]

(* The next turn of the three nested loops; a slip: k is not reset.        *)
AdvanceKeepK(l, n) ==
  CASE l.j + 1 < n -> Turn(l.i, l.k, l.j + 1)
    [] l.j + 1 = n /\ l.k + 1 < n -> Turn(l.i, l.k + 1, 0)
    [] OTHER -> Turn(l.i + 1, l.k, 0)
Advance(l, n) ==
  CASE l.j + 1 < n -> Turn(l.i, l.k, l.j + 1)
    [] l.j + 1 = n /\ l.k + 1 < n -> Turn(l.i, l.k + 1, 0)
    [] OTHER -> Turn(l.i + 1, 0, 0)

Load(t) ==
  /\ InLoop(t)
  /\ loop[t].reg = NotLoaded
  /\ loop' = [loop EXCEPT ![t].reg = c[Target(t)]]
  /\ UNCHANGED <<runtime, calls, pc, matrixVars, verdict>>

Store(t) ==
  /\ InLoop(t)
  /\ loop[t].reg # NotLoaded
  /\ c' = [c EXCEPT ![Target(t)] = loop[t].reg + 1]
  /\ summed' = [summed EXCEPT ![Target(t)] = @ \cup {Factors(t)}]
  /\ loop' = [loop EXCEPT ![t] = Advance(@, t.n)]
  /\ UNCHANGED <<runtime, calls, pc, verdict>>
-----------------------------------------------------------------------------
(* validate_result(): any element that is not N ends the program.          *)
Validate ==
  /\ verdict = "running"
  /\ Returned(Root)
  /\ verdict' = IF \A e \in Cells : c[e] = N THEN "correct" ELSE "wrong"
  /\ UNCHANGED <<runtime, callVars, matrixVars>>

Stopped == verdict # "running" /\ UNCHANGED vars

Step(t) == ForkCalls(t) \/ AwaitCalls(t) \/ Load(t) \/ Store(t)

Next == (\E t \in calls : Step(t)) \/ Validate \/ Stopped

Spec == Init /\ [][Next]_vars

(* The threads of the pool run any call that can take a step.              *)
FairSpec == Spec /\ WF_vars(Validate \/ \E t \in calls : Step(t))
-----------------------------------------------------------------------------
(* The type of every variable: every pointer stays inside its matrix.      *)
Loop == [i : Nat, k : Nat, j : Nat, reg : Nat \cup {NotLoaded}]

TypeOK ==
  /\ runtime \in Runtimes
  /\ calls \subseteq Task
  /\ pc \in [calls -> Nat]
  /\ loop \in [calls -> Loop]
  /\ c \in [Cells -> Nat]
  /\ summed \in [Cells -> SUBSET [a : Cells, b : Cells]]
  /\ verdict \in {"running", "correct", "wrong"}

(***************************************************************************)
(* Call t is to add a[r,x] * b[x,s] to c[r,s] for the rows r, columns s    *)
(* and inner indices x that its pointers and n give.                       *)
(***************************************************************************)
Rows(t)    == t.c[1] .. t.c[1] + t.n - 1
Columns(t) == t.c[2] .. t.c[2] + t.n - 1
Inner(t)   == t.a[2] .. t.a[2] + t.n - 1

Promise == INSTANCE MatmulPromise

ShareDone(t) ==
  \A r \in Rows(t), x \in Inner(t), s \in Columns(t) :
    Promise!Product(r, x, s) \in summed[<<r, s>>]

Inside(u, t) ==
  Rows(u) \subseteq Rows(t) /\ Columns(u) \subseteq Columns(t)
    /\ Inner(u) \subseteq Inner(t)

(* The sections keep "output locations" from being "written in parallel":  *)
(* no two calls that are in matmul_small() share an element of c.          *)
OneWriter ==
  \A t, u \in calls :
    InLoop(t) /\ InLoop(u) /\ t # u =>
      Rows(t) \cap Rows(u) = {} \/ Columns(t) \cap Columns(u) = {}

(* No addition to c is lost to another thread or done twice.               *)
NothingLost == \A e \in Cells : c[e] = Cardinality(summed[e])

(* Each element sums products of the right row and column, with the same   *)
(* inner index, which matrices of ones do not show; the verdict comes      *)
(* after all of them.                                                      *)
RightProducts ==
  \A e \in Cells :
    /\ summed[e] \subseteq Promise!ProductsOf(e)
    /\ verdict # "running" => summed[e] = Promise!ProductsOf(e)

(* When a call returns, its whole share is in c, and no call made on its   *)
(* behalf, however deep, still runs.                                       *)
ReturnMeansDone ==
  \A t \in calls : Returned(t) =>
    ShareDone(t) /\ \A u \in calls : Inside(u, t) => Returned(u)

(* validate_result() never ends the program.                               *)
NoWrongResult == verdict # "wrong"

(* The programs implement the promise of a matrix multiplication, the      *)
(* eventual verdict included: each product is added once, none after the   *)
(* verdict.                                                                *)
PromiseSpec == Promise!Spec
PromiseKept == Promise!LiveSpec
-----------------------------------------------------------------------------
(***************************************************************************)
(* The inductive invariant that the theorems of MatmulProofs need.  A call *)
(* stands for the cube of its rows, inner indices and columns.             *)
(***************************************************************************)
Within(u, t) ==
  /\ t.c[1] =< u.c[1] /\ u.c[1] + u.n =< t.c[1] + t.n
  /\ t.c[2] =< u.c[2] /\ u.c[2] + u.n =< t.c[2] + t.n
  /\ t.a[2] =< u.a[2] /\ u.a[2] + u.n =< t.a[2] + t.n

(* No common element of c; no common product.                              *)
Apart(t, u) ==
  \/ t.c[1] + t.n =< u.c[1] \/ u.c[1] + u.n =< t.c[1]
  \/ t.c[2] + t.n =< u.c[2] \/ u.c[2] + u.n =< t.c[2]
Separate(t, u) ==
  Apart(t, u) \/ t.a[2] + t.n =< u.a[2] \/ u.a[2] + u.n =< t.a[2]

(* The three pointers of a call fit together and leave room for n.         *)
Aligned(t) ==
  /\ t.a[1] = t.c[1] /\ t.b[1] = t.a[2] /\ t.b[2] = t.c[2]
  /\ Within(t, Root)

(* The calls in the statements of body B before p that are forks, awaits.  *)
Before(B, p, op) ==
  {q \in 1 .. 8 : \E x \in 1 .. p-1 : B[x].op = op /\ q \in B[x].sites}
Made(t)   == Before(Body[runtime], pc[t], "fork")
Waited(t) == Before(Body[runtime], pc[t], "await")

ProgramInv ==
  /\ Root \in calls
  /\ \A t \in calls :
       /\ Aligned(t)
       /\ pc[t] \in 1 .. Len(Body[runtime]) + 1
       /\ ~ Leaf(t) =>
            /\ \A q \in Made(t) : Child(t, q) \in calls
            /\ \A q \in Waited(t) : Returned(Child(t, q))

(* The calls form a tree: two of them are separate, or one is inside a     *)
(* child that the other has called.  A call that has returned has no       *)
(* running call inside, and of those that run, only nested ones share      *)
(* elements of c.                                                          *)
TreeInv ==
  \A t, u \in calls :
    /\ Separate(t, u) \/ Within(t, u) \/ Within(u, t)
    /\ Within(u, t) /\ u # t =>
         ~ Leaf(t) /\ \E q \in Made(t) : Within(u, Child(t, q))
    /\ Within(u, t) /\ Returned(t) => Returned(u)
    /\ Returned(t) \/ Returned(u) \/ Apart(t, u) \/ Within(t, u) \/ Within(u, t)

LoopInv ==
  \A t \in calls :
    /\ InLoop(t) => loop[t].i < t.n /\ loop[t].k < t.n /\ loop[t].j < t.n
    /\ loop[t].reg # NotLoaded => InLoop(t) /\ loop[t].reg = c[Target(t)]

(* matmul_small() for t has added the product of row r, column s and inner *)
(* index x.                                                                *)
Added(t, r, x, s) ==
  /\ t \in calls /\ Leaf(t)
  /\ r \in Rows(t) /\ x \in Inner(t) /\ s \in Columns(t)
  /\ LET l == loop[t]
     IN  \/ r - t.c[1] < l.i
         \/ r - t.c[1] = l.i /\ x - t.a[2] < l.k
         \/ r - t.c[1] = l.i /\ x - t.a[2] = l.k /\ s - t.c[2] < l.j

SumInv ==
  /\ \A e \in Cells : summed[e] \subseteq Promise!ProductsOf(e)
  /\ \A r, x, s \in 0 .. N-1 :
       Promise!Product(r, x, s) \in summed[<<r, s>>]
         <=> \E t \in calls : Added(t, r, x, s)
  /\ NothingLost
  /\ \A t \in calls : Returned(t) => ShareDone(t)

VerdictInv ==
  verdict # "running" => Returned(Root) /\ verdict = "correct"

IInv == TypeOK /\ ProgramInv /\ TreeInv /\ LoopInv /\ SumInv /\ VerdictInv
=============================================================================

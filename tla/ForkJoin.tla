------------------------------- MODULE ForkJoin -------------------------------
(***************************************************************************)
(* The recursion that the fib.cpp and skynet.cpp programs share: a call    *)
(* makes Arity calls that run in parallel, waits for them, and adds up     *)
(* their results.  What a call computes is left to Fib and Skynet, which   *)
(* FibSkynet puts in.                                                      *)
(*                                                                         *)
(* A call is named by the path to it: <<>> is the first, and Append(t, k)  *)
(* the k-th that call t makes.                                             *)
(***************************************************************************)
EXTENDS ForkJoinProgram, Integers, FiniteSets, Functions, SequencesExt

CONSTANTS
  Programs,         (* the programs                                        *)
  How,              (* How[p]: how program p makes its calls               *)
  Threads,          (* the largest pool that main() can make               *)
  Arity,            (* the calls that a call makes                         *)
  RootArg(_),       (* the arguments of the first call of a program        *)
  IsLeaf(_),        (* does a call with these arguments make no calls?     *)
  LeafValue(_),     (* what it returns then                                *)
  ChildArg(_, _),   (* the arguments of the k-th call that it makes        *)
  Args,             (* the arguments that calls may have                   *)
  Total(_)          (* what a call with these arguments is to return       *)

ASSUME ForkJoinAssumption ==
  /\ Programs \subseteq DOMAIN How
  /\ Arity \in Nat \ {0}
  /\ \A p \in Programs : How[p] \in
       [last : {"forked", "called"}, start : {"hot", "held"}, wait : {"suspended", "stack"}]

(* The recursion is right: were each call made with the right arguments,   *)
(* and the results of the calls there, a call would return its total.      *)
ASSUME TotalAssumption ==
  /\ \A p \in Programs : RootArg(p) \in Args
  /\ \A a \in Args :
       IF IsLeaf(a) THEN LeafValue(a) = Total(a)
       ELSE /\ \A k \in 1 .. Arity : ChildArg(a, k) \in Args
            /\ SumFunction([k \in 1 .. Arity |-> Total(ChildArg(a, k))]) = Total(a)

VARIABLES
  program,   (* the name of the program                                    *)
  frame,     (* frame[t]: the variables of call t, and where it is         *)
  stack,     (* stack[w]: the calls on the stack of thread w               *)
  result     (* what main() has from the first call                        *)

vars == <<program, frame, stack, result>>

how   == How[program]
calls == DOMAIN frame
pool  == DOMAIN stack

Root == <<>>
Parent(t) == Front(t)

Unwritten == -1

NewFrame(a) ==
  [at |-> "making", arg |-> a, made |-> 0, results |-> [k \in 1 .. Arity |-> Unwritten]]

Init ==
  /\ program \in Programs
  /\ frame = [t \in {Root} |-> NewFrame(RootArg(program))]
  /\ stack \in {[w \in W |-> <<>>] : W \in SUBSET Threads \ {{}}}
  /\ result = Unwritten
-----------------------------------------------------------------------------
OnTop(t, w) == stack[w] # <<>> /\ Last(stack[w]) = t

(* A call runs on some thread; a coroutine needs no particular one.        *)
Running(t) == how.wait = "suspended" \/ \E w \in pool : OnTop(t, w)

Returned(t) == frame[t].at = "returned"

(* Have the calls that t has made returned?  A slip: only the last one.    *)
LastReturned(t) == Returned(Append(t, Arity))
Joined(t) == \A k \in 1 .. Arity : Returned(Append(t, k))

(* Call t has made its calls up to the k-th.                               *)
WithCalls(t, k, at) ==
  [u \in calls \cup {Append(t, j) : j \in frame[t].made+1 .. k} |->
     CASE u = t -> [frame[t] EXCEPT !.made = k, !.at = at]
       [] u \in calls \ {t} -> frame[u]
       [] OTHER -> NewFrame(ChildArg(frame[t].arg, Last(u)))]

Forked == IF how.last = "called" THEN Arity - 1 ELSE Arity

(* A task is made; the tasks that are held are made together.              *)
Fork(t) ==
  /\ Running(t)
  /\ frame[t].at = "making" /\ ~ IsLeaf(frame[t].arg)
  /\ frame[t].made < Forked
  /\ LET k == IF how.start = "held" THEN Forked ELSE frame[t].made + 1
     IN  frame' = WithCalls(t, k, IF k = Arity THEN "joining" ELSE "making")
  /\ UNCHANGED <<program, stack, result>>

(* The caller runs the last call itself.                                   *)
Call(t) ==
  /\ Running(t)
  /\ frame[t].at = "making" /\ ~ IsLeaf(frame[t].arg)
  /\ frame[t].made = Forked /\ Forked < Arity
  /\ frame' = WithCalls(t, Arity, "joining")
  /\ stack' = [w \in pool |->
       IF OnTop(t, w) THEN Append(stack[w], Append(t, Arity)) ELSE stack[w]]
  /\ UNCHANGED <<program, result>>

Value(t) ==
  IF IsLeaf(frame[t].arg) THEN LeafValue(frame[t].arg) ELSE SumFunction(frame[t].results)

(* The caller's place for the result of call t; a slip: that of its last.  *)
LastPlace(t) == Arity
Place(t) == Last(t)

(* The result goes where the caller or main() wants it.                    *)
Return(t) ==
  /\ Running(t)
  /\ \/ frame[t].at = "making" /\ IsLeaf(frame[t].arg)
     \/ frame[t].at = "joining" /\ Joined(t)
  /\ frame' = [u \in calls |->
       CASE u = t -> [frame[t] EXCEPT !.at = "returned"]
         [] t # Root /\ u = Front(t) -> [frame[u] EXCEPT !.results[Place(t)] = Value(t)]
         [] OTHER -> frame[u]]
  /\ result' = IF t = Root THEN Value(t) ELSE result
  /\ stack' = [w \in pool |-> IF OnTop(t, w) THEN Front(stack[w]) ELSE stack[w]]
  /\ UNCHANGED program

(* May thread w take a task?  It has nothing to do, or what it does waits; *)
(* a slip: it must have nothing to do.                                     *)
Idle(w) == stack[w] = <<>>
CanHelp(w) ==
  stack[w] # <<>> =>
    LET t == Last(stack[w]) IN frame[t].at = "joining" /\ ~ Joined(t)

OnStack(t) == \E w \in pool : \E k \in DOMAIN stack[w] : stack[w][k] = t

(* A thread takes a task from the pool, or from another thread.            *)
Take(w, t) ==
  /\ how.wait = "stack"
  /\ CanHelp(w)
  /\ frame[t].at = "making" /\ ~ OnStack(t)
  /\ stack' = [stack EXCEPT ![w] = Append(@, t)]
  /\ UNCHANGED <<program, frame, result>>

Stopped == Returned(Root) /\ UNCHANGED vars

Step ==
  \E t \in calls : Fork(t) \/ Call(t) \/ Return(t) \/ \E w \in pool : Take(w, t)

Next == Step \/ Stopped

Spec == Init /\ [][Next]_vars

(* The threads of the pool run what there is to run.                       *)
FairSpec == Spec /\ WF_vars(Step)
-----------------------------------------------------------------------------
Values == {Unwritten} \cup {Total(a) : a \in Args}

Frame ==
  [at : {"making", "joining", "returned"}, arg : Args,
   made : 0 .. Arity, results : [1 .. Arity -> Values]]

TypeOK ==
  /\ program \in Programs
  /\ Root \in calls
  /\ \A t \in calls : t \in Seq(1 .. Arity) /\ frame[t] \in Frame
  /\ \A w \in pool : stack[w] \in Seq(calls)
  /\ result \in Values

(* No call returns while one that it has made may still write its result   *)
(* into its frame.                                                         *)
FramesOutlive ==
  \A t \in calls : t # Root /\ Returned(Front(t)) => Returned(t)

(* Every call that has returned has left the right number in the place     *)
(* that its caller, or main(), has for it, whatever other calls do.        *)
ResultsDelivered ==
  \A t \in calls : Returned(t) =>
    (IF t = Root THEN result ELSE frame[Front(t)].results[Last(t)])
      = Total(frame[t].arg)
-----------------------------------------------------------------------------
(* The inductive invariant.  A call that is not the first is one of those  *)
(* that its caller has made.                                               *)
CallInv(t) ==
  t # Root => Front(t) \in calls /\ Last(t) =< frame[Front(t)].made

ChildInv(t) ==
  \A k \in 1 .. frame[t].made :
    /\ Append(t, k) \in calls
    /\ frame[Append(t, k)].arg = ChildArg(frame[t].arg, k)

(* A call waits when it has made all its calls, and has made none if it    *)
(* needs none.                                                             *)
MadeInv(t) ==
  /\ IsLeaf(frame[t].arg) => frame[t].made = 0
  /\ frame[t].at = "joining" => frame[t].made = Arity

(* Call t returns after the calls that it made, which have left their      *)
(* results.                                                                *)
ReturnInv(t) ==
  \A k \in 1 .. frame[t].made :
    /\ Returned(t) => Returned(Append(t, k))
    /\ Returned(Append(t, k)) => frame[t].results[k] = Total(ChildArg(frame[t].arg, k))

RootInv == Returned(Root) => result = Total(frame[Root].arg)

IInv ==
  /\ TypeOK
  /\ \A t \in calls : CallInv(t) /\ ChildInv(t) /\ MadeInv(t) /\ ReturnInv(t)
  /\ RootInv
=============================================================================

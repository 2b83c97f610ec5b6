-------------------------------- MODULE Skynet --------------------------------
(***************************************************************************)
(* The skynet.cpp programs: skynet_one() makes Arity calls for the parts   *)
(* of a range of numbers, down to single numbers, and skynet() compares    *)
(* their sum with what it must be.                                         *)
(***************************************************************************)
EXTENDS ForkJoinProgram, Integers, Functions

CONSTANTS
  Arity,      (* the calls that a call makes; it is 10                     *)
  DepthMax    (* the template parameter; it is 8                           *)

TooManyCooks == Program("forked", "held", "suspended")  (* spawn_many<10>()        *)
coros        == Program("forked", "held", "suspended")  (* coros::wait_tasks()     *)
cppcoro      == Program("forked", "held", "suspended")  (* cppcoro::when_all()     *)
folly        == Program("forked", "held", "suspended")  (* collectAll()            *)
libcoro      == Program("forked", "held", "suspended")  (* coro::when_all()        *)
concurrencpp == Program("forked", "hot", "suspended")   (* executor_tag            *)
HPX          == Program("called", "hot", "suspended")   (* hpx::async()            *)
libfork      == Program("called", "hot", "suspended")   (* lf::fork, lf::call      *)
taskflow     == Program("called", "hot", "stack")       (* silent_async(), corun() *)
tbb          == Program("called", "hot", "stack")       (* run(), run_and_wait()   *)
citor        == Program("forked", "held", "stack")      (* pool.forkJoinAll()      *)

SkynetHow ==
  [TooManyCooks |-> TooManyCooks, coros |-> coros, cppcoro |-> cppcoro,
   folly |-> folly, libcoro |-> libcoro, concurrencpp |-> concurrencpp,
   HPX |-> HPX, libfork |-> libfork, taskflow |-> taskflow, tbb |-> tbb,
   citor |-> citor]

FirstArg == [bench |-> "skynet", BaseNum |-> 0, Depth |-> 0]

(* At depth d the numbers are in Arity^d ranges.                           *)
Arguments ==
  UNION {[bench : {"skynet"}, Depth : {d},
          BaseNum : {Arity^(DepthMax - d) * j : j \in 0 .. Arity^d - 1}]
           : d \in 0 .. DepthMax}

NoCalls(a) == a.Depth = DepthMax
BaseValue(a) == a.BaseNum

(* The numbers in the range of each call that a call at depth d makes.     *)
depthOffset(d) == Arity^(DepthMax - d - 1)

Part(a, k) ==
  [a EXCEPT !.BaseNum = @ + depthOffset(a.Depth) * (k - 1), !.Depth = @ + 1]

(* The number that skynet() compares the sum with: 4999999950000000 is the *)
(* sum of the numbers below 10^8.                                          *)
Leaves == Arity^DepthMax
ExpectedSum == (Leaves * (Leaves - 1)) \div 2

(* The sum of the numbers in the range of a call.                          *)
Expected(a) ==
  IF a.Depth = 0 THEN ExpectedSum
  ELSE SumFunction([x \in a.BaseNum .. a.BaseNum + Arity^(DepthMax - a.Depth) - 1 |-> x])
=============================================================================

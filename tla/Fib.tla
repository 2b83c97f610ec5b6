--------------------------------- MODULE Fib ---------------------------------
(***************************************************************************)
(* The fib.cpp programs: fib(n) forks fib(n - 1), computes fib(n - 2), and *)
(* adds the two.  A program that forks both leaves the order open.         *)
(***************************************************************************)
EXTENDS ForkJoinProgram, Integers

CONSTANT fib_n   (* argv[1]; it is 39 *)

TooManyCooks == Program("called", "hot", "suspended")   (* spawn().fork()          *)
HPX          == Program("called", "hot", "suspended")   (* hpx::async()            *)
libfork      == Program("called", "hot", "suspended")   (* lf::fork, lf::call      *)
cppcoro      == Program("called", "hot", "suspended")   (* schedule_on()           *)
taskflow     == Program("called", "hot", "stack")       (* silent_async(), corun() *)
tbb          == Program("forked", "held", "stack")      (* parallel_invoke()       *)
citor        == Program("forked", "held", "stack")      (* pool.forkJoin()         *)
concurrencpp == Program("forked", "hot", "suspended")   (* executor_tag            *)
coros        == Program("forked", "held", "suspended")  (* coros::wait_tasks()     *)
folly        == Program("forked", "held", "suspended")  (* collectAll()            *)
libcoro      == Program("forked", "held", "suspended")  (* coro::when_all()        *)

FibHow ==
  [TooManyCooks |-> TooManyCooks, HPX |-> HPX, libfork |-> libfork,
   cppcoro |-> cppcoro, taskflow |-> taskflow, tbb |-> tbb, citor |-> citor,
   concurrencpp |-> concurrencpp, coros |-> coros, folly |-> folly,
   libcoro |-> libcoro]

FirstArg == [bench |-> "fib", n |-> fib_n]

Arguments == [bench : {"fib"}, n : 0 .. fib_n]

NoCalls(a) == a.n < 2
BaseValue(a) == a.n
(* The k-th call is for n - k.                                             *)
Part(a, k) == [a EXCEPT !.n = @ - k]

(* The Fibonacci numbers.                                                  *)
fib[n \in Nat] == IF n < 2 THEN n ELSE fib[n-1] + fib[n-2]
Expected(a) == fib[a.n]
=============================================================================

------------------------------ MODULE FibSkynet ------------------------------
(***************************************************************************)
(* The calls of module ForkJoin in the fib.cpp and skynet.cpp programs.    *)
(* The name of a program is a pair: <<"fib", "tbb">>.                      *)
(***************************************************************************)
EXTENDS ForkJoin

CONSTANTS fib_n, DepthMax

Fib == INSTANCE Fib
Skynet == INSTANCE Skynet

FibSkynetHow ==
  [p \in ({"fib"} \X DOMAIN Fib!FibHow) \cup ({"skynet"} \X DOMAIN Skynet!SkynetHow) |->
     IF p[1] = "fib" THEN Fib!FibHow[p[2]] ELSE Skynet!SkynetHow[p[2]]]

FirstArg(p) == IF p[1] = "fib" THEN Fib!FirstArg ELSE Skynet!FirstArg

NoCalls(a)   == IF a.bench = "fib" THEN Fib!NoCalls(a) ELSE Skynet!NoCalls(a)
BaseValue(a) == IF a.bench = "fib" THEN Fib!BaseValue(a) ELSE Skynet!BaseValue(a)
Part(a, k)   == IF a.bench = "fib" THEN Fib!Part(a, k) ELSE Skynet!Part(a, k)
Expected(a)  == IF a.bench = "fib" THEN Fib!Expected(a) ELSE Skynet!Expected(a)

Arguments == Fib!Arguments \cup Skynet!Arguments

(* main() gets the right result, which the fib.cpp programs do not check.  *)
RightAnswer == <>(result = Expected(FirstArg(program)))
=============================================================================

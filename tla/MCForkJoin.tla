----------------------------- MODULE MCForkJoin -----------------------------
(* One program of each kind.                                               *)
EXTENDS FibSkynet

MCPrograms ==
  ({"fib"} \X {"TooManyCooks", "taskflow", "tbb", "concurrencpp", "folly"})
    \cup ({"skynet"} \X {"libfork", "tbb", "citor", "concurrencpp", "folly"})
=============================================================================

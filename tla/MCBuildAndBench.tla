--------------------------- MODULE MCBuildAndBench ---------------------------
(***************************************************************************)
(* Two runtimes: coros, whose script may return 0 after half of a build,   *)
(* has no channel benchmark, and TooManyCooks has it in one config.  The   *)
(* machines have two kinds of cores, hardware threads beyond the cores, or *)
(* more cores than a sweep goes to: two threads.                           *)
(***************************************************************************)
EXTENDS BuildAndBench

MCRuntimes == <<"coros", "TooManyCooks">>
MCBenchmarks == <<"nqueens", "fib", "channel">>
MCSources == [coros |-> {"nqueens", "fib"}, TooManyCooks |-> {"fib", "channel"}]
MCConfigs == [coros |-> [nqueens |-> <<"">>, fib |-> <<"">>],
              TooManyCooks |-> [fib |-> <<"">>, channel |-> <<"st_asio">>]]
MCParams == [nqueens |-> <<>>, fib |-> <<"39">>, channel |-> <<>>]
MCRefs == {"new"}
MCMachines == {[kinds |-> <<1, 1>>, pus |-> 2],
               [kinds |-> <<1>>,    pus |-> 2],
               [kinds |-> <<4>>,    pus |-> 4]}
MCDurations == [nqueens |-> {1}, fib |-> 1 .. 2, channel |-> 0 .. 1]
MCMaxRss == {"20.0 MB"}

(* What the program has written for TooManyCooks when it had no channel    *)
(* benchmark, and the results of cobalt that were merged into it.          *)
Run(n, d) == [threads |-> n, duration |-> d, max_rss |-> "20.0 MB",
              scaled |-> <<>>, speedup |-> <<>>,
              job |-> Job("any", <<"any", "">>, Default, FALSE, FALSE),
              config |-> "", ref |-> Default, executor |-> "pool"]
Entry(name, runs) == [name |-> name, runs |-> runs]
MCDatasets ==
  {Scaled(<<Entry(<<"TooManyCooks", "", "">>, [fib |-> <<Run(1, 2), Run(2, 1)>>]),
            Entry(<<"cobalt", "", "st_asio">>, [channel |-> <<Run(1, 2), Run(2, 2)>>])>>,
          {"fib", "channel"})}
=============================================================================

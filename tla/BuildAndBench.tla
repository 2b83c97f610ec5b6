---------------------------- MODULE BuildAndBench ----------------------------
(***************************************************************************)
(* The driver, build_and_bench_all.py: it builds the benchmarks of the     *)
(* runtimes, runs each with each number of threads, relates the durations  *)
(* to the best ones, and writes RESULTS.json and RESULTS.md.  The scripts  *)
(* generate_results_md.py and merge_results.py go on from these files.     *)
(*                                                                         *)
(* What is to be done is the sequence todo: the program's loops, unrolled. *)
(* A build or a run ends as the machine has it.                            *)
(***************************************************************************)
EXTENDS ThreadsSweep, TLC

CONSTANTS
  Runtimes,     (* the list of the runtimes                                *)
  Benchmarks,   (* the list benchmarks_order                               *)
  Sources,      (* Sources[r]: the benchmarks that runtime r has           *)
  Configs,      (* Configs[r][b]: the list benchmark_configs, or <<"">>    *)
  Params,       (* Params[b]: the words of the parameters of benchmark b   *)
  Refs,         (* the git-refs that a user may name                       *)
  Machines,     (* the machines: their kinds of cores and pus              *)
  Durations,    (* Durations[b]: those that a run of benchmark b may have  *)
  MaxRss,       (* the memory that a run may have had at most, or "N/A"    *)
  Datasets      (* the datasets that a user may have already               *)

VARIABLES
  full_sweep,   (* is the program run with other arguments than none?      *)
  todo,         (* what it is still to do                                  *)
  threads,      (* the numbers of threads                                  *)
  exe,          (* exe[r][b]: the ref that this executable was built from  *)
  full_results, (* the results by name: a Python dict, in its order        *)
  collated,     (* collated_results: one duration of each name, benchmark  *)
  files         (* the files that have been written                        *)

vars == <<full_sweep, todo, threads, exe, full_results, collated, files>>

(* What an executable may be that is not of this invocation.               *)
NotBuilt == "none"
Before   == "an earlier build"
Default  == "default"
-----------------------------------------------------------------------------
(* A job: the benchmarks of runtime of are built from ref, and their       *)
(* results get the name.  alone tells that its runs depend on its build.   *)
Job(of, name, ref, clean, alone) ==
  [of |-> of, name |-> name, ref |-> ref, clean |-> clean, alone |-> alone]

Step(do, job) == [do |-> do, job |-> job]
Sweep  == <<[do |-> "threads"]>>
Ending(full) ==
  <<[do |-> "scale"], [do |-> "collate"]>>
    \o (IF full THEN <<[do |-> "json"]>> ELSE <<>>) \o <<[do |-> "md"]>>

(* No argument, or "full": the runtimes are all built, from the ref that   *)
(* the environment names, then all run.                                    *)
All(ref) ==
  LET Each(do) == [i \in DOMAIN Runtimes |->
        Step(do, Job(Runtimes[i], <<Runtimes[i], "">>, ref, FALSE, FALSE))]
  IN  Each("build") \o Sweep \o Each("bench")

(* "<runtime> [git-ref]": the build directory is kept if no ref is given.  *)
Single(r, ref) ==
  LET job == Job(r, <<r, "">>, ref, ref # Default, TRUE)
  IN  Sweep \o <<Step("build", job), Step("bench", job)>>

(* "compare <runtime> <new-git-ref> [baseline-git-ref]".                   *)
Compare(r, new_ref, baseline_ref) ==
  LET Of(ref) == Job(r, <<r, ref>>, ref, TRUE, TRUE)
  IN  Sweep \o <<Step("build", Of(new_ref)), Step("bench", Of(new_ref)),
                 Step("build", Of(baseline_ref)), Step("bench", Of(baseline_ref))>>

(* The invocations; the two refs of a comparison differ.                   *)
OfOne(r) ==
  {Single(r, ref) : ref \in Refs \cup {Default}}
    \cup UNION {{Compare(r, ref, base) : base \in (Refs \cup {Default}) \ {ref}}
                  : ref \in Refs}

OfAll == {All(ref) : ref \in Refs \cup {Default}}

parse_args ==
  [full : {FALSE}, steps : OfAll]
    \cup [full  : {TRUE},
          steps : OfAll \cup UNION {OfOne(r) : r \in ToSet(Runtimes)}]

Init ==
  /\ \E args \in parse_args :
       /\ full_sweep = args.full
       /\ todo = args.steps \o Ending(args.full)
  /\ threads = <<>>
  /\ \E e \in {NotBuilt, Before} :
       exe = [r \in ToSet(Runtimes) |-> [b \in Sources[r] |-> e]]
  /\ full_results = <<>>
  /\ collated = <<>>
  /\ \E d \in Datasets : files = [f \in {"dataset"} |-> d]

Doing(do) == todo # <<>> /\ Head(todo).do = do
Done == todo' = Tail(todo)
-----------------------------------------------------------------------------
(* After a failed build its benchmarks are not run, unless all runtimes    *)
(* are built first.                                                        *)
AfterFailure(job) == todo' = IF job.alone THEN Tail(Tail(todo)) ELSE Tail(todo)

(* An executable that is not built; a slip: the build directory is kept.   *)
Kept(job, b) == exe[job.of][b]
Removed(job, b) == IF job.clean THEN NotBuilt ELSE exe[job.of][b]

(* build_all.sh goes on after a failure and returns what its last command  *)
(* does: the build of all targets, but for coros that fib gets its name.   *)
MayReturnZero(job, built) ==
  IF job.of = "coros" THEN "fib" \in built ELSE built = Sources[job.of]

(* build_runtime(): the build directory is removed first if the build is   *)
(* to be clean.  If it is kept and the configuration fails, the build goes *)
(* on with the earlier one, and the driver is not told.                    *)
build_runtime ==
  /\ Doing("build")
  /\ LET job == Head(todo).job IN
     \E configured \in BOOLEAN, built \in SUBSET Sources[job.of] :
       /\ job.clean /\ ~ configured => built = {}
       /\ exe' = [exe EXCEPT ![job.of] = [b \in Sources[job.of] |->
                    IF b \notin built THEN Removed(job, b)
                    ELSE IF configured THEN job.ref ELSE Before]]
       /\ \/ MayReturnZero(job, built) /\ Done
          \/ AfterFailure(job)
  /\ UNCHANGED <<full_sweep, threads, full_results, collated, files>>

(* get_threads_sweep(): the executable threads_sweep may be missing.       *)
get_threads_sweep ==
  /\ Doing("threads")
  /\ Done
  /\ \E m \in Machines :
       \/ LET sweep == threads_sweep(m.kinds, m.pus)
          IN  threads' = IF full_sweep THEN sweep ELSE <<Last(sweep)>>
       \/ \E proc \in get_nproc_fallback(m.kinds) :
            threads' = IF full_sweep THEN get_threads_sweep_fallback(proc)
                       ELSE <<proc>>
  /\ UNCHANGED <<full_sweep, exe, full_results, collated, files>>

(* The loops of run_runtime_benchmarks(), over the executables that exist. *)
RunsOf(job, b) ==
  IF b \notin Sources[job.of] \/ exe[job.of][b] = NotBuilt THEN <<>>
  ELSE FlattenSeq([c \in DOMAIN Configs[job.of][b] |->
         [t \in DOMAIN threads |->
            [do |-> "run", job |-> job, bench |-> b,
             config |-> Configs[job.of][b][c], threads |-> threads[t]]]])

run_runtime_benchmarks ==
  /\ Doing("bench")
  /\ todo' = FlattenSeq([i \in DOMAIN Benchmarks |->
                RunsOf(Head(todo).job, Benchmarks[i])]) \o Tail(todo)
  /\ UNCHANGED <<full_sweep, threads, exe, full_results, collated, files>>
-----------------------------------------------------------------------------
(* argv of a benchmark: an empty parameter or config leaves no word.       *)
Argv(b, n, config) ==
  <<b>> \o Params[b] \o <<ToString(n)>>
    \o (IF config = "" THEN <<>> ELSE <<config>>)

(* argv[k] beyond the null pointer at its end is a string of the           *)
(* environment, where strings have the form name=value.                    *)
Environment == "NAME=value"
Word(argv, k) == IF k < Len(argv) THEN argv[k + 1] ELSE Environment

(* main() of cpp/TooManyCooks/channel.cpp chooses the executor.            *)
use_asio(argv) == Len(argv) > 2 /\ Word(argv, 4) = "asio"

(* A run that has been measured.  ref and executor, which no file has, say *)
(* what was measured.                                                      *)
Measured(step, d, rss) ==
  [threads  |-> step.threads,
   duration |-> d,
   max_rss  |-> rss,
   scaled   |-> <<>>,
   speedup  |-> <<>>,
   job      |-> step.job,
   config   |-> step.config,
   ref      |-> exe[step.job.of][step.bench],
   executor |-> IF /\ step.job.of = "TooManyCooks" /\ step.bench = "channel"
                   /\ use_asio(Argv(step.bench, step.threads, step.config))
                THEN "asio" ELSE "pool"]

(* The run is put behind those of its name and benchmark.                  *)
Collect(results, name, b, run) ==
  LET Added(runs) == [c \in DOMAIN runs \cup {b} |->
        IF c # b THEN runs[c] ELSE IF b \in DOMAIN runs THEN Append(runs[b], run)
        ELSE <<run>>]
  IN  IF \A k \in DOMAIN results : results[k].name # name
      THEN Append(results, [name |-> name, runs |-> [c \in {b} |-> <<run>>]])
      ELSE [k \in DOMAIN results |->
              IF results[k].name # name THEN results[k]
              ELSE [name |-> name, runs |-> Added(results[k].runs)]]

(* One run of a benchmark.  If its output cannot be used, it is skipped.   *)
run ==
  /\ Doing("run")
  /\ Done
  /\ LET step == Head(todo) IN
     \/ \E d \in Durations[step.bench], rss \in MaxRss :
          full_results' = Collect(full_results, Append(step.job.name, step.config),
                                  step.bench, Measured(step, d, rss))
     \/ UNCHANGED full_results
  /\ UNCHANGED <<full_sweep, threads, exe, collated, files>>
-----------------------------------------------------------------------------
(* The durations of benchmark b in all results.                            *)
DurationsOf(results, b) ==
  UNION {{r.duration : r \in ToSet(results[k].runs[b])}
           : k \in {j \in DOMAIN results : b \in DOMAIN results[j].runs}}

(* The best duration of benchmark b; a slip: lowest_dur keeps the value of *)
(* the benchmarks before.                                                  *)
lowest_dur_kept(results, b) ==
  Min(UNION {DurationsOf(results, c) : c \in ToSet(Benchmarks)})
lowest_dur(results, b) == Min(DurationsOf(results, b))

(* Every run of the benchmarks in bs is related to the best duration, and  *)
(* to the first run of its list.  A ratio is the pair of its terms.        *)
ScaledRuns(list, best) ==
  [i \in DOMAIN list |->
     [list[i] EXCEPT !.scaled  = <<list[i].duration, best>>,
                     !.speedup = <<list[1].duration, list[i].duration>>]]

Scaled(results, bs) ==
  [k \in DOMAIN results |->
     [results[k] EXCEPT !.runs = [b \in DOMAIN @ |->
        IF b \in bs THEN ScaledRuns(@[b], lowest_dur(results, b)) ELSE @[b]]]]

(* A best duration of nothing divides by zero: an exception ends the       *)
(* program before it has written anything.                                 *)
DividesByZero(results, bs) == \E b \in bs : 0 \in DurationsOf(results, b)
Crashed == Doing("scale") /\ DividesByZero(full_results, ToSet(Benchmarks))

scale ==
  /\ Doing("scale")
  /\ ~ DividesByZero(full_results, ToSet(Benchmarks))
  /\ Done
  /\ full_results' = Scaled(full_results, ToSet(Benchmarks))
  /\ UNCHANGED <<full_sweep, threads, exe, collated, files>>

(* The runs of each pair of a name and a benchmark.                        *)
Lists(results) ==
  LET Entry(name) == CHOOSE e \in ToSet(results) : e.name = name
      Cells == UNION {{e.name} \X DOMAIN e.runs : e \in ToSet(results)}
  IN  [c \in Cells |-> Entry(c[1]).runs[c[2]]]

(* The last run stands for the benchmark.                                  *)
Collated(results) ==
  [c \in DOMAIN Lists(results) |-> Last(Lists(results)[c]).duration]

collate ==
  /\ Doing("collate")
  /\ Done
  /\ collated' = Collated(full_results)
  /\ UNCHANGED <<full_sweep, threads, exe, full_results, files>>

Write(file, content) ==
  files' = [f \in DOMAIN files \cup {file} |-> IF f = file THEN content ELSE files[f]]

write_json ==
  /\ Doing("json")
  /\ Done
  /\ Write("RESULTS.json", full_results)
  /\ UNCHANGED <<full_sweep, threads, exe, full_results, collated>>

(* A table: in the column of each name, the duration of each benchmark and *)
(* the best in its row.  The mean ratio is that of the column.             *)
Named(figure, b) == {c[1] : c \in {d \in DOMAIN figure : d[2] = b}}
Best(figure, names, b) ==
  Min({figure[c] : c \in {d \in DOMAIN figure : d[1] \in names /\ d[2] = b}})
Table(figure, names, bs) ==
  [n \in names |-> [b \in {b \in bs : <<n, b>> \in DOMAIN figure} |->
     <<figure[<<n, b>>], Best(figure, names, b)>>]]

(* RESULTS.md: one table for the benchmarks that the same names have, and  *)
(* the memory that the last run of each name and benchmark had.            *)
Group(figure, b) ==
  {d[2] : d \in {c \in DOMAIN figure : Named(figure, c[2]) = Named(figure, b)}}
Tables(figure) ==
  {Table(figure, Named(figure, c[2]), Group(figure, c[2])) : c \in DOMAIN figure}
Memory(results) ==
  LET lists == Lists(results)
  IN  [c \in {d[1] : d \in DOMAIN lists} \X {d[2] : d \in DOMAIN lists} |->
         IF c \in DOMAIN lists THEN Last(lists[c]).max_rss ELSE "N/A"]

write_md ==
  /\ Doing("md")
  /\ Done
  /\ Write("RESULTS.md", [tables |-> Tables(collated), memory |-> Memory(full_results)])
  /\ UNCHANGED <<full_sweep, threads, exe, full_results, collated>>
-----------------------------------------------------------------------------
(* generate_results_md.py makes RESULTS.md again from RESULTS.json: one    *)
(* table for all names and benchmarks, and none for the memory.            *)
get_highest_thread_result(list) ==
  LET most == Max({r.threads : r \in ToSet(list)})
  IN  list[Min({i \in DOMAIN list : list[i].threads = most})]

Highest(results) ==
  [c \in DOMAIN Lists(results) |-> get_highest_thread_result(Lists(results)[c]).duration]
OneTable(figure) ==
  Table(figure, {c[1] : c \in DOMAIN figure}, {c[2] : c \in DOMAIN figure})

generate_results_md ==
  /\ todo = <<>>
  /\ "RESULTS.json" \in DOMAIN files
  /\ Write("RESULTS.md", [tables |-> {OneTable(Highest(files["RESULTS.json"]))},
                          memory |-> <<>>])
  /\ UNCHANGED <<full_sweep, todo, threads, exe, full_results, collated>>

(* merge_results.py: the entries of source replace those of dest with the  *)
(* same name, or are put behind them.                                      *)
Merged(dest, source) ==
  LET Has(results, e) == \E d \in ToSet(results) : d.name = e.name
      New(e) == CHOOSE s \in ToSet(source) : s.name = e.name
      behind == InOrder({k \in DOMAIN source : ~ Has(dest, source[k])})
  IN  [k \in DOMAIN dest |-> IF Has(source, dest[k]) THEN New(dest[k]) ELSE dest[k]]
        \o [i \in DOMAIN behind |-> source[behind[i]]]

(* The benchmarks of the first entry are scaled again.                     *)
merge_results ==
  /\ todo = <<>>
  /\ "RESULTS.json" \in DOMAIN files
  /\ LET results == Merged(files["dataset"], files["RESULTS.json"])
     IN  /\ ~ DividesByZero(results, DOMAIN results[1].runs)
         /\ Write("dataset", Scaled(results, DOMAIN results[1].runs))
  /\ UNCHANGED <<full_sweep, todo, threads, exe, full_results, collated>>

Stopped == (todo = <<>> \/ Crashed) /\ UNCHANGED vars

Next ==
  \/ build_runtime \/ get_threads_sweep \/ run_runtime_benchmarks \/ run
  \/ scale \/ collate \/ write_json \/ write_md
  \/ generate_results_md \/ merge_results
  \/ Stopped

Spec == Init /\ [][Next]_vars
-----------------------------------------------------------------------------
(* When the build directory is removed first, as for a comparison and for  *)
(* a named ref, a result is of the ref that it is reported for, whatever   *)
(* fails and whether build_all.sh tells of it or not: what was built for   *)
(* the other side of a comparison is never run for this one.  (When it is  *)
(* kept, the executables of an earlier call may be run.)                   *)
OfThisBuild ==
  \A e \in ToSet(full_results) : \A b \in DOMAIN e.runs : \A r \in ToSet(e.runs[b]) :
    r.job.clean => r.ref = r.job.ref

(* The driver takes the last run for its tables, and generate_results_md.py*)
(* the one with most threads; the driver takes the best among the names of *)
(* a table, and generate_results_md.py among all.  Yet the second gives    *)
(* each benchmark the duration and the best one that the first gave it,    *)
(* whichever runs were skipped; and if the first had one table, the        *)
(* columns, and so the mean ratios, are the same.  (The memory is lost.)   *)
Cells(md) ==
  UNION {UNION {{<<n, b, table[n][b]>> : b \in DOMAIN table[n]} : n \in DOMAIN table}
           : table \in md.tables}

Agree(old, new) ==
  /\ Cells(new) = Cells(old)
  /\ \A table \in old.tables : old.tables = {table} => new.tables = {table}

SummariesAgree ==
  [][generate_results_md => Agree(files["RESULTS.md"], files'["RESULTS.md"])]_vars

(* In a chart each run of a benchmark is related to one best duration,     *)
(* which some run had and none is below, and to the run of its list with   *)
(* the fewest threads.  In a merged dataset this holds of the benchmarks   *)
(* that the first entry has.                                               *)
Related(results, b) ==
  \A k \in {j \in DOMAIN results : b \in DOMAIN results[j].runs} :
    LET list == results[k].runs[b]
        fewest == Min({r.threads : r \in ToSet(list)})
    IN  \A r \in ToSet(list) :
          /\ r.scaled # <<>> /\ r.scaled[2] \in DurationsOf(results, b)
          /\ \A d \in DurationsOf(results, b) : r.scaled[2] =< d
          /\ \E s \in ToSet(list) : s.threads = fewest /\ r.speedup[1] = s.duration

ScaledToBest ==
  /\ "RESULTS.json" \in DOMAIN files =>
       \A b \in ToSet(Benchmarks) : Related(files["RESULTS.json"], b)
  /\ \A b \in DOMAIN files["dataset"][1].runs : Related(files["dataset"], b)

(* cpp/TooManyCooks/channel.cpp, lines 128 to 130: when "asio" is          *)
(* specified, the single-threaded Asio executor is used.  The results      *)
(* named TooManyCooks_st_asio are those of a run without it.               *)
AsioWhenSpecified ==
  \A e \in ToSet(full_results) : \A b \in DOMAIN e.runs : \A r \in ToSet(e.runs[b]) :
    r.job.of = "TooManyCooks" /\ r.config = "st_asio" => r.executor = "asio"

(* merge_results.py, line 35: the scaled and speedup values are calculated *)
(* again.  Those of a benchmark that the first runtime lacks are not.      *)
MergeRecalculates ==
  \A b \in ToSet(Benchmarks) : Related(files["dataset"], b)
-----------------------------------------------------------------------------
(* The types.  Text is the strings: those that the program itself has are  *)
(* named for the provers.  A list of results has the runs of each pair of  *)
(* a name and a benchmark in the order of their numbers of threads.        *)
Text == STRING \cup {NotBuilt, Before, Default, "", "asio", "pool", "N/A"}

Jobs == [of : Text, name : Seq(Text), ref : Text,
         clean : BOOLEAN, alone : BOOLEAN]

Steps ==
  [do : {"threads", "scale", "collate", "json", "md"}]
    \cup [do : {"build", "bench"}, job : Jobs]
    \cup [do : {"run"}, job : Jobs, bench : Text, config : Text, threads : Nat]

OneRun ==
  [threads : Nat, duration : Nat, max_rss : Text, scaled : Seq(Nat), speedup : Seq(Nat),
   job : Jobs, config : Text, ref : Text, executor : Text]

IsList(list) ==
  /\ list \in Seq(OneRun) /\ list # <<>>
  /\ \A i, j \in DOMAIN list : i < j => list[i].threads < list[j].threads

IsResults(results) ==
  /\ Len(results) \in Nat /\ results = [k \in 1 .. Len(results) |-> results[k]]
  /\ \A k \in DOMAIN results :
       /\ results[k] = [name |-> results[k].name, runs |-> results[k].runs]
       /\ results[k].name \in Seq(Text)
       /\ results[k].runs = [b \in DOMAIN results[k].runs |-> results[k].runs[b]]
       /\ \A b \in DOMAIN results[k].runs : IsList(results[k].runs[b])

Distinct(list) == \A i, j \in DOMAIN list : list[i] = list[j] => i = j

ASSUME DriverAssumption ==
  /\ Runtimes \in Seq(STRING) /\ Distinct(Runtimes)
  /\ Benchmarks \in Seq(STRING) /\ Distinct(Benchmarks)
  /\ \A r \in ToSet(Runtimes) : \A b \in Sources[r] \cap ToSet(Benchmarks) :
       Configs[r][b] \in Seq(STRING) /\ Distinct(Configs[r][b])
  /\ Refs \subseteq STRING
  /\ \A m \in Machines : IsMachine(m.kinds, m.pus)
  /\ \A b \in ToSet(Benchmarks) : Durations[b] \subseteq Nat
  /\ MaxRss \subseteq STRING

(* A dataset was written by the driver, or by an earlier merge.            *)
ASSUME DatasetsAssumption ==
  \A d \in Datasets :
    IsResults(d) /\ d # <<>> /\ \A b \in DOMAIN d[1].runs : Related(d, b)

TypeOK ==
  /\ full_sweep \in BOOLEAN
  /\ todo \in Seq(Steps)
  /\ threads \in Seq(Nat)
  /\ DOMAIN exe = ToSet(Runtimes)
  /\ \A r \in ToSet(Runtimes) : exe[r] \in [Sources[r] -> Text]
  /\ IsResults(full_results)
  /\ files = [f \in DOMAIN files |-> files[f]]

HasJob(step) == step.do \in {"build", "bench", "run"}
NameOf(step) == Append(step.job.name, step.config)
-----------------------------------------------------------------------------
(* The executables that there are are those of the job.                    *)
IsBuilt(job) == \A b \in Sources[job.of] : exe[job.of][b] \in {job.ref, NotBuilt}

BuildInv ==
  /\ \A k \in DOMAIN todo : HasJob(todo[k]) =>
       todo[k].job.of \in ToSet(Runtimes) /\ (todo[k].job.clean => todo[k].job.alone)
  /\ \A k \in DOMAIN todo : todo[k].do = "build" /\ todo[k].job.alone =>
       k + 1 \in DOMAIN todo /\ todo[k+1] = Step("bench", todo[k].job)
  /\ \A k \in DOMAIN todo : todo[k].do = "bench" /\ todo[k].job.clean =>
       \/ k > 1 /\ todo[k-1] = Step("build", todo[k].job)
       \/ IsBuilt(todo[k].job) /\ \A j \in 1 .. k-1 : todo[j].do # "build"
  /\ \A k \in DOMAIN todo : todo[k].do = "run" =>
       /\ todo[k].bench \in Sources[todo[k].job.of] \cap ToSet(Benchmarks)
       /\ \A j \in 1 .. k-1 : todo[j].do # "build"
       /\ todo[k].job.clean => exe[todo[k].job.of][todo[k].bench] = todo[k].job.ref

(* What has a name is run once, and a list grows in the order of the sweep.*)
OrderInv ==
  /\ \A i, j \in DOMAIN threads : i < j => threads[i] < threads[j]
  /\ \A j, k \in DOMAIN todo : todo[k].do = "bench" =>
       /\ todo[j].do = "bench" /\ j # k => todo[j].job.name # todo[k].job.name
       /\ todo[j].do = "run" => todo[j].job.name # todo[k].job.name
  /\ \A j, k \in DOMAIN todo :
       /\ todo[j].do = "run" /\ todo[k].do = "run" /\ j < k
       /\ NameOf(todo[j]) = NameOf(todo[k]) /\ todo[j].bench = todo[k].bench
       => todo[j].threads < todo[k].threads
  /\ \A i, j \in DOMAIN full_results :
       full_results[i].name = full_results[j].name => i = j
  /\ \A i \in DOMAIN full_results : \A k \in DOMAIN todo :
       LET e == full_results[i] IN
       /\ todo[k].do = "bench" => Front(e.name) # todo[k].job.name
       /\ /\ todo[k].do = "run" /\ e.name = NameOf(todo[k])
          /\ todo[k].bench \in DOMAIN e.runs
          => \A r \in ToSet(e.runs[todo[k].bench]) : r.threads < todo[k].threads

(* How much is left tells what has been done, and what the files have.     *)
EndInv ==
  LET ending == Ending(full_sweep)
      json   == "RESULTS.json" \in DOMAIN files
  IN
  /\ \A k \in DOMAIN todo :
       IF Len(todo) - k < Len(ending)
       THEN todo[k] = ending[Len(ending) - (Len(todo) - k)]
       ELSE todo[k].do \in {"threads", "build", "bench", "run"}
  /\ Len(todo) < Len(ending) => \A b \in ToSet(Benchmarks) : Related(full_results, b)
  /\ Len(todo) < Len(ending) - 1 => collated = Collated(full_results)
  /\ json <=> full_sweep /\ Len(todo) < 2
  /\ json => files["RESULTS.json"] = full_results
  /\ todo = <<>> =>
       /\ "RESULTS.md" \in DOMAIN files
       /\ files["RESULTS.md"].tables \in {Tables(collated), {OneTable(collated)}}

DatasetInv ==
  /\ "dataset" \in DOMAIN files
  /\ IsResults(files["dataset"]) /\ files["dataset"] # <<>>
  /\ \A b \in DOMAIN files["dataset"][1].runs : Related(files["dataset"], b)

(* The inductive invariant.                                                *)
IInv == TypeOK /\ OfThisBuild /\ BuildInv /\ OrderInv /\ EndInv /\ DatasetInv
=============================================================================

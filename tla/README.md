# A verification development for runtime-benchmarks

`runtime-benchmarks` compares C++ async runtimes.  Each directory under `src/cpp`
holds the same handful of benchmark programs written for one library; a Python
driver builds them, runs them and collates what they print.  The programs are
small, but they are concurrent, and what they measure is only worth something if
they do the work they claim to do.  This directory models that work in TLA+, checks
it with TLC and proves the main results with TLAPS.

## 1. Inventory

| Part | State it keeps | Operations | What makes it correct |
| --- | --- | --- | --- |
| channel benchmark (`channel.cpp` of folly, TooManyCooks, libcoro, cobalt) | a queue of elements; per producer a slice of the elements and a loop counter; per consumer a count and a sum; how the queue is shut down | split the elements, start the coroutines, post, receive, shut down, add up, compare | every element reaches exactly one consumer; nobody stops early, nobody waits for ever; the totals are exact |
| TCP ping-pong (`io_socket_st.cpp` of folly, TooManyCooks, libcoro, cobalt, cppcoro) | a byte stream in each direction per connection; a loop counter per handler; the acceptor | accept, connect, write, read, close, count | every request is answered once; the server counts exactly the requests sent; server and clients end |
| fork-join: fib, skynet, nqueens, matmul (11 runtimes each) | a tree of tasks with a join counter per task; a result per task; matmul: the matrix `c` | fork, run inline, join, combine | the root's value is that of the sequential recursion; matmul: no two tasks that run together write the same place |
| driver `build_and_bench_all.py`, with each `build_all.sh` | executables in the build directories, results, scaled and speedup values | build, run, skip, scale, collate, write | a result for which the build directory was removed comes from the code asked for, whether a failure is noticed or not; ratios are to the best run |
| `merge_results.py`, `generate_results_md.py` | a results file | replace, recalculate, summarise | the durations and best ones of the tables are those of the file |
| `threads_sweep.cpp` | lists of thread counts | union of doublings and breakpoints | the sweep is sorted and has no doubles, so that its last number is its largest |

How the parts interact: the driver starts every program as a child process with
`params threads config`, and reads a YAML list of runs from its output.  Inside a
program the coroutines share memory (a queue, a matrix, a socket) and otherwise only
start and join one another.  The programs do not interact with each other, except
through the build directories and the results files that the driver keeps.

What is hard here: coroutines that post, receive and shut down a queue at the same
time; the last of several producers to finish; sentinels behind elements; a barrier
that is all that orders the writes of a matrix; a byte stream that has no message
boundaries; a sleep in place of synchronisation; failures of builds and runs that the
driver skips.  `PROJECT.json` lists each hazard at its line.

## 2. What is modelled

### The promise: `ChannelBench`, `ChannelPromise`

`ChannelBench` holds what the four channel programs repeat: the number of producers
and consumers for a thread count (`Workers`), the split of `ElementCount` elements
(`PerTask`, `Rem`, `TaskCount`), `size_t` addition (`Plus`, which wraps at
`SizeMax + 1`), a consumer's `Tally`, the `AddResult` of `do_bench()` and the two
comparisons `Passes`.  `First` and `Slice` give in closed form where a producer's
slice starts; the programs get there by adding up counts in `base`, and that both
agree is part of the invariants.  The operators below the line (`Holders`, `Placed`,
`Tallied`, ...) state where the elements are and what their tallies should be, and are
used by properties only.

`ChannelPromise` is the abstract specification: an element that nobody has received
is delivered to some consumer, and the benchmark reports when all have been
delivered.  It knows no queue, no producers and no shutdown.

### The programs: `FollyChannel`, `TmcChannel`, `LibcoroChannel`

Each is one call of `do_bench()`.  `main` is where `do_bench()` is; `i` and `base` are
its variables; `slice[p]` holds the arguments of producer `p`, `posted[p]` its loop
counter; `chan` is the queue; `cons`, `result` the consumers.  `got` is a history
variable: the elements each consumer has received.  The coroutines run on a thread
pool, so every operation of one of them on shared state is an action of its own and
all interleavings are possible; what a coroutine does to its own variables on the way
to its next operation belongs to the same action.

| | folly | TooManyCooks | libcoro |
| --- | --- | --- | --- |
| start | `StartAll`: everything at once | `ForkConsumers`, then `SpawnProducers` | `StartAll`: everything at once |
| post | `Enqueue` | `Post`, refused when closed | `Push`, refused when not running |
| who ends it | `produce_all()`: `ProducersJoined`, then `EnqueueSentinel` for each consumer | `do_bench()`: `ProducersJoined`, then `Drain` ... `Drained` | the producer that finds `IsLast` in `CountDown`: `StartDrain` ... `Shutdown` |
| receive | `DequeueElement` | `Pull` | `Pop` |
| stop | `DequeueSentinel` | `Stop`: closed and empty | `Stop`: the queue is stopped |
| join | `Collect` | `JoinConsumers` | `AllDone` |
| report | `AddUp`, `Return` | `AddUp`, `Return` | `AddUp` over producers and consumers, `Return` |

The queues are modelled by what the programs need of them: elements leave in the
order in which they came, each once; a waiting consumer is one whose action is not
enabled; `drain()` and `shutdown_drain()` first refuse new elements and complete when
the queue is empty.  The libraries themselves are not in the repository.

### The channel without a buffer: `CobaltChannel`

The cobalt program is different enough to have its own shape.  Everything runs on one
thread; a promise runs when it is created (`CreateProducer`, `CreateConsumer`), and
then when it is resumed.  The channel holds nothing: a `write()` and a `read()` meet
(`Transfer`), and the consumer counts the element later (`Resume`), when the channel
may have been closed.  `do_bench()` closes it when the producers have been joined
(`Close`), and the close cancels the consumers that wait in `read()`, which they then
leave by an exception (`Throw`).  When `do_bench()` joins such a consumer it throws in
its turn, and prints no totals; if each consumer has an element in hand when the
channel is closed, all look at `is_open()`, end their loops, and the totals are
compared (`JoinConsumers`).  In which order the executor resumes what it may is left
open, so the model has both outcomes.

### The matrix product: `MatmulPrograms`, `Matmul`, `MatmulPromise`

The eleven `matmul.cpp` programs make the same eight recursive calls with the same
arguments, in two sections of four; they differ in what a parent starts, what it runs
itself and what it waits for.  `MatmulPrograms` translates that from each program, as
a sequence of `Fork` and `Await` statements over the calls 1 to 8: `Tuple` where four
children are started and waited for at once, `Group` where three go to a task group
and the fourth is called in the parent's thread before the group is waited for, and
`concurrencpp`, whose children run from the moment they are created.

`Matmul` is one call of `run_matmul()` and `validate_result()`.  A pointer into a
matrix is the `<<row, column>>` it points to, so that `a + k * N + k` is
`Plus(a, Diagonal, k)`.  A call of `matmul()` is named by its arguments (`Task`),
`calls` holds the calls made, `pc[t]` the statement a recursive call is at, `loop[t]`
the counters of `matmul_small()` and the value of `c` it has loaded.  `ForkCalls` and
`AwaitCalls` run the body; `c[i*N+j] += ...` is a `Load` and a `Store`, with any step
of any other call between them, because nothing but the sections protects it.
`Validate` is `validate_result()`, whose failure ends the program.  Whatever the
executor does with threads, it runs calls that are ready, in some order: every call
that can take a step may.  Memory is sequentially consistent between a join and what
follows it, which is what the libraries' joins are for.

The matrices `a` and `b` hold ones only, so the values in `c` count additions and
cannot tell which products they are.  The history variable `summed` can: it holds, per
element of `c`, the pairs of elements of `a` and `b` whose product was added.

`MatmulPromise` is the abstract specification: each product is added to its element
once, and the verdict is "correct" once all have been added.  It knows no calls, no
sections and no runtimes.

### The queens: `Queens`, `NQueens`, `NQueensPromise`

`Queens` defines boards, when two queens attack each other, and `Solutions`: the
boards that `queens_ok()` accepts as a whole, a function that two of the programs
define and none calls.  It is the reference for the recursion, which tests one column
at a time.

`NQueens` is the first of the two equal calls of `nqueens()` in `main()`, with
`check_answer()`.  A call is named by the columns chosen above it; `frame[t]` holds
what the call has in its own frame: the board `buf`, the columns `ys` its loop has not
come to, `values` and `taskCount`, and `idx`, where its parent wants the result.  The
name says which board the call should have, `buf` which it has.  The programs are
records of three choices (`Program`): whether the columns are listed before the loop
or filtered by it, whether a call may run as soon as it is made or when its parent
waits, and whether the board is copied when the call is made or, in `citor`, when it
runs.  `MakeCall` puts a queen on the parent's board and makes one call, `Return`
stores a result with the parent, and any steps of other calls come between.  A call
whose loop has come to its end and a call that waits are not told apart: nothing
happens between the two.

`NQueensPromise` is the abstract specification: each solution is found once, and the
number is checked when all have been.

### Fibonacci numbers and ranges: `ForkJoin`, `Fib`, `Skynet`, `FibSkynet`

The `fib.cpp` and `skynet.cpp` programs share one recursion: a call makes `Arity`
calls, waits for them and adds up what they left.  `ForkJoin` has the calls, their
frames and the threads; what a call computes is a parameter (`IsLeaf`, `LeafValue`,
`ChildArg`).  `Fib` and `Skynet` give these and, for each of the eleven runtimes, how
its program makes its calls (`ForkJoinProgram`): whether the last call is a task too or
is run by the caller, whether tasks may run as they are made or only when all have
been, and whether a call that waits leaves its thread.  `FibSkynet` puts the two
together.

A call is named by the path to it from the first.  `frame[t]` holds what the call has
on its own frame or stack, with one place for each result it waits for; a child's
`Return` stores into its parent's frame.  In the programs of taskflow, tbb and citor a
call that waits stays on the stack of its thread (`stack[w]`), which takes other tasks
meanwhile (`Take`), above the one that waits: a call whose children have returned goes
on only when what lies above it has returned as well.  In the others a waiting call is
a suspended coroutine, which any thread resumes.

`TotalAssumption` says that the recursion is right as a sequential one: a leaf returns
its total, and the totals of the parts add up to that of the whole.  The totals are
defined without the program's recursion: the Fibonacci numbers, and for skynet the sum
of the numbers in a call's range, for the first call the constant that `skynet()`
compares with.  TLC evaluates the assumption on the instance.

### Requests and answers: `PingPong`, `PingPongPromise`

`PingPong` is a run of an `io_socket_st.cpp` program: the server, one handler for each
connection, and the clients.  `wire[c]` is a connection: what was sent in each
direction and has not been read, and whether it is open, closed or reset.  A request,
and an answer, may arrive in pieces (`pieces`; `MaxPieces`), because nothing in the
programs puts them together: `HandlerRecv` takes whatever has arrived for one request,
as `async_read_some()` does.  `Reset` is the network's: a connection may fail at any
moment, and what was under way is lost (`MaxResets`).  The acceptor's backlog connects
a client before the server accepts it (`Connect`, `Accept`).

The five programs are records of seven choices (`Program`): whether the server listens
before the clients start or while `main()` sleeps, whether handlers start one by one or
in a batch, how the server gets their results, and what becomes of an error on each
side.  `Refused` is the case in which the sleep was too short.

`PingPongPromise` is the abstract specification: on each connection requests and
answers take turns, and a run passes only when all requests have been answered and all
answers have arrived.

### The driver: `ThreadsSweep`, `BuildAndBench`

`ThreadsSweep` has the thread counts, as operators of a machine: those printed by
`threads_sweep.cpp`, and the list that the driver uses when that program is not there.
The union of the doubling and the breakpoints, in order (`merged`), is cut before the
first number, but the very first, that is beyond `MaxThreads`.  `IsMachine` says what
`merged` may stand for `std::set_union` on: every kind has cores and every core a
hardware thread, and `SweepCorrect` proves that both lists are sorted then.
`get_nproc` is the number that `get_nproc.sh` prints: that of the cores, or 0 when
`lscpu` prints nothing, which gives the sweep `<<0>>`.

`BuildAndBench` is one call of `build_and_bench_all.py` with any of its arguments, and
what `generate_results_md.py` and `merge_results.py` do with the files afterwards.
`todo` is what is still to be done: the program's loops, unrolled.  `full_results` keeps
the order of a Python dict, because the scripts choose a first and a last run by it.  A
ratio is the pair of its terms.  Two fields of a run, `ref` and `executor`, are in no
file: they say what was measured.  `parse_args` is the set of the invocations, `OfOne`
those of one runtime and `OfAll` those of all, which take a ref from the environment.
`Argv` and `Word` are the words that a program is started with, and what it finds
behind them.

`exe` says which ref each executable in the build directories is of.  The driver looks
only at what `build_all.sh` returns, which is what its last command returns, since the
scripts do not stop at a failure.  `build_runtime` therefore chooses whether the
configuration succeeds and which executables are built, apart from what is returned:

* if the directory is removed first (a comparison, or a ref that is named), nothing can
  be built without the configuration, and what is not built is not there;
* if it is kept (all runtimes, or one without a ref), what is not built stays as it
  was, and after a failed configuration the build goes on with the earlier one: the
  executables are then of an earlier build (`Before`);
* it may return 0 when everything was built (`MayReturnZero`), also by the earlier
  configuration; for coros, whose script ends by renaming `bench-fib` to `fib`, when
  `fib` was.  It may return a failure whatever was built.

`run` may fail, and leaves a gap.  A duration may be 0: `scale` then divides by it, and
the exception ends the driver with no file written (`Crashed`); `merge_results.py` ends
likewise.

RESULTS.md is the pair of its tables and of the memory.  The driver writes one table
for each set of names with the benchmarks that just these have (`Named`, `Group`,
`Tables`), each duration beside the best of its row in this table, and the memory of
the last run of each name and benchmark (`Memory`).  `generate_results_md.py` writes one
table for all (`OneTable`), with nothing where a name lacks a benchmark, from the runs
with most threads (`Highest`), and no memory.  A mean ratio is determined by its
column, and is not computed.

## 3. What the runs check

### The channel programs

The runs of folly, TooManyCooks and libcoro use six threads, so three producers and
three consumers (`Workers(6)`), and four elements: the split has a remainder (slices of
2, 1 and 1), consumers can be more than, as many as or fewer than the elements they
get, a consumer can get nothing, and the sums wrap (`SizeMax = 4`, so they are taken
modulo 5).  Deadlock is checked in every run; the only state in which a program may stop is
after `Return`, where `Stopped` stutters.

| Run | Shows |
| --- | --- |
| `folly_channel` | with one sentinel per consumer behind the last element, no element is behind a sentinel, no consumer stops early, and the queue is empty when it is destroyed |
| `tmc_channel` | no post comes after `drain()`, `drain()` returns and consumers stop only when everything was received, although consumers run from before the first post |
| `libcoro_channel` | exactly one producer shuts the queue down, and after every push; consumers are woken only when everything was received |

`cobalt_channel` has four threads, two producers and two consumers, so that one of two
producers can be done while the other writes, and a close can find one consumer
waiting and the other with an element.  It shows that the program keeps the promise
whenever it returns rather than throws (`PromiseSpec`), and that it ends
(`EveryCallEnds`): nobody is left in `read()`.

Common to the other three: `IInv`, the inductive invariant that the proofs use, whose
first part is the type invariant; `NoFailure`, neither FAIL line of `do_bench()` is ever
printed, with the sums computed as the code computes them; `PromiseKept`, the program
implements `ChannelPromise` including its liveness: it does report.  `folly_channel`
also checks `OneHolder` (every element is with exactly one producer, one place in the
queue or one consumer, at every moment) and `StopsAfterLast`; `tmc_channel` the assert
of `producer()` (`EveryPostAccepted`); `libcoro_channel` that of its own
(`EveryPushAccepted`) and `OneShutdown`.  What follows from `IInv` alone is stated in
the modules and proved, and not run again for each program.

Fairness is weak fairness of `do_bench()` and of each coroutine; in `cobalt_channel`,
where one thread runs everything, of the disjunction of all steps, which is less.  The
code justifies it: the executors are thread pools that run every coroutine that is
ready, and no coroutine holds a thread while it waits.  No strong fairness is needed.

### The matrix product

| Run | Instance | Shows |
| --- | --- | --- |
| `matmul` | all eleven programs, 2 by 2 in eight calls with one product each | no two calls in `matmul_small()` share an element of `c` (`OneWriter`); every element sums the products of its row and column and nothing else, all of them when the verdict is given (`RightProducts`); a call that returns leaves its part complete and nothing running below it (`ReturnMeansDone`); `PromiseKept` with its liveness; `IInv`, which includes the type invariant |
| `matmul_loop` | TooManyCooks, 4 by 4, base case 2 | no addition is lost (`NothingLost`) and the safety part of the promise, where `matmul_small()` has all three loops, eight products each, and four of them interleave |

The base case of 32 becomes 1 or 2 (`BaseCase`); `Sizes` holds the sizes that the
recursion reaches.  Two levels of recursion, with 73 calls, have too many interleavings
for TLC; that calls of different parents never share elements is proved, for every
depth (`SectionsSuffice`).

Fairness: some call that can take a step eventually does (weak fairness of the
disjunction), the least a thread pool gives.  It is enough, since every step is
progress.  Deadlock is checked: only after the verdict may the program stop.

### The queens

| Run | Instance | Shows |
| --- | --- | --- |
| `nqueens` | four queens; folly, libfork and citor | each call searches its own board although the parent goes on to change the one it was copied from (`OwnBoard`); testing column by column finds the boards that are legal as a whole, each of them and no other, by the time the first call returns (`AllFound`); each result is in its place when the parent adds up (`ResultsDelivered`); no call outlives the frame it stores into (`FramesOutlive`); `PromiseKept`; `IInv`; the search ends with the right number (`AnswerChecked`) |

Four is the smallest board with solutions and more than one row; it has two, on
different sides of the root, eight calls that find no legal column or lead to none, and
every depth from the root to a complete board.  The three programs make their calls in
three ways: held until the parent waits, running as soon as they are made, and held
with a board that is copied when the call runs.  The programs differ beyond that only
in when the columns are listed, which the proofs cover for all eleven.  Fairness is
that of the matrix product.

### Fibonacci numbers and ranges

| Run | Instance | Shows |
| --- | --- | --- |
| `forkjoin` | `fib(4)` and a skynet of depth 2 with two calls each; ten programs, which have every kind of `ForkJoinProgram` that there is; one thread, or two | no call returns while another may still write into its frame (`FramesOutlive`); each result is in its own place and is the right one (`ResultsDelivered`); `main()` gets the right answer, so no call is buried for ever under calls that wait for it (`RightAnswer`) |

`fib(4)` has leaves at three depths and calls that return while their neighbours have
not begun; two levels of skynet are enough for ranges to overlap if the offset were
that of another level.  One thread is the case in which a call can be buried under
others; with two, tasks are stolen.  Fairness: some step that can be taken eventually
is.  Deadlock is checked.

### The TCP programs

| Run | Instance | Shows |
| --- | --- | --- |
| `pingpong` | all five programs, two connections, three requests, messages whole or in two pieces, at most one reset | whatever a client does when its connection fails, a run that ends without a FAIL line made all requests and read all answers, and when messages arrive whole a FAIL line means that a connection was reset or refused (`HonestReport`); the server does not leave while a handler runs that is to write to its channel (`ResultsOutlive`); `PromiseKept`; every run ends, whatever fails (`EveryRunEnds`) |

Three requests on two connections give the split a remainder and one client a second
turn.  Pieces matter where a client or a handler takes a part for the whole: from then
on the two sides count differently, and a client closes with something unread, which
resets the connection.  Two pieces are the least in which that happens.  `HonestReport`
compares the handlers' numbers with the requests, and `PromiseKept` speaks of runs, only
when messages arrive whole: in pieces the numbers can agree although no request was
answered as one.  `Troubled` is what excuses a FAIL line: a connection that was reset,
or never made.

Fairness: some step of the programs that can be taken eventually is; nothing is assumed
of the network, which may reset a connection or not.  `Punctual` names the programs
whose sleep between listening and connecting is taken to be long enough.  It is
cobalt's alone: if a client of that program is refused, its exception is dropped by the
`wait_group`, and the server waits in `accept` for ever, so `EveryRunEnds` does not
hold without that assumption.  The other programs are checked with a sleep that may be
too short.

### The driver

| Run | Instance | Shows |
| --- | --- | --- |
| `driver` | coros with `nqueens` and `fib`, and TooManyCooks with `fib` and, in one config, `channel`; three machines; at most two threads; one or two durations of a benchmark, 0 for `channel`; a dataset of two entries; every kind of call, every build and run may fail | if the build directory was removed first, a result is of the ref it is reported for, noticed failure or not (`OfThisBuild`); every run is related to the best of its benchmark and to the run with fewest threads among those kept (`ScaledToBest`); `generate_results_md.py` gives each benchmark of each name the duration and the best one that the driver gave it (`SummariesAgree`) |
| `asio_config` | the same | a violation, below |
| `merge` | the same | a violation, below |

Two thread counts are the least with a first and a last run that differ, and with a
sweep that a failure shortens.  The machines have two kinds of cores, hardware threads
beyond the cores, or more cores than a sweep goes to (`MaxThreads`, 64 in the
programs).  coros is the one runtime whose script can return 0 after half a build, and
has `fib` in common with TooManyCooks and `nqueens` alone, so that the driver writes
one, two or three tables.

What the properties leave out, though the model takes these steps:

* `OfThisBuild` leaves out the calls that keep the build directory: all runtimes, whose
  failed builds are not looked at, and one runtime without a ref, whose failed
  configuration `build_all.sh` hides.  Both may run the executables of an earlier build.
  README.md says that the output of what fails to build is ignored, which holds only
  when no earlier build is there.
* `ScaledToBest` asks of a merged dataset only the benchmarks of the first entry, the
  ones that `merge_results.py` goes through.  The run that a speedup is relative to is
  the first kept: when the run with one thread failed, it is one with more.
* `SummariesAgree` is about the cells of the tables, whatever table a name and a
  benchmark are in.  `generate_results_md.py` does not leave RESULTS.md as it is: it
  makes one table of several, whose mean ratios are then over other benchmarks, and
  drops the memory.  Only if the driver wrote one table are the columns, and so the
  mean ratios, required to be the same.  When a runtime's runs with most threads failed
  both scripts show a run with fewer, beside others with more.

Comparisons are of two different refs.  Deadlock is checked; the driver may stop when
nothing is left to do, or when it divides by zero.

### Where the code and its comments differ

* `asio_config`, `AsioWhenSpecified`: `main()` in `cpp/TooManyCooks/channel.cpp` looks
  for "asio" in `argv[4]`, beyond the arguments that the driver gives it, and the
  driver calls the config `st_asio`.  So the results that are named for the
  single-threaded Asio executor are those of the thread pool.
* `merge`, `MergeRecalculates`: `merge_results.py` recalculates the scaled values of the
  benchmarks that the first runtime has.  A benchmark that it lacks keeps the values
  from before the merge.

### Mutants

Each property has a mutant, a plausible slip of one operator (the operators named as
slips in the modules) with which TLC finds the property violated.

## 4. What is proved

### The channel programs

For every number of elements, producers and consumers (`CountsAssumption`: both
coroutine counts at least one, the elements below the largest `size_t`):

* `ChannelBenchProofs`: the slices are disjoint, within the elements and cover them
  (`SlicesDisjoint`, `SlicesWithin`, `SlicesCover`); the sum that `do_bench()` expects is
  that of the elements (`ExpectedSumIs`), and the tallies of disjoint sets of elements
  add up to that of their union (`TallyOfAdd`); with the lemmas on queues and on
  `Placed` that the programs share.
* `FollyChannelProofs`, `TmcChannelProofs`, `LibcoroChannelProofs`: `Invariance`
  (`Spec => []IInv`), from it the type invariant, `NoLossNoDuplication`
  (`[]OneHolder`), `StopsOnlyWhenDrained`, the properties of the program's own
  protocol (`SentinelsEndQueue`, `QueueIsEmptyAtReturn`; `PostsAreAccepted`,
  `DrainIsComplete`; `ShutdownOnce`, `PushesAreAccepted`), `NeverFails`
  (`[]NoFailure`: neither FAIL line is printed, for any width of `size_t`), and
  `Refinement`: the program implements the safety part of `ChannelPromise`.

The argument.  `OneHolder` is not inductive: nothing in it says that what a producer
posts next is new.  `IInv` ties the slices to their closed form (`SetupInv`), says
that what has been posted is in the queue once or with one consumer and that a
consumer's tally is that of what it has received (`ElementInv`, `Tallied`), describes
the shutdown (`SentinelInv`: the pending sentinels are the end of the queue;
`CloseInv`: closed only when all producers are done; `ShutdownInv`: `countDown` is the
number of producers still pushing) and the loop over the results (`CheckInv`: `total`
is the tally of what the consumers added so far have received, `ReceivedBefore`).  One
lemma per action shows that it is preserved.

The sums are stated so that they do not depend on the order of the elements:
`SumOf(S)` is the number of pairs of an element of `S` and a smaller one, so the sums of
disjoint sets add up as cardinalities do, and `Wrapped` takes a sum modulo the width.
That the loop which computes the expected sum arrives there is an induction over the
elements; in place of the library's induction theorem it takes the least number of
turns after which the two would differ (`Least`, from the well-founded order of finite
sets).  The same is done for the sums over calls and over connections below.

The last part of `TmcChannelProofs` proves the same of cobalt's program, for every
order in which the executor resumes promises: `CobaltChannel` has the same constants, so
it is reached as an instance, `Cobalt`, and the lemmas on slices, places and sums carry
over (`SharedSplit`, `SharedPlaces`, `SharedSums`).  `CobaltInvariance` shows its
inductive invariant, `CobaltNeverFails` that neither FAIL line is printed, and
`CobaltRefinement` that it implements the safety part of the promise.  The invariant has
to speak of the elements on their way: a `write()` returns before its consumer counts
the element, so an element that was written has been received or is the one with which a
consumer is about to be resumed (`Held` in `ElementInv`), and it still is when the
channel is closed in between.  `CloseInv` says that the close comes after the last
`write()`, and that `do_bench()` gets past its joins only when no consumer has thrown,
so the totals it compares are those of all elements.  TLC finds this `IInv` true on the
instance of `cobalt_channel`.

Only model-checked here: liveness.

### The matrix product

`MatmulProofs`, for every `N`, every base case and every one of the eleven programs,
from `SizesAssumption` (a size above the base case is even and its half is a size
again: what "power of 2" in the usage line of `main()` is for) and
`RuntimesAssumption`: `Invariance`, `TypeCorrect` (no pointer leaves its matrix),
`SectionsSuffice` (`[]OneWriter`), `NoLostUpdate`, `ProductsAreRight`,
`ReturnsWhenDone`, `ResultIsRight`, and `Refinement`: each program implements the
safety part of `MatmulPromise`.

The argument.  A call stands for the cube of its rows, inner indices and columns; its
eight children are the octants (`SiteFacts`, `ChildPlace`), disjoint
(`ChildrenSeparate`) and covering (`ChildrenCover`), and children of one section do
not share elements of `c`.  `Sound` states what the eleven bodies have in common, and
is proved of each of the three forms.  The invariant then says that calls are nested
or separate; that one inside another is inside a child which that one has called; that
nothing runs inside a call that has returned; and that running calls which share
elements of `c` are nested (`TreeInv`).  Two calls in `matmul_small()` are leaves, so
they are never nested: hence `OneWriter`, and the value loaded is still the value in
`c` when it is stored (`LoopInv`).  `SumInv` relates `summed` to the counters of all
loops, past and present (`Added`), which gives that each product is new when it is
added (`NewProduct`) and that a call's share is complete when it returns.

Only model-checked: that the verdict comes (liveness).

### The queens

The first part of `ForkJoinProofs`, for every number of queens and each of the eleven
programs: `Invariance`, `BoardsAreOwn` (`[]OwnBoard`), `NoDanglingResult` (`[]FramesOutlive`),
`SearchIsComplete` (`[]AllFound`): when `main()` has a result, the calls that returned 1
are exactly those with the solutions; `ResultsAreRight` (`[]ResultsDelivered`): a call
that has returned left the number of solutions below it where its parent adds it up,
and `main()` has the number of all; and `Refinement`: the programs implement
`NQueensPromise`.

The argument, in two parts.  `SearchInv` is about boards.  The name of a call is a
legal board by construction of the loops (`LegalInv`), and once the call has its board,
the board agrees with the name (`BoardInv`); in `citor` that holds because a parent that
waits leaves its own board alone.  A loop has made a call for each legal column it is
past (`LoopInv`), so the next queen of any solution below a call is one for which it
made a call (`SolutionStep`), and a call that returns has found all solutions below it
(`FoundInv`).  `ResultInv` is about numbers: the calls that a call has made have the
places 0, 1, ... for their results, each its own (`PlaceInv`), so adding up the places
is adding up the calls (`ResultIsRight`), and the solutions below a call are those below
its children, which share none (`SumOfSizes`).

`Refinement` has a hypothesis about the data: the entry of the table `answers` for this
number of queens is the number of `Solutions`.  Counting the solutions of a given board
is a computation, which the provers cannot do; TLC does it, for the board of the run.
Everything else about the check, that the number is compared once, after all solutions
were found, and accepted then, is proved.

Only model-checked: that entry of the table, and that the search ends.

### Fibonacci numbers and ranges

The second part of `ForkJoinProofs`, for every kind of program, any number of threads,
any number of calls that a call makes and any recursion that is right as a sequential
one.  The module extends `NQueens` and reaches `ForkJoin` as an instance, `Rec`, so that
the assumptions of `ForkJoin` are the hypothesis `RightRec` of its theorems
(`ForkJoinAssumption` and `TotalAssumption`; TLC evaluates both on the instance of
`forkjoin`): `RecInvariance`, `FramesAreThere` (`[]Rec!FramesOutlive`) and
`CallsAreRight` (`[]Rec!ResultsDelivered`).

The argument.  `ResultsDelivered` is not inductive: it says nothing of the results that
a call will add up, nor that its children are those it should have.  `IInv` says that a
call is one of those its caller has made (`CallInv`), that the calls made have the
right arguments (`ChildInv`), that a call waits when it has made all of them
(`MadeInv`), and that a call returns after its children, whose results are in its frame
(`ReturnInv`; `RootInv` for the first).  Then the sum that a call returns is the sum of
its children's totals, which is its own (`ValueIsTotal`).  Nothing in the argument
needs the stacks: whatever the threads do, they can only keep a call from running.

That skynet's and fib's recursions are right for every depth would need an induction
over the numbers; TLC evaluates it on the instance.  Only model-checked: that `main()`
gets its answer (`RightAnswer`), which is where the stacks matter.

### The TCP programs

`PingPongProofs`, for any number of connections, requests, pieces and resets and each of
the five programs (`CountsAssumption`: at least one connection, at least one piece):
`Invariance`, `TypeCorrect`, `HandlersAreOver` (`[]ResultsOutlive`), `ReportIsHonest`
(`[]HonestReport`) and `Refinement`: the programs implement `PingPongPromise`, which is
a safety property, so all of it.

The argument.  `HonestReport` is about the end of a run and says nothing on the way
there.  `EndsInv` relates the two ends of a connection to the state of its wire: a
handler that saw the end of the stream has a client that has closed, which it does only
after its last answer, and a handler that saw an error has a connection that was reset.
`TurnInv` is the protocol of a connection whose messages arrive whole: a client that
waits has one request under way, or being answered, or one answer under way, and the
handler's number is the client's, but for an answer that was not read.  `ServerInv`
says that the server has results of handlers that are over only, and knows of their
errors or has told `main()`.  When a run ends, every handler is over; without a FAIL
line all ended well, so each client has had its share.  For the converse, that a run
without trouble prints no FAIL line, the shares must add up to `REQUEST_COUNT`
(`SumOfShares`): the clients' shares are split as the elements of the channel programs
are, and `PingPongProofs` instantiates `ChannelBenchProofs` for it.  A connection in
trouble stays so (`TroubleStays`).

TLC finds `IInv` true on the instance of `pingpong` as well.  Only model-checked: that
a run ends (`EveryRunEnds`).

### The driver

`BuildAndBenchProofs`, for all lists of runtimes, benchmarks and configurations, all
machines, every way to call the driver and whatever fails to build or run, whether
`build_all.sh` returns the failure or not: `Invariance`,
`TypeCorrect`, `ResultsOfThisBuild` (`[]OfThisBuild`), `ScaledCorrect`
(`[]ScaledToBest`), `SummariesCorrect` (`SummariesAgree`, an action property), and of
the sweep alone `SweepCorrect`: the numbers grow, they are the doublings and the
breakpoints that are not beyond `MaxThreads`, and the first, and the two lists that
`std::set_union` is given are sorted, as it requires.

`DriverAssumption` is what the program's tables have: no runtime, benchmark or
configuration is listed twice, a machine has a kind of cores, each kind has cores and
each core a hardware thread (`IsMachine`), and durations are numbers (of microseconds).
`DatasetsAssumption` is that a dataset was written by the driver or by an earlier merge,
hence related to its best runs and with its runs in order.  TLC evaluates both on the instance.

The argument.  None of the three properties is inductive.  `OfThisBuild` needs that an
executable is of the job's ref as long as runs of the job are left.  `BuildInv` says so
of the jobs whose directory is removed first: their build comes right before their
benchmarks, no other build is between, and after it every executable is of the ref or
not there at all (`IsBuilt`), because without a configuration nothing is built.  This
holds also when half a build returned 0, since only what is there is run; a failure that
is returned takes the benchmarks with it.  Of a kept directory no such thing is true.

The agreement of the summaries needs that the last run of each list is the one with
most threads.  That is `OrderInv`, the longest part of the proof: the sweep grows, so
the runs of a name and benchmark that are left have more threads than each other in
order and than those already collected, and no two jobs have a name in common, so that
no list is begun twice.  A run that fails only leaves a gap.  It is also why the first
run of a list has the fewest threads of those kept, which the speedup is relative to.
And the names in the table of a benchmark are all that have it, so the best among them
is the best of all.  `EndInv` tells from what is left to do what the files have: the
results are scaled before they are collated and written, and not changed after.
`DatasetInv` is about the dataset, which merging keeps in order because whole entries
replace entries (`MergedFacts`); the benchmarks of the first entry, which are scaled
again, have runs there, so there is a best one (`BestFacts`).

The plan of each call is shown to establish the invariant (`IsPlan`, `SinglePlan`,
`ComparePlan`, `AllPlan`), and the loops that unroll into runs to keep it
(`RunsOfFacts`, `FlattenFacts`).  `InOrderFacts` is about sorting: the member at a
position is the one with as many members below it; `Breakpoints` that the sums of the
kinds of cores grow.  `MaxThreads` is a constant, so the sweep is right for any
limit, and the fallback of the driver grows as well (`FallbackOrdered`).  `Text` is the set of all strings; it names those that the program
itself has, since the provers do not know that a literal is a string.

TLC finds `IInv` true on the instance of `driver` as well.  Only model-checked: the two
violations, which are counterexamples.

## 5. What is not modelled, and what is left

Not modelled:

* timing, printing and the warm-up call in the `main()`s of the benchmarks, and what a
  measurement is worth;
* `uts.cpp`, whose tree is defined in a header that is not in the repository;
* the result page (presentation), CMake files and the vendored package manager, and
  `memusage.hpp` (one system call);
* of the driver and `generate_results_md.py`: the order of the columns, the arithmetic of
  the mean ratios, the metadata in the results, and the unit of a duration (all
  programs print microseconds, and `generate_results_md.py` reads no other); git itself
  (a ref is checked out, or the configuration fails);
* return codes and FAIL lines of the programs, which the driver ignores too.

The libraries are modelled by what the programs rely on (`external` in the map), never
checked: a library's queue, join or socket is assumed to do what its callers need.

Hazards without a property are listed in `PROJECT.json` with the reason: among them the
sleep in cobalt's `io_socket_st.cpp`, sizes that `matmul()` does not handle, sweeps that
end at 64 threads, and a comparison of a ref with itself.

Left to do:

1. `TotalAssumption` for `fib` at every depth, which the definition of the Fibonacci
   numbers gives, where TLC evaluates it on the instance only;
2. the parts of the driver named above.

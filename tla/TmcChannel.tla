----------------------------- MODULE TmcChannel -----------------------------
(***************************************************************************)
(* One call of do_bench() in cpp/TooManyCooks/channel.cpp.  The consumers  *)
(* are forked, the producers awaited, and then do_bench() itself drains    *)
(* the channel: drain() closes it to new posts and completes when it is    *)
(* empty.  A consumer stops when pull() finds the channel closed and empty.*)
(*                                                                         *)
(* Coroutines run concurrently on the executor.  An action is the code a   *)
(* coroutine runs from one operation on the channel to the next.           *)
(***************************************************************************)
EXTENDS ChannelBench

VARIABLES
  main,       (* where do_bench() is                                       *)
  i,          (* its loop counter                                          *)
  base,       (* first element of the next producer                        *)
  slice,      (* slice[p]: the arguments count and base of producer p      *)
  posted,     (* posted[p]: the loop counter of producer p                 *)
  chan,       (* the values in the channel                                 *)
  closed,     (* has drain() closed the channel?                           *)
  cons,       (* cons[c]: is consumer c still in its loop?                 *)
  result,     (* result[c]: its count and sum                              *)
  total,      (* count and sum of do_bench()                               *)
  report,     (* did do_bench() return without a FAIL line?                *)
  got         (* history: the elements each consumer has received          *)

setupVars == <<base, slice>>
consVars == <<cons, result, got>>
checkVars == <<total, report>>
vars == <<main, i, setupVars, posted, chan, closed, consVars, checkVars>>

Init ==
  /\ main = "create"
  /\ i = 0
  /\ base = 0
  /\ slice = [p \in Producers |-> [first |-> 0, count |-> 0]]
  /\ posted = [p \in Producers |-> 0]
  /\ chan = <<>>
  /\ closed = FALSE
  /\ cons = [c \in Consumers |-> "pulling"]
  /\ result = [c \in Consumers |-> NoResult]
  /\ total = NoResult
  /\ report = "running"
  /\ got = [c \in Consumers |-> {}]
-----------------------------------------------------------------------------
(* do_bench(): the loop that creates the producers, not yet started.       *)
(* A slip of it: the extra element of the first producers is forgotten.    *)
BaseWithoutExtra == base + PerTask
NextBase == base + TaskCount(i)

CreateProducer ==
  /\ main = "create"
  /\ i < ProducerCount
  /\ slice' = [slice EXCEPT ![i] = [first |-> base, count |-> TaskCount(i)]]
  /\ base' = NextBase
  /\ i' = i + 1
  /\ UNCHANGED <<main, posted, chan, closed, consVars, checkVars>>

(* do_bench(): spawn_many(consumers).fork().                               *)
ForkConsumers ==
  /\ main = "create"
  /\ i = ProducerCount
  /\ main' = "forked"
  /\ UNCHANGED <<i, setupVars, posted, chan, closed, consVars, checkVars>>

(* do_bench(): spawn_many(producers), awaited from here on.                *)
SpawnProducers ==
  /\ main = "forked"
  /\ main' = "producing"
  /\ UNCHANGED <<i, setupVars, posted, chan, closed, consVars, checkVars>>

(* producer(): one turn of its loop.  post() refuses the element when the  *)
(* channel is closed, and assert(ok) is there in debug builds only.        *)
Post(p) ==
  /\ main \notin {"create", "forked"}
  /\ posted[p] < slice[p].count
  /\ posted' = [posted EXCEPT ![p] = @ + 1]
  /\ chan' = IF closed THEN chan ELSE Append(chan, slice[p].first + posted[p])
  /\ UNCHANGED <<main, i, setupVars, closed, consVars, checkVars>>

(* A slip of ProducersJoined: the first producer to finish wins.           *)
AnyProducerJoined == \E p \in Producers : posted[p] = slice[p].count

(* do_bench(): the await of all producers has completed.                   *)
ProducersJoined == \A p \in Producers : posted[p] = slice[p].count

(* do_bench(): drain() closes the channel ...                              *)
Drain ==
  /\ main = "producing"
  /\ ProducersJoined
  /\ closed' = TRUE
  /\ main' = "draining"
  /\ UNCHANGED <<i, setupVars, posted, chan, consVars, checkVars>>

(* Slips: drain() or pull() looks at the closed flag only.                 *)
ClosedOnly == closed

(* ... and completes when there is nothing left to pull.                   *)
Empty == closed /\ chan = <<>>

Drained ==
  /\ main = "draining"
  /\ Empty
  /\ main' = "joining"
  /\ UNCHANGED <<i, setupVars, posted, chan, closed, consVars, checkVars>>

(* consumer(): pull() gave an element, which is counted and summed.        *)
Pull(c) ==
  /\ main # "create"
  /\ cons[c] = "pulling"
  /\ chan # <<>>
  /\ chan' = Tail(chan)
  /\ result' = [result EXCEPT ![c] = Tally(@, Head(chan))]
  /\ got' = [got EXCEPT ![c] = @ \cup {Head(chan)}]
  /\ UNCHANGED <<main, i, setupVars, posted, closed, cons, checkVars>>

(* consumer(): pull() gave nothing.                                        *)
Stop(c) ==
  /\ cons[c] = "pulling"
  /\ Empty
  /\ cons' = [cons EXCEPT ![c] = "stopped"]
  /\ UNCHANGED <<main, i, setupVars, posted, chan, closed, result, got, checkVars>>

(* do_bench(): the await of the forked consumers has completed.            *)
JoinConsumers ==
  /\ main = "joining"
  /\ \A c \in Consumers : cons[c] = "stopped"
  /\ main' = "check"
  /\ i' = 0
  /\ UNCHANGED <<setupVars, posted, chan, closed, consVars, checkVars>>

(* do_bench(): one turn of the loop over the results.                      *)
AddUp ==
  /\ main = "check"
  /\ i < ConsumerCount
  /\ total' = AddResult(total, result[i])
  /\ i' = i + 1
  /\ UNCHANGED <<main, setupVars, posted, chan, closed, consVars, report>>

(* do_bench(): the two comparisons and the return.                         *)
Return ==
  /\ main = "check"
  /\ i = ConsumerCount
  /\ report' = IF Passes(total) THEN "pass" ELSE "fail"
  /\ main' = "returned"
  /\ UNCHANGED <<i, setupVars, posted, chan, closed, consVars, total>>

(* The program may stop only here: anything else TLC reports as deadlock.  *)
Stopped == main = "returned" /\ UNCHANGED vars

DoBench ==
  \/ CreateProducer \/ ForkConsumers \/ SpawnProducers \/ Drain \/ Drained
  \/ JoinConsumers \/ AddUp \/ Return
Consume(c) == Pull(c) \/ Stop(c)

Next ==
  \/ DoBench
  \/ \E p \in Producers : Post(p)
  \/ \E c \in Consumers : Consume(c)
  \/ Stopped

Spec == Init /\ [][Next]_vars

(* The executor runs every coroutine that is ready: waiting suspends a     *)
(* coroutine and frees its thread (set_consumer_spins bounds the spinning).*)
Fairness ==
  /\ WF_vars(DoBench)
  /\ \A p \in Producers : WF_vars(Post(p))
  /\ \A c \in Consumers : WF_vars(Consume(c))

FairSpec == Spec /\ Fairness
-----------------------------------------------------------------------------
(* The type of every variable.                                             *)
TypeOK ==
  /\ main \in {"create", "forked", "producing", "draining", "joining",
               "check", "returned"}
  /\ i \in Nat
  /\ base \in Nat
  /\ slice \in [Producers -> [first : Nat, count : Nat]]
  /\ posted \in [Producers -> Nat]
  /\ chan \in Seq(Elements)
  /\ closed \in BOOLEAN
  /\ cons \in [Consumers -> {"pulling", "stopped"}]
  /\ result \in [Consumers -> Result]
  /\ total \in Result
  /\ report \in {"running", "pass", "fail"}
  /\ got \in [Consumers -> SUBSET Elements]

(* Once the coroutines run, every element has one holder: the producer     *)
(* that still has to post it, one place in the channel, or the consumer    *)
(* that received it.                                                       *)
OneHolder ==
  main # "create" =>
    \A e \in Elements : Cardinality(Holders(e, slice, posted, chan, got)) = 1

(* assert(ok): no post comes after drain() has closed the channel.         *)
EveryPostAccepted == [][posted' # posted => ~ closed]_vars

(* drain() returns, and a consumer stops, only when every element has been *)
(* received.                                                               *)
DrainedMeansReceived == main = "joining" => Received(got) = Elements
StopsAfterLast ==
  (\E c \in Consumers : cons[c] = "stopped") => Received(got) = Elements

(* do_bench() never prints FAIL.                                           *)
NoFailure == report # "fail"

(* The program implements the promise of a channel benchmark, the eventual *)
(* report included.                                                        *)
Promise == INSTANCE ChannelPromise WITH reported <- main = "returned"
PromiseSpec == Promise!Spec
PromiseKept == Promise!LiveSpec
-----------------------------------------------------------------------------
(***************************************************************************)
(* The inductive invariant that the theorems of TmcChannelProofs need.     *)
(***************************************************************************)
(* The setup loop has given every producer before i its slice, and nothing *)
(* is posted before the producers are spawned.                             *)
SetupInv ==
  /\ main = "create" => i =< ProducerCount /\ base = First(i) /\ Sliced(i, slice)
  /\ main # "create" => Sliced(ProducerCount, slice)
  /\ main \in {"create", "forked"} => posted = [p \in Producers |-> 0]
  /\ posted \in LoopCounters

(* The elements are where they should be, counted and summed.              *)
ElementInv == Placed(posted, chan, got) /\ Tallied(result, got)

(* The channel is closed by drain(), after the last post; consumers stop   *)
(* when it is also empty.                                                  *)
CloseInv ==
  /\ closed <=> main \in {"draining", "joining", "check", "returned"}
  /\ closed => ProducersJoined
  /\ (\E c \in Consumers : cons[c] = "stopped") => Empty
  /\ main \in {"joining", "check", "returned"} => Empty

(* The loop over the results has added up those of consumers before i.     *)
CheckInv ==
  /\ main = "check" =>
       i =< ConsumerCount /\ total = TallyOf(ReceivedBefore(i, got))
  /\ main \notin {"check", "returned"} => total = NoResult
  /\ main = "returned" => total = TallyOf(Elements)
  /\ NoFailure

IInv == TypeOK /\ SetupInv /\ ElementInv /\ CloseInv /\ CheckInv
=============================================================================

---------------------------- MODULE FollyChannel ----------------------------
(***************************************************************************)
(* One call of do_bench() in cpp/folly/channel.cpp.  folly's unbounded     *)
(* queue cannot be closed: produce_all() waits for every producer and then *)
(* enqueues one sentinel per consumer; a consumer stops at the first       *)
(* sentinel it dequeues.                                                   *)
(*                                                                         *)
(* Coroutines run concurrently on the thread pool.  An action is the code  *)
(* a coroutine runs from one operation on the queue to the next; all else  *)
(* it touches is its own.                                                  *)
(***************************************************************************)
EXTENDS ChannelBench

VARIABLES
  main,       (* where do_bench() is                                       *)
  i,          (* its loop counter                                          *)
  base,       (* first element of the next producer                        *)
  slice,      (* slice[p]: the arguments count and base of producer p      *)
  posted,     (* posted[p]: the loop counter of producer p                 *)
  chan,       (* the queue                                                 *)
  sentinels,  (* the loop counter of produce_all()                         *)
  cons,       (* cons[c]: is consumer c still in its loop?                 *)
  result,     (* result[c]: its count and sum                              *)
  total,      (* count and sum of do_bench()                               *)
  report,     (* did do_bench() return without a FAIL line?                *)
  got         (* history: the elements each consumer has received          *)

setupVars == <<base, slice>>
queueVars == <<posted, chan, sentinels, cons, result, got>>
checkVars == <<total, report>>
vars == <<main, i, setupVars, queueVars, checkVars>>

Sentinel == SizeMax

Init ==
  /\ main = "create"
  /\ i = 0
  /\ base = 0
  /\ slice = [p \in Producers |-> [first |-> 0, count |-> 0]]
  /\ posted = [p \in Producers |-> 0]
  /\ chan = <<>>
  /\ sentinels = 0
  /\ cons = [c \in Consumers |-> "pulling"]
  /\ result = [c \in Consumers |-> NoResult]
  /\ total = NoResult
  /\ report = "running"
  /\ got = [c \in Consumers |-> {}]
-----------------------------------------------------------------------------
(* do_bench(): the loop that creates the producers, not yet started.       *)
(* A slip of it: the extra element of the first producers is forgotten.    *)
BaseWithoutExtra == base + PerTask
NextBase == base + TaskCount(i)

CreateProducer ==
  /\ main = "create"
  /\ i < ProducerCount
  /\ slice' = [slice EXCEPT ![i] = [first |-> base, count |-> TaskCount(i)]]
  /\ base' = NextBase
  /\ i' = i + 1
  /\ UNCHANGED <<main, queueVars, checkVars>>

(* do_bench(): the consumers exist; collectAll() starts every coroutine.   *)
StartAll ==
  /\ main = "create"
  /\ i = ProducerCount
  /\ main' = "collect"
  /\ UNCHANGED <<i, setupVars, queueVars, checkVars>>

(* producer(): one turn of its loop.                                       *)
Enqueue(p) ==
  /\ main = "collect"
  /\ posted[p] < slice[p].count
  /\ chan' = Append(chan, slice[p].first + posted[p])
  /\ posted' = [posted EXCEPT ![p] = @ + 1]
  /\ UNCHANGED <<main, i, setupVars, sentinels, cons, result, got, checkVars>>

Finished(p) == posted[p] = slice[p].count

(* produce_all(): collectAllRange() of the producers has completed; and    *)
(* a slip of it, collectAny() in its place.                                *)
AnyProducerJoined == \E p \in Producers : Finished(p)
ProducersJoined == \A p \in Producers : Finished(p)

(* produce_all(): the number of sentinels; and a slip of it, an off-by-one *)
(* in the loop bound.                                                      *)
OneSentinelMore == ConsumerCount + 1
SentinelsDue == ConsumerCount

(* produce_all(): one turn of the loop that enqueues the sentinels.        *)
EnqueueSentinel ==
  /\ main = "collect"
  /\ ProducersJoined
  /\ sentinels < SentinelsDue
  /\ chan' = Append(chan, Sentinel)
  /\ sentinels' = sentinels + 1
  /\ UNCHANGED <<main, i, setupVars, posted, cons, result, got, checkVars>>

CanDequeue(c) == main = "collect" /\ cons[c] = "pulling" /\ chan # <<>>

(* consumer(): dequeue() gave an element, which is counted and summed.     *)
DequeueElement(c) ==
  /\ CanDequeue(c)
  /\ Head(chan) # Sentinel
  /\ chan' = Tail(chan)
  /\ result' = [result EXCEPT ![c] = Tally(@, Head(chan))]
  /\ got' = [got EXCEPT ![c] = @ \cup {Head(chan)}]
  /\ UNCHANGED <<main, i, setupVars, posted, sentinels, cons, checkVars>>

(* consumer(): dequeue() gave a sentinel, which is not counted.            *)
DequeueSentinel(c) ==
  /\ CanDequeue(c)
  /\ Head(chan) = Sentinel
  /\ chan' = Tail(chan)
  /\ cons' = [cons EXCEPT ![c] = "stopped"]
  /\ UNCHANGED <<main, i, setupVars, posted, sentinels, result, got, checkVars>>

(* do_bench(): collectAll() of all consumers and of produce_all() is done. *)
AllCollected ==
  /\ \A c \in Consumers : cons[c] = "stopped"
  /\ sentinels = SentinelsDue

Collect ==
  /\ main = "collect"
  /\ AllCollected
  /\ main' = "check"
  /\ i' = 0
  /\ UNCHANGED <<setupVars, queueVars, checkVars>>

(* do_bench(): one turn of the loop over the results.                      *)
AddUp ==
  /\ main = "check"
  /\ i < ConsumerCount
  /\ total' = AddResult(total, result[i])
  /\ i' = i + 1
  /\ UNCHANGED <<main, setupVars, queueVars, report>>

(* do_bench(): the two comparisons and the return.                         *)
Return ==
  /\ main = "check"
  /\ i = ConsumerCount
  /\ report' = IF Passes(total) THEN "pass" ELSE "fail"
  /\ main' = "returned"
  /\ UNCHANGED <<i, setupVars, queueVars, total>>

(* The program may stop only here: anything else TLC reports as deadlock.  *)
Stopped == main = "returned" /\ UNCHANGED vars

DoBench == CreateProducer \/ StartAll \/ Collect \/ AddUp \/ Return
Consume(c) == DequeueElement(c) \/ DequeueSentinel(c)

Next ==
  \/ DoBench
  \/ \E p \in Producers : Enqueue(p)
  \/ EnqueueSentinel
  \/ \E c \in Consumers : Consume(c)
  \/ Stopped

Spec == Init /\ [][Next]_vars

(* The pool runs every coroutine that is ready: waiting for the queue or   *)
(* for other coroutines suspends a coroutine and frees its thread.         *)
Fairness ==
  /\ WF_vars(DoBench)
  /\ WF_vars(EnqueueSentinel)
  /\ \A p \in Producers : WF_vars(Enqueue(p))
  /\ \A c \in Consumers : WF_vars(Consume(c))

FairSpec == Spec /\ Fairness
-----------------------------------------------------------------------------
(* The type of every variable.                                             *)
TypeOK ==
  /\ main \in {"create", "collect", "check", "returned"}
  /\ i \in Nat
  /\ base \in Nat
  /\ slice \in [Producers -> [first : Nat, count : Nat]]
  /\ posted \in [Producers -> Nat]
  /\ chan \in Seq(Elements \cup {Sentinel})
  /\ sentinels \in 0 .. ConsumerCount
  /\ cons \in [Consumers -> {"pulling", "stopped"}]
  /\ result \in [Consumers -> Result]
  /\ total \in Result
  /\ report \in {"running", "pass", "fail"}
  /\ got \in [Consumers -> SUBSET Elements]

(* Once the coroutines run, every element has one holder: the producer     *)
(* that still has to post it, one place in the queue, or the consumer that *)
(* received it.                                                            *)
OneHolder ==
  main # "create" =>
    \A e \in Elements : Cardinality(Holders(e, slice, posted, chan, got)) = 1

(* Nothing is posted behind a sentinel: all that follows one in the queue  *)
(* is another sentinel.                                                    *)
SentinelsLast ==
  \A j, k \in DOMAIN chan :
    j < k /\ chan[j] = Sentinel => chan[k] = Sentinel

(* A consumer that stops leaves no element behind for others to miss.      *)
StopsAfterLast ==
  (\E c \in Consumers : cons[c] = "stopped") => Received(got) = Elements

(* do_bench() never prints FAIL, and the queue it destroys is empty.       *)
NoFailure == report # "fail"
QueueEmptyAtReturn == main = "returned" => chan = <<>>

(* The program implements the promise of a channel benchmark, the eventual *)
(* report included.                                                        *)
Promise == INSTANCE ChannelPromise WITH reported <- main = "returned"
PromiseSpec == Promise!Spec
PromiseKept == Promise!LiveSpec
-----------------------------------------------------------------------------
(***************************************************************************)
(* The inductive invariant that the theorems of FollyChannelProofs need.   *)
(***************************************************************************)
StoppedCons == {c \in Consumers : cons[c] = "stopped"}
Pending == sentinels - Cardinality(StoppedCons)

(* The setup loop has given every producer before i its slice, and nothing *)
(* runs before it is done.                                                 *)
SetupInv ==
  /\ main = "create" =>
       /\ i =< ProducerCount
       /\ base = First(i)
       /\ Sliced(i, slice)
       /\ posted = [p \in Producers |-> 0]
       /\ sentinels = 0
  /\ main # "create" => Sliced(ProducerCount, slice)
  /\ posted \in LoopCounters

(* The elements are where they should be, counted and summed.              *)
ElementInv == Placed(posted, chan, got) /\ Tallied(result, got)

(* The sentinels that no consumer has dequeued are the end of the queue.   *)
SentinelInv ==
  /\ sentinels > 0 => ProducersJoined /\ main # "create"
  /\ Pending \in 0 .. Len(chan)
  /\ \A k \in DOMAIN chan : chan[k] = Sentinel <=> k > Len(chan) - Pending
  /\ StoppedCons # {} => Len(chan) = Pending

(* The loop over the results has added up those of consumers before i.     *)
CheckInv ==
  /\ main \in {"check", "returned"} => AllCollected /\ i =< ConsumerCount
  /\ main \in {"create", "collect"} => total = NoResult
  /\ main = "check" => total = TallyOf(ReceivedBefore(i, got))
  /\ main = "returned" => total = TallyOf(Elements)
  /\ NoFailure

IInv == TypeOK /\ SetupInv /\ ElementInv /\ SentinelInv /\ CheckInv
=============================================================================

--------------------------- MODULE LibcoroChannel ---------------------------
(***************************************************************************)
(* One call of do_bench() in cpp/libcoro/channel.cpp.  when_all() runs the *)
(* producers and the consumers together, so no one can wait for the        *)
(* producers alone: each counts down when it has pushed its share, and the *)
(* one that finds it is the last shuts the queue down.  shutdown_drain()   *)
(* refuses new elements, waits until the queue is empty, and then wakes    *)
(* the consumers, whose pop() gives nothing any more.                      *)
(*                                                                         *)
(* Coroutines run concurrently on the thread pool.  An action is the code  *)
(* a coroutine runs from one operation on shared state to the next.        *)
(***************************************************************************)
EXTENDS ChannelBench

VARIABLES
  main,       (* where do_bench() is                                       *)
  i,          (* its loop counter                                          *)
  base,       (* first element of the next producer                        *)
  slice,      (* slice[p]: the arguments count and base of producer p      *)
  posted,     (* posted[p]: the loop counter of producer p                 *)
  prod,       (* prod[p]: where producer p is                              *)
  countDown,  (* the producers that have not counted down                  *)
  chan,       (* the values in the queue                                   *)
  state,      (* the state of the queue                                    *)
  cons,       (* cons[c]: is consumer c still in its loop?                 *)
  result,     (* result[c]: its count and sum                              *)
  total,      (* count and sum of do_bench()                               *)
  report,     (* did do_bench() return without a FAIL line?                *)
  got         (* history: the elements each consumer has received          *)

setupVars == <<base, slice>>
prodVars == <<posted, prod, countDown>>
queueVars == <<chan, state>>
consVars == <<cons, result, got>>
checkVars == <<total, report>>
vars == <<main, i, setupVars, prodVars, queueVars, consVars, checkVars>>

Init ==
  /\ main = "create"
  /\ i = 0
  /\ base = 0
  /\ slice = [p \in Producers |-> [first |-> 0, count |-> 0]]
  /\ posted = [p \in Producers |-> 0]
  /\ prod = [p \in Producers |-> "pushing"]
  /\ countDown = ProducerCount
  /\ chan = <<>>
  /\ state = "running"
  /\ cons = [c \in Consumers |-> "pulling"]
  /\ result = [c \in Consumers |-> NoResult]
  /\ total = NoResult
  /\ report = "running"
  /\ got = [c \in Consumers |-> {}]
-----------------------------------------------------------------------------
(* do_bench(): the loop that creates the producers, not yet started.       *)
(* A slip of it: the extra element of the first producers is forgotten.    *)
BaseWithoutExtra == base + PerTask
NextBase == base + TaskCount(i)

CreateProducer ==
  /\ main = "create"
  /\ i < ProducerCount
  /\ slice' = [slice EXCEPT ![i] = [first |-> base, count |-> TaskCount(i)]]
  /\ base' = NextBase
  /\ i' = i + 1
  /\ UNCHANGED <<main, prodVars, queueVars, consVars, checkVars>>

(* do_bench(): the consumers exist; when_all() starts every coroutine.     *)
StartAll ==
  /\ main = "create"
  /\ i = ProducerCount
  /\ main' = "running"
  /\ UNCHANGED <<i, setupVars, prodVars, queueVars, consVars, checkVars>>

(* producer(): one turn of its loop.  push() refuses the element when the  *)
(* queue is shut down, which the assert notices in debug builds only.      *)
Push(p) ==
  /\ main = "running"
  /\ prod[p] = "pushing"
  /\ posted[p] < slice[p].count
  /\ posted' = [posted EXCEPT ![p] = @ + 1]
  /\ chan' = IF state = "running" THEN Append(chan, slice[p].first + posted[p])
             ELSE chan
  /\ UNCHANGED <<main, i, setupVars, prod, countDown, state, consVars, checkVars>>

(* producer(): the old value of countDown makes it the last producer.      *)
(* Slips: the producer before the last thinks so too, or nobody does.      *)
NextToLast(old) == old <= 2
NeverLast(old) == old = 0
IsLast(old) == old = 1

(* producer(): countDown.fetch_sub(1).                                     *)
CountDown(p) ==
  /\ main = "running"
  /\ prod[p] = "pushing"
  /\ posted[p] = slice[p].count
  /\ countDown' = countDown - 1
  /\ prod' = [prod EXCEPT ![p] = IF IsLast(countDown) THEN "last" ELSE "done"]
  /\ UNCHANGED <<main, i, setupVars, posted, queueVars, consVars, checkVars>>

(* producer(): shutdown_drain() stops the pushes; only the first call does *)
(* anything.                                                               *)
StartDrain(p) ==
  /\ prod[p] = "last"
  /\ IF state = "running"
       THEN state' = "draining" /\ prod' = [prod EXCEPT ![p] = "draining"]
       ELSE UNCHANGED state /\ prod' = [prod EXCEPT ![p] = "done"]
  /\ UNCHANGED <<main, i, setupVars, posted, countDown, chan, consVars, checkVars>>

(* producer(): shutdown_drain() finds the queue empty, stops it and wakes  *)
(* the consumers.  A slip: it does not wait.                               *)
NoWait == TRUE
QueueEmpty == chan = <<>>

Shutdown(p) ==
  /\ prod[p] = "draining"
  /\ QueueEmpty
  /\ state' = "stopped"
  /\ prod' = [prod EXCEPT ![p] = "done"]
  /\ UNCHANGED <<main, i, setupVars, posted, countDown, chan, consVars, checkVars>>

(* consumer(): pop() gave an element, which is counted and summed.         *)
Pop(c) ==
  /\ main = "running"
  /\ cons[c] = "pulling"
  /\ state # "stopped"
  /\ chan # <<>>
  /\ chan' = Tail(chan)
  /\ result' = [result EXCEPT ![c] = Tally(@, Head(chan))]
  /\ got' = [got EXCEPT ![c] = @ \cup {Head(chan)}]
  /\ UNCHANGED <<main, i, setupVars, prodVars, state, cons, checkVars>>

(* consumer(): pop() gave nothing.                                         *)
Stop(c) ==
  /\ cons[c] = "pulling"
  /\ state = "stopped"
  /\ cons' = [cons EXCEPT ![c] = "stopped"]
  /\ UNCHANGED <<main, i, setupVars, prodVars, queueVars, result, got, checkVars>>

(* do_bench(): when_all() has completed.                                   *)
AllDone ==
  /\ main = "running"
  /\ \A p \in Producers : prod[p] = "done"
  /\ \A c \in Consumers : cons[c] = "stopped"
  /\ main' = "check"
  /\ i' = 0
  /\ UNCHANGED <<setupVars, prodVars, queueVars, consVars, checkVars>>

(* The results of when_all(), those of the producers first: their {} is 0. *)
Results(n) ==
  IF n < ProducerCount THEN NoResult ELSE result[n - ProducerCount]

(* do_bench(): one turn of the loop over the results.                      *)
AddUp ==
  /\ main = "check"
  /\ i < ProducerCount + ConsumerCount
  /\ total' = AddResult(total, Results(i))
  /\ i' = i + 1
  /\ UNCHANGED <<main, setupVars, prodVars, queueVars, consVars, report>>

(* do_bench(): the two comparisons and the return.                         *)
Return ==
  /\ main = "check"
  /\ i = ProducerCount + ConsumerCount
  /\ report' = IF Passes(total) THEN "pass" ELSE "fail"
  /\ main' = "returned"
  /\ UNCHANGED <<i, setupVars, prodVars, queueVars, consVars, total>>

(* The program may stop only here: anything else TLC reports as deadlock.  *)
Stopped == main = "returned" /\ UNCHANGED vars

DoBench == CreateProducer \/ StartAll \/ AllDone \/ AddUp \/ Return
Produce(p) == Push(p) \/ CountDown(p) \/ StartDrain(p) \/ Shutdown(p)
Consume(c) == Pop(c) \/ Stop(c)

Next ==
  \/ DoBench
  \/ \E p \in Producers : Produce(p)
  \/ \E c \in Consumers : Consume(c)
  \/ Stopped

Spec == Init /\ [][Next]_vars

(* The pool runs every coroutine that is ready: waiting suspends a         *)
(* coroutine, and shutdown_drain(tp) yields to the pool between its looks. *)
Fairness ==
  /\ WF_vars(DoBench)
  /\ \A p \in Producers : WF_vars(Produce(p))
  /\ \A c \in Consumers : WF_vars(Consume(c))

FairSpec == Spec /\ Fairness
-----------------------------------------------------------------------------
(* The type of every variable: countDown does not wrap around zero.        *)
TypeOK ==
  /\ main \in {"create", "running", "check", "returned"}
  /\ i \in Nat
  /\ base \in Nat
  /\ slice \in [Producers -> [first : Nat, count : Nat]]
  /\ posted \in [Producers -> Nat]
  /\ prod \in [Producers -> {"pushing", "last", "draining", "done"}]
  /\ countDown \in 0 .. ProducerCount
  /\ chan \in Seq(Elements)
  /\ state \in {"running", "draining", "stopped"}
  /\ cons \in [Consumers -> {"pulling", "stopped"}]
  /\ result \in [Consumers -> Result]
  /\ total \in Result
  /\ report \in {"running", "pass", "fail"}
  /\ got \in [Consumers -> SUBSET Elements]

(* Once the coroutines run, every element has one holder: the producer     *)
(* that still has to push it, one place in the queue, or the consumer that *)
(* received it.                                                            *)
OneHolder ==
  main # "create" =>
    \A e \in Elements : Cardinality(Holders(e, slice, posted, chan, got)) = 1

(* The assert on the result of push(): none comes after the queue has been *)
(* shut down.                                                              *)
EveryPushAccepted == [][posted' # posted => state = "running"]_vars

(* Exactly one producer shuts the queue down, and it does so when all of   *)
(* them have pushed their share: never two, and never none.                *)
ShuttingDown == {p \in Producers : prod[p] \in {"last", "draining"}}

OneShutdown ==
  /\ \A p, q \in ShuttingDown : p = q
  /\ ShuttingDown # {} => countDown = 0 /\ state # "stopped"
  /\ (\A p \in Producers : prod[p] = "done") => state = "stopped"

(* The queue is stopped, and a consumer stops, only when every element has *)
(* been received.                                                          *)
StopsAfterLast ==
  state = "stopped" \/ (\E c \in Consumers : cons[c] = "stopped") =>
    Received(got) = Elements

(* do_bench() never prints FAIL.                                           *)
NoFailure == report # "fail"

(* The program implements the promise of a channel benchmark, the eventual *)
(* report included.                                                        *)
Promise == INSTANCE ChannelPromise WITH reported <- main = "returned"
PromiseSpec == Promise!Spec
PromiseKept == Promise!LiveSpec
-----------------------------------------------------------------------------
(***************************************************************************)
(* The inductive invariant that the theorems of LibcoroChannelProofs need. *)
(***************************************************************************)
(* The producers that have not counted down.                               *)
Pushing == {p \in Producers : prod[p] = "pushing"}

(* The setup loop has given every producer before i its slice, and nothing *)
(* is pushed before it is done.                                            *)
SetupInv ==
  /\ main = "create" =>
       /\ i =< ProducerCount /\ base = First(i) /\ Sliced(i, slice)
       /\ posted = [p \in Producers |-> 0]
       /\ prod = [p \in Producers |-> "pushing"]
  /\ main # "create" => Sliced(ProducerCount, slice)
  /\ posted \in LoopCounters

(* The elements are where they should be, counted and summed.              *)
ElementInv == Placed(posted, chan, got) /\ Tallied(result, got)

(* The producers that have counted down have pushed their share; the last  *)
(* of them, and no other, shuts the queue down.                            *)
ShutdownInv ==
  /\ countDown = Cardinality(Pushing)
  /\ \A p \in Producers \ Pushing : posted[p] = slice[p].count
  /\ OneShutdown
  /\ state # "running" => Pushing = {}
  /\ \A p \in Producers : prod[p] = "last" => state = "running"
  /\ \A p \in Producers : prod[p] = "draining" => state = "draining"
  /\ state = "stopped" => chan = <<>>
  /\ state # "stopped" => \A c \in Consumers : cons[c] = "pulling"

(* The loop over the results has added up those of consumers before i.     *)
CheckInv ==
  /\ main \in {"create", "running"} => total = NoResult
  /\ main \in {"check", "returned"} => state = "stopped"
  /\ main = "check" =>
       /\ i =< ProducerCount + ConsumerCount
       /\ i =< ProducerCount => total = NoResult
       /\ i >= ProducerCount =>
            total = TallyOf(ReceivedBefore(i - ProducerCount, got))
  /\ main = "returned" => total = TallyOf(Elements)
  /\ NoFailure

IInv == TypeOK /\ SetupInv /\ ElementInv /\ ShutdownInv /\ CheckInv
=============================================================================

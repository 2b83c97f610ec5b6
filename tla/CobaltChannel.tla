---------------------------- MODULE CobaltChannel ----------------------------
(***************************************************************************)
(* One call of do_bench() in cpp/cobalt/channel.cpp.  The channel has no   *)
(* buffer: an element goes from a producer that waits in write() to a      *)
(* consumer that waits in read().  When the producers have been joined     *)
(* do_bench() closes the channel.  A consumer that has looked at is_open() *)
(* before may wait in read() then, and the close cancels its wait: read()  *)
(* throws, and so does do_bench() when it joins the consumer.              *)
(*                                                                         *)
(* There is one thread.  A promise runs when it is created, and then when  *)
(* the executor resumes it; in which order is left open.                   *)
(***************************************************************************)
EXTENDS ChannelBench

VARIABLES
  main,       (* where do_bench() is                                       *)
  i,          (* its loop counter                                          *)
  base,       (* first element of the next producer                        *)
  slice,      (* slice[p]: the arguments count and base of producer p      *)
  posted,     (* posted[p]: the loop counter of producer p                 *)
  prod,       (* prod[p]: where producer p is                              *)
  open,       (* is the channel open?                                      *)
  cons,       (* cons[c]: where consumer c is                              *)
  data,       (* data[c]: what read() gives to consumer c                  *)
  result,     (* result[c]: its count and sum                              *)
  total,      (* count and sum of do_bench()                               *)
  report,     (* how do_bench() ended                                      *)
  got         (* history: the elements each consumer has received          *)

prodVars == <<slice, posted, prod>>
consVars == <<cons, data, result, got>>
vars == <<main, i, base, prodVars, open, consVars, total, report>>

Init ==
  /\ main = "produce"
  /\ i = 0
  /\ base = 0
  /\ slice = [p \in Producers |-> [first |-> 0, count |-> 0]]
  /\ posted = [p \in Producers |-> 0]
  /\ prod = [p \in Producers |-> "none"]
  /\ open = TRUE
  /\ cons = [c \in Consumers |-> "none"]
  /\ data = [c \in Consumers |-> 0]
  /\ result = [c \in Consumers |-> NoResult]
  /\ total = NoResult
  /\ report = "running"
  /\ got = [c \in Consumers |-> {}]
-----------------------------------------------------------------------------
(* Where a producer is when it has written n of its count elements.        *)
Writing(n, count) == IF n < count THEN "writing" ELSE "done"

(* do_bench(): a producer is created, and runs to its first write().       *)
CreateProducer ==
  /\ main = "produce"
  /\ i < ProducerCount
  /\ slice' = [slice EXCEPT ![i] = [first |-> base, count |-> TaskCount(i)]]
  /\ prod' = [prod EXCEPT ![i] = Writing(0, TaskCount(i))]
  /\ base' = base + TaskCount(i)
  /\ i' = i + 1
  /\ UNCHANGED <<main, posted, open, consVars, total, report>>

(* do_bench(): a consumer is created, and runs to its first read().        *)
CreateConsumer ==
  /\ main = "consume"
  /\ i < ConsumerCount
  /\ cons' = [cons EXCEPT ![i] = "reading"]
  /\ i' = i + 1
  /\ UNCHANGED <<main, base, prodVars, open, data, result, got, total, report>>

(* do_bench(): the first loop is over, and then the second.                *)
NextLoop ==
  /\ \/ main = "produce" /\ i = ProducerCount /\ main' = "consume"
     \/ main = "consume" /\ i = ConsumerCount /\ main' = "join"
  /\ i' = 0
  /\ UNCHANGED <<base, prodVars, open, consVars, total, report>>

(* The channel: a write() and a read() meet.                               *)
Transfer(p, c) ==
  /\ prod[p] = "writing" /\ cons[c] = "reading"
  /\ data' = [data EXCEPT ![c] = slice[p].first + posted[p]]
  /\ cons' = [cons EXCEPT ![c] = "ready"]
  /\ posted' = [posted EXCEPT ![p] = @ + 1]
  /\ prod' = [prod EXCEPT ![p] = Writing(posted[p] + 1, slice[p].count)]
  /\ UNCHANGED <<main, i, base, slice, open, result, got, total, report>>

(* consumer(): read() returned an element, which is counted and summed;    *)
(* the next read() waits.                                                  *)
Resume(c) ==
  /\ cons[c] = "ready"
  /\ result' = [result EXCEPT ![c] = Tally(@, data[c])]
  /\ got' = [got EXCEPT ![c] = @ \cup {data[c]}]
  /\ cons' = [cons EXCEPT ![c] = IF open THEN "reading" ELSE "done"]
  /\ UNCHANGED <<main, i, base, prodVars, open, data, total, report>>

(* What close() does to a consumer that waits in read(); a slip: nothing.  *)
LeftWaiting(at) == at
Cancelled(at) == IF at = "reading" THEN "cancelled" ELSE at

(* Have the producers been joined?  A slip: one of them.                   *)
OneJoined == \E p \in Producers : prod[p] = "done"
ProducersJoined == \A p \in Producers : prod[p] = "done"

(* do_bench(): the producers are joined and the channel is closed.         *)
Close ==
  /\ main = "join"
  /\ ProducersJoined
  /\ open' = FALSE
  /\ cons' = [c \in Consumers |-> Cancelled(cons[c])]
  /\ main' = "closed"
  /\ UNCHANGED <<i, base, prodVars, data, result, got, total, report>>

(* consumer(): read() throws.                                              *)
Throw(c) ==
  /\ cons[c] = "cancelled"
  /\ cons' = [cons EXCEPT ![c] = "thrown"]
  /\ UNCHANGED <<main, i, base, prodVars, open, data, result, got, total, report>>

(* Did join() throw?  A slip: an exception is taken for a result.          *)
Never == FALSE
Thrown == \E c \in Consumers : cons[c] = "thrown"

(* do_bench(): the consumers are joined, and their exceptions are thrown.  *)
JoinConsumers ==
  /\ main = "closed"
  /\ \A c \in Consumers : cons[c] \in {"done", "thrown"}
  /\ main' = IF Thrown THEN "ended" ELSE "check"
  /\ report' = IF Thrown THEN "thrown" ELSE report
  /\ UNCHANGED <<i, base, prodVars, open, consVars, total>>

(* do_bench(): one turn of the loop over the results.                      *)
AddUp ==
  /\ main = "check"
  /\ i < ConsumerCount
  /\ total' = AddResult(total, result[i])
  /\ i' = i + 1
  /\ UNCHANGED <<main, base, prodVars, open, consVars, report>>

(* do_bench(): the two comparisons and the return.                         *)
Return ==
  /\ main = "check"
  /\ i = ConsumerCount
  /\ report' = IF Passes(total) THEN "pass" ELSE "fail"
  /\ main' = "ended"
  /\ UNCHANGED <<i, base, prodVars, open, consVars, total>>

Stopped == main = "ended" /\ UNCHANGED vars

DoBench ==
  \/ CreateProducer \/ CreateConsumer \/ NextLoop
  \/ Close \/ JoinConsumers \/ AddUp \/ Return

Step ==
  \/ DoBench
  \/ \E c \in Consumers :
       Resume(c) \/ Throw(c) \/ \E p \in Producers : Transfer(p, c)

Next == Step \/ Stopped

Spec == Init /\ [][Next]_vars

(* The thread resumes what can be resumed.                                 *)
FairSpec == Spec /\ WF_vars(Step)
-----------------------------------------------------------------------------
TypeOK ==
  /\ main \in {"produce", "consume", "join", "closed", "check", "ended"}
  /\ i \in Nat /\ base \in Nat
  /\ slice \in [Producers -> [first : Nat, count : Nat]]
  /\ posted \in [Producers -> Nat]
  /\ prod \in [Producers -> {"none", "writing", "done"}]
  /\ open \in BOOLEAN
  /\ cons \in [Consumers ->
       {"none", "reading", "ready", "cancelled", "thrown", "done"}]
  /\ data \in [Consumers -> Nat]
  /\ result \in [Consumers -> Result]
  /\ total \in Result
  /\ report \in {"running", "pass", "fail", "thrown"}
  /\ got \in [Consumers -> SUBSET Elements]

(* The program implements the promise of a channel benchmark: when it      *)
(* returns, rather than throws, every element was received once.           *)
Promise == INSTANCE ChannelPromise WITH reported <- report \in {"pass", "fail"}
PromiseSpec == Promise!Spec

(* A call of do_bench() ends: no consumer waits for ever in read().        *)
EveryCallEnds == <>(main = "ended")
-----------------------------------------------------------------------------
(* A producer has its slice once it is created, and is done when it has    *)
(* written all of it; a consumer is created after them.                    *)
SetupInv ==
  /\ main = "produce" => i =< ProducerCount /\ base = First(i)
  /\ \A p \in Producers : main = "produce" /\ p >= i => prod[p] = "none"
  /\ \A p \in Producers :
       /\ prod[p] = "none" => posted[p] = 0
       /\ prod[p] # "none" =>
            slice[p] = [first |-> First(p), count |-> TaskCount(p)]
       /\ prod[p] = "writing" => posted[p] < slice[p].count
       /\ prod[p] = "done" => posted[p] = slice[p].count
  /\ main = "produce" => \A c \in Consumers : cons[c] = "none"
  /\ main = "consume" => \A c \in Consumers : c >= i => cons[c] = "none"
  /\ posted \in LoopCounters

(* The elements that consumer c has received, or is to be resumed with.    *)
Held == [c \in Consumers |-> got[c] \cup IF cons[c] = "ready" THEN {data[c]} ELSE {}]

(* An element that was written is with one consumer.                       *)
ElementInv ==
  /\ Placed(posted, <<>>, Held)
  /\ Tallied(result, got)
  /\ \A c \in Consumers : cons[c] = "ready" => data[c] \in Elements \ got[c]

(* The channel is closed after the last write().                           *)
CloseInv ==
  /\ open <=> main \in {"produce", "consume", "join"}
  /\ ~ open => ProducersJoined
  /\ main \in {"check", "ended"} =>
       \A c \in Consumers : cons[c] \in {"done", "thrown"}
  /\ main = "check" => \A c \in Consumers : cons[c] = "done"

(* The loop over the results has added up those of consumers before i, and *)
(* do_bench() prints no FAIL line.                                         *)
CheckInv ==
  /\ main \in {"join", "closed"} => i = 0
  /\ main = "check" =>
       i =< ConsumerCount /\ total = TallyOf(ReceivedBefore(i, got))
  /\ main \notin {"check", "ended"} => total = NoResult
  /\ report \in {"pass", "thrown"} <=> main = "ended"
  /\ report # "fail"

IInv == TypeOK /\ SetupInv /\ ElementInv /\ CloseInv /\ CheckInv
=============================================================================

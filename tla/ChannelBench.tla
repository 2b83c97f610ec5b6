---------------------------- MODULE ChannelBench ----------------------------
(***************************************************************************)
(* What the four channel.cpp programs share: the element values, the       *)
(* number of producer and consumer coroutines, the way do_bench() splits   *)
(* the elements among the producers, and the unsigned arithmetic of the    *)
(* totals.  Each program repeats this code; the lines named here are those *)
(* of cpp/TooManyCooks/channel.cpp.                                        *)
(***************************************************************************)
EXTENDS Integers, FiniteSets, Sequences

CONSTANTS
  ElementCount,     (* element_count: the elements are 0 .. ElementCount-1 *)
  ProducerCount,    (* producer_count                                      *)
  ConsumerCount,    (* consumer_count                                      *)
  SizeMax           (* numeric_limits<size_t>::max()                       *)

(* element_count is 10000000 and size_t has 64 bits: every element, and    *)
(* the number of elements, is below the largest size_t.  main() makes both *)
(* coroutine counts at least one.                                          *)
ASSUME CountsAssumption ==
  /\ ElementCount \in Nat
  /\ ProducerCount \in Nat \ {0}
  /\ ConsumerCount \in Nat \ {0}
  /\ SizeMax \in Nat
  /\ ElementCount =< SizeMax

Elements  == 0 .. ElementCount-1
Producers == 0 .. ProducerCount-1
Consumers == 0 .. ConsumerCount-1

(* main(): the number of producers, and of consumers, for a thread count.  *)
Workers(threads) == IF threads \div 2 = 0 THEN 1 ELSE threads \div 2

PerTask == ElementCount \div ProducerCount
Rem     == ElementCount % ProducerCount

(* A slip of TaskCount: one producer too many gets an extra element.       *)
TaskCountOffByOne(i) == IF i <= Rem THEN PerTask + 1 ELSE PerTask

(* The number of elements producer i posts.                                *)
TaskCount(i) == IF i < Rem THEN PerTask + 1 ELSE PerTask

(* Where the slice of producer p starts, in closed form, and the elements  *)
(* in it: do_bench() gets there by adding up the counts in base.           *)
First(p) == p * PerTask + (IF p < Rem THEN p ELSE Rem)
Slice(p) == First(p) .. First(p) + TaskCount(p) - 1

(* size_t addition.                                                        *)
Plus(x, y) == (x + y) % (SizeMax + 1)

(* The static expected_sum, as the loop in main() computes it.             *)
ExpectedSum ==
  LET sum[n \in 0 .. ElementCount] ==
        IF n = 0 THEN 0 ELSE Plus(sum[n-1], n-1)
  IN  sum[ElementCount]

(* A result{count, sum}, as a consumer returns it and do_bench() adds it.  *)
Result  == [count : Nat, sum : Nat]
NoResult == [count |-> 0, sum |-> 0]
(* A slip of Tally: sum = in place of sum +=.                              *)
TallyLast(r, e) == [count |-> r.count + 1, sum |-> e]
Tally(r, e)     == [count |-> r.count + 1, sum |-> Plus(r.sum, e)]
AddResult(t, r) == [count |-> t.count + r.count, sum |-> Plus(t.sum, r.sum)]

(* The two comparisons at the end of do_bench(); either prints FAIL.       *)
Passes(total) == total.count = ElementCount /\ total.sum = ExpectedSum
-----------------------------------------------------------------------------
(* The setup loop has given the producers before n their slices.           *)
Sliced(n, slice) ==
  \A p \in Producers :
    p < n => slice[p] = [first |-> First(p), count |-> TaskCount(p)]

(* No producer posts more than its share.                                  *)
LoopCounters ==
  {f \in [Producers -> Nat] : \A p \in Producers : f[p] =< TaskCount(p)}

(***************************************************************************)
(* Where the elements are.  posted[p] is the loop counter of producer p,   *)
(* chan the queue and got[c] the set of elements consumer c has received.  *)
(***************************************************************************)
Posted(posted) ==
  {e \in Elements :
    \E p \in Producers : First(p) =< e /\ e < First(p) + posted[p]}
Queued(chan) == {chan[k] : k \in DOMAIN chan}
Received(got) == UNION {got[c] : c \in Consumers}

(* The holders of element e: the producer that still has to post it, a     *)
(* place in the queue, or a consumer that received it.                     *)
Holders(e, slice, posted, chan, got) ==
  {<<"producer", p>> : p \in {q \in Producers :
     e \in slice[q].first + posted[q] .. slice[q].first + slice[q].count - 1}}
    \cup {<<"queue", k>> : k \in {j \in DOMAIN chan : chan[j] = e}}
    \cup {<<"consumer", c>> : c \in {d \in Consumers : e \in got[d]}}

(* What has been posted is in the queue, once, or with one consumer.       *)
Placed(posted, chan, got) ==
  /\ \A k \in DOMAIN chan : chan[k] \in Elements => chan[k] \in Posted(posted)
  /\ \A j, k \in DOMAIN chan : chan[j] \in Elements /\ chan[j] = chan[k] => j = k
  /\ \A c \in Consumers : got[c] \subseteq Posted(posted) \ Queued(chan)
  /\ \A c, d \in Consumers : \A e \in got[c] \cap got[d] : c = d
  /\ Posted(posted) \subseteq Queued(chan) \cup Received(got)

(* The sum of a set of elements, as the number of pairs of an element and  *)
(* a smaller one, and the result{count, sum} that is right for the set.    *)
SumOf(S)   == Cardinality({p \in S \X Elements : p[2] < p[1]})
Wrapped(n) == n % (SizeMax + 1)
TallyOf(S) == [count |-> Cardinality(S), sum |-> Wrapped(SumOf(S))]

(* Every consumer has counted and summed what it received.                 *)
Tallied(result, got) == \A c \in Consumers : result[c] = TallyOf(got[c])

(* The elements of the consumers before consumer n.                        *)
ReceivedBefore(n, got) == UNION {got[c] : c \in 0 .. n-1}
=============================================================================

------------------------- MODULE ChannelBenchProofs -------------------------
(***************************************************************************)
(* Facts the channel benchmarks share.  The split of do_bench() is a       *)
(* partition of the elements, for every number of elements and producers;  *)
(* posting to the queue and taking from it keep every element in one       *)
(* place; the counts and the sums of the consumers add up to those of all  *)
(* elements, and these are what do_bench() compares with.                  *)
(***************************************************************************)
EXTENDS ChannelBench, FiniteSetTheorems, WellFoundedInduction, TLAPS

(* The quotient and the remainder of per_task and rem.                     *)
LEMMA SplitArithmetic ==
  /\ PerTask \in Nat
  /\ Rem \in 0 .. ProducerCount - 1
  /\ ElementCount = ProducerCount * PerTask + Rem
BY CountsAssumption DEF PerTask, Rem

(* The number of elements of a producer is a natural number.               *)
LEMMA TaskCountType == \A p \in Producers : TaskCount(p) \in Nat
BY SplitArithmetic DEF TaskCount

LEMMA FirstType == \A p \in 0 .. ProducerCount : First(p) \in Nat
<1>1. \A p \in 0 .. ProducerCount : p * PerTask \in Nat
  BY SplitArithmetic, CountsAssumption
<1> QED BY <1>1, SplitArithmetic, CountsAssumption DEF First

(* base += count takes the closed form from one producer to the next.      *)
LEMMA FirstStep ==
  /\ First(0) = 0
  /\ \A p \in Producers : First(p + 1) = First(p) + TaskCount(p)
  /\ First(ProducerCount) = ElementCount
<1>1. \A p \in Nat : (p + 1) * PerTask = p * PerTask + PerTask
  BY SplitArithmetic
<1>2. \A p \in Nat : p * PerTask \in Nat
  BY SplitArithmetic
<1>3. 0 * PerTask = 0
  BY SplitArithmetic
<1>4. \A p \in Producers : First(p + 1) = First(p) + TaskCount(p)
  BY <1>1, <1>2, SplitArithmetic, CountsAssumption
  DEF First, TaskCount, Producers
<1> QED BY <1>3, <1>4, SplitArithmetic, CountsAssumption DEF First

(* A later producer starts where an earlier one has ended, or after it.    *)
LEMMA SlicesOrdered ==
  \A p, q \in Producers : p < q => First(p) + TaskCount(p) =< First(q)
<1> SUFFICES ASSUME NEW p \in Producers, NEW q \in Producers, p < q
             PROVE  First(p + 1) =< First(q)
  BY FirstStep
<1>1. (p + 1) * PerTask =< q * PerTask
  <2>1. q - (p + 1) \in Nat
    BY CountsAssumption DEF Producers
  <2>2. (q - (p + 1)) * PerTask \in Nat
    BY <2>1, SplitArithmetic
  <2>3. q * PerTask = (p + 1) * PerTask + (q - (p + 1)) * PerTask
    BY SplitArithmetic, CountsAssumption DEF Producers
  <2>4. (p + 1) * PerTask \in Nat /\ q * PerTask \in Nat
    BY SplitArithmetic, CountsAssumption DEF Producers
  <2> QED BY <2>2, <2>3, <2>4
<1>2. (p + 1) * PerTask \in Nat /\ q * PerTask \in Nat
  BY SplitArithmetic, CountsAssumption DEF Producers
<1> QED BY <1>1, <1>2, SplitArithmetic, CountsAssumption DEF First, Producers

(* No element is in the slices of two producers.                           *)
THEOREM SlicesDisjoint ==
  \A p, q \in Producers : \A e \in Slice(p) \cap Slice(q) : p = q
<1> SUFFICES ASSUME NEW p \in Producers, NEW q \in Producers,
                    NEW e \in Slice(p) \cap Slice(q)
             PROVE  p = q
  OBVIOUS
<1>1. p \in Nat /\ q \in Nat
  BY CountsAssumption DEF Producers
<1>2. First(p) \in Nat /\ First(q) \in Nat
  BY FirstType, CountsAssumption DEF Producers
<1>3. TaskCount(p) \in Nat /\ TaskCount(q) \in Nat
  BY TaskCountType
<1>4. e \in Int /\ First(p) =< e /\ e < First(p) + TaskCount(p)
      /\ First(q) =< e /\ e < First(q) + TaskCount(q)
  BY <1>2, <1>3 DEF Slice
<1> QED BY <1>1, <1>2, <1>3, <1>4, SlicesOrdered

(* Every slice lies within the elements.                                   *)
THEOREM SlicesWithin == \A p \in Producers : Slice(p) \subseteq Elements
<1> SUFFICES ASSUME NEW p \in Producers
             PROVE  First(p) + TaskCount(p) =< ElementCount
  BY FirstType, TaskCountType, CountsAssumption
  DEF Slice, Elements, Producers
<1>1. CASE p = ProducerCount - 1
  BY <1>1, FirstStep, CountsAssumption DEF Producers
<1>2. CASE p # ProducerCount - 1
  <2> DEFINE last == ProducerCount - 1
  <2>1. last \in Producers /\ p < last /\ last + 1 = ProducerCount
    BY <1>2, CountsAssumption DEF Producers
  <2>2. First(p) + TaskCount(p) =< First(last)
    BY <2>1, SlicesOrdered
  <2>3. ElementCount = First(last) + TaskCount(last)
    BY <2>1, FirstStep
  <2>4. First(p) \in Nat /\ First(last) \in Nat
    BY <2>1, FirstType, CountsAssumption DEF Producers
  <2>5. TaskCount(p) \in Nat /\ TaskCount(last) \in Nat
    BY <2>1, TaskCountType
  <2> QED BY <2>2, <2>3, <2>4, <2>5
<1> QED BY <1>1, <1>2
(* Euclidean division, in the form the next theorem needs.                 *)
LEMMA Quotient ==
  \A x \in Nat, n \in Nat \ {0} :
    /\ x \div n \in Nat
    /\ (x \div n) * n =< x
    /\ x < (x \div n) * n + n
OBVIOUS

(* Every element is in the slice of some producer.                         *)
THEOREM SlicesCover == \A e \in Elements : \E p \in Producers : e \in Slice(p)
<1> SUFFICES ASSUME NEW e \in Elements
             PROVE  \E p \in Producers : e \in Slice(p)
  OBVIOUS
<1> DEFINE bound == Rem * PerTask + Rem
<1>1. e \in Nat /\ e < ElementCount
  BY CountsAssumption DEF Elements
<1>2. Rem * PerTask \in Nat /\ bound \in Nat
  BY SplitArithmetic, CountsAssumption
<1>3. CASE e < bound
  <2> DEFINE n == PerTask + 1
             p == e \div n
  <2>1. p \in Nat /\ p * n =< e /\ e < p * n + n
    BY <1>1, Quotient, SplitArithmetic
  <2>2. p * n = p * PerTask + p /\ Rem * n = bound
    BY <2>1, SplitArithmetic
  <2>3. p * PerTask \in Nat
    BY <2>1, SplitArithmetic
  <2>4. p < Rem
    <3>1. ASSUME Rem =< p PROVE FALSE
      <4>1. p - Rem \in Nat /\ Rem \in Nat
        BY <2>1, <3>1, SplitArithmetic, CountsAssumption
      <4>2. (p - Rem) * n \in Nat
        BY <4>1, SplitArithmetic
      <4>3. p * n = Rem * n + (p - Rem) * n
        BY <4>1, <2>1, SplitArithmetic
      <4> HIDE DEF n, p, bound
      <4> QED BY <1>1, <1>2, <1>3, <2>1, <2>2, <4>2, <4>3
    <3> QED BY <3>1, <2>1, SplitArithmetic, CountsAssumption
  <2>5. First(p) = p * n /\ TaskCount(p) = n /\ p \in Producers
    BY <2>1, <2>2, <2>4, SplitArithmetic, CountsAssumption
    DEF First, TaskCount, Producers
  <2>6. e \in Slice(p)
    <3> HIDE DEF p
    <3>1. p * n \in Nat /\ n \in Nat
      BY <2>1, <2>2, <2>3, SplitArithmetic
    <3> HIDE DEF n
    <3> QED BY <3>1, <1>1, <2>1, <2>5 DEF Slice
  <2> QED BY <2>5, <2>6
<1>4. CASE bound =< e
  <2> DEFINE x == e - bound
             q == x \div PerTask
             p == Rem + q
  <2>1. x \in Nat
    BY <1>1, <1>2, <1>4
  <2>2. PerTask # 0
    BY <1>1, <1>2, <1>4, SplitArithmetic, CountsAssumption
  <2>3. q \in Nat /\ q * PerTask =< x /\ x < q * PerTask + PerTask
    BY <2>1, <2>2, Quotient, SplitArithmetic
  <2>4. q * PerTask \in Nat
    BY <2>3, SplitArithmetic
  <2>5. p * PerTask = Rem * PerTask + q * PerTask
    BY <2>3, SplitArithmetic, CountsAssumption
  <2>6. p < ProducerCount
    <3>1. ASSUME ProducerCount =< p PROVE FALSE
      <4>1. p - ProducerCount \in Nat
        BY <2>3, <3>1, SplitArithmetic, CountsAssumption
      <4>2. (p - ProducerCount) * PerTask \in Nat
        BY <4>1, SplitArithmetic
      <4>3. p * PerTask =
              ProducerCount * PerTask + (p - ProducerCount) * PerTask
        BY <4>1, <2>3, SplitArithmetic, CountsAssumption
      <4>4. ProducerCount * PerTask \in Nat /\ Rem \in Nat
        BY SplitArithmetic, CountsAssumption
      <4> HIDE DEF q, p
      <4> QED
        BY <1>1, <1>2, <1>4, <2>3, <2>4, <2>5, <4>2, <4>3, <4>4,
           SplitArithmetic
    <3> QED BY <3>1, <2>3, SplitArithmetic, CountsAssumption
  <2>7. /\ First(p) = p * PerTask + Rem
        /\ TaskCount(p) = PerTask
        /\ p \in Producers
    BY <2>3, <2>6, SplitArithmetic, CountsAssumption
    DEF First, TaskCount, Producers
  <2>8. e \in Slice(p)
    <3>1. Rem \in Nat /\ PerTask \in Nat
      BY SplitArithmetic, CountsAssumption
    <3> HIDE DEF q, p
    <3> QED BY <3>1, <1>1, <1>2, <2>3, <2>4, <2>5, <2>7 DEF Slice
  <2> QED BY <2>7, <2>8
<1> QED BY <1>1, <1>2, <1>3, <1>4

-----------------------------------------------------------------------------
(* Results.                                                                *)
LEMMA PlusType == \A x, y \in Nat : Plus(x, y) \in Nat
BY CountsAssumption DEF Plus

LEMMA NoResultType == NoResult \in Result
BY DEF NoResult, Result

LEMMA TallyType ==
  ASSUME NEW r \in Result, NEW e \in Nat
  PROVE  Tally(r, e) \in Result
<1>1. r.count \in Nat /\ r.sum \in Nat
  BY DEF Result
<1>2. Plus(r.sum, e) \in Nat
  BY <1>1, PlusType
<1> QED BY <1>1, <1>2 DEF Result, Tally

LEMMA AddResultType ==
  ASSUME NEW t \in Result, NEW r \in Result
  PROVE  AddResult(t, r) \in Result
<1>1. t.count \in Nat /\ t.sum \in Nat /\ r.count \in Nat /\ r.sum \in Nat
  BY DEF Result
<1>2. Plus(t.sum, r.sum) \in Nat
  BY <1>1, PlusType
<1> QED BY <1>1, <1>2 DEF Result, AddResult

LEMMA FiniteConsumers ==
  IsFiniteSet(Consumers) /\ Cardinality(Consumers) = ConsumerCount
BY FS_Interval, CountsAssumption DEF Consumers

LEMMA FiniteElements ==
  IsFiniteSet(Elements) /\ Cardinality(Elements) = ElementCount
BY FS_Interval, CountsAssumption DEF Elements

-----------------------------------------------------------------------------
(* The queue.                                                              *)
LEMMA AppendFacts ==
  ASSUME NEW S, NEW s \in Seq(S), NEW x
  PROVE  /\ Len(Append(s, x)) = Len(s) + 1
         /\ Len(s) \in Nat
         /\ DOMAIN s = 1 .. Len(s)
         /\ DOMAIN Append(s, x) = 1 .. Len(s) + 1
         /\ \A k \in 1 .. Len(s) : Append(s, x)[k] = s[k]
         /\ Append(s, x)[Len(s) + 1] = x
         /\ Queued(Append(s, x)) = Queued(s) \cup {x}
BY DEF Queued

LEMMA TailFacts ==
  ASSUME NEW S, NEW s \in Seq(S), s # <<>>
  PROVE  /\ Len(Tail(s)) = Len(s) - 1
         /\ Len(s) \in Nat \ {0}
         /\ Tail(s) \in Seq(S)
         /\ Head(s) = s[1]
         /\ s[1] \in S
         /\ DOMAIN s = 1 .. Len(s)
         /\ DOMAIN Tail(s) = 1 .. Len(s) - 1
         /\ \A k \in 1 .. Len(s) - 1 : Tail(s)[k] = s[k+1]
         /\ Queued(s) = Queued(Tail(s)) \cup {Head(s)}
<1>1. /\ Len(Tail(s)) = Len(s) - 1
      /\ Len(s) \in Nat \ {0}
      /\ Tail(s) \in Seq(S)
      /\ Head(s) = s[1]
      /\ s[1] \in S
      /\ DOMAIN s = 1 .. Len(s)
      /\ DOMAIN Tail(s) = 1 .. Len(s) - 1
      /\ \A k \in 1 .. Len(s) - 1 : Tail(s)[k] = s[k+1]
  OBVIOUS
<1>2. Queued(s) \subseteq Queued(Tail(s)) \cup {Head(s)}
  <2> SUFFICES ASSUME NEW k \in 1 .. Len(s), k # 1
               PROVE  s[k] \in Queued(Tail(s))
    BY <1>1 DEF Queued
  <2>1. k - 1 \in 1 .. Len(s) - 1 /\ (k - 1) + 1 = k
    BY <1>1
  <2> QED BY <1>1, <2>1 DEF Queued
<1>3. Queued(Tail(s)) \subseteq Queued(s)
  <2> SUFFICES ASSUME NEW k \in 1 .. Len(s) - 1
               PROVE  s[k+1] \in Queued(s)
    BY <1>1 DEF Queued
  <2> QED BY <1>1 DEF Queued
<1>4. Head(s) \in Queued(s)
  BY <1>1 DEF Queued
<1> QED BY <1>1, <1>2, <1>3, <1>4

-----------------------------------------------------------------------------
(* Posting.                                                                *)
LEMMA PostedInSlice ==
  ASSUME NEW f \in LoopCounters, NEW p \in Producers, NEW e \in Nat,
         First(p) =< e, e < First(p) + f[p]
  PROVE  e \in Slice(p) /\ e \in Elements
<1>1. First(p) \in Nat /\ TaskCount(p) \in Nat
  BY FirstType, TaskCountType, CountsAssumption DEF Producers
<1>2. f[p] \in Nat /\ f[p] =< TaskCount(p)
  BY DEF LoopCounters
<1>3. e \in Slice(p)
  BY <1>1, <1>2 DEF Slice
<1> QED BY <1>3, SlicesWithin

(* What a producer posts next has not been posted, and then has been.      *)
LEMMA PostNext ==
  ASSUME NEW f \in LoopCounters, NEW p \in Producers, f[p] < TaskCount(p)
  PROVE  /\ First(p) + f[p] \in Elements \ Posted(f)
         /\ [f EXCEPT ![p] = @ + 1] \in LoopCounters
         /\ Posted([f EXCEPT ![p] = @ + 1]) = Posted(f) \cup {First(p) + f[p]}
<1> DEFINE g == [f EXCEPT ![p] = @ + 1]
           x == First(p) + f[p]
<1>1. First(p) \in Nat /\ TaskCount(p) \in Nat /\ f[p] \in Nat
  BY FirstType, TaskCountType, CountsAssumption DEF LoopCounters, Producers
<1>2. /\ \A q \in Producers : f[q] \in Nat
      /\ \A q \in Producers : g[q] = IF q = p THEN f[q] + 1 ELSE f[q]
  BY DEF LoopCounters
<1>3. g \in LoopCounters
  BY <1>1, <1>2 DEF LoopCounters
<1>4. g[p] = f[p] + 1 /\ x \in Nat /\ x < First(p) + g[p] /\ First(p) =< x
  BY <1>1, <1>2
<1>5. x \in Slice(p) /\ x \in Elements
  BY <1>3, <1>4, PostedInSlice
<1>6. ASSUME x \in Posted(f) PROVE FALSE
  <2>1. PICK q \in Producers : First(q) =< x /\ x < First(q) + f[q]
    BY <1>6 DEF Posted
  <2>2. x \in Slice(q)
    BY <1>4, <2>1, PostedInSlice
  <2>3. q = p
    BY <1>5, <2>2, SlicesDisjoint
  <2> QED BY <1>1, <2>1, <2>3
<1>7. Posted(g) \subseteq Posted(f) \cup {x}
  <2> SUFFICES ASSUME NEW e \in Posted(g), e # x PROVE e \in Posted(f)
    OBVIOUS
  <2>1. e \in Elements /\ e \in Nat
    BY CountsAssumption DEF Posted, Elements
  <2>2. PICK q \in Producers : First(q) =< e /\ e < First(q) + g[q]
    BY DEF Posted
  <2>3. e < First(q) + f[q]
    <3>1. CASE q = p
      BY <1>1, <1>4, <2>1, <2>2, <3>1
    <3>2. CASE q # p
      BY <1>2, <2>2, <3>2
    <3> QED BY <3>1, <3>2
  <2> QED BY <2>1, <2>2, <2>3 DEF Posted
<1>8. Posted(f) \subseteq Posted(g)
  <2> SUFFICES ASSUME NEW e \in Posted(f) PROVE e \in Posted(g)
    OBVIOUS
  <2>1. e \in Elements /\ e \in Nat
    BY CountsAssumption DEF Posted, Elements
  <2>2. PICK q \in Producers : First(q) =< e /\ e < First(q) + f[q]
    BY DEF Posted
  <2>3. First(q) \in Nat /\ f[q] \in Nat /\ g[q] \in Nat /\ f[q] =< g[q]
    BY <1>2, FirstType, CountsAssumption DEF Producers
  <2>4. e < First(q) + g[q]
    BY <2>1, <2>2, <2>3
  <2> QED BY <2>1, <2>2, <2>4 DEF Posted
<1>9. x \in Posted(g)
  BY <1>4, <1>5 DEF Posted
<1> QED BY <1>3, <1>5, <1>6, <1>7, <1>8, <1>9

(* Producers that have not begun have posted nothing; when all are done,   *)
(* everything has been posted.                                             *)
LEMMA PostedNone == Posted([p \in Producers |-> 0]) = {}
BY FirstType, CountsAssumption DEF Posted, Producers, Elements

LEMMA PostedAll ==
  ASSUME NEW f, \A p \in Producers : f[p] = TaskCount(p)
  PROVE  Posted(f) = Elements
<1> SUFFICES ASSUME NEW e \in Elements PROVE e \in Posted(f)
  BY DEF Posted
<1>1. PICK p \in Producers : e \in Slice(p)
  BY SlicesCover
<1>2. First(p) \in Nat /\ TaskCount(p) \in Nat
  BY FirstType, TaskCountType, CountsAssumption DEF Producers
<1>3. First(p) =< e /\ e < First(p) + TaskCount(p)
  BY <1>1, <1>2 DEF Slice
<1> QED BY <1>3 DEF Posted

-----------------------------------------------------------------------------
(* Placing.  The queue holds elements, and perhaps other values.           *)
LEMMA PlacedNone ==
  Placed([p \in Producers |-> 0], <<>>, [c \in Consumers |-> {}])
BY PostedNone DEF Placed, Queued

(* Posting a new element.                                                  *)
LEMMA PlacedPost ==
  ASSUME NEW S, NEW chan \in Seq(S), NEW f, NEW g, NEW got, NEW x \in Elements,
         Placed(f, chan, got), x \notin Posted(f), Posted(g) = Posted(f) \cup {x}
  PROVE  Placed(g, Append(chan, x), got)
<1> DEFINE after == Append(chan, x)
<1>1. /\ Len(chan) \in Nat
      /\ DOMAIN chan = 1 .. Len(chan)
      /\ DOMAIN after = 1 .. Len(chan) + 1
      /\ \A k \in 1 .. Len(chan) : after[k] = chan[k]
      /\ after[Len(chan) + 1] = x
      /\ Queued(after) = Queued(chan) \cup {x}
  BY AppendFacts
<1> HIDE DEF after
<1>2. ASSUME NEW k \in DOMAIN after, after[k] \in Elements
      PROVE  after[k] \in Posted(g)
  BY <1>1, <1>2 DEF Placed
<1>3. \A k \in DOMAIN chan : chan[k] # x
  BY DEF Placed
<1>4. ASSUME NEW j \in DOMAIN after, NEW k \in DOMAIN after,
             after[j] \in Elements, after[j] = after[k]
      PROVE  j = k
  BY <1>1, <1>3, <1>4 DEF Placed
<1>5. \A c \in Consumers : got[c] \subseteq Posted(g) \ Queued(after)
  BY <1>1 DEF Placed
<1>6. \A c, d \in Consumers : \A e \in got[c] \cap got[d] : c = d
  BY DEF Placed
<1>7. Posted(g) \subseteq Queued(after) \cup Received(got)
  BY <1>1 DEF Placed
<1> QED BY <1>2, <1>4, <1>5, <1>6, <1>7 DEF Placed, after

(* Appending a value that is no element.                                   *)
LEMMA PlacedAppendOther ==
  ASSUME NEW S, NEW chan \in Seq(S), NEW f, NEW got, NEW x, x \notin Elements,
         Placed(f, chan, got)
  PROVE  Placed(f, Append(chan, x), got)
<1> DEFINE after == Append(chan, x)
<1>1. /\ Len(chan) \in Nat
      /\ DOMAIN chan = 1 .. Len(chan)
      /\ DOMAIN after = 1 .. Len(chan) + 1
      /\ \A k \in 1 .. Len(chan) : after[k] = chan[k]
      /\ after[Len(chan) + 1] = x
      /\ Queued(after) = Queued(chan) \cup {x}
  BY AppendFacts
<1> HIDE DEF after
<1>2. \A k \in DOMAIN after : after[k] \in Elements => after[k] \in Posted(f)
  BY <1>1 DEF Placed
<1>3. \A j, k \in DOMAIN after :
        after[j] \in Elements /\ after[j] = after[k] => j = k
  BY <1>1 DEF Placed
<1>4. \A c \in Consumers : got[c] \subseteq Posted(f) \ Queued(after)
  BY <1>1 DEF Placed, Posted
<1>5. Posted(f) \subseteq Queued(after) \cup Received(got)
  BY <1>1 DEF Placed
<1>6. \A c, d \in Consumers : \A e \in got[c] \cap got[d] : c = d
  BY DEF Placed
<1> QED BY <1>2, <1>3, <1>4, <1>5, <1>6 DEF Placed, after

(* Taking an element: no consumer had it, and now one has.                 *)
LEMMA PlacedTake ==
  ASSUME NEW S, NEW chan \in Seq(S), chan # <<>>, NEW f, NEW c \in Consumers,
         NEW got \in [Consumers -> SUBSET Elements],
         Placed(f, chan, got), Head(chan) \in Elements
  PROVE  /\ Head(chan) \notin Received(got)
         /\ Placed(f, Tail(chan), [got EXCEPT ![c] = @ \cup {Head(chan)}])
         /\ Received([got EXCEPT ![c] = @ \cup {Head(chan)}])
              = Received(got) \cup {Head(chan)}
<1> DEFINE x == Head(chan)
           after == Tail(chan)
           have == [got EXCEPT ![c] = @ \cup {x}]
<1>1. /\ Len(chan) \in Nat \ {0}
      /\ x = chan[1]
      /\ DOMAIN chan = 1 .. Len(chan)
      /\ DOMAIN after = 1 .. Len(chan) - 1
      /\ \A k \in 1 .. Len(chan) - 1 : after[k] = chan[k+1]
      /\ Queued(chan) = Queued(after) \cup {x}
  BY TailFacts
<1>2. \A d \in Consumers : have[d] = IF d = c THEN got[d] \cup {x} ELSE got[d]
  OBVIOUS
<1>3. x \in Elements /\ x \in Posted(f)
  BY <1>1 DEF Placed
<1>4. \A d \in Consumers : x \notin got[d]
  BY <1>1 DEF Placed
<1>5. Received(have) = Received(got) \cup {x}
  BY <1>2 DEF Received
<1> HIDE DEF after, have, x
<1>6. \A k \in DOMAIN after : after[k] # x
  <2> SUFFICES ASSUME NEW k \in DOMAIN after, after[k] = x PROVE FALSE
    OBVIOUS
  <2>1. k + 1 \in DOMAIN chan /\ chan[k+1] = x /\ k + 1 # 1 /\ 1 \in DOMAIN chan
    BY <1>1
  <2> QED BY <1>1, <1>3, <2>1 DEF Placed
<1>7. x \notin Queued(after)
  BY <1>6 DEF Queued
<1>8. \A k \in DOMAIN after : after[k] \in Elements => after[k] \in Posted(f)
  BY <1>1 DEF Placed
<1>9. \A j, k \in DOMAIN after :
        after[j] \in Elements /\ after[j] = after[k] => j = k
  <2> SUFFICES ASSUME NEW j \in DOMAIN after, NEW k \in DOMAIN after,
                      after[j] \in Elements, after[j] = after[k]
               PROVE  j = k
    OBVIOUS
  <2>1. /\ j + 1 \in DOMAIN chan /\ k + 1 \in DOMAIN chan
        /\ chan[j+1] \in Elements /\ chan[j+1] = chan[k+1]
    BY <1>1
  <2>2. j + 1 = k + 1
    BY <2>1 DEF Placed
  <2> QED BY <1>1, <2>2
<1>10. ASSUME NEW d \in Consumers
       PROVE  have[d] \subseteq Posted(f) \ Queued(after)
  <2>1. got[d] \subseteq Posted(f) \ Queued(after)
    BY <1>1 DEF Placed
  <2>2. have[d] \subseteq got[d] \cup {x}
    BY <1>2
  <2> QED BY <1>3, <1>7, <2>1, <2>2
<1>11. ASSUME NEW a \in Consumers, NEW b \in Consumers, NEW e \in have[a] \cap have[b]
       PROVE  a = b
  <2>1. have[a] = (IF a = c THEN got[a] \cup {x} ELSE got[a])
        /\ have[b] = (IF b = c THEN got[b] \cup {x} ELSE got[b])
    BY <1>2
  <2>2. e \in got[a] \cap got[b] => a = b
    BY DEF Placed
  <2>3. x \notin got[a] /\ x \notin got[b]
    BY <1>4
  <2> QED BY <2>1, <2>2, <2>3
<1>12. Posted(f) \subseteq Queued(after) \cup Received(have)
  BY <1>1, <1>5 DEF Placed
<1>13. x \notin Received(got)
  BY <1>4 DEF Received
<1> QED
  BY <1>5, <1>8, <1>9, <1>10, <1>11, <1>12, <1>13 DEF Placed, after, have, x

(* Taking a value that is no element.                                      *)
LEMMA PlacedDropOther ==
  ASSUME NEW S, NEW chan \in Seq(S), chan # <<>>, NEW f, NEW got,
         Placed(f, chan, got), Head(chan) \notin Elements
  PROVE  Placed(f, Tail(chan), got)
<1> DEFINE after == Tail(chan)
<1>1. /\ Len(chan) \in Nat \ {0}
      /\ DOMAIN chan = 1 .. Len(chan)
      /\ DOMAIN after = 1 .. Len(chan) - 1
      /\ \A k \in 1 .. Len(chan) - 1 : after[k] = chan[k+1]
      /\ Queued(chan) = Queued(after) \cup {Head(chan)}
  BY TailFacts
<1> HIDE DEF after
<1>2. \A k \in DOMAIN after : after[k] \in Elements => after[k] \in Posted(f)
  BY <1>1 DEF Placed
<1>3. \A j, k \in DOMAIN after :
        after[j] \in Elements /\ after[j] = after[k] => j = k
  <2> SUFFICES ASSUME NEW j \in DOMAIN after, NEW k \in DOMAIN after,
                      after[j] \in Elements, after[j] = after[k]
               PROVE  j = k
    OBVIOUS
  <2>1. /\ j + 1 \in DOMAIN chan /\ k + 1 \in DOMAIN chan
        /\ chan[j+1] \in Elements /\ chan[j+1] = chan[k+1]
    BY <1>1
  <2>2. j + 1 = k + 1
    BY <2>1 DEF Placed
  <2> QED BY <1>1, <2>2
<1>4. \A c \in Consumers : got[c] \subseteq Posted(f) \ Queued(after)
  BY <1>1 DEF Placed
<1>5. Posted(f) \subseteq Queued(after) \cup Received(got)
  BY <1>1 DEF Placed, Posted
<1>6. \A c, d \in Consumers : \A e \in got[c] \cap got[d] : c = d
  BY DEF Placed
<1> QED BY <1>2, <1>3, <1>4, <1>5, <1>6 DEF Placed, after

(* With everything posted and no element left in the queue, the consumers  *)
(* have all elements.                                                      *)
LEMMA AllReceived ==
  ASSUME NEW f, NEW chan, NEW got \in [Consumers -> SUBSET Elements],
         Placed(f, chan, got), Posted(f) = Elements,
         \A k \in DOMAIN chan : chan[k] \notin Elements
  PROVE  Received(got) = Elements
BY DEF Placed, Queued, Received

-----------------------------------------------------------------------------
(* Induction over the natural numbers.                                     *)
LEMMA MinimalSubset ==
  ASSUME NEW S, NEW T, T # {}, T \subseteq FiniteSubsetsOf(S)
  PROVE  \E U \in T : \A V \in T : V \subseteq U => V = U
<1>1. IsWellFoundedOn(StrictSubsetOrdering(S), FiniteSubsetsOf(S))
  BY FS_StrictSubsetOrderingWellFounded
<1>2. PICK U \in T : \A V \in T : ~ (<<V, U>> \in StrictSubsetOrdering(S))
  BY <1>1, WFMin
<1> QED BY <1>2 DEF StrictSubsetOrdering, FiniteSubsetsOf

LEMMA Least ==
  ASSUME NEW T, T \subseteq Nat, T # {}
  PROVE  \E n \in T : \A m \in T : n =< m
<1> DEFINE Up == {0 .. n : n \in T}
<1>1. Up \subseteq FiniteSubsetsOf(Nat)
  <2>1. \A n \in T : IsFiniteSet(0 .. n)
    BY FS_Interval
  <2> QED BY <2>1 DEF FiniteSubsetsOf
<1>2. Up # {}
  OBVIOUS
<1>3. PICK U \in Up : \A V \in Up : V \subseteq U => V = U
  <2> HIDE DEF Up
  <2> QED BY <1>1, <1>2, MinimalSubset
<1>4. PICK n \in T : U = 0 .. n
  OBVIOUS
<1>5. ASSUME NEW m \in T, ~ (n =< m) PROVE FALSE
  <2>1. 0 .. m \subseteq U /\ 0 .. m \in Up /\ n \in 0 .. n /\ n \notin 0 .. m
    BY <1>4, <1>5
  <2> QED BY <1>3, <1>4, <2>1
<1> QED BY <1>5

-----------------------------------------------------------------------------
(* Summing.                                                                *)
LEMMA Remainder ==
  ASSUME NEW a \in Nat, NEW b \in Nat, NEW m \in Nat \ {0}
  PROVE  ((a % m) + b) % m = (a + b) % m
<1> DEFINE q == a \div m
           r == a % m
           p == (r + b) \div m
           s == (r + b) % m
           t == (a + b) \div m
           u == (a + b) % m
<1>1. /\ q \in Nat /\ r \in 0 .. m-1 /\ a = m * q + r
      /\ p \in Nat /\ s \in 0 .. m-1 /\ r + b = m * p + s
      /\ t \in Nat /\ u \in 0 .. m-1 /\ a + b = m * t + u
  OBVIOUS
<1>2. m * (q + p) = m * q + m * p
  BY <1>1
<1>3. m * (q + p) + s = m * t + u
  BY <1>1, <1>2
<1> HIDE DEF q, r, p, s, t, u
<1>4. q + p = t
  <2>1. ASSUME NEW x \in Nat, NEW y \in Nat, x < y PROVE m * x + m =< m * y
    <3>1. y - x - 1 \in Nat /\ m * y = m * x + m + m * (y - x - 1)
      BY <2>1
    <3>2. m * (y - x - 1) \in Nat /\ m * x \in Nat /\ m * y \in Nat
      BY <3>1
    <3> QED BY <3>1, <3>2
  <2>2. m * (q + p) \in Nat /\ m * t \in Nat
    BY <1>1
  <2>3. ~ (q + p < t)
    BY <1>1, <1>3, <2>1, <2>2
  <2>4. ~ (t < q + p)
    BY <1>1, <1>3, <2>1, <2>2
  <2> QED BY <1>1, <2>3, <2>4
<1>5. s = u
  BY <1>1, <1>3, <1>4
<1> QED BY <1>5 DEF s, u, r

LEMMA WrappedPlus ==
  ASSUME NEW a \in Nat, NEW b \in Nat
  PROVE  /\ Wrapped(a) \in Nat
         /\ Plus(Wrapped(a), b) = Wrapped(a + b)
         /\ Plus(Wrapped(a), Wrapped(b)) = Wrapped(a + b)
<1>1. SizeMax + 1 \in Nat \ {0}
  BY CountsAssumption
<1>2. Wrapped(a) \in Nat /\ Wrapped(b) \in Nat
  BY <1>1 DEF Wrapped
<1>3. Plus(Wrapped(a), b) = Wrapped(a + b)
  BY <1>1, Remainder DEF Wrapped, Plus
<1>4. Plus(Wrapped(b), Wrapped(a)) = Plus(Wrapped(a), Wrapped(b))
  BY <1>2 DEF Plus
<1>5. Plus(Wrapped(b), Wrapped(a)) = Wrapped(b + Wrapped(a))
  BY <1>1, <1>2, Remainder DEF Wrapped, Plus
<1>6. Wrapped(b + Wrapped(a)) = Plus(Wrapped(a), b)
  BY <1>2 DEF Wrapped, Plus
<1> QED BY <1>2, <1>3, <1>4, <1>5, <1>6

LEMMA SumOfType ==
  ASSUME NEW S \in SUBSET Elements
  PROVE  /\ IsFiniteSet({p \in S \X Elements : p[2] < p[1]})
         /\ SumOf(S) \in Nat
<1>1. IsFiniteSet(S) /\ IsFiniteSet(Elements)
  BY FiniteElements, FS_Subset
<1>2. IsFiniteSet(S \X Elements)
  BY <1>1, FS_Product
<1>3. {p \in S \X Elements : p[2] < p[1]} \in SUBSET (S \X Elements)
  OBVIOUS
<1>4. IsFiniteSet({p \in S \X Elements : p[2] < p[1]})
  BY <1>2, <1>3, FS_Subset
<1> QED BY <1>4, FS_CardinalityType DEF SumOf

LEMMA SumOfUnion ==
  ASSUME NEW S \in SUBSET Elements, NEW T \in SUBSET Elements, S \cap T = {}
  PROVE  SumOf(S \cup T) = SumOf(S) + SumOf(T)
<1> DEFINE P(U) == {p \in U \X Elements : p[2] < p[1]}
<1>1. P(S \cup T) = P(S) \cup P(T) /\ P(S) \cap P(T) = {}
  OBVIOUS
<1>2. IsFiniteSet(P(S)) /\ IsFiniteSet(P(T))
  BY SumOfType
<1>3. Cardinality(P(S)) \in Nat /\ Cardinality(P(T)) \in Nat
  BY <1>2, FS_CardinalityType
<1>4. /\ Cardinality(P(S) \cup P(T)) = Cardinality(P(S)) + Cardinality(P(T)) - Cardinality(P(S) \cap P(T))
      /\ Cardinality({}) = 0
  <2> HIDE DEF P
  <2> QED BY <1>2, FS_Union, FS_EmptySet
<1>5. SumOf(S \cup T) = Cardinality(P(S) \cup P(T)) /\ Cardinality(P(S) \cap P(T)) = 0
  BY <1>1, <1>4 DEF SumOf
<1>6. SumOf(S) = Cardinality(P(S)) /\ SumOf(T) = Cardinality(P(T))
  BY DEF SumOf
<1> HIDE DEF P
<1> QED BY <1>3, <1>4, <1>5, <1>6

LEMMA SumOfOne ==
  /\ SumOf({}) = 0
  /\ \A e \in Elements : SumOf({e}) = e
<1>1. SumOf({}) = 0
  <2>1. {p \in {} \X Elements : p[2] < p[1]} = {}
    OBVIOUS
  <2> QED BY <2>1, FS_EmptySet DEF SumOf
<1>2. ASSUME NEW e \in Elements PROVE SumOf({e}) = e
  <2>1. e \in Nat /\ {p \in {e} \X Elements : p[2] < p[1]} = {e} \X (0 .. e-1)
    BY CountsAssumption DEF Elements
  <2>2. IsFiniteSet({e}) /\ Cardinality({e}) = 1
    BY FS_Singleton
  <2>3. IsFiniteSet(0 .. e-1) /\ Cardinality(0 .. e-1) = e
    BY <2>1, FS_Interval
  <2>4. Cardinality({e} \X (0 .. e-1)) = Cardinality({e}) * Cardinality(0 .. e-1)
    BY <2>2, <2>3, FS_Product
  <2>5. Cardinality({e} \X (0 .. e-1)) = e
    BY <2>1, <2>2, <2>3, <2>4
  <2> QED BY <2>1, <2>5 DEF SumOf
<1> QED BY <1>1, <1>2

LEMMA ExpectedSumIs == ExpectedSum = Wrapped(SumOf(Elements))
<1> DEFINE Turn(g) ==
      [n \in 0 .. ElementCount |-> IF n = 0 THEN 0 ELSE Plus(g[n-1], n-1)]
    w == [n \in 0 .. ElementCount |-> Wrapped(SumOf(0 .. n-1))]
<1>1. w[0] = 0
  <2>1. 0 .. 0-1 = {} /\ 0 \in 0 .. ElementCount
    BY CountsAssumption
  <2>2. SumOf(0 .. 0-1) = 0
    BY <2>1, SumOfOne
  <2> QED BY <2>1, <2>2, CountsAssumption DEF Wrapped
<1>2. ASSUME NEW n \in 0 .. ElementCount, n # 0
      PROVE  w[n] = Plus(w[n-1], n-1)
  <2>1. /\ n-1 \in Elements /\ n-1 \in Nat /\ n-1 \in 0 .. ElementCount
        /\ 0 .. n-1 = (0 .. (n-1)-1) \cup {n-1}
        /\ (0 .. (n-1)-1) \cap {n-1} = {}
        /\ 0 .. (n-1)-1 \subseteq Elements
    BY <1>2, CountsAssumption DEF Elements
  <2>2. SumOf(0 .. n-1) = SumOf(0 .. (n-1)-1) + (n-1) /\ SumOf(0 .. (n-1)-1) \in Nat
    <3> DEFINE Below == 0 .. (n-1)-1
               Last  == {n-1}
    <3>1. /\ Below \in SUBSET Elements /\ Last \in SUBSET Elements
          /\ Below \cap Last = {} /\ 0 .. n-1 = Below \cup Last
      BY <2>1
    <3>2. SumOf(Last) = n-1
      BY <2>1, SumOfOne
    <3> HIDE DEF Below
    <3>3. SumOf(Below \cup Last) = SumOf(Below) + SumOf(Last) /\ SumOf(Below) \in Nat
      <4> HIDE DEF Last
      <4> QED BY <3>1, SumOfUnion, SumOfType
    <3>4. SumOf(0 .. n-1) = SumOf(Below) + (n-1)
      BY <3>1, <3>2, <3>3
    <3> QED BY <3>3, <3>4 DEF Below
  <2>3. Plus(Wrapped(SumOf(0 .. (n-1)-1)), n-1) = Wrapped(SumOf(0 .. n-1))
    BY <2>1, <2>2, WrappedPlus
  <2> QED BY <2>1, <2>3
<1>3. w = Turn(w)
  <2>1. \A n \in 0 .. ElementCount : w[n] = Turn(w)[n]
    BY <1>1, <1>2
  <2> QED BY <2>1
<1> HIDE DEF w
<1>4. PICK g : g = Turn(g) /\ ExpectedSum = g[ElementCount]
  BY <1>3 DEF ExpectedSum
<1>5. \A n \in 0 .. ElementCount : g[n] = w[n]
  <2> DEFINE Bad == {n \in 0 .. ElementCount : g[n] # w[n]}
  <2>1. SUFFICES ASSUME Bad # {} PROVE FALSE
    OBVIOUS
  <2>2. PICK n \in Bad : \A m \in Bad : n =< m
    <3>1. Bad \subseteq Nat
      OBVIOUS
    <3> HIDE DEF Bad
    <3> QED BY <2>1, <3>1, Least
  <2>3. n # 0
    BY <1>1, <1>4, CountsAssumption
  <2>4. n-1 \in 0 .. ElementCount /\ g[n-1] = w[n-1]
    BY <2>2, <2>3, CountsAssumption
  <2>5. g[n] = Plus(g[n-1], n-1)
    BY <1>4, <2>3
  <2> QED BY <1>2, <2>3, <2>4, <2>5
<1>6. ExpectedSum = Wrapped(SumOf(0 .. ElementCount-1))
  BY <1>4, <1>5, CountsAssumption DEF w
<1> QED BY <1>6 DEF Elements

-----------------------------------------------------------------------------
(* The tally of a set of elements.                                         *)
LEMMA TallyOfType ==
  ASSUME NEW S \in SUBSET Elements
  PROVE  /\ IsFiniteSet(S) /\ Cardinality(S) \in Nat
         /\ SumOf(S) \in Nat
         /\ TallyOf(S) \in Result
<1>1. IsFiniteSet(S) /\ Cardinality(S) \in Nat
  BY FiniteElements, FS_Subset, FS_CardinalityType
<1>2. SumOf(S) \in Nat
  BY SumOfType
<1> QED BY <1>1, <1>2, WrappedPlus DEF TallyOf, Result

LEMMA TallyOfNone == TallyOf({}) = NoResult
<1>1. Wrapped(0) = 0
  BY CountsAssumption DEF Wrapped
<1> QED BY <1>1, SumOfOne, FS_EmptySet DEF TallyOf, NoResult

LEMMA AddResultNone == AddResult(NoResult, NoResult) = NoResult
BY CountsAssumption DEF AddResult, NoResult, Plus

(* One turn of a consumer's loop.                                          *)
LEMMA TallyOfTake ==
  ASSUME NEW S \in SUBSET Elements, NEW e \in Elements, e \notin S
  PROVE  Tally(TallyOf(S), e) = TallyOf(S \cup {e})
<1>1. /\ IsFiniteSet(S) /\ Cardinality(S) \in Nat /\ SumOf(S) \in Nat
      /\ e \in Nat /\ {e} \in SUBSET Elements /\ S \cap {e} = {}
  BY TallyOfType DEF Elements
<1>2. Cardinality(S \cup {e}) = Cardinality(S) + 1
  BY <1>1, FS_AddElement
<1>3. SumOf(S \cup {e}) = SumOf(S) + SumOf({e}) /\ SumOf({e}) = e
  BY <1>1, SumOfUnion, SumOfOne
<1>4. Plus(Wrapped(SumOf(S)), e) = Wrapped(SumOf(S \cup {e}))
  BY <1>1, <1>3, WrappedPlus
<1> QED BY <1>2, <1>4 DEF Tally, TallyOf

(* One turn of the loop over the results.                                  *)
LEMMA TallyOfAdd ==
  ASSUME NEW S \in SUBSET Elements, NEW T \in SUBSET Elements, S \cap T = {}
  PROVE  AddResult(TallyOf(S), TallyOf(T)) = TallyOf(S \cup T)
<1>1. /\ IsFiniteSet(S) /\ Cardinality(S) \in Nat /\ SumOf(S) \in Nat
      /\ IsFiniteSet(T) /\ Cardinality(T) \in Nat /\ SumOf(T) \in Nat
  BY TallyOfType
<1>2. Cardinality(S \cup T) = Cardinality(S) + Cardinality(T) - Cardinality(S \cap T)
  BY <1>1, FS_Union
<1>3. Cardinality(S \cup T) = Cardinality(S) + Cardinality(T)
  BY <1>1, <1>2, FS_EmptySet
<1>4. SumOf(S \cup T) = SumOf(S) + SumOf(T)
  BY SumOfUnion
<1>5. Plus(Wrapped(SumOf(S)), Wrapped(SumOf(T))) = Wrapped(SumOf(S \cup T))
  BY <1>1, <1>4, WrappedPlus
<1> QED BY <1>3, <1>5 DEF AddResult, TallyOf

(* The comparisons at the end of do_bench() accept the tally of all        *)
(* elements, whatever the width of size_t.                                 *)
LEMMA TallyOfAll == Passes(TallyOf(Elements))
BY FiniteElements, ExpectedSumIs DEF Passes, TallyOf

LEMMA TalliedTake ==
  ASSUME NEW result \in [Consumers -> Result], NEW c \in Consumers,
         NEW got \in [Consumers -> SUBSET Elements], NEW e \in Elements,
         Tallied(result, got), e \notin Received(got)
  PROVE  /\ [result EXCEPT ![c] = Tally(@, e)] \in [Consumers -> Result]
         /\ Tallied([result EXCEPT ![c] = Tally(@, e)],
                    [got EXCEPT ![c] = @ \cup {e}])
<1>1. e \in Nat
  BY CountsAssumption DEF Elements
<1>2. Tally(result[c], e) \in Result
  BY <1>1, TallyType
<1>3. Tally(result[c], e) = TallyOf(got[c] \cup {e})
  BY TallyOfTake DEF Tallied, Received
<1> QED BY <1>2, <1>3 DEF Tallied

(* The loop over the results sees disjoint sets of elements.               *)
LEMMA ReceivedBeforeStep ==
  ASSUME NEW got \in [Consumers -> SUBSET Elements], NEW n \in Consumers,
         \A c, d \in Consumers : \A e \in got[c] \cap got[d] : c = d
  PROVE  AddResult(TallyOf(ReceivedBefore(n, got)), TallyOf(got[n]))
           = TallyOf(ReceivedBefore(n + 1, got))
<1>1. n \in Nat /\ 0 .. (n + 1) - 1 = (0 .. n - 1) \cup {n} /\ n \notin 0 .. n - 1
      /\ 0 .. n - 1 \subseteq Consumers
  BY CountsAssumption DEF Consumers
<1>2. ReceivedBefore(n + 1, got) = ReceivedBefore(n, got) \cup got[n]
  BY <1>1 DEF ReceivedBefore
<1>3. ReceivedBefore(n, got) \cap got[n] = {}
  BY <1>1 DEF ReceivedBefore
<1>4. ReceivedBefore(n, got) \subseteq Elements /\ got[n] \subseteq Elements
  BY <1>1 DEF ReceivedBefore
<1> QED BY <1>2, <1>3, <1>4, TallyOfAdd

LEMMA ReceivedBeforeEnds ==
  ASSUME NEW got
  PROVE  /\ TallyOf(ReceivedBefore(0, got)) = NoResult
         /\ ReceivedBefore(ConsumerCount, got) = Received(got)
<1>1. ReceivedBefore(0, got) = {}
  BY DEF ReceivedBefore
<1> QED BY <1>1, TallyOfNone DEF ReceivedBefore, Received, Consumers

(* Every element has one holder when the elements are placed.              *)
LEMMA HoldersOne ==
  ASSUME NEW S, NEW chan \in Seq(S), NEW f \in LoopCounters,
         NEW got \in [Consumers -> SUBSET Elements],
         Placed(f, chan, got), NEW e \in Elements
  PROVE  Cardinality(Holders(e,
           [p \in Producers |-> [first |-> First(p), count |-> TaskCount(p)]],
           f, chan, got)) = 1
<1> DEFINE slice == [p \in Producers |-> [first |-> First(p), count |-> TaskCount(p)]]
           Left(q) == slice[q].first + f[q] .. slice[q].first + slice[q].count - 1
           H == Holders(e, slice, f, chan, got)
<1>1. e \in Nat
  BY CountsAssumption DEF Elements
<1>2. ASSUME NEW p \in Producers
      PROVE  /\ First(p) \in Nat /\ TaskCount(p) \in Nat /\ f[p] \in Nat
             /\ f[p] =< TaskCount(p)
             /\ e \in Left(p) <=>
                  First(p) + f[p] =< e /\ e < First(p) + TaskCount(p)
             /\ e \in Slice(p) <=>
                  First(p) =< e /\ e < First(p) + TaskCount(p)
  <2>1. First(p) \in Nat /\ TaskCount(p) \in Nat /\ f[p] \in Nat
        /\ f[p] =< TaskCount(p)
    BY FirstType, TaskCountType, CountsAssumption DEF LoopCounters, Producers
  <2>2. slice[p].first = First(p) /\ slice[p].count = TaskCount(p)
    OBVIOUS
  <2> QED BY <1>1, <2>1, <2>2 DEF Slice
<1>3. \A p, q \in Producers : e \in Left(p) /\ e \in Slice(q) => p = q
  <2> SUFFICES ASSUME NEW p \in Producers, NEW q \in Producers,
                      e \in Left(p), e \in Slice(q)
               PROVE  p = q
    OBVIOUS
  <2>1. e \in Slice(p)
    <3>1. /\ First(p) \in Nat /\ f[p] \in Nat
          /\ First(p) + f[p] =< e /\ e < First(p) + TaskCount(p)
      BY <1>2
    <3>2. First(p) =< e
      BY <1>1, <3>1
    <3> QED BY <1>2, <3>1, <3>2
  <2> QED BY <2>1, SlicesDisjoint
<1>4. e \in Posted(f) <=> \A p \in Producers : e \notin Left(p)
  <2>1. PICK o \in Producers : e \in Slice(o)
    BY SlicesCover
  <2>2. ASSUME e \in Posted(f), NEW p \in Producers, e \in Left(p) PROVE FALSE
    <3>1. PICK q \in Producers : First(q) =< e /\ e < First(q) + f[q]
      BY <2>2 DEF Posted
    <3>2. e \in Slice(q)
      BY <1>1, <3>1, PostedInSlice
    <3>3. q = p
      BY <1>3, <2>2, <3>2
    <3>4. First(p) \in Nat /\ f[p] \in Nat /\ First(p) + f[p] =< e
      BY <1>2, <2>2
    <3> QED BY <1>1, <3>1, <3>3, <3>4
  <2>3. ASSUME e \notin Left(o) PROVE e \in Posted(f)
    <3>1. /\ First(o) \in Nat /\ TaskCount(o) \in Nat /\ f[o] \in Nat
          /\ First(o) =< e /\ e < First(o) + TaskCount(o)
          /\ ~ (First(o) + f[o] =< e /\ e < First(o) + TaskCount(o))
      BY <1>2, <2>1, <2>3
    <3>2. e < First(o) + f[o]
      BY <1>1, <3>1
    <3> QED BY <3>1, <3>2 DEF Posted
  <2> QED BY <2>2, <2>3
<1> HIDE DEF Left
<1>5. H = {<<"producer", p>> : p \in {q \in Producers : e \in Left(q)}}
            \cup {<<"queue", k>> : k \in {j \in DOMAIN chan : chan[j] = e}}
            \cup {<<"consumer", c>> : c \in {d \in Consumers : e \in got[d]}}
  BY DEF Holders, Left
<1>6. CASE e \notin Posted(f)
  <2>1. PICK p \in Producers : e \in Left(p)
    BY <1>4, <1>6
  <2>2. \A q \in Producers : e \in Left(q) => q = p
    <3>1. e \in Slice(p)
      <4>1. /\ First(p) \in Nat /\ f[p] \in Nat
            /\ First(p) + f[p] =< e /\ e < First(p) + TaskCount(p)
        BY <1>2, <2>1
      <4>2. First(p) =< e
        BY <1>1, <4>1
      <4> QED BY <1>2, <4>1, <4>2
    <3> QED BY <1>3, <3>1
  <2>3. \A k \in DOMAIN chan : chan[k] # e
    BY <1>6 DEF Placed
  <2>4. \A c \in Consumers : e \notin got[c]
    BY <1>6 DEF Placed
  <2>5. H = {<<"producer", p>>}
    BY <1>5, <2>1, <2>2, <2>3, <2>4
  <2> QED BY <2>5, FS_Singleton
<1>7. CASE e \in Queued(chan)
  <2>1. PICK k \in DOMAIN chan : chan[k] = e
    BY <1>7 DEF Queued
  <2>2. \A j \in DOMAIN chan : chan[j] = e => j = k
    BY <2>1 DEF Placed
  <2>3. e \in Posted(f) /\ \A c \in Consumers : e \notin got[c]
    BY <1>7, <2>1 DEF Placed
  <2>4. \A p \in Producers : e \notin Left(p)
    BY <1>4, <2>3
  <2>5. H = {<<"queue", k>>}
    BY <1>5, <2>1, <2>2, <2>3, <2>4
  <2> QED BY <2>5, FS_Singleton
<1>8. CASE e \in Posted(f) /\ e \notin Queued(chan)
  <2>1. PICK c \in Consumers : e \in got[c]
    BY <1>8 DEF Placed, Received
  <2>2. \A d \in Consumers : e \in got[d] => d = c
    BY <2>1 DEF Placed
  <2>3. \A k \in DOMAIN chan : chan[k] # e
    BY <1>8 DEF Queued
  <2>4. \A p \in Producers : e \notin Left(p)
    BY <1>4, <1>8
  <2>5. H = {<<"consumer", c>>}
    BY <1>5, <2>1, <2>2, <2>3, <2>4
  <2> QED BY <2>5, FS_Singleton
<1> QED BY <1>6, <1>7, <1>8
=============================================================================

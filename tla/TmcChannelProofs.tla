-------------------------- MODULE TmcChannelProofs --------------------------
(***************************************************************************)
(* TmcChannel is correct for every number of elements, of producers and of *)
(* consumers.  One lemma per action, one step per conjunct of the          *)
(* invariant that the action can disturb.  The second part does the same   *)
(* for CobaltChannel, which it has as the instance Cobalt.                 *)
(***************************************************************************)
EXTENDS TmcChannel, ChannelBenchProofs

USE DEF NoFailure

LEMMA SlicedFacts ==
  ASSUME TypeOK, SetupInv, main # "create"
  PROVE  slice = [p \in Producers |-> [first |-> First(p), count |-> TaskCount(p)]]
<1>1. \A p \in Producers : slice[p] = [first |-> First(p), count |-> TaskCount(p)]
  BY CountsAssumption DEF SetupInv, Sliced, Producers
<1> QED BY <1>1 DEF TypeOK

LEMMA InitInv == Init => IInv
<1> SUFFICES ASSUME Init PROVE IInv
  OBVIOUS
<1> USE DEF Init
<1>1. TypeOK
  <2>1. closed \in BOOLEAN
    BY Zenon
  <2> QED BY <2>1, NoResultType DEF TypeOK
<1>2. SetupInv
  BY FirstStep, TaskCountType, CountsAssumption
  DEF SetupInv, Sliced, LoopCounters, Producers
<1>3. ElementInv
  BY PlacedNone, TallyOfNone DEF ElementInv, Tallied
<1>4. CloseInv /\ CheckInv
  BY DEF CloseInv, CheckInv
<1> QED BY <1>1, <1>2, <1>3, <1>4 DEF IInv

-----------------------------------------------------------------------------
(* do_bench() before it waits for the producers.                           *)
LEMMA CreateProducerInv == IInv /\ CreateProducer => IInv'
<1> SUFFICES ASSUME IInv, CreateProducer PROVE IInv'
  OBVIOUS
<1> USE DEF CreateProducer, consVars, checkVars
<1>1. i \in Producers /\ i + 1 =< ProducerCount
  BY CountsAssumption DEF IInv, TypeOK, Producers
<1>2. /\ TaskCount(i) \in Nat /\ base = First(i) /\ base \in Nat
      /\ NextBase = First(i + 1) /\ First(i + 1) \in Nat
  BY <1>1, TaskCountType, FirstStep, FirstType, CountsAssumption
  DEF IInv, TypeOK, SetupInv, NextBase, Producers
<1>3. TypeOK'
  BY <1>1, <1>2 DEF IInv, TypeOK
<1>4. SetupInv'
  <2>1. Sliced(i, slice) /\ slice \in [Producers -> [first : Nat, count : Nat]]
    BY DEF IInv, TypeOK, SetupInv
  <2>2. ASSUME NEW p \in Producers, p < i + 1
        PROVE  slice'[p] = [first |-> First(p), count |-> TaskCount(p)]
    <3>1. CASE p = i
      BY <1>2, <2>1, <3>1
    <3>2. CASE p < i
      BY <2>1, <3>2, CountsAssumption DEF Sliced, Producers
    <3> QED BY <1>1, <2>2, <3>1, <3>2, CountsAssumption DEF Producers
  <2>3. Sliced(i + 1, slice')
    BY <2>2 DEF Sliced
  <2> QED BY <1>1, <1>2, <2>3 DEF IInv, SetupInv
<1>5. ElementInv' /\ CheckInv'
  BY DEF IInv, ElementInv, CheckInv
<1>6. CloseInv'
  BY DEF IInv, CloseInv, Empty
<1> QED BY <1>3, <1>4, <1>5, <1>6 DEF IInv

(* The two steps that start coroutines.                                    *)
LEMMA ForkInv == IInv /\ (ForkConsumers \/ SpawnProducers) => IInv'
<1> SUFFICES ASSUME IInv, ForkConsumers \/ SpawnProducers PROVE IInv'
  OBVIOUS
<1> USE DEF ForkConsumers, SpawnProducers, setupVars, consVars, checkVars
<1>1. TypeOK'
  BY DEF IInv, TypeOK
<1>2. SetupInv'
  BY DEF IInv, SetupInv
<1>3. ElementInv' /\ CheckInv'
  BY DEF IInv, ElementInv, CheckInv
<1>4. CloseInv'
  BY DEF IInv, CloseInv, Empty
<1> QED BY <1>1, <1>2, <1>3, <1>4 DEF IInv

-----------------------------------------------------------------------------
(* A producer that still has to post finds the channel open.               *)
LEMMA OpenForPost ==
  ASSUME IInv, NEW p \in Producers, posted[p] < slice[p].count
  PROVE  ~ closed
<1>1. posted[p] # slice[p].count
  BY DEF IInv, TypeOK
<1> QED BY <1>1 DEF IInv, CloseInv, ProducersJoined

LEMMA PostInv == ASSUME IInv, NEW p \in Producers, Post(p) PROVE IInv'
<1> USE DEF Post, setupVars, consVars, checkVars
<1> DEFINE x == slice[p].first + posted[p]
<1>1. slice[p].first = First(p) /\ slice[p].count = TaskCount(p)
  BY SlicedFacts DEF IInv
<1>2. posted \in LoopCounters /\ posted[p] < TaskCount(p)
  BY <1>1 DEF IInv, SetupInv
<1>3. /\ x \in Elements \ Posted(posted)
      /\ posted' \in LoopCounters
      /\ Posted(posted') = Posted(posted) \cup {x}
  BY <1>1, <1>2, PostNext
<1>4. ~ closed /\ ~ closed'
  BY OpenForPost
<1>5. chan \in Seq(Elements) /\ chan' = Append(chan, x)
  BY <1>4 DEF IInv, TypeOK
<1> HIDE DEF x
<1>6. TypeOK'
  <2>1. posted' \in [Producers -> Nat] /\ chan' \in Seq(Elements)
    BY <1>3, <1>5 DEF LoopCounters
  <2> QED BY <2>1 DEF IInv, TypeOK
<1>7. SetupInv'
  BY <1>3 DEF IInv, SetupInv
<1>8. ElementInv'
  <2>1. Placed(posted, chan, got)
    BY DEF IInv, ElementInv
  <2>2. Placed(posted', Append(chan, x), got)
    BY <1>3, <1>5, <2>1, PlacedPost
  <2> QED BY <1>5, <2>2 DEF IInv, ElementInv
<1>9. CloseInv' /\ CheckInv'
  BY <1>4 DEF IInv, CloseInv, Empty, CheckInv
<1> QED BY <1>6, <1>7, <1>8, <1>9 DEF IInv

-----------------------------------------------------------------------------
(* The consumers.                                                          *)
LEMMA PullInv == ASSUME IInv, NEW c \in Consumers, Pull(c) PROVE IInv'
<1> USE DEF Pull, setupVars, checkVars
<1>1. /\ chan \in Seq(Elements) /\ chan # <<>>
      /\ Head(chan) \in Elements
      /\ chan' \in Seq(Elements)
  <2>1. chan \in Seq(Elements)
    BY DEF IInv, TypeOK
  <2> QED BY <2>1, TailFacts
<1>2. /\ got \in [Consumers -> SUBSET Elements]
      /\ result \in [Consumers -> Result]
      /\ Placed(posted, chan, got) /\ Tallied(result, got)
  BY DEF IInv, TypeOK, ElementInv
<1>3. /\ Head(chan) \notin Received(got)
      /\ Placed(posted, chan', got')
  BY <1>1, <1>2, PlacedTake
<1>4. result' \in [Consumers -> Result] /\ Tallied(result', got')
  BY <1>1, <1>2, <1>3, TalliedTake
<1>5. TypeOK'
  BY <1>1, <1>2, <1>4 DEF IInv, TypeOK
<1>6. SetupInv'
  BY DEF IInv, SetupInv
<1>7. ElementInv'
  BY <1>3, <1>4 DEF ElementInv
<1>8. CloseInv'
  BY <1>1 DEF IInv, CloseInv, Empty, ProducersJoined
<1>9. CheckInv'
  BY <1>1 DEF IInv, CloseInv, CheckInv, Empty
<1> QED BY <1>5, <1>6, <1>7, <1>8, <1>9 DEF IInv

LEMMA StopInv == ASSUME IInv, NEW c \in Consumers, Stop(c) PROVE IInv'
<1> USE DEF Stop, setupVars, checkVars
<1>1. TypeOK'
  BY DEF IInv, TypeOK
<1>2. SetupInv'
  BY DEF IInv, SetupInv
<1>3. ElementInv' /\ CheckInv'
  BY DEF IInv, ElementInv, CheckInv
<1>4. CloseInv'
  BY DEF IInv, CloseInv, Empty, ProducersJoined
<1> QED BY <1>1, <1>2, <1>3, <1>4 DEF IInv

(* The channel is closed and empty: every element has been received.       *)
LEMMA EmptyReceived == ASSUME IInv, Empty PROVE Received(got) = Elements
<1>1. main # "create" /\ ProducersJoined
  BY DEF IInv, CloseInv, Empty
<1>2. \A p \in Producers : posted[p] = TaskCount(p)
  BY <1>1, SlicedFacts DEF IInv, ProducersJoined
<1>3. Posted(posted) = Elements
  BY <1>2, PostedAll
<1>4. \A k \in DOMAIN chan : chan[k] \notin Elements
  BY DEF Empty
<1> QED BY <1>3, <1>4, AllReceived DEF IInv, TypeOK, ElementInv

-----------------------------------------------------------------------------
(* do_bench() from drain() to the joining of the consumers.                *)
LEMMA DrainInv == IInv /\ (Drain \/ Drained) => IInv'
<1> SUFFICES ASSUME IInv, Drain \/ Drained PROVE IInv'
  OBVIOUS
<1> USE DEF Drain, Drained, setupVars, consVars, checkVars
<1>1. TypeOK'
  BY DEF IInv, TypeOK
<1>2. SetupInv'
  BY DEF IInv, SetupInv
<1>3. ElementInv' /\ CheckInv'
  BY DEF IInv, ElementInv, CheckInv
<1>4. CloseInv'
  BY DEF IInv, CloseInv, Empty, ProducersJoined
<1> QED BY <1>1, <1>2, <1>3, <1>4 DEF IInv

LEMMA JoinConsumersInv == IInv /\ JoinConsumers => IInv'
<1> SUFFICES ASSUME IInv, JoinConsumers PROVE IInv'
  OBVIOUS
<1> USE DEF JoinConsumers, setupVars, consVars, checkVars
<1>1. TypeOK'
  BY DEF IInv, TypeOK
<1>2. SetupInv'
  BY DEF IInv, SetupInv
<1>3. ElementInv'
  BY DEF IInv, ElementInv
<1>4. CloseInv'
  BY DEF IInv, CloseInv, Empty, ProducersJoined
<1>5. CheckInv'
  <2>1. total = NoResult
    BY DEF IInv, CheckInv
  <2>2. TallyOf(ReceivedBefore(0, got)) = NoResult
    BY ReceivedBeforeEnds
  <2> QED BY <2>1, <2>2, CountsAssumption DEF IInv, CheckInv
<1> QED BY <1>1, <1>2, <1>3, <1>4, <1>5 DEF IInv

LEMMA AddUpInv == IInv /\ AddUp => IInv'
<1> SUFFICES ASSUME IInv, AddUp PROVE IInv'
  OBVIOUS
<1> USE DEF AddUp, setupVars, consVars
<1>1. i \in Consumers /\ i \in Nat
  BY CountsAssumption DEF IInv, TypeOK, Consumers
<1>2. total \in Result /\ result[i] \in Result
  BY <1>1 DEF IInv, TypeOK
<1>3. total' \in Result /\ total' = AddResult(total, result[i])
  BY <1>2, AddResultType
<1>4. TypeOK'
  BY <1>1, <1>3 DEF IInv, TypeOK
<1>5. SetupInv'
  BY DEF IInv, SetupInv
<1>6. ElementInv'
  BY DEF IInv, ElementInv
<1>7. CloseInv'
  BY DEF IInv, CloseInv, Empty, ProducersJoined
<1>8. CheckInv'
  <2>1. /\ got \in [Consumers -> SUBSET Elements]
        /\ \A c, d \in Consumers : \A e \in got[c] \cap got[d] : c = d
    BY DEF IInv, TypeOK, ElementInv, Placed
  <2>2. AddResult(TallyOf(ReceivedBefore(i, got)), TallyOf(got[i]))
          = TallyOf(ReceivedBefore(i + 1, got))
    BY <1>1, <2>1, ReceivedBeforeStep
  <2>3. result[i] = TallyOf(got[i])
    BY <1>1 DEF IInv, ElementInv, Tallied
  <2>4. total = TallyOf(ReceivedBefore(i, got))
    BY DEF IInv, CheckInv
  <2>5. total' = TallyOf(ReceivedBefore(i + 1, got))
    BY <1>3, <2>2, <2>3, <2>4
  <2> QED BY <1>1, <2>5, CountsAssumption DEF IInv, CheckInv, Consumers
<1> QED BY <1>4, <1>5, <1>6, <1>7, <1>8 DEF IInv

LEMMA ReturnInv == IInv /\ Return => IInv'
<1> SUFFICES ASSUME IInv, Return PROVE IInv'
  OBVIOUS
<1> USE DEF Return, setupVars, consVars
<1>1. TypeOK'
  BY DEF IInv, TypeOK
<1>2. SetupInv'
  BY DEF IInv, SetupInv
<1>3. ElementInv'
  BY DEF IInv, ElementInv
<1>4. CloseInv'
  BY DEF IInv, CloseInv, Empty, ProducersJoined
<1>5. CheckInv'
  <2>1. total = TallyOf(ReceivedBefore(ConsumerCount, got))
    BY DEF IInv, CheckInv
  <2>2. Empty
    BY DEF IInv, CloseInv
  <2>3. ReceivedBefore(ConsumerCount, got) = Elements
    BY <2>2, EmptyReceived, ReceivedBeforeEnds
  <2>4. total = TallyOf(Elements) /\ report' = "pass"
    BY <2>1, <2>3, TallyOfAll
  <2> QED BY <2>4 DEF CheckInv
<1> QED BY <1>1, <1>2, <1>3, <1>4, <1>5 DEF IInv

LEMMA StutterInv == IInv /\ UNCHANGED vars => IInv'
<1> SUFFICES ASSUME IInv, UNCHANGED vars PROVE IInv'
  OBVIOUS
<1> USE DEF vars, setupVars, consVars, checkVars
<1>1. TypeOK' /\ SetupInv' /\ ElementInv'
  BY DEF IInv, TypeOK, SetupInv, ElementInv
<1>2. CloseInv' /\ CheckInv'
  BY DEF IInv, CloseInv, Empty, ProducersJoined, CheckInv
<1> QED BY <1>1, <1>2 DEF IInv

LEMMA NextInv == IInv /\ [Next]_vars => IInv'
<1> SUFFICES ASSUME IInv, [Next]_vars PROVE IInv'
  OBVIOUS
<1>1. CASE DoBench
  BY <1>1, CreateProducerInv, ForkInv, DrainInv, JoinConsumersInv, AddUpInv,
     ReturnInv
  DEF DoBench
<1>2. CASE \E p \in Producers : Post(p)
  BY <1>2, PostInv
<1>3. CASE \E c \in Consumers : Consume(c)
  BY <1>3, PullInv, StopInv DEF Consume
<1>4. CASE UNCHANGED vars
  BY <1>4, StutterInv
<1> QED BY <1>1, <1>2, <1>3, <1>4 DEF Next, Stopped

(* The inductive invariant holds in every reachable state.                 *)
THEOREM Invariance == Spec => []IInv
BY InitInv, NextInv, PTL DEF Spec

-----------------------------------------------------------------------------
(* Every variable keeps its type: only elements are ever in the channel.   *)
THEOREM TypeCorrect == Spec => []TypeOK
<1>1. IInv => TypeOK
  BY DEF IInv
<1> QED BY <1>1, Invariance, PTL

(* No element is lost or duplicated on its way from producer to consumer.  *)
THEOREM NoLossNoDuplication == Spec => []OneHolder
<1>1. IInv => OneHolder
  <2> SUFFICES ASSUME IInv, main # "create", NEW e \in Elements
               PROVE  Cardinality(Holders(e, slice, posted, chan, got)) = 1
    BY DEF OneHolder
  <2>1. slice = [p \in Producers |-> [first |-> First(p), count |-> TaskCount(p)]]
    BY SlicedFacts DEF IInv
  <2>2. /\ chan \in Seq(Elements)
        /\ posted \in LoopCounters
        /\ got \in [Consumers -> SUBSET Elements]
        /\ Placed(posted, chan, got)
    BY DEF IInv, TypeOK, SetupInv, ElementInv
  <2> QED BY <2>1, <2>2, HoldersOne
<1> QED BY <1>1, Invariance, PTL

(* The assert on the result of post() never fails.                         *)
THEOREM PostsAreAccepted == Spec => EveryPostAccepted
<1>1. IInv /\ [Next]_vars => [posted' # posted => ~ closed]_vars
  <2> SUFFICES ASSUME IInv, Next, posted' # posted PROVE ~ closed
    OBVIOUS
  <2>1. PICK p \in Producers : Post(p)
    BY DEF Next, DoBench, Consume, Stopped, CreateProducer, ForkConsumers,
           SpawnProducers, Drain, Drained, JoinConsumers, AddUp, Return, Pull,
           Stop, vars
  <2> QED BY <2>1, OpenForPost DEF Post
<1> QED BY <1>1, Invariance, PTL DEF Spec, EveryPostAccepted

(* drain() returns when every element has been received.                   *)
THEOREM DrainIsComplete == Spec => []DrainedMeansReceived
<1>1. IInv => DrainedMeansReceived
  BY EmptyReceived DEF DrainedMeansReceived, IInv, CloseInv
<1> QED BY <1>1, Invariance, PTL

(* When a consumer stops, no element is left for another one to receive.   *)
THEOREM StopsOnlyWhenDrained == Spec => []StopsAfterLast
<1>1. IInv => StopsAfterLast
  BY EmptyReceived DEF StopsAfterLast, IInv, CloseInv
<1> QED BY <1>1, Invariance, PTL

(* do_bench() has counted and summed every element when it returns:        *)
(* neither of its two FAIL lines is ever printed.                          *)
THEOREM NeverFails ==
  Spec => [](NoFailure /\ (main = "returned" => total = TallyOf(Elements)))
<1>1. IInv => NoFailure /\ (main = "returned" => total = TallyOf(Elements))
  BY DEF IInv, CheckInv
<1> QED BY <1>1, Invariance, PTL

-----------------------------------------------------------------------------
(* The promise speaks of the same elements and the same consumers.         *)
LEMMA SameNames ==
  /\ Promise!Elements = Elements
  /\ Promise!Consumers = Consumers
  /\ Promise!Received(got) = Received(got)
BY DEF Promise!Elements, Promise!Consumers, Promise!Received,
       Elements, Consumers, Received

(* A step of the program is a step of the promise, or changes nothing the  *)
(* promise speaks of.                                                      *)
LEMMA StepRefines == IInv /\ [Next]_vars => [Promise!Next]_(Promise!promiseVars)
<1> SUFFICES ASSUME IInv, [Next]_vars
             PROVE  Promise!Next \/ UNCHANGED <<got, main = "returned">>
  BY DEF Promise!promiseVars
<1>1. CASE CreateProducer \/ ForkConsumers \/ SpawnProducers \/ Drain \/ UNCHANGED vars
  BY <1>1 DEF CreateProducer, ForkConsumers, SpawnProducers, Drain, vars, consVars
<1>2. CASE Drained \/ JoinConsumers \/ AddUp
  BY <1>2 DEF Drained, JoinConsumers, AddUp, consVars
<1>3. CASE Return
  <2>1. Received(got) = Elements
    BY <1>3, EmptyReceived DEF Return, IInv, CloseInv, CheckInv
  <2>2. Promise!Report
    BY <1>3, <2>1, SameNames DEF Return, consVars, Promise!Report
  <2> QED BY <2>2 DEF Promise!Next
<1>4. ASSUME NEW p \in Producers, Post(p)
      PROVE  UNCHANGED <<got, main = "returned">>
  BY <1>4 DEF Post, consVars
<1>5. ASSUME NEW c \in Consumers, Stop(c)
      PROVE  UNCHANGED <<got, main = "returned">>
  BY <1>5 DEF Stop
<1>6. ASSUME NEW c \in Consumers, Pull(c) PROVE Promise!Deliver(c)
  <2>1. chan \in Seq(Elements) /\ chan # <<>> /\ Head(chan) \in Elements
    BY <1>6, TailFacts DEF IInv, TypeOK, Pull
  <2>2. Head(chan) \notin Received(got)
    BY <2>1, PlacedTake DEF IInv, TypeOK, ElementInv
  <2>3. main # "returned"
    BY <1>6 DEF IInv, CloseInv, Pull, Empty
  <2> QED
    BY <1>6, <2>1, <2>2, <2>3, SameNames DEF Pull, Promise!Deliver
<1> QED
  BY <1>1, <1>2, <1>3, <1>4, <1>5, <1>6, SameNames
  DEF Next, DoBench, Consume, Stopped, Promise!Next

(* The program implements the promise of a channel benchmark.              *)
THEOREM Refinement == Spec => PromiseSpec
<1>1. Init => Promise!Init
  BY SameNames DEF Init, Promise!Init
<1> QED BY <1>1, StepRefines, Invariance, PTL DEF Spec, PromiseSpec, Promise!Spec
-----------------------------------------------------------------------------
(* cpp/cobalt/channel.cpp, module CobaltChannel: its do_bench() works on   *)
(* the same elements.                                                      *)
VARIABLES prod, open, data

Cobalt == INSTANCE CobaltChannel

(* What the two modules share means the same in both.                      *)
LEMMA SharedSets ==
  /\ Cobalt!Elements = Elements /\ Cobalt!Producers = Producers
  /\ Cobalt!Consumers = Consumers
  /\ Cobalt!Result = Result /\ Cobalt!NoResult = NoResult
  /\ Cobalt!LoopCounters = LoopCounters
BY DEF Cobalt!Elements, Cobalt!Producers, Cobalt!Consumers, Cobalt!Result,
       Cobalt!NoResult, Elements, Producers, Consumers, Result, NoResult,
       Cobalt!LoopCounters, LoopCounters, Cobalt!TaskCount, TaskCount,
       Cobalt!PerTask, PerTask, Cobalt!Rem, Rem

(* The slices of the producers are the same ...                            *)
LEMMA SharedSplit ==
  /\ \A p : Cobalt!TaskCount(p) = TaskCount(p)
  /\ \A p : Cobalt!First(p) = First(p)
BY DEF Cobalt!TaskCount, TaskCount, Cobalt!First, First, Cobalt!PerTask, PerTask,
       Cobalt!Rem, Rem

(* ... and so are the sums ...                                             *)
LEMMA SharedSums ==
  /\ \A r, e : Cobalt!Tally(r, e) = Tally(r, e)
  /\ \A t, r : Cobalt!AddResult(t, r) = AddResult(t, r)
  /\ \A t : Cobalt!Passes(t) = Passes(t)
  /\ \A S : Cobalt!TallyOf(S) = TallyOf(S)
<1>1. \A r, e : Cobalt!Tally(r, e) = Tally(r, e)
  BY DEF Cobalt!Tally, Tally, Cobalt!Plus, Plus
<1>2. \A t, r : Cobalt!AddResult(t, r) = AddResult(t, r)
  BY DEF Cobalt!AddResult, AddResult, Cobalt!Plus, Plus
<1>3. \A t : Cobalt!Passes(t) = Passes(t)
  BY DEF Cobalt!Passes, Passes, Cobalt!ExpectedSum, ExpectedSum, Cobalt!Plus, Plus
<1>4. \A S : Cobalt!TallyOf(S) = TallyOf(S)
  <2>1. \A S : Cobalt!Cardinality(S) = Cardinality(S)
    BY DEF Cobalt!Cardinality, Cardinality
  <2> HIDE DEF Cobalt!Cardinality, Cardinality
  <2>2. \A S : Cobalt!SumOf(S) = SumOf(S)
    BY <2>1, SharedSets DEF Cobalt!SumOf, SumOf
  <2>3. \A n : Cobalt!Wrapped(n) = Wrapped(n)
    BY DEF Cobalt!Wrapped, Wrapped
  <2> QED BY <2>1, <2>2, <2>3 DEF Cobalt!TallyOf, TallyOf
<1> QED BY <1>1, <1>2, <1>3, <1>4

(* ... and what is said of the places of the elements.                     *)
LEMMA SharedPlaces ==
  /\ \A f, q, g : Cobalt!Placed(f, q, g) <=> Placed(f, q, g)
  /\ \A r, g : Cobalt!Tallied(r, g) <=> Tallied(r, g)
  /\ \A n, g : Cobalt!ReceivedBefore(n, g) = ReceivedBefore(n, g)
  /\ \A g : Cobalt!Received(g) = Received(g)
<1>1. \A f : Cobalt!Posted(f) = Posted(f)
  BY SharedSets, SharedSplit DEF Cobalt!Posted, Posted
<1>2. \A q : Cobalt!Queued(q) = Queued(q)
  BY DEF Cobalt!Queued, Queued
<1>3. \A g : Cobalt!Received(g) = Received(g)
  BY SharedSets DEF Cobalt!Received, Received
<1>4. \A f, q, g : Cobalt!Placed(f, q, g) <=> Placed(f, q, g)
  BY <1>1, <1>2, <1>3, SharedSets DEF Cobalt!Placed, Placed
<1>5. \A r, g : Cobalt!Tallied(r, g) <=> Tallied(r, g)
  BY SharedSets, SharedSums DEF Cobalt!Tallied, Tallied
<1>6. \A n, g : Cobalt!ReceivedBefore(n, g) = ReceivedBefore(n, g)
  BY DEF Cobalt!ReceivedBefore, ReceivedBefore
<1> QED BY <1>3, <1>4, <1>5, <1>6

(* The invariant at the start, and one lemma per action.                   *)
LEMMA CobaltInitInv == Cobalt!Init => Cobalt!IInv
<1> SUFFICES ASSUME Cobalt!Init PROVE Cobalt!IInv
  OBVIOUS
<1> USE DEF Cobalt!Init
<1> USE SharedSets
<1>1. Cobalt!TypeOK
  <2>1. open \in BOOLEAN
    BY Zenon
  <2> QED BY <2>1, NoResultType DEF Cobalt!TypeOK
<1>2. Cobalt!SetupInv
  <2>1. base = Cobalt!First(i)
    BY FirstStep, SharedSplit
  <2>2. posted \in LoopCounters
    BY TaskCountType DEF LoopCounters
  <2> QED BY <2>1, <2>2, CountsAssumption DEF Cobalt!SetupInv
<1>3. Cobalt!ElementInv
  <2>1. Cobalt!Held = [c \in Consumers |-> {}]
    BY DEF Cobalt!Held
  <2>2. Cobalt!Placed(posted, <<>>, Cobalt!Held)
    BY <2>1, PlacedNone, SharedPlaces
  <2>3. Cobalt!Tallied(result, got)
    BY TallyOfNone, SharedPlaces DEF Tallied
  <2> QED BY <2>2, <2>3 DEF Cobalt!ElementInv
<1>4. Cobalt!CloseInv
  BY DEF Cobalt!CloseInv
<1>5. Cobalt!CheckInv
  BY DEF Cobalt!CheckInv
<1> QED BY <1>1, <1>2, <1>3, <1>4, <1>5 DEF Cobalt!IInv

(* A producer gets the next slice, and runs up to its first write().       *)
LEMMA CobaltCreateProducer == Cobalt!IInv /\ Cobalt!CreateProducer => Cobalt!IInv'
<1> SUFFICES ASSUME Cobalt!IInv, Cobalt!CreateProducer PROVE Cobalt!IInv'
  OBVIOUS
<1> USE SharedSets DEF Cobalt!CreateProducer, Cobalt!consVars
<1>1. i \in Producers /\ i + 1 =< ProducerCount /\ i \in Nat
  BY CountsAssumption DEF Cobalt!IInv, Cobalt!TypeOK, Producers
<1>2. /\ TaskCount(i) \in Nat /\ base = First(i) /\ base \in Nat
      /\ base' = First(i + 1) /\ First(i + 1) \in Nat
      /\ slice' = [slice EXCEPT ![i] = [first |-> First(i), count |-> TaskCount(i)]]
  <2>1. base = First(i) /\ TaskCount(i) = Cobalt!TaskCount(i)
    BY <1>1, SharedSplit DEF Cobalt!IInv, Cobalt!SetupInv
  <2>2. First(i + 1) = First(i) + TaskCount(i) /\ TaskCount(i) \in Nat /\ First(i) \in Nat
    BY <1>1, TaskCountType, FirstStep, FirstType, CountsAssumption DEF Producers
  <2> QED BY <2>1, <2>2
<1>3. /\ prod' = [prod EXCEPT ![i] = IF 0 < TaskCount(i) THEN "writing" ELSE "done"]
      /\ prod[i] = "none" /\ posted[i] = 0
  <2>1. main = "produce" /\ i >= i
    BY <1>1
  <2>2. prod[i] = "none"
    BY <1>1, <2>1 DEF Cobalt!IInv, Cobalt!SetupInv
  <2>3. posted[i] = 0
    BY <1>1, <2>2 DEF Cobalt!IInv, Cobalt!SetupInv
  <2> QED BY <2>2, <2>3, SharedSplit DEF Cobalt!Writing
<1>4. Cobalt!TypeOK'
  BY <1>1, <1>2, <1>3 DEF Cobalt!IInv, Cobalt!TypeOK
<1>5. Cobalt!SetupInv'
  <2>1. slice \in [Producers -> [first : Nat, count : Nat]] /\ prod \in [Producers -> {"none", "writing", "done"}]
    BY DEF Cobalt!IInv, Cobalt!TypeOK
  <2>2. ASSUME NEW p \in Producers
        PROVE  /\ prod'[p] = "none" => posted[p] = 0
               /\ prod'[p] # "none" =>
                    slice'[p] = [first |-> First(p), count |-> TaskCount(p)]
               /\ prod'[p] = "writing" => posted[p] < slice'[p].count
               /\ prod'[p] = "done" => posted[p] = slice'[p].count
    <3>1. CASE p = i
      BY <1>1, <1>2, <1>3, <2>1, <3>1
    <3>2. CASE p # i
      BY <1>1, <1>2, <1>3, <2>1, <3>2, SharedSplit DEF Cobalt!IInv, Cobalt!SetupInv
    <3> QED BY <3>1, <3>2
  <2>3. ASSUME NEW p \in Producers, p >= i + 1 PROVE prod'[p] = "none"
    <3>1. p # i /\ p >= i
      BY <1>1, <2>3, CountsAssumption DEF Producers
    <3> QED BY <1>3, <2>1, <3>1 DEF Cobalt!IInv, Cobalt!SetupInv
  <2> QED BY <1>1, <1>2, <2>2, <2>3, SharedSplit DEF Cobalt!IInv, Cobalt!SetupInv
<1>6. Cobalt!ElementInv'
  BY DEF Cobalt!IInv, Cobalt!ElementInv, Cobalt!Held
<1>7. Cobalt!CloseInv'
  <2>1. main = "produce" /\ open
    BY DEF Cobalt!IInv, Cobalt!CloseInv
  <2> QED BY <2>1 DEF Cobalt!IInv, Cobalt!CloseInv
<1>8. Cobalt!CheckInv'
  BY DEF Cobalt!IInv, Cobalt!CheckInv
<1> QED BY <1>4, <1>5, <1>6, <1>7, <1>8 DEF Cobalt!IInv

(* A consumer runs up to its first read().                                 *)
LEMMA CobaltCreateConsumer == Cobalt!IInv /\ Cobalt!CreateConsumer => Cobalt!IInv'
<1> SUFFICES ASSUME Cobalt!IInv, Cobalt!CreateConsumer PROVE Cobalt!IInv'
  OBVIOUS
<1> USE SharedSets DEF Cobalt!CreateConsumer, Cobalt!prodVars
<1>1. /\ i \in Consumers /\ i \in Nat
      /\ cons \in [Consumers ->
           {"none", "reading", "ready", "cancelled", "thrown", "done"}]
  BY CountsAssumption DEF Cobalt!IInv, Cobalt!TypeOK, Consumers
<1>2. cons[i] = "none"
  <2>1. main = "consume" /\ i >= i
    BY <1>1
  <2> QED BY <1>1, <2>1 DEF Cobalt!IInv, Cobalt!SetupInv
<1>3. Cobalt!TypeOK'
  BY <1>1 DEF Cobalt!IInv, Cobalt!TypeOK
<1>4. Cobalt!SetupInv'
  <2>1. ASSUME NEW c \in Consumers, c >= i + 1 PROVE cons'[c] = "none"
    <3>1. c # i /\ c >= i
      BY <1>1, <2>1, CountsAssumption DEF Consumers
    <3> QED BY <1>1, <3>1 DEF Cobalt!IInv, Cobalt!SetupInv
  <2> QED BY <2>1 DEF Cobalt!IInv, Cobalt!SetupInv
<1>5. Cobalt!ElementInv'
  <2>1. \A c \in Consumers : cons'[c] = "ready" <=> cons[c] = "ready"
    BY <1>1, <1>2
  <2>2. Cobalt!Held' = Cobalt!Held
    BY <2>1 DEF Cobalt!Held
  <2> QED BY <2>1, <2>2 DEF Cobalt!IInv, Cobalt!ElementInv
<1>6. Cobalt!CloseInv'
  BY DEF Cobalt!IInv, Cobalt!CloseInv, Cobalt!ProducersJoined
<1>7. Cobalt!CheckInv'
  BY DEF Cobalt!IInv, Cobalt!CheckInv
<1> QED BY <1>3, <1>4, <1>5, <1>6, <1>7 DEF Cobalt!IInv

(* The loop over the producers has ended, or that over the consumers.      *)
LEMMA CobaltNextLoop == Cobalt!IInv /\ Cobalt!NextLoop => Cobalt!IInv'
<1> SUFFICES ASSUME Cobalt!IInv, Cobalt!NextLoop PROVE Cobalt!IInv'
  OBVIOUS
<1> USE SharedSets DEF Cobalt!NextLoop, Cobalt!prodVars, Cobalt!consVars
<1>1. Cobalt!TypeOK'
  BY DEF Cobalt!IInv, Cobalt!TypeOK
<1>2. Cobalt!SetupInv'
  BY DEF Cobalt!IInv, Cobalt!SetupInv
<1>3. Cobalt!ElementInv'
  BY DEF Cobalt!IInv, Cobalt!ElementInv, Cobalt!Held
<1>4. Cobalt!CloseInv'
  BY DEF Cobalt!IInv, Cobalt!CloseInv, Cobalt!ProducersJoined
<1>5. Cobalt!CheckInv'
  BY DEF Cobalt!IInv, Cobalt!CheckInv
<1> QED BY <1>1, <1>2, <1>3, <1>4, <1>5 DEF Cobalt!IInv

(* The element goes from the producer to the consumer at once: through a   *)
(* queue that has it alone.                                                *)
LEMMA CobaltTransfer ==
  ASSUME Cobalt!IInv, NEW p \in Producers, NEW c \in Consumers, Cobalt!Transfer(p, c)
  PROVE  Cobalt!IInv'
<1> USE SharedSets DEF Cobalt!Transfer
<1> DEFINE x == slice[p].first + posted[p]
<1>1. /\ slice[p].first = First(p) /\ slice[p].count = TaskCount(p)
      /\ posted \in LoopCounters /\ posted[p] < TaskCount(p)
  <2>1. prod[p] = "writing"
    OBVIOUS
  <2>2. slice[p] = [first |-> First(p), count |-> TaskCount(p)] /\ posted[p] < slice[p].count
    BY <2>1, SharedSplit DEF Cobalt!IInv, Cobalt!SetupInv
  <2>3. posted \in LoopCounters
    BY DEF Cobalt!IInv, Cobalt!SetupInv
  <2> QED BY <2>2, <2>3
<1>2. /\ x \in Elements \ Posted(posted)
      /\ posted' \in LoopCounters
      /\ Posted(posted') = Posted(posted) \cup {x}
  BY <1>1, PostNext
<1>3. /\ data' = [data EXCEPT ![c] = x] /\ cons' = [cons EXCEPT ![c] = "ready"]
      /\ cons[c] = "reading" /\ got' = got
      /\ prod' = [prod EXCEPT ![p] =
                    IF posted[p] + 1 < TaskCount(p) THEN "writing" ELSE "done"]
      /\ posted' = [posted EXCEPT ![p] = @ + 1] /\ slice' = slice
  BY <1>1 DEF Cobalt!Writing
<1> HIDE DEF x
<1>4. /\ data \in [Consumers -> Nat] /\ posted \in [Producers -> Nat]
      /\ cons \in [Consumers ->
           {"none", "reading", "ready", "cancelled", "thrown", "done"}]
      /\ prod \in [Producers -> {"none", "writing", "done"}]
      /\ got \in [Consumers -> SUBSET Elements]
  BY DEF Cobalt!IInv, Cobalt!TypeOK
<1>5. x \in Nat
  BY <1>2 DEF Elements
<1>6. Cobalt!TypeOK'
  <2>1. posted' \in [Producers -> Nat]
    BY <1>2 DEF LoopCounters
  <2>2. /\ data' \in [Consumers -> Nat]
        /\ cons' \in [Consumers ->
             {"none", "reading", "ready", "cancelled", "thrown", "done"}]
        /\ prod' \in [Producers -> {"none", "writing", "done"}]
    BY <1>3, <1>4, <1>5
  <2> QED BY <2>1, <2>2 DEF Cobalt!IInv, Cobalt!TypeOK
<1>7. Cobalt!SetupInv'
  <2>1. ASSUME NEW q \in Producers
        PROVE  /\ prod'[q] = "none" => posted'[q] = 0
               /\ prod'[q] # "none" =>
                    slice'[q] = [first |-> First(q), count |-> TaskCount(q)]
               /\ prod'[q] = "writing" => posted'[q] < slice'[q].count
               /\ prod'[q] = "done" => posted'[q] = slice'[q].count
               /\ main' = "produce" /\ q >= i' => prod'[q] = "none"
    <3>1. CASE q = p
      <4>1. posted[p] \in Nat /\ TaskCount(p) \in Nat
        BY <1>4, TaskCountType
      <4>2. ~ (main = "produce" /\ p >= i)
        BY DEF Cobalt!IInv, Cobalt!SetupInv
      <4>3. slice[p] = [first |-> First(p), count |-> TaskCount(p)]
        BY SharedSplit DEF Cobalt!IInv, Cobalt!SetupInv
      <4> QED BY <1>1, <1>3, <1>4, <3>1, <4>1, <4>2, <4>3
    <3>2. CASE q # p
      BY <1>3, <1>4, <3>2, SharedSplit DEF Cobalt!IInv, Cobalt!SetupInv
    <3> QED BY <3>1, <3>2
  <2>2. ASSUME NEW d \in Consumers
        PROVE  /\ main' = "produce" => cons'[d] = "none"
               /\ main' = "consume" /\ d >= i' => cons'[d] = "none"
    BY <1>3, <1>4 DEF Cobalt!IInv, Cobalt!SetupInv
  <2> QED BY <1>2, <2>1, <2>2, SharedSplit DEF Cobalt!IInv, Cobalt!SetupInv
<1>8. Cobalt!ElementInv'
  <2> DEFINE held == Cobalt!Held
             one == Append(<<>>, x)
  <2>1. held \in [Consumers -> SUBSET Elements] /\ held[c] = got[c]
    BY <1>3, <1>4 DEF Cobalt!Held, Cobalt!IInv, Cobalt!ElementInv
  <2>2. Placed(posted, <<>>, held)
    BY SharedPlaces DEF Cobalt!IInv, Cobalt!ElementInv
  <2>3. Cobalt!Held' = [held EXCEPT ![c] = @ \cup {x}]
    <3>1. \A d \in Consumers :
            (got[d] \cup IF cons'[d] = "ready" THEN {data'[d]} ELSE {})
              = IF d = c THEN held[d] \cup {x} ELSE held[d]
      <4> SUFFICES ASSUME NEW d \in Consumers
                   PROVE  (got[d] \cup IF cons'[d] = "ready" THEN {data'[d]} ELSE {})
                            = IF d = c THEN held[d] \cup {x} ELSE held[d]
        OBVIOUS
      <4>1. CASE d = c
        BY <1>3, <1>4, <2>1, <4>1
      <4>2. CASE d # c
        <5>1. cons'[d] = cons[d] /\ data'[d] = data[d]
          BY <1>3, <1>4, <4>2
        <5> QED BY <4>2, <5>1 DEF Cobalt!Held
      <4> QED BY <4>1, <4>2
    <3>2. got' = got
      OBVIOUS
    <3>3. Cobalt!Held'
            = [d \in Consumers |-> IF d = c THEN held[d] \cup {x} ELSE held[d]]
      BY <3>1, <3>2 DEF Cobalt!Held
    <3> HIDE DEF held
    <3> QED BY <2>1, <3>3
  <2> HIDE DEF held
  <2>4. Placed(posted', one, held)
    <3>1. <<>> \in Seq(Elements)
      OBVIOUS
    <3> QED BY <1>2, <2>2, <3>1, PlacedPost
  <2>5. one \in Seq(Elements) /\ one # <<>> /\ Head(one) = x /\ Tail(one) = <<>>
    BY <1>2
  <2> HIDE DEF one
  <2>6. Placed(posted', Tail(one), [held EXCEPT ![c] = @ \cup {Head(one)}])
        /\ Head(one) \notin Received(held)
    BY <1>2, <2>1, <2>4, <2>5, PlacedTake
  <2>7. x \notin got[c]
    BY <2>1, <2>5, <2>6 DEF Received
  <2>8. Cobalt!Placed(posted', <<>>, Cobalt!Held')
    BY <2>3, <2>5, <2>6, SharedPlaces
  <2>9. ASSUME NEW d \in Consumers, cons'[d] = "ready"
        PROVE  data'[d] \in Elements \ got'[d]
    BY <1>2, <1>3, <1>4, <2>7, <2>9 DEF Cobalt!IInv, Cobalt!ElementInv
  <2> QED BY <2>8, <2>9 DEF Cobalt!IInv, Cobalt!ElementInv
<1>9. Cobalt!CloseInv'
  <2>1. open /\ main \notin {"check", "ended"}
    BY DEF Cobalt!IInv, Cobalt!CloseInv, Cobalt!ProducersJoined
  <2> QED BY <2>1 DEF Cobalt!IInv, Cobalt!CloseInv
<1>10. Cobalt!CheckInv'
  BY <1>3 DEF Cobalt!IInv, Cobalt!CheckInv
<1> QED BY <1>6, <1>7, <1>8, <1>9, <1>10 DEF Cobalt!IInv

(* What a consumer is resumed with was its own before.                     *)
LEMMA CobaltHeld ==
  ASSUME Cobalt!IInv, NEW c \in Consumers, cons[c] = "ready"
  PROVE  data[c] \in Elements \ Received(got)
<1> USE SharedSets
<1>1. data[c] \in Elements \ got[c] /\ Placed(posted, <<>>, Cobalt!Held)
  BY SharedPlaces DEF Cobalt!IInv, Cobalt!ElementInv
<1>2. ASSUME NEW d \in Consumers, data[c] \in got[d] PROVE d = c
  <2>1. data[c] \in Cobalt!Held[d] /\ data[c] \in Cobalt!Held[c]
    BY <1>2 DEF Cobalt!Held
  <2> QED BY <1>1, <2>1 DEF Placed
<1> QED BY <1>1, <1>2 DEF Received

(* The consumer counts the element and reads again, or sees the channel    *)
(* closed.                                                                 *)
LEMMA CobaltResume ==
  ASSUME Cobalt!IInv, NEW c \in Consumers, Cobalt!Resume(c)
  PROVE  Cobalt!IInv'
<1> USE SharedSets DEF Cobalt!Resume, Cobalt!prodVars
<1>1. /\ got \in [Consumers -> SUBSET Elements] /\ result \in [Consumers -> Result]
      /\ cons \in [Consumers ->
           {"none", "reading", "ready", "cancelled", "thrown", "done"}]
  BY DEF Cobalt!IInv, Cobalt!TypeOK
<1>2. /\ got' = [got EXCEPT ![c] = @ \cup {data[c]}]
      /\ result' = [result EXCEPT ![c] = Tally(@, data[c])]
      /\ cons' = [cons EXCEPT ![c] = IF open THEN "reading" ELSE "done"]
      /\ cons[c] = "ready" /\ data' = data
  BY <1>1, SharedSums
<1>3. data[c] \in Elements \ Received(got)
  BY <1>2, CobaltHeld
<1>4. result' \in [Consumers -> Result] /\ Tallied(result', got')
  <2>1. Tallied(result, got)
    BY SharedPlaces DEF Cobalt!IInv, Cobalt!ElementInv
  <2> DEFINE e == data[c]
  <2>2. /\ result' = [result EXCEPT ![c] = Tally(@, e)]
        /\ got' = [got EXCEPT ![c] = @ \cup {e}]
        /\ e \in Elements /\ e \notin Received(got)
    BY <1>2, <1>3
  <2> HIDE DEF e
  <2>3. /\ [result EXCEPT ![c] = Tally(@, e)] \in [Consumers -> Result]
        /\ Tallied([result EXCEPT ![c] = Tally(@, e)], [got EXCEPT ![c] = @ \cup {e}])
    BY <1>1, <2>1, <2>2, TalliedTake
  <2> QED BY <2>2, <2>3
<1>5. Cobalt!TypeOK'
  <2>1. got' \in [Consumers -> SUBSET Elements]
    BY <1>1, <1>2, <1>3
  <2>2. cons' \in [Consumers ->
          {"none", "reading", "ready", "cancelled", "thrown", "done"}]
    BY <1>1, <1>2
  <2> QED BY <1>4, <2>1, <2>2 DEF Cobalt!IInv, Cobalt!TypeOK
<1>6. Cobalt!SetupInv'
  <2>1. \A d \in Consumers : cons'[d] = "none" <=> cons[d] = "none"
    BY <1>1, <1>2
  <2> QED BY <2>1 DEF Cobalt!IInv, Cobalt!SetupInv
<1>7. Cobalt!ElementInv'
  <2>1. ASSUME NEW d \in Consumers
        PROVE  /\ got'[d] \cup (IF cons'[d] = "ready" THEN {data'[d]} ELSE {})
                    = got[d] \cup (IF cons[d] = "ready" THEN {data[d]} ELSE {})
               /\ cons'[d] = "ready" => cons[d] = "ready" /\ got'[d] = got[d]
    <3>1. CASE d = c
      BY <1>1, <1>2, <3>1
    <3>2. CASE d # c
      BY <1>1, <1>2, <3>2
    <3> QED BY <3>1, <3>2
  <2>2. Cobalt!Held' = Cobalt!Held
    BY <2>1 DEF Cobalt!Held
  <2>3. \A d \in Consumers : cons'[d] = "ready" => data'[d] \in Elements \ got'[d]
    BY <1>2, <2>1 DEF Cobalt!IInv, Cobalt!ElementInv
  <2> QED BY <1>4, <2>2, <2>3, SharedPlaces DEF Cobalt!IInv, Cobalt!ElementInv
<1>8. Cobalt!CloseInv' /\ main # "check"
  <2>1. main \notin {"check", "ended"}
    BY <1>2 DEF Cobalt!IInv, Cobalt!CloseInv
  <2> QED BY <2>1 DEF Cobalt!IInv, Cobalt!CloseInv, Cobalt!ProducersJoined
<1>9. Cobalt!CheckInv'
  BY <1>8 DEF Cobalt!IInv, Cobalt!CheckInv
<1> QED BY <1>5, <1>6, <1>7, <1>8, <1>9 DEF Cobalt!IInv

(* The close() comes after the last write(): what it cancels holds no      *)
(* element.                                                                *)
LEMMA CobaltClose == Cobalt!IInv /\ Cobalt!Close => Cobalt!IInv'
<1> SUFFICES ASSUME Cobalt!IInv, Cobalt!Close PROVE Cobalt!IInv'
  OBVIOUS
<1> USE SharedSets DEF Cobalt!Close, Cobalt!prodVars
<1>1. /\ cons \in [Consumers ->
           {"none", "reading", "ready", "cancelled", "thrown", "done"}]
      /\ cons' = [c \in Consumers |->
                    IF cons[c] = "reading" THEN "cancelled" ELSE cons[c]]
  BY DEF Cobalt!IInv, Cobalt!TypeOK, Cobalt!Cancelled
<1>2. Cobalt!TypeOK'
  <2>1. cons' \in [Consumers ->
          {"none", "reading", "ready", "cancelled", "thrown", "done"}]
    BY <1>1
  <2>2. open' \in BOOLEAN
    BY Zenon
  <2> QED BY <2>1, <2>2 DEF Cobalt!IInv, Cobalt!TypeOK
<1>3. Cobalt!SetupInv'
  BY DEF Cobalt!IInv, Cobalt!SetupInv
<1>4. Cobalt!ElementInv'
  <2>1. \A c \in Consumers : cons'[c] = "ready" <=> cons[c] = "ready"
    BY <1>1
  <2>2. Cobalt!Held' = Cobalt!Held
    BY <2>1 DEF Cobalt!Held
  <2> QED BY <2>1, <2>2 DEF Cobalt!IInv, Cobalt!ElementInv
<1>5. Cobalt!CloseInv'
  BY DEF Cobalt!IInv, Cobalt!CloseInv, Cobalt!ProducersJoined
<1>6. Cobalt!CheckInv'
  BY DEF Cobalt!IInv, Cobalt!CheckInv
<1> QED BY <1>2, <1>3, <1>4, <1>5, <1>6 DEF Cobalt!IInv

(* A cancelled read() throws: no element is with that consumer.            *)
LEMMA CobaltThrow ==
  ASSUME Cobalt!IInv, NEW c \in Consumers, Cobalt!Throw(c)
  PROVE  Cobalt!IInv'
<1> USE SharedSets DEF Cobalt!Throw, Cobalt!prodVars
<1>1. /\ cons \in [Consumers ->
           {"none", "reading", "ready", "cancelled", "thrown", "done"}]
      /\ \A d \in Consumers : cons'[d] = "ready" <=> cons[d] = "ready"
      /\ \A d \in Consumers : cons'[d] = "none" <=> cons[d] = "none"
      /\ main \notin {"check", "ended"}
  BY DEF Cobalt!IInv, Cobalt!TypeOK, Cobalt!CloseInv
<1>2. Cobalt!TypeOK'
  BY <1>1 DEF Cobalt!IInv, Cobalt!TypeOK
<1>3. Cobalt!SetupInv'
  BY <1>1 DEF Cobalt!IInv, Cobalt!SetupInv
<1>4. Cobalt!ElementInv'
  <2>1. Cobalt!Held' = Cobalt!Held
    BY <1>1 DEF Cobalt!Held
  <2> QED BY <1>1, <2>1 DEF Cobalt!IInv, Cobalt!ElementInv
<1>5. Cobalt!CloseInv'
  BY <1>1 DEF Cobalt!IInv, Cobalt!CloseInv, Cobalt!ProducersJoined
<1>6. Cobalt!CheckInv'
  BY DEF Cobalt!IInv, Cobalt!CheckInv
<1> QED BY <1>2, <1>3, <1>4, <1>5, <1>6 DEF Cobalt!IInv
-----------------------------------------------------------------------------
(* The results.  When no consumer has thrown, each has counted what it was *)
(* resumed with, and every element was written.                            *)
LEMMA CobaltReceived ==
  ASSUME Cobalt!IInv, main = "check"
  PROVE  Received(got) = Elements
<1> USE SharedSets
<1>1. Cobalt!Held = [c \in Consumers |-> got[c]] /\ got \in [Consumers -> SUBSET Elements]
  BY DEF Cobalt!IInv, Cobalt!CloseInv, Cobalt!Held, Cobalt!TypeOK
<1>2. Placed(posted, <<>>, got)
  BY <1>1, SharedPlaces DEF Cobalt!IInv, Cobalt!ElementInv
<1>3. ASSUME NEW p \in Producers PROVE posted[p] = TaskCount(p)
  <2>1. prod[p] = "done"
    BY DEF Cobalt!IInv, Cobalt!CloseInv, Cobalt!ProducersJoined
  <2>2. /\ posted[p] = slice[p].count
        /\ slice[p] = [first |-> First(p), count |-> TaskCount(p)]
    BY <2>1, SharedSplit DEF Cobalt!IInv, Cobalt!SetupInv
  <2> QED BY <2>2
<1>4. Posted(posted) = Elements
  BY <1>3, PostedAll
<1> QED BY <1>1, <1>2, <1>4, AllReceived

(* The join throws if a consumer has, or the results can be added up.      *)
LEMMA CobaltJoinConsumers == Cobalt!IInv /\ Cobalt!JoinConsumers => Cobalt!IInv'
<1> SUFFICES ASSUME Cobalt!IInv, Cobalt!JoinConsumers PROVE Cobalt!IInv'
  OBVIOUS
<1> USE SharedSets DEF Cobalt!JoinConsumers, Cobalt!prodVars, Cobalt!consVars
<1>1. Cobalt!TypeOK'
  BY DEF Cobalt!IInv, Cobalt!TypeOK
<1>2. Cobalt!SetupInv'
  BY DEF Cobalt!IInv, Cobalt!SetupInv
<1>3. Cobalt!ElementInv'
  BY DEF Cobalt!IInv, Cobalt!ElementInv, Cobalt!Held
<1>4. Cobalt!CloseInv'
  BY DEF Cobalt!IInv, Cobalt!CloseInv, Cobalt!ProducersJoined, Cobalt!Thrown
<1>5. Cobalt!CheckInv'
  <2>1. i = 0 /\ total = NoResult /\ report = "running"
    BY DEF Cobalt!IInv, Cobalt!CheckInv, Cobalt!TypeOK
  <2>2. Cobalt!TallyOf(Cobalt!ReceivedBefore(0, got)) = NoResult
    BY ReceivedBeforeEnds, SharedSums, SharedPlaces
  <2> QED BY <2>1, <2>2, CountsAssumption DEF Cobalt!CheckInv
<1> QED BY <1>1, <1>2, <1>3, <1>4, <1>5 DEF Cobalt!IInv

(* The total is that of the consumers added so far.                        *)
LEMMA CobaltAddUp == Cobalt!IInv /\ Cobalt!AddUp => Cobalt!IInv'
<1> SUFFICES ASSUME Cobalt!IInv, Cobalt!AddUp PROVE Cobalt!IInv'
  OBVIOUS
<1> USE SharedSets DEF Cobalt!AddUp, Cobalt!prodVars, Cobalt!consVars
<1>1. i \in Consumers /\ i \in Nat
  BY CountsAssumption DEF Cobalt!IInv, Cobalt!TypeOK, Consumers
<1>2. total \in Result /\ result[i] \in Result
  BY <1>1 DEF Cobalt!IInv, Cobalt!TypeOK
<1>3. total' \in Result /\ total' = AddResult(total, result[i])
  BY <1>2, AddResultType, SharedSums
<1>4. Cobalt!TypeOK'
  BY <1>1, <1>3 DEF Cobalt!IInv, Cobalt!TypeOK
<1>5. Cobalt!SetupInv'
  BY DEF Cobalt!IInv, Cobalt!SetupInv
<1>6. Cobalt!ElementInv'
  BY DEF Cobalt!IInv, Cobalt!ElementInv, Cobalt!Held
<1>7. Cobalt!CloseInv'
  BY DEF Cobalt!IInv, Cobalt!CloseInv, Cobalt!ProducersJoined
<1>8. Cobalt!CheckInv'
  <2>1. got \in [Consumers -> SUBSET Elements]
    BY DEF Cobalt!IInv, Cobalt!TypeOK
  <2>2. \A c, d \in Consumers : \A e \in got[c] \cap got[d] : c = d
    <3>1. \A c \in Consumers : got[c] \subseteq Cobalt!Held[c]
      BY DEF Cobalt!Held
    <3>2. Placed(posted, <<>>, Cobalt!Held)
      BY SharedPlaces DEF Cobalt!IInv, Cobalt!ElementInv
    <3> QED BY <3>1, <3>2 DEF Placed
  <2>3. AddResult(TallyOf(ReceivedBefore(i, got)), TallyOf(got[i]))
          = TallyOf(ReceivedBefore(i + 1, got))
    BY <1>1, <2>1, <2>2, ReceivedBeforeStep
  <2>4. result[i] = TallyOf(got[i])
    BY <1>1, SharedPlaces DEF Cobalt!IInv, Cobalt!ElementInv, Tallied
  <2>5. total = TallyOf(ReceivedBefore(i, got))
    BY SharedSums, SharedPlaces DEF Cobalt!IInv, Cobalt!CheckInv
  <2>6. total' = Cobalt!TallyOf(Cobalt!ReceivedBefore(i + 1, got))
    BY <1>3, <2>3, <2>4, <2>5, SharedSums, SharedPlaces
  <2>7. i + 1 =< ConsumerCount
    BY <1>1, CountsAssumption DEF Consumers
  <2> QED BY <2>6, <2>7 DEF Cobalt!IInv, Cobalt!CheckInv
<1> QED BY <1>4, <1>5, <1>6, <1>7, <1>8 DEF Cobalt!IInv

(* The totals that do_bench() compares are those of all elements.          *)
LEMMA CobaltReturn == Cobalt!IInv /\ Cobalt!Return => Cobalt!IInv'
<1> SUFFICES ASSUME Cobalt!IInv, Cobalt!Return PROVE Cobalt!IInv'
  OBVIOUS
<1> USE SharedSets DEF Cobalt!Return, Cobalt!prodVars, Cobalt!consVars
<1>1. Cobalt!TypeOK'
  BY DEF Cobalt!IInv, Cobalt!TypeOK
<1>2. Cobalt!SetupInv'
  BY DEF Cobalt!IInv, Cobalt!SetupInv
<1>3. Cobalt!ElementInv'
  BY DEF Cobalt!IInv, Cobalt!ElementInv, Cobalt!Held
<1>4. Cobalt!CloseInv'
  BY DEF Cobalt!IInv, Cobalt!CloseInv, Cobalt!ProducersJoined
<1>5. Cobalt!CheckInv'
  <2>1. total = TallyOf(ReceivedBefore(ConsumerCount, got))
    BY SharedSums, SharedPlaces DEF Cobalt!IInv, Cobalt!CheckInv
  <2>2. ReceivedBefore(ConsumerCount, got) = Elements
    BY CobaltReceived, ReceivedBeforeEnds
  <2>3. report' = "pass"
    BY <2>1, <2>2, TallyOfAll, SharedSums
  <2> QED BY <2>3 DEF Cobalt!CheckInv
<1> QED BY <1>1, <1>2, <1>3, <1>4, <1>5 DEF Cobalt!IInv

LEMMA CobaltNextInv == Cobalt!IInv /\ [Cobalt!Next]_(Cobalt!vars) => Cobalt!IInv'
<1> SUFFICES ASSUME Cobalt!IInv, [Cobalt!Next]_(Cobalt!vars) PROVE Cobalt!IInv'
  OBVIOUS
<1>1. CASE Cobalt!DoBench
  BY <1>1, CobaltCreateProducer, CobaltCreateConsumer, CobaltNextLoop, CobaltClose,
     CobaltJoinConsumers, CobaltAddUp, CobaltReturn
  DEF Cobalt!DoBench
<1>2. ASSUME NEW c \in Consumers,
             Cobalt!Resume(c) \/ Cobalt!Throw(c)
               \/ \E p \in Producers : Cobalt!Transfer(p, c)
      PROVE  Cobalt!IInv'
  BY <1>2, CobaltResume, CobaltThrow, CobaltTransfer
<1>3. CASE UNCHANGED Cobalt!vars
  <2> USE <1>3 DEF Cobalt!vars, Cobalt!prodVars, Cobalt!consVars
  <2>1. Cobalt!TypeOK' /\ Cobalt!SetupInv'
    BY DEF Cobalt!IInv, Cobalt!TypeOK, Cobalt!SetupInv
  <2>2. Cobalt!ElementInv'
    BY DEF Cobalt!IInv, Cobalt!ElementInv, Cobalt!Held
  <2>3. Cobalt!CloseInv' /\ Cobalt!CheckInv'
    BY DEF Cobalt!IInv, Cobalt!CloseInv, Cobalt!ProducersJoined, Cobalt!CheckInv
  <2> QED BY <2>1, <2>2, <2>3 DEF Cobalt!IInv
<1> QED
  BY <1>1, <1>2, <1>3, SharedSets DEF Cobalt!Next, Cobalt!Step, Cobalt!Stopped

(* The inductive invariant of cobalt's program holds in every state: the   *)
(* close() under waiting readers takes no element with it.                 *)
THEOREM CobaltInvariance == Cobalt!Spec => []Cobalt!IInv
BY CobaltInitInv, CobaltNextInv, PTL DEF Cobalt!Spec

(* do_bench() of cobalt's program prints neither of its two FAIL lines: it *)
(* throws, or its totals are those of all elements.                        *)
THEOREM CobaltNeverFails == Cobalt!Spec => [](report # "fail")
<1>1. Cobalt!IInv => report # "fail"
  BY DEF Cobalt!IInv, Cobalt!CheckInv
<1> QED BY <1>1, CobaltInvariance, PTL

(* The promise of this program speaks of the same elements as well.        *)
LEMMA CobaltNames ==
  /\ Cobalt!Promise!Elements = Elements /\ Cobalt!Promise!Consumers = Consumers
  /\ Cobalt!Promise!Received(got) = Received(got)
BY DEF Cobalt!Promise!Elements, Cobalt!Promise!Consumers, Cobalt!Promise!Received,
       Elements, Consumers, Received

(* A step is one of the promise, or changes nothing that it speaks of.     *)
LEMMA CobaltStep ==
  Cobalt!IInv /\ [Cobalt!Next]_(Cobalt!vars)
    => [Cobalt!Promise!Next]_(Cobalt!Promise!promiseVars)
<1> SUFFICES ASSUME Cobalt!IInv, [Cobalt!Next]_(Cobalt!vars)
             PROVE  Cobalt!Promise!Next \/ UNCHANGED <<got, report \in {"pass", "fail"}>>
  BY DEF Cobalt!Promise!promiseVars
<1>1. CASE UNCHANGED <<got, report>>
  BY <1>1
<1>2. CASE \/ Cobalt!CreateProducer \/ Cobalt!CreateConsumer \/ Cobalt!NextLoop
           \/ Cobalt!Close \/ Cobalt!AddUp \/ UNCHANGED Cobalt!vars
  BY <1>1, <1>2 DEF Cobalt!CreateProducer, Cobalt!CreateConsumer, Cobalt!NextLoop,
       Cobalt!Close, Cobalt!AddUp, Cobalt!vars, Cobalt!consVars
<1>3. CASE Cobalt!JoinConsumers
  <2>1. got' = got /\ report' \in {"thrown", report} /\ report = "running"
    BY <1>3 DEF Cobalt!JoinConsumers, Cobalt!consVars, Cobalt!IInv, Cobalt!CheckInv,
         Cobalt!TypeOK
  <2>2. report \notin {"pass", "fail"} /\ report' \notin {"pass", "fail"}
    BY <2>1
  <2> QED BY <2>1, <2>2
<1>4. CASE Cobalt!Return
  <2>1. report = "running" /\ report' \in {"pass", "fail"} /\ got' = got
    BY <1>4 DEF Cobalt!Return, Cobalt!consVars, Cobalt!IInv, Cobalt!CheckInv, Cobalt!TypeOK
  <2>2. Received(got) = Elements
    BY <1>4, CobaltReceived DEF Cobalt!Return
  <2>3. Cobalt!Promise!Report
    BY <2>1, <2>2, CobaltNames DEF Cobalt!Promise!Report
  <2> QED BY <2>3 DEF Cobalt!Promise!Next
<1>5. ASSUME NEW c \in Consumers, Cobalt!Resume(c)
      PROVE  Cobalt!Promise!Next
  <2>1. data[c] \in Elements \ Received(got)
    BY <1>5, CobaltHeld DEF Cobalt!Resume
  <2>2. got' = [got EXCEPT ![c] = @ \cup {data[c]}] /\ report' = report
    BY <1>5 DEF Cobalt!Resume
  <2>3. report = "running"
    BY <1>5, SharedSets DEF Cobalt!Resume, Cobalt!IInv, Cobalt!CheckInv, Cobalt!CloseInv,
         Cobalt!TypeOK
  <2>4. Cobalt!Promise!Deliver(c)
    BY <2>1, <2>2, <2>3, CobaltNames DEF Cobalt!Promise!Deliver
  <2> QED BY <2>4, CobaltNames DEF Cobalt!Promise!Next
<1>6. ASSUME NEW c \in Consumers, Cobalt!Throw(c) \/ \E p \in Producers : Cobalt!Transfer(p, c)
      PROVE  UNCHANGED <<got, report>>
  BY <1>6 DEF Cobalt!Throw, Cobalt!Transfer
<1> QED
  BY <1>1, <1>2, <1>3, <1>4, <1>5, <1>6, SharedSets
  DEF Cobalt!Next, Cobalt!Step, Cobalt!DoBench, Cobalt!Stopped

(* cobalt's program implements the promise of a channel benchmark: each    *)
(* element is received at most once, and do_bench() reports when all have  *)
(* been.                                                                   *)
THEOREM CobaltRefinement == Cobalt!Spec => Cobalt!PromiseSpec
<1>1. Cobalt!Init => Cobalt!Promise!Init
  BY SharedSets, CobaltNames DEF Cobalt!Init, Cobalt!Promise!Init
<1> QED BY <1>1, CobaltStep, CobaltInvariance, PTL
        DEF Cobalt!Spec, Cobalt!PromiseSpec, Cobalt!Promise!Spec
=============================================================================

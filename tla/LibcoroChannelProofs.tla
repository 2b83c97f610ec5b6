------------------------ MODULE LibcoroChannelProofs ------------------------
(***************************************************************************)
(* LibcoroChannel is correct for every number of elements, of producers    *)
(* and of consumers.  The part that the other programs do not have is the  *)
(* choice of the producer that shuts the queue down: countDown is the      *)
(* number of producers still pushing, so the one that takes it to zero is  *)
(* the last.                                                               *)
(***************************************************************************)
EXTENDS LibcoroChannel, ChannelBenchProofs

USE DEF NoFailure

LEMMA SlicedFacts ==
  ASSUME TypeOK, SetupInv, main # "create"
  PROVE  slice = [p \in Producers |-> [first |-> First(p), count |-> TaskCount(p)]]
<1>1. \A p \in Producers : slice[p] = [first |-> First(p), count |-> TaskCount(p)]
  BY CountsAssumption DEF SetupInv, Sliced, Producers
<1> QED BY <1>1 DEF TypeOK

LEMMA PushingFinite ==
  /\ IsFiniteSet(Producers) /\ Cardinality(Producers) = ProducerCount
  /\ IsFiniteSet(Pushing) /\ Cardinality(Pushing) \in Nat
<1>1. IsFiniteSet(Producers) /\ Cardinality(Producers) = ProducerCount
  BY FS_Interval, CountsAssumption DEF Producers
<1> QED BY <1>1, FS_Subset, FS_CardinalityType DEF Pushing

LEMMA InitInv == Init => IInv
<1> SUFFICES ASSUME Init PROVE IInv
  OBVIOUS
<1> USE DEF Init
<1>1. TypeOK
  BY NoResultType, CountsAssumption DEF TypeOK
<1>2. SetupInv
  BY FirstStep, TaskCountType, CountsAssumption
  DEF SetupInv, Sliced, LoopCounters, Producers
<1>3. ElementInv
  BY PlacedNone, TallyOfNone DEF ElementInv, Tallied
<1>4. ShutdownInv
  <2>1. Pushing = Producers /\ ShuttingDown = {}
    BY DEF Pushing, ShuttingDown
  <2>2. countDown = Cardinality(Pushing)
    BY <2>1, PushingFinite
  <2>3. 0 \in Producers
    BY CountsAssumption DEF Producers
  <2> QED BY <2>1, <2>2, <2>3 DEF ShutdownInv, OneShutdown
<1>5. CheckInv
  BY DEF CheckInv
<1> QED BY <1>1, <1>2, <1>3, <1>4, <1>5 DEF IInv

(* An action that leaves the producers, the queue's state and the          *)
(* consumers' places alone does not disturb ShutdownInv.                   *)
LEMMA ShutdownKept ==
  ASSUME IInv, UNCHANGED <<slice, posted, prod, countDown, state, cons>>,
         state = "stopped" => chan' = <<>>
  PROVE  ShutdownInv'
BY DEF IInv, ShutdownInv, OneShutdown, ShuttingDown, Pushing

-----------------------------------------------------------------------------
(* do_bench() before the coroutines start.                                 *)
LEMMA CreateProducerInv == IInv /\ CreateProducer => IInv'
<1> SUFFICES ASSUME IInv, CreateProducer PROVE IInv'
  OBVIOUS
<1> USE DEF CreateProducer, prodVars, queueVars, consVars, checkVars
<1>1. i \in Producers /\ i + 1 =< ProducerCount
  BY CountsAssumption DEF IInv, TypeOK, Producers
<1>2. /\ TaskCount(i) \in Nat /\ base = First(i) /\ base \in Nat
      /\ NextBase = First(i + 1) /\ First(i + 1) \in Nat
  BY <1>1, TaskCountType, FirstStep, FirstType, CountsAssumption
  DEF IInv, TypeOK, SetupInv, NextBase, Producers
<1>3. TypeOK'
  BY SMTT(30), <1>1, <1>2 DEF IInv, TypeOK
<1>4. SetupInv'
  <2>1. Sliced(i, slice) /\ slice \in [Producers -> [first : Nat, count : Nat]]
    BY DEF IInv, TypeOK, SetupInv
  <2>2. ASSUME NEW p \in Producers, p < i + 1
        PROVE  slice'[p] = [first |-> First(p), count |-> TaskCount(p)]
    <3>1. CASE p = i
      BY <1>2, <2>1, <3>1
    <3>2. CASE p < i
      BY <2>1, <3>2, CountsAssumption DEF Sliced, Producers
    <3> QED BY <1>1, <2>2, <3>1, <3>2, CountsAssumption DEF Producers
  <2>3. Sliced(i + 1, slice')
    BY <2>2 DEF Sliced
  <2> QED BY <1>1, <1>2, <2>3 DEF IInv, SetupInv
<1>5. ElementInv' /\ CheckInv'
  BY DEF IInv, ElementInv, CheckInv
<1>6. ShutdownInv'
  <2>1. Pushing = Producers /\ Pushing' = Pushing /\ ShuttingDown' = ShuttingDown
    BY DEF IInv, SetupInv, Pushing, ShuttingDown
  <2> QED BY <2>1 DEF IInv, ShutdownInv, OneShutdown
<1> QED BY <1>3, <1>4, <1>5, <1>6 DEF IInv

LEMMA StartAllInv == IInv /\ StartAll => IInv'
<1> SUFFICES ASSUME IInv, StartAll PROVE IInv'
  OBVIOUS
<1> USE DEF StartAll, setupVars, prodVars, queueVars, consVars, checkVars
<1>1. TypeOK'
  BY DEF IInv, TypeOK
<1>2. SetupInv'
  BY DEF IInv, SetupInv
<1>3. ElementInv' /\ CheckInv'
  BY DEF IInv, ElementInv, CheckInv
<1>4. ShutdownInv'
  BY ShutdownKept DEF IInv, ShutdownInv
<1> QED BY <1>1, <1>2, <1>3, <1>4 DEF IInv

-----------------------------------------------------------------------------
(* The producers.                                                          *)
LEMMA PushInv == ASSUME IInv, NEW p \in Producers, Push(p) PROVE IInv'
<1> USE DEF Push, setupVars, consVars, checkVars
<1> DEFINE x == slice[p].first + posted[p]
<1>1. slice[p].first = First(p) /\ slice[p].count = TaskCount(p)
  BY SlicedFacts DEF IInv
<1>2. posted \in LoopCounters /\ posted[p] < TaskCount(p)
  BY <1>1 DEF IInv, SetupInv
<1>3. /\ x \in Elements \ Posted(posted)
      /\ posted' \in LoopCounters
      /\ Posted(posted') = Posted(posted) \cup {x}
  BY <1>1, <1>2, PostNext
<1>4. p \in Pushing /\ state = "running"
  BY DEF IInv, ShutdownInv, Pushing
<1>5. chan \in Seq(Elements) /\ chan' = Append(chan, x)
  BY <1>4 DEF IInv, TypeOK
<1> HIDE DEF x
<1>6. TypeOK'
  <2>1. posted' \in [Producers -> Nat] /\ chan' \in Seq(Elements)
    BY <1>3, <1>5 DEF LoopCounters
  <2> QED BY <2>1 DEF IInv, TypeOK
<1>7. SetupInv'
  BY <1>3 DEF IInv, SetupInv
<1>8. ElementInv'
  <2>1. Placed(posted, chan, got)
    BY DEF IInv, ElementInv
  <2>2. Placed(posted', Append(chan, x), got)
    BY <1>3, <1>5, <2>1, PlacedPost
  <2> QED BY <1>5, <2>2 DEF IInv, ElementInv
<1>9. ShutdownInv'
  <2>1. Pushing' = Pushing /\ ShuttingDown' = ShuttingDown
    BY DEF Pushing, ShuttingDown
  <2>2. \A q \in Producers \ Pushing : posted'[q] = posted[q]
    BY <1>4 DEF IInv, TypeOK
  <2> QED BY <1>4, <2>1, <2>2 DEF IInv, ShutdownInv, OneShutdown
<1>10. CheckInv'
  BY DEF IInv, CheckInv
<1> QED BY <1>6, <1>7, <1>8, <1>9, <1>10 DEF IInv

(* The step that decides who is last.                                      *)
LEMMA CountDownInv == ASSUME IInv, NEW p \in Producers, CountDown(p) PROVE IInv'
<1> USE DEF CountDown, IsLast, setupVars, queueVars, consVars, checkVars
<1>1. p \in Pushing /\ countDown = Cardinality(Pushing) /\ state = "running"
  BY DEF IInv, ShutdownInv, Pushing
<1>2. Pushing' = Pushing \ {p}
  BY DEF IInv, TypeOK, Pushing
<1>3. Cardinality(Pushing \ {p}) = countDown - 1 /\ countDown > 0
  <2>1. Cardinality(Pushing \ {p}) = Cardinality(Pushing) - 1
    BY <1>1, PushingFinite, FS_RemoveElement
  <2>2. Cardinality(Pushing) # 0
    BY <1>1, PushingFinite, FS_EmptySet
  <2> QED BY <1>1, <2>1, <2>2, PushingFinite
<1>4. countDown' = Cardinality(Pushing')
  <2>1. Cardinality(Pushing') = Cardinality(Pushing \ {p})
    BY <1>2, Zenon
  <2> QED BY <1>3, <2>1
<1>5. ShuttingDown = {}
  BY <1>3 DEF IInv, ShutdownInv, OneShutdown
<1>6. TypeOK'
  BY <1>3, CountsAssumption DEF IInv, TypeOK
<1>7. SetupInv' /\ ElementInv' /\ CheckInv'
  BY DEF IInv, SetupInv, ElementInv, CheckInv
<1>8. \A q \in Producers \ (Pushing \ {p}) : posted[q] = slice[q].count
  BY DEF IInv, ShutdownInv
<1>9. \A q \in Producers : q # p => prod'[q] = prod[q]
  BY DEF IInv, TypeOK
<1>10. \A q \in Producers : prod[q] \notin {"last", "draining"}
  BY <1>5 DEF ShuttingDown
<1>11. ShutdownInv'
  <2>1. CASE countDown = 1
    <3>1. prod'[p] = "last" /\ ShuttingDown' = {p}
      BY <1>9, <1>10, <2>1 DEF IInv, TypeOK, ShuttingDown
    <3>2. OneShutdown'
      BY <1>1, <2>1, <3>1 DEF OneShutdown
    <3> QED
      BY <1>1, <1>2, <1>4, <1>8, <1>9, <1>10, <3>1, <3>2
      DEF IInv, ShutdownInv
  <2>2. CASE countDown # 1
    <3>1. prod'[p] = "done" /\ ShuttingDown' = {}
      BY <1>9, <1>10, <2>2 DEF IInv, TypeOK, ShuttingDown
    <3>2. PICK q \in Pushing : q # p
      <4>1. Pushing \ {p} # {}
        <5>1. Cardinality(Pushing \ {p}) # 0
          BY <1>3, <2>2 DEF IInv, TypeOK
        <5> QED BY <5>1, FS_EmptySet, Zenon
      <4> QED BY <4>1
    <3>3. q \in Producers /\ prod'[q] = "pushing"
      BY <1>9, <3>2 DEF Pushing
    <3>4. OneShutdown'
      BY <3>1, <3>3 DEF OneShutdown
    <3> QED
      BY <1>1, <1>2, <1>4, <1>8, <1>9, <1>10, <3>1, <3>4
      DEF IInv, ShutdownInv
  <2> QED BY <2>1, <2>2
<1> QED BY <1>6, <1>7, <1>11 DEF IInv

(* The last producer calls shutdown_drain().                               *)
LEMMA StartDrainInv == ASSUME IInv, NEW p \in Producers, StartDrain(p) PROVE IInv'
<1> USE DEF StartDrain, setupVars, consVars, checkVars
<1>1. /\ state = "running" /\ state' = "draining"
      /\ prod' = [prod EXCEPT ![p] = "draining"]
  BY DEF IInv, ShutdownInv
<1>2. p \in ShuttingDown
  BY DEF ShuttingDown
<1>3. countDown = 0 /\ \A q \in ShuttingDown : q = p
  BY <1>2 DEF IInv, ShutdownInv, OneShutdown
<1>4. Pushing = {} /\ Pushing' = {}
  <2>1. Pushing = {}
    BY <1>3, PushingFinite, FS_EmptySet DEF IInv, ShutdownInv
  <2> QED BY <1>1, <2>1 DEF IInv, TypeOK, Pushing
<1>5. ShuttingDown' = {p}
  BY <1>1, <1>3 DEF IInv, TypeOK, ShuttingDown
<1>6. TypeOK'
  BY <1>1 DEF IInv, TypeOK
<1>7. SetupInv' /\ ElementInv' /\ CheckInv'
  BY <1>1 DEF IInv, SetupInv, ElementInv, CheckInv
<1>8. OneShutdown'
  <2>1. prod'[p] = "draining"
    BY <1>1 DEF IInv, TypeOK
  <2> QED BY <1>1, <1>3, <1>5, <2>1 DEF OneShutdown
<1>9. \A q \in Producers : q # p => prod'[q] # "last"
  BY <1>5 DEF ShuttingDown
<1>10. ShutdownInv'
  BY <1>1, <1>3, <1>4, <1>8, <1>9, FS_EmptySet DEF IInv, TypeOK, ShutdownInv
<1> QED BY <1>6, <1>7, <1>10 DEF IInv

(* shutdown_drain() completes.                                             *)
LEMMA ShutdownStepInv == ASSUME IInv, NEW p \in Producers, Shutdown(p) PROVE IInv'
<1> USE DEF Shutdown, QueueEmpty, setupVars, consVars, checkVars
<1>1. p \in ShuttingDown /\ state = "draining"
  BY DEF IInv, ShutdownInv, ShuttingDown
<1>2. countDown = 0 /\ \A q \in ShuttingDown : q = p
  BY <1>1 DEF IInv, ShutdownInv, OneShutdown
<1>3. Pushing = {} /\ Pushing' = {} /\ ShuttingDown' = {}
  <2>1. Pushing = {}
    BY <1>1 DEF IInv, ShutdownInv
  <2> QED BY <1>2, <2>1 DEF IInv, TypeOK, Pushing, ShuttingDown
<1>4. TypeOK'
  BY DEF IInv, TypeOK
<1>5. SetupInv' /\ ElementInv' /\ CheckInv'
  BY <1>1 DEF IInv, SetupInv, ElementInv, CheckInv
<1>6. OneShutdown'
  BY <1>3 DEF OneShutdown
<1>7. ShutdownInv'
  BY <1>2, <1>3, <1>6, FS_EmptySet DEF IInv, TypeOK, ShutdownInv, ShuttingDown
<1> QED BY <1>4, <1>5, <1>7 DEF IInv

-----------------------------------------------------------------------------
(* The consumers.                                                          *)
LEMMA PopInv == ASSUME IInv, NEW c \in Consumers, Pop(c) PROVE IInv'
<1> USE DEF Pop, setupVars, prodVars, checkVars
<1>1. /\ chan \in Seq(Elements) /\ chan # <<>>
      /\ Head(chan) \in Elements
      /\ chan' \in Seq(Elements)
  <2>1. chan \in Seq(Elements)
    BY DEF IInv, TypeOK
  <2> QED BY <2>1, TailFacts
<1>2. /\ got \in [Consumers -> SUBSET Elements]
      /\ result \in [Consumers -> Result]
      /\ Placed(posted, chan, got) /\ Tallied(result, got)
  BY DEF IInv, TypeOK, ElementInv
<1>3. /\ Head(chan) \notin Received(got)
      /\ Placed(posted, chan', got')
  BY <1>1, <1>2, PlacedTake
<1>4. result' \in [Consumers -> Result] /\ Tallied(result', got')
  BY <1>1, <1>2, <1>3, TalliedTake
<1>5. TypeOK'
  BY <1>1, <1>2, <1>4 DEF IInv, TypeOK
<1>6. SetupInv'
  BY DEF IInv, SetupInv
<1>7. ElementInv'
  BY <1>3, <1>4 DEF ElementInv
<1>8. ShutdownInv'
  BY <1>1, ShutdownKept DEF IInv, ShutdownInv
<1>9. CheckInv'
  BY DEF IInv, CheckInv
<1> QED BY <1>5, <1>6, <1>7, <1>8, <1>9 DEF IInv

LEMMA StopInv == ASSUME IInv, NEW c \in Consumers, Stop(c) PROVE IInv'
<1> USE DEF Stop, setupVars, prodVars, queueVars, checkVars
<1>1. TypeOK'
  BY DEF IInv, TypeOK
<1>2. SetupInv' /\ ElementInv' /\ CheckInv'
  BY DEF IInv, SetupInv, ElementInv, CheckInv
<1>3. ShutdownInv'
  BY DEF IInv, ShutdownInv, OneShutdown, ShuttingDown, Pushing
<1> QED BY <1>1, <1>2, <1>3 DEF IInv

(* The queue is stopped: every element has been received.                  *)
LEMMA StoppedReceived == ASSUME IInv, state = "stopped" PROVE Received(got) = Elements
<1>1. Pushing = {} /\ chan = <<>>
  BY DEF IInv, ShutdownInv
<1>2. main # "create"
  <2>1. 0 \in Producers
    BY CountsAssumption DEF Producers
  <2>2. prod[0] # "pushing"
    BY <1>1, <2>1 DEF Pushing
  <2> QED BY <2>1, <2>2 DEF IInv, SetupInv
<1>3. \A p \in Producers : posted[p] = TaskCount(p)
  BY <1>1, <1>2, SlicedFacts DEF IInv, ShutdownInv
<1>4. Posted(posted) = Elements
  BY <1>3, PostedAll
<1>5. \A k \in DOMAIN chan : chan[k] \notin Elements
  BY <1>1
<1> QED BY <1>4, <1>5, AllReceived DEF IInv, TypeOK, ElementInv

-----------------------------------------------------------------------------
(* do_bench() after when_all().                                            *)
LEMMA AllDoneInv == IInv /\ AllDone => IInv'
<1> SUFFICES ASSUME IInv, AllDone PROVE IInv'
  OBVIOUS
<1> USE DEF AllDone, setupVars, prodVars, queueVars, consVars, checkVars
<1>1. TypeOK'
  BY DEF IInv, TypeOK
<1>2. SetupInv' /\ ElementInv'
  BY DEF IInv, SetupInv, ElementInv
<1>3. ShutdownInv'
  BY ShutdownKept DEF IInv, ShutdownInv
<1>4. CheckInv'
  <2>1. total = NoResult
    BY DEF IInv, CheckInv
  <2>2. state = "stopped"
    BY DEF IInv, ShutdownInv, OneShutdown
  <2>3. 0 >= ProducerCount => TallyOf(ReceivedBefore(0 - ProducerCount, got)) = NoResult
    BY CountsAssumption
  <2> QED BY <2>1, <2>2, <2>3, CountsAssumption DEF IInv, CheckInv
<1> QED BY <1>1, <1>2, <1>3, <1>4 DEF IInv

LEMMA AddUpInv == IInv /\ AddUp => IInv'
<1> SUFFICES ASSUME IInv, AddUp PROVE IInv'
  OBVIOUS
<1> USE DEF AddUp, setupVars, prodVars, queueVars, consVars
<1>1. i \in Nat /\ i < ProducerCount + ConsumerCount /\ total \in Result
  BY DEF IInv, TypeOK
<1>2. Results(i) \in Result
  <2>1. CASE i < ProducerCount
    BY <2>1, NoResultType DEF Results
  <2>2. CASE ~ (i < ProducerCount)
    <3>1. i - ProducerCount \in Consumers
      BY <1>1, <2>2, CountsAssumption DEF Consumers
    <3> QED BY <2>2, <3>1 DEF IInv, TypeOK, Results
  <2> QED BY <2>1, <2>2
<1>3. total' \in Result /\ total' = AddResult(total, Results(i))
  BY <1>1, <1>2, AddResultType
<1>4. TypeOK'
  BY <1>1, <1>3 DEF IInv, TypeOK
<1>5. SetupInv' /\ ElementInv'
  BY DEF IInv, SetupInv, ElementInv
<1>6. ShutdownInv'
  BY ShutdownKept DEF IInv, ShutdownInv
<1>7. CASE i < ProducerCount
  <2>1. total = NoResult /\ Results(i) = NoResult
    BY <1>1, <1>7, CountsAssumption DEF IInv, CheckInv, Results
  <2>2. TallyOf(ReceivedBefore(0, got)) = NoResult /\ total' = NoResult
    BY <1>3, <2>1, ReceivedBeforeEnds, AddResultNone
  <2>3. i + 1 >= ProducerCount => i + 1 - ProducerCount = 0
    BY <1>1, <1>7, CountsAssumption
  <2>4. i + 1 >= ProducerCount =>
          TallyOf(ReceivedBefore(i + 1 - ProducerCount, got)) = NoResult
    BY <2>2, <2>3
  <2>5. CheckInv'
    BY <1>1, <1>7, <2>2, <2>4, CountsAssumption DEF IInv, CheckInv
  <2> QED BY <1>4, <1>5, <1>6, <2>5 DEF IInv
<1>8. CASE ~ (i < ProducerCount)
  <2> DEFINE n == i - ProducerCount
  <2>1. n \in Consumers /\ n + 1 = i + 1 - ProducerCount
    BY <1>1, <1>8, CountsAssumption DEF Consumers
  <2>2. /\ got \in [Consumers -> SUBSET Elements]
        /\ \A c, d \in Consumers : \A e \in got[c] \cap got[d] : c = d
    BY DEF IInv, TypeOK, ElementInv, Placed
  <2>3. AddResult(TallyOf(ReceivedBefore(n, got)), TallyOf(got[n]))
          = TallyOf(ReceivedBefore(n + 1, got))
    BY <2>1, <2>2, ReceivedBeforeStep
  <2>4. Results(i) = TallyOf(got[n])
    BY <1>8, <2>1 DEF IInv, ElementInv, Tallied, Results
  <2>5. total = TallyOf(ReceivedBefore(n, got))
    BY <1>1, <1>8, CountsAssumption DEF IInv, CheckInv
  <2>6. total' = TallyOf(ReceivedBefore(i + 1 - ProducerCount, got))
    BY <1>3, <2>1, <2>3, <2>4, <2>5
  <2>7. CheckInv'
    BY <1>1, <1>8, <2>6, CountsAssumption DEF IInv, CheckInv
  <2> QED BY <1>4, <1>5, <1>6, <2>7 DEF IInv
<1> QED BY <1>7, <1>8

LEMMA ReturnInv == IInv /\ Return => IInv'
<1> SUFFICES ASSUME IInv, Return PROVE IInv'
  OBVIOUS
<1> USE DEF Return, setupVars, prodVars, queueVars, consVars
<1>1. TypeOK'
  BY DEF IInv, TypeOK
<1>2. SetupInv' /\ ElementInv'
  BY DEF IInv, SetupInv, ElementInv
<1>3. ShutdownInv'
  BY ShutdownKept DEF IInv, ShutdownInv
<1>4. CheckInv'
  <2>1. i - ProducerCount = ConsumerCount /\ i >= ProducerCount /\ state = "stopped"
    BY CountsAssumption DEF IInv, CheckInv
  <2>2. total = TallyOf(ReceivedBefore(ConsumerCount, got))
    BY <2>1 DEF IInv, CheckInv
  <2>3. ReceivedBefore(ConsumerCount, got) = Elements
    BY <2>1, StoppedReceived, ReceivedBeforeEnds
  <2>4. total = TallyOf(Elements) /\ report' = "pass"
    BY <2>2, <2>3, TallyOfAll
  <2> QED BY <2>1, <2>4 DEF CheckInv
<1> QED BY <1>1, <1>2, <1>3, <1>4 DEF IInv

LEMMA StutterInv == IInv /\ UNCHANGED vars => IInv'
<1> SUFFICES ASSUME IInv, UNCHANGED vars PROVE IInv'
  OBVIOUS
<1> USE DEF vars, setupVars, prodVars, queueVars, consVars, checkVars
<1>1. TypeOK' /\ SetupInv' /\ ElementInv' /\ CheckInv'
  BY DEF IInv, TypeOK, SetupInv, ElementInv, CheckInv
<1>2. ShutdownInv'
  BY ShutdownKept DEF IInv, ShutdownInv
<1> QED BY <1>1, <1>2 DEF IInv

LEMMA NextInv == IInv /\ [Next]_vars => IInv'
<1> SUFFICES ASSUME IInv, [Next]_vars PROVE IInv'
  OBVIOUS
<1>1. CASE DoBench
  BY <1>1, CreateProducerInv, StartAllInv, AllDoneInv, AddUpInv, ReturnInv DEF DoBench
<1>2. CASE \E p \in Producers : Produce(p)
  BY <1>2, PushInv, CountDownInv, StartDrainInv, ShutdownStepInv DEF Produce
<1>3. CASE \E c \in Consumers : Consume(c)
  BY <1>3, PopInv, StopInv DEF Consume
<1>4. CASE UNCHANGED vars
  BY <1>4, StutterInv
<1> QED BY <1>1, <1>2, <1>3, <1>4 DEF Next, Stopped

(* The inductive invariant holds in every reachable state.                 *)
THEOREM Invariance == Spec => []IInv
BY InitInv, NextInv, PTL DEF Spec

-----------------------------------------------------------------------------
(* Every variable keeps its type: only elements are ever in the queue.     *)
THEOREM TypeCorrect == Spec => []TypeOK
<1>1. IInv => TypeOK
  BY DEF IInv
<1> QED BY <1>1, Invariance, PTL

(* No element is lost or duplicated on its way from producer to consumer.  *)
THEOREM NoLossNoDuplication == Spec => []OneHolder
<1>1. IInv => OneHolder
  <2> SUFFICES ASSUME IInv, main # "create", NEW e \in Elements
               PROVE  Cardinality(Holders(e, slice, posted, chan, got)) = 1
    BY DEF OneHolder
  <2>1. slice = [p \in Producers |-> [first |-> First(p), count |-> TaskCount(p)]]
    BY SlicedFacts DEF IInv
  <2>2. /\ chan \in Seq(Elements)
        /\ posted \in LoopCounters
        /\ got \in [Consumers -> SUBSET Elements]
        /\ Placed(posted, chan, got)
    BY DEF IInv, TypeOK, SetupInv, ElementInv
  <2> QED BY <2>1, <2>2, HoldersOne
<1> QED BY <1>1, Invariance, PTL

(* Exactly one producer shuts the queue down, when all have pushed.        *)
THEOREM ShutdownOnce == Spec => []OneShutdown
<1>1. IInv => OneShutdown
  BY DEF IInv, ShutdownInv
<1> QED BY <1>1, Invariance, PTL

(* The assert on the result of push() never fails.                         *)
THEOREM PushesAreAccepted == Spec => EveryPushAccepted
<1>1. IInv /\ [Next]_vars => [posted' # posted => state = "running"]_vars
  <2> SUFFICES ASSUME IInv, Next, posted' # posted PROVE state = "running"
    OBVIOUS
  <2>1. PICK p \in Producers : Push(p)
    BY DEF Next, DoBench, Produce, Consume, Stopped, CreateProducer, StartAll,
           CountDown, StartDrain, Shutdown, AllDone, AddUp, Return, Pop, Stop,
           prodVars, vars
  <2> QED BY <2>1 DEF Push, IInv, ShutdownInv, Pushing
<1> QED BY <1>1, Invariance, PTL DEF Spec, EveryPushAccepted

(* When the queue or a consumer stops, no element is left to receive.      *)
THEOREM StopsOnlyWhenDrained == Spec => []StopsAfterLast
<1>1. IInv => StopsAfterLast
  <2> SUFFICES ASSUME IInv, state = "stopped" \/ \E c \in Consumers : cons[c] = "stopped"
               PROVE  Received(got) = Elements
    BY DEF StopsAfterLast
  <2>1. state = "stopped"
    BY DEF IInv, ShutdownInv
  <2> QED BY <2>1, StoppedReceived
<1> QED BY <1>1, Invariance, PTL

(* do_bench() has counted and summed every element when it returns:        *)
(* neither of its two FAIL lines is ever printed.                          *)
THEOREM NeverFails ==
  Spec => [](NoFailure /\ (main = "returned" => total = TallyOf(Elements)))
<1>1. IInv => NoFailure /\ (main = "returned" => total = TallyOf(Elements))
  BY DEF IInv, CheckInv
<1> QED BY <1>1, Invariance, PTL

-----------------------------------------------------------------------------
(* The promise speaks of the same elements and the same consumers.         *)
LEMMA SameNames ==
  /\ Promise!Elements = Elements
  /\ Promise!Consumers = Consumers
  /\ Promise!Received(got) = Received(got)
BY DEF Promise!Elements, Promise!Consumers, Promise!Received,
       Elements, Consumers, Received

(* A step of the program is a step of the promise, or changes nothing the  *)
(* promise speaks of.                                                      *)
LEMMA StepRefines == IInv /\ [Next]_vars => [Promise!Next]_(Promise!promiseVars)
<1> SUFFICES ASSUME IInv, [Next]_vars
             PROVE  Promise!Next \/ UNCHANGED <<got, main = "returned">>
  BY DEF Promise!promiseVars
<1>1. CASE CreateProducer \/ StartAll \/ AllDone \/ AddUp \/ UNCHANGED vars
  BY <1>1 DEF CreateProducer, StartAll, AllDone, AddUp, vars, consVars
<1>2. CASE Return
  <2>1. Received(got) = Elements
    BY <1>2, StoppedReceived DEF Return, IInv, CheckInv
  <2>2. Promise!Report
    BY <1>2, <2>1, SameNames DEF Return, consVars, Promise!Report
  <2> QED BY <2>2 DEF Promise!Next
<1>3. ASSUME NEW p \in Producers, Produce(p)
      PROVE  UNCHANGED <<got, main = "returned">>
  BY <1>3 DEF Produce, Push, CountDown, StartDrain, Shutdown, consVars
<1>4. ASSUME NEW c \in Consumers, Stop(c)
      PROVE  UNCHANGED <<got, main = "returned">>
  BY <1>4 DEF Stop
<1>5. ASSUME NEW c \in Consumers, Pop(c) PROVE Promise!Deliver(c)
  <2>1. chan \in Seq(Elements) /\ chan # <<>> /\ Head(chan) \in Elements
    BY <1>5, TailFacts DEF IInv, TypeOK, Pop
  <2>2. Head(chan) \notin Received(got)
    BY <2>1, PlacedTake DEF IInv, TypeOK, ElementInv
  <2> QED
    BY <1>5, <2>1, <2>2, SameNames DEF Pop, Promise!Deliver
<1> QED
  BY <1>1, <1>2, <1>3, <1>4, <1>5, SameNames
  DEF Next, DoBench, Consume, Stopped, Promise!Next

(* The program implements the promise of a channel benchmark.              *)
THEOREM Refinement == Spec => PromiseSpec
<1>1. Init => Promise!Init
  BY SameNames DEF Init, Promise!Init
<1> QED BY <1>1, StepRefines, Invariance, PTL DEF Spec, PromiseSpec, Promise!Spec
=============================================================================

------------------------ MODULE FollyChannelProofs --------------------------
(***************************************************************************)
(* FollyChannel is correct for every number of elements, of producers and  *)
(* of consumers.  The proofs follow the actions of the module: one lemma   *)
(* per action, one step per conjunct of the invariant.                     *)
(***************************************************************************)
EXTENDS FollyChannel, ChannelBenchProofs

USE DEF SentinelsDue, NoFailure

LEMMA SentinelNotElement == Sentinel \in Nat /\ Sentinel \notin Elements
BY CountsAssumption DEF Sentinel, Elements

LEMMA SlicedFacts ==
  ASSUME TypeOK, SetupInv, main # "create"
  PROVE  slice = [p \in Producers |-> [first |-> First(p), count |-> TaskCount(p)]]
<1>1. \A p \in Producers : slice[p] = [first |-> First(p), count |-> TaskCount(p)]
  BY CountsAssumption DEF SetupInv, Sliced, Producers
<1> QED BY <1>1 DEF TypeOK

(* The sentinels ever enqueued: those dequeued and those pending.          *)
LEMMA StoppedType ==
  ASSUME TypeOK
  PROVE  /\ IsFiniteSet(StoppedCons) /\ Cardinality(StoppedCons) \in Nat
         /\ Pending \in Int
         /\ sentinels = Pending + Cardinality(StoppedCons)
<1>1. IsFiniteSet(StoppedCons) /\ Cardinality(StoppedCons) \in Nat
  BY FiniteConsumers, FS_Subset, FS_CardinalityType DEF StoppedCons
<1> QED BY <1>1, CountsAssumption DEF TypeOK, Pending

LEMMA InitInv == Init => IInv
<1> SUFFICES ASSUME Init PROVE IInv
  OBVIOUS
<1> USE DEF Init
<1>1. TypeOK
  BY NoResultType, CountsAssumption DEF TypeOK
<1>2. SetupInv
  BY FirstStep, TaskCountType, CountsAssumption
  DEF SetupInv, Sliced, LoopCounters, Producers
<1>3. ElementInv
  BY PlacedNone, TallyOfNone DEF ElementInv, Tallied
<1>4. SentinelInv
  <2>1. StoppedCons = {}
    BY DEF StoppedCons
  <2> QED BY <2>1, FS_EmptySet DEF SentinelInv, Pending
<1>5. CheckInv
  BY DEF CheckInv
<1> QED BY <1>1, <1>2, <1>3, <1>4, <1>5 DEF IInv

-----------------------------------------------------------------------------
(* do_bench() before the coroutines start.                                 *)
LEMMA CreateProducerInv == IInv /\ CreateProducer => IInv'
<1> SUFFICES ASSUME IInv, CreateProducer PROVE IInv'
  OBVIOUS
<1> USE DEF CreateProducer, queueVars, checkVars
<1>1. i \in Producers /\ i + 1 =< ProducerCount
  BY CountsAssumption DEF IInv, TypeOK, Producers
<1>2. /\ TaskCount(i) \in Nat /\ base = First(i) /\ base \in Nat
      /\ NextBase = First(i + 1) /\ First(i + 1) \in Nat
  BY <1>1, TaskCountType, FirstStep, FirstType, CountsAssumption
  DEF IInv, TypeOK, SetupInv, NextBase, Producers
<1>3. TypeOK'
  BY <1>1, <1>2 DEF IInv, TypeOK
<1>4. SetupInv'
  <2>1. Sliced(i, slice) /\ slice \in [Producers -> [first : Nat, count : Nat]]
    BY DEF IInv, TypeOK, SetupInv
  <2>2. ASSUME NEW p \in Producers, p < i + 1
        PROVE  slice'[p] = [first |-> First(p), count |-> TaskCount(p)]
    <3>1. CASE p = i
      BY <1>2, <2>1, <3>1
    <3>2. CASE p < i
      BY <2>1, <3>2, CountsAssumption DEF Sliced, Producers
    <3> QED BY <1>1, <2>2, <3>1, <3>2, CountsAssumption DEF Producers
  <2>3. Sliced(i + 1, slice')
    BY <2>2 DEF Sliced
  <2> QED BY <1>1, <1>2, <2>3 DEF IInv, SetupInv
<1>5. ElementInv'
  BY DEF IInv, ElementInv
<1>6. SentinelInv'
  BY DEF IInv, SetupInv, SentinelInv, Pending, StoppedCons
<1>7. CheckInv'
  BY DEF IInv, CheckInv
<1> QED BY <1>3, <1>4, <1>5, <1>6, <1>7 DEF IInv

LEMMA StartAllInv == IInv /\ StartAll => IInv'
<1> SUFFICES ASSUME IInv, StartAll PROVE IInv'
  OBVIOUS
<1> USE DEF StartAll, setupVars, queueVars, checkVars
<1>1. TypeOK'
  BY DEF IInv, TypeOK
<1>2. SetupInv'
  BY DEF IInv, SetupInv
<1>3. ElementInv'
  BY DEF IInv, ElementInv
<1>4. SentinelInv'
  BY DEF IInv, SetupInv, SentinelInv, Pending, StoppedCons
<1>5. CheckInv'
  BY DEF IInv, CheckInv
<1> QED BY <1>1, <1>2, <1>3, <1>4, <1>5 DEF IInv

-----------------------------------------------------------------------------
(* The producers and produce_all().                                        *)
LEMMA EnqueueInv == ASSUME IInv, NEW p \in Producers, Enqueue(p) PROVE IInv'
<1> USE DEF Enqueue, setupVars, checkVars
<1> DEFINE x == slice[p].first + posted[p]
<1>1. slice[p].first = First(p) /\ slice[p].count = TaskCount(p)
  BY SlicedFacts DEF IInv
<1>2. posted \in LoopCounters /\ posted[p] < TaskCount(p)
  BY <1>1 DEF IInv, SetupInv
<1>3. /\ x \in Elements \ Posted(posted)
      /\ posted' \in LoopCounters
      /\ Posted(posted') = Posted(posted) \cup {x}
  BY <1>1, <1>2, PostNext
<1>4. chan \in Seq(Elements \cup {Sentinel}) /\ chan' = Append(chan, x)
  BY DEF IInv, TypeOK
<1> HIDE DEF x
<1>5. TypeOK'
  <2>1. posted' \in [Producers -> Nat]
    BY <1>3 DEF LoopCounters
  <2>2. chan' \in Seq(Elements \cup {Sentinel})
    BY <1>3, <1>4
  <2> QED BY <2>1, <2>2 DEF IInv, TypeOK
<1>6. SetupInv'
  BY <1>3 DEF IInv, SetupInv
<1>7. ElementInv'
  <2>1. Placed(posted, chan, got)
    BY DEF IInv, ElementInv
  <2>2. Placed(posted', Append(chan, x), got)
    BY <1>3, <1>4, <2>1, PlacedPost
  <2> QED BY <1>4, <2>2 DEF IInv, ElementInv
<1>8. SentinelInv'
  <2>1. ~ ProducersJoined
    BY DEF ProducersJoined, Finished, IInv, TypeOK
  <2>2. sentinels = 0
    BY <2>1 DEF IInv, SentinelInv, TypeOK
  <2>3. Pending = 0 /\ Cardinality(StoppedCons) = 0
    BY <2>2, StoppedType DEF IInv, SentinelInv
  <2>4. StoppedCons = {}
    BY <2>3, StoppedType, FS_EmptySet DEF IInv
  <2>5. Pending' = 0 /\ StoppedCons' = {}
    BY <2>3, <2>4 DEF Pending, StoppedCons
  <2>6. /\ Len(chan') = Len(chan) + 1 /\ Len(chan) \in Nat
        /\ DOMAIN chan = 1 .. Len(chan)
        /\ DOMAIN chan' = 1 .. Len(chan) + 1
        /\ \A k \in 1 .. Len(chan) : chan'[k] = chan[k]
        /\ chan'[Len(chan) + 1] = x
    BY <1>4, AppendFacts
  <2>7. \A k \in DOMAIN chan' : chan'[k] # Sentinel
    BY <1>3, <2>3, <2>6, SentinelNotElement DEF IInv, SentinelInv
  <2> QED BY <2>2, <2>5, <2>6, <2>7 DEF SentinelInv
<1>9. CheckInv'
  BY DEF IInv, CheckInv
<1> QED BY <1>5, <1>6, <1>7, <1>8, <1>9 DEF IInv

LEMMA EnqueueSentinelInv == IInv /\ EnqueueSentinel => IInv'
<1> SUFFICES ASSUME IInv, EnqueueSentinel PROVE IInv'
  OBVIOUS
<1> USE DEF EnqueueSentinel, setupVars, checkVars
<1>1. chan \in Seq(Elements \cup {Sentinel}) /\ chan' = Append(chan, Sentinel)
  BY DEF IInv, TypeOK
<1>2. TypeOK'
  BY <1>1, CountsAssumption DEF IInv, TypeOK
<1>3. SetupInv'
  BY DEF IInv, SetupInv
<1>4. ElementInv'
  <2>1. Placed(posted, chan', got)
    BY <1>1, PlacedAppendOther, SentinelNotElement DEF IInv, ElementInv
  <2> QED BY <2>1 DEF IInv, ElementInv
<1>5. SentinelInv'
  <2>1. StoppedCons' = StoppedCons
    BY DEF StoppedCons
  <2>2. Pending \in Int /\ Pending' = Pending + 1
    BY <2>1, StoppedType, CountsAssumption DEF IInv, TypeOK, Pending
  <2>3. /\ Len(chan') = Len(chan) + 1 /\ Len(chan) \in Nat
        /\ DOMAIN chan = 1 .. Len(chan)
        /\ DOMAIN chan' = 1 .. Len(chan) + 1
        /\ \A k \in 1 .. Len(chan) : chan'[k] = chan[k]
        /\ chan'[Len(chan) + 1] = Sentinel
    BY <1>1, AppendFacts
  <2>4. /\ Pending \in 0 .. Len(chan)
        /\ \A k \in DOMAIN chan : chan[k] = Sentinel <=> k > Len(chan) - Pending
    BY DEF IInv, SentinelInv
  <2>5. Len(chan') - Pending' = Len(chan) - Pending /\ Pending' \in 0 .. Len(chan')
    BY <2>2, <2>3, <2>4
  <2>6. \A k \in DOMAIN chan' : chan'[k] = Sentinel <=> k > Len(chan') - Pending'
    BY <2>3, <2>4, <2>5
  <2>7. StoppedCons' # {} => Len(chan') = Pending'
    BY <2>1, <2>2, <2>3 DEF IInv, SentinelInv
  <2>8. (ProducersJoined /\ main # "create")'
    BY DEF ProducersJoined, Finished
  <2> QED BY <2>5, <2>6, <2>7, <2>8 DEF SentinelInv
<1>6. CheckInv'
  BY DEF IInv, CheckInv
<1> QED BY <1>2, <1>3, <1>4, <1>5, <1>6 DEF IInv

-----------------------------------------------------------------------------
(* The consumers.                                                          *)
LEMMA DequeueElementInv ==
  ASSUME IInv, NEW c \in Consumers, DequeueElement(c) PROVE IInv'
<1> USE DEF DequeueElement, CanDequeue, setupVars, checkVars
<1>1. /\ chan \in Seq(Elements \cup {Sentinel}) /\ chan # <<>>
      /\ Head(chan) \in Elements /\ Head(chan) = chan[1]
      /\ Len(chan) \in Nat \ {0} /\ DOMAIN chan = 1 .. Len(chan)
      /\ Len(chan') = Len(chan) - 1 /\ DOMAIN chan' = 1 .. Len(chan) - 1
      /\ chan' \in Seq(Elements \cup {Sentinel})
      /\ \A k \in 1 .. Len(chan) - 1 : chan'[k] = chan[k+1]
  <2>1. chan \in Seq(Elements \cup {Sentinel})
    BY DEF IInv, TypeOK
  <2> QED BY <2>1, TailFacts
<1>2. /\ got \in [Consumers -> SUBSET Elements]
      /\ result \in [Consumers -> Result]
      /\ Placed(posted, chan, got) /\ Tallied(result, got)
  BY DEF IInv, TypeOK, ElementInv
<1>3. /\ Head(chan) \notin Received(got)
      /\ Placed(posted, chan', got')
  BY <1>1, <1>2, PlacedTake
<1>4. result' \in [Consumers -> Result] /\ Tallied(result', got')
  BY <1>1, <1>2, <1>3, TalliedTake
<1>5. TypeOK'
  BY <1>1, <1>2, <1>4 DEF IInv, TypeOK
<1>6. SetupInv'
  BY DEF IInv, SetupInv
<1>7. ElementInv'
  BY <1>3, <1>4 DEF ElementInv
<1>8. SentinelInv'
  <2>1. StoppedCons' = StoppedCons /\ Pending' = Pending
    BY DEF StoppedCons, Pending
  <2>2. /\ Pending \in 0 .. Len(chan)
        /\ \A k \in DOMAIN chan : chan[k] = Sentinel <=> k > Len(chan) - Pending
    BY DEF IInv, SentinelInv
  <2>3. Pending < Len(chan)
    BY <1>1, <2>2
  <2>4. StoppedCons = {}
    BY <2>3 DEF IInv, SentinelInv
  <2>5. Pending \in 0 .. Len(chan')
    BY <1>1, <2>2, <2>3
  <2>6. \A k \in DOMAIN chan' : chan'[k] = Sentinel <=> k > Len(chan') - Pending
    <3> SUFFICES ASSUME NEW k \in 1 .. Len(chan) - 1
                 PROVE  chan[k+1] = Sentinel <=> k > Len(chan) - 1 - Pending
      BY <1>1
    <3>1. k + 1 \in DOMAIN chan
      BY <1>1
    <3>2. chan[k+1] = Sentinel <=> k + 1 > Len(chan) - Pending
      BY <2>2, <3>1
    <3> QED BY <1>1, <2>2, <3>2
  <2>7. ProducersJoined' = ProducersJoined
    BY DEF ProducersJoined, Finished
  <2> QED BY <2>1, <2>4, <2>5, <2>6, <2>7 DEF IInv, SentinelInv
<1>9. CheckInv'
  BY DEF IInv, CheckInv
<1> QED BY <1>5, <1>6, <1>7, <1>8, <1>9 DEF IInv

LEMMA DequeueSentinelInv ==
  ASSUME IInv, NEW c \in Consumers, DequeueSentinel(c) PROVE IInv'
<1> USE DEF DequeueSentinel, CanDequeue, setupVars, checkVars
<1>1. /\ chan \in Seq(Elements \cup {Sentinel}) /\ chan # <<>>
      /\ Head(chan) = Sentinel /\ Head(chan) = chan[1]
      /\ Len(chan) \in Nat \ {0} /\ DOMAIN chan = 1 .. Len(chan)
      /\ Len(chan') = Len(chan) - 1 /\ DOMAIN chan' = 1 .. Len(chan) - 1
      /\ chan' \in Seq(Elements \cup {Sentinel})
      /\ \A k \in 1 .. Len(chan) - 1 : chan'[k] = chan[k+1]
  <2>1. chan \in Seq(Elements \cup {Sentinel})
    BY DEF IInv, TypeOK
  <2> QED BY <2>1, TailFacts
<1>2. TypeOK'
  BY <1>1 DEF IInv, TypeOK
<1>3. SetupInv'
  BY DEF IInv, SetupInv
<1>4. ElementInv'
  <2>1. Placed(posted, chan, got)
    BY DEF IInv, ElementInv
  <2>2. Placed(posted, Tail(chan), got)
    BY <1>1, <2>1, PlacedDropOther, SentinelNotElement
  <2> QED BY <2>2 DEF IInv, ElementInv
<1>5. SentinelInv'
  <2>1. StoppedCons' = StoppedCons \cup {c} /\ c \notin StoppedCons
    BY DEF IInv, TypeOK, StoppedCons
  <2>2. Cardinality(StoppedCons') = Cardinality(StoppedCons) + 1
    <3>1. Cardinality(StoppedCons \cup {c}) = Cardinality(StoppedCons) + 1
      BY <2>1, StoppedType, FS_AddElement DEF IInv
    <3>2. Cardinality(StoppedCons') = Cardinality(StoppedCons \cup {c})
      BY <2>1, Zenon
    <3> QED BY <3>1, <3>2
  <2>3. Pending \in Int /\ Pending' = Pending - 1
    BY <2>2, StoppedType, CountsAssumption DEF IInv, TypeOK, Pending
  <2>4. /\ Pending \in 0 .. Len(chan)
        /\ \A k \in DOMAIN chan : chan[k] = Sentinel <=> k > Len(chan) - Pending
    BY DEF IInv, SentinelInv
  <2>5. Pending = Len(chan)
    <3>1. 1 \in DOMAIN chan /\ chan[1] = Sentinel
      BY <1>1
    <3>2. 1 > Len(chan) - Pending
      BY <2>4, <3>1
    <3>3. Pending \in 0 .. Len(chan) /\ Len(chan) \in Nat
      BY <1>1, <2>4
    <3> QED BY <3>2, <3>3
  <2>6. Pending' = Len(chan') /\ Len(chan') \in Nat
    BY <1>1, <2>3, <2>5
  <2>7. \A k \in DOMAIN chan' : chan'[k] = Sentinel /\ k > Len(chan') - Pending'
    <3> SUFFICES ASSUME NEW k \in 1 .. Len(chan) - 1
                 PROVE  chan[k+1] = Sentinel /\ k > 0
      BY <1>1, <2>6
    <3>1. k + 1 \in DOMAIN chan /\ k + 1 > Len(chan) - Pending
      BY <1>1, <2>5
    <3> QED BY <2>4, <3>1
  <2>8. ProducersJoined' = ProducersJoined
    BY DEF ProducersJoined, Finished
  <2>9. /\ Pending' \in 0 .. Len(chan')
        /\ \A k \in DOMAIN chan' : chan'[k] = Sentinel <=> k > Len(chan') - Pending'
    BY <2>6, <2>7
  <2>10. sentinels' > 0 => ProducersJoined' /\ main' # "create"
    BY <2>8 DEF IInv, SentinelInv
  <2> QED BY <2>6, <2>9, <2>10 DEF SentinelInv
<1>6. CheckInv'
  BY DEF IInv, CheckInv
<1> QED BY <1>2, <1>3, <1>4, <1>5, <1>6 DEF IInv

(* A consumer has stopped: the queue holds sentinels only, and every       *)
(* element has been received.                                              *)
LEMMA StoppedReceived ==
  ASSUME IInv, StoppedCons # {}
  PROVE  /\ Received(got) = Elements
         /\ Len(chan) = Pending
<1>1. Len(chan) = Pending /\ Len(chan) \in Nat /\ DOMAIN chan = 1 .. Len(chan)
  BY DEF IInv, TypeOK, SentinelInv
<1>2. \A k \in DOMAIN chan : chan[k] \notin Elements
  BY <1>1, SentinelNotElement DEF IInv, SentinelInv
<1>3. sentinels > 0
  <2>1. Cardinality(StoppedCons) # 0
    BY StoppedType, FS_EmptySet DEF IInv
  <2> QED BY <1>1, <2>1, StoppedType, CountsAssumption DEF IInv, TypeOK
<1>4. ProducersJoined /\ main # "create"
  BY <1>3 DEF IInv, SentinelInv
<1>5. \A p \in Producers : posted[p] = TaskCount(p)
  BY <1>4, SlicedFacts DEF IInv, ProducersJoined, Finished
<1>6. Posted(posted) = Elements
  BY <1>5, PostedAll
<1>7. Received(got) = Elements
  BY <1>2, <1>6, AllReceived DEF IInv, TypeOK, ElementInv
<1> QED BY <1>1, <1>7

-----------------------------------------------------------------------------
(* do_bench() after the coroutines have ended.                             *)
LEMMA CollectInv == IInv /\ Collect => IInv'
<1> SUFFICES ASSUME IInv, Collect PROVE IInv'
  OBVIOUS
<1> USE DEF Collect, setupVars, queueVars, checkVars
<1>1. TypeOK'
  BY DEF IInv, TypeOK
<1>2. SetupInv'
  BY DEF IInv, SetupInv
<1>3. ElementInv'
  BY DEF IInv, ElementInv
<1>4. SentinelInv'
  BY DEF IInv, SentinelInv, Pending, StoppedCons, ProducersJoined, Finished
<1>5. CheckInv'
  <2>1. total = NoResult
    BY DEF IInv, CheckInv
  <2>2. TallyOf(ReceivedBefore(0, got)) = NoResult
    BY ReceivedBeforeEnds
  <2> QED BY <2>1, <2>2, CountsAssumption DEF IInv, CheckInv, AllCollected
<1> QED BY <1>1, <1>2, <1>3, <1>4, <1>5 DEF IInv

LEMMA AddUpInv == IInv /\ AddUp => IInv'
<1> SUFFICES ASSUME IInv, AddUp PROVE IInv'
  OBVIOUS
<1> USE DEF AddUp, setupVars, queueVars
<1>1. i \in Consumers /\ i \in Nat
  BY CountsAssumption DEF IInv, TypeOK, Consumers
<1>2. total \in Result /\ result[i] \in Result
  BY <1>1 DEF IInv, TypeOK
<1>3. total' \in Result /\ total' = AddResult(total, result[i])
  BY <1>2, AddResultType
<1>4. TypeOK'
  BY <1>1, <1>3 DEF IInv, TypeOK
<1>5. SetupInv'
  BY DEF IInv, SetupInv
<1>6. ElementInv'
  BY DEF IInv, ElementInv
<1>7. SentinelInv'
  BY DEF IInv, SentinelInv, Pending, StoppedCons, ProducersJoined, Finished
<1>8. CheckInv'
  <2>1. /\ got \in [Consumers -> SUBSET Elements]
        /\ \A c, d \in Consumers : \A e \in got[c] \cap got[d] : c = d
    BY DEF IInv, TypeOK, ElementInv, Placed
  <2>2. AddResult(TallyOf(ReceivedBefore(i, got)), TallyOf(got[i]))
          = TallyOf(ReceivedBefore(i + 1, got))
    BY <1>1, <2>1, ReceivedBeforeStep
  <2>3. result[i] = TallyOf(got[i])
    BY <1>1 DEF IInv, ElementInv, Tallied
  <2>4. total = TallyOf(ReceivedBefore(i, got))
    BY DEF IInv, CheckInv
  <2>5. total' = TallyOf(ReceivedBefore(i + 1, got))
    BY <1>3, <2>2, <2>3, <2>4
  <2>6. AllCollected' /\ i + 1 =< ConsumerCount
    BY <1>1, CountsAssumption DEF IInv, CheckInv, AllCollected
  <2> QED BY <2>5, <2>6 DEF IInv, CheckInv
<1> QED BY <1>4, <1>5, <1>6, <1>7, <1>8 DEF IInv

(* All consumers have stopped.                                             *)
LEMMA CollectedReceived ==
  ASSUME IInv, main \in {"check", "returned"}
  PROVE  Received(got) = Elements /\ chan = <<>>
<1>1. AllCollected
  BY DEF IInv, CheckInv
<1>2. StoppedCons = Consumers
  BY <1>1 DEF AllCollected, StoppedCons
<1>3. Cardinality(StoppedCons) = ConsumerCount
  BY <1>2, FiniteConsumers
<1>4. StoppedCons # {}
  BY <1>2, CountsAssumption DEF Consumers
<1>5. Received(got) = Elements /\ Len(chan) = Pending
  BY <1>4, StoppedReceived
<1>6. Pending = 0
  BY <1>1, <1>3, CountsAssumption DEF AllCollected, Pending
<1>7. chan \in Seq(Elements \cup {Sentinel})
  BY DEF IInv, TypeOK
<1> QED BY <1>5, <1>6, <1>7

LEMMA ReturnInv == IInv /\ Return => IInv'
<1> SUFFICES ASSUME IInv, Return PROVE IInv'
  OBVIOUS
<1> USE DEF Return, setupVars, queueVars
<1>1. TypeOK'
  BY DEF IInv, TypeOK
<1>2. SetupInv'
  BY DEF IInv, SetupInv
<1>3. ElementInv'
  BY DEF IInv, ElementInv
<1>4. SentinelInv'
  BY DEF IInv, SentinelInv, Pending, StoppedCons, ProducersJoined, Finished
<1>5. CheckInv'
  <2>1. total = TallyOf(ReceivedBefore(ConsumerCount, got))
    BY DEF IInv, CheckInv
  <2>2. ReceivedBefore(ConsumerCount, got) = Elements
    BY CollectedReceived, ReceivedBeforeEnds
  <2>3. total = TallyOf(Elements) /\ report' = "pass"
    BY <2>1, <2>2, TallyOfAll
  <2> QED BY <2>3 DEF IInv, CheckInv, AllCollected
<1> QED BY <1>1, <1>2, <1>3, <1>4, <1>5 DEF IInv

LEMMA StutterInv == IInv /\ UNCHANGED vars => IInv'
<1> SUFFICES ASSUME IInv, UNCHANGED vars PROVE IInv'
  OBVIOUS
<1> USE DEF vars, setupVars, queueVars, checkVars
<1>1. TypeOK' /\ SetupInv' /\ ElementInv'
  BY DEF IInv, TypeOK, SetupInv, ElementInv
<1>2. SentinelInv' /\ CheckInv'
  BY DEF IInv, SentinelInv, Pending, StoppedCons, ProducersJoined, Finished,
         CheckInv, AllCollected
<1> QED BY <1>1, <1>2 DEF IInv

LEMMA NextInv == IInv /\ [Next]_vars => IInv'
<1> SUFFICES ASSUME IInv, [Next]_vars PROVE IInv'
  OBVIOUS
<1>1. CASE DoBench
  BY <1>1, CreateProducerInv, StartAllInv, CollectInv, AddUpInv, ReturnInv DEF DoBench
<1>2. CASE \E p \in Producers : Enqueue(p)
  BY <1>2, EnqueueInv
<1>3. CASE EnqueueSentinel
  BY <1>3, EnqueueSentinelInv
<1>4. CASE \E c \in Consumers : Consume(c)
  BY <1>4, DequeueElementInv, DequeueSentinelInv DEF Consume
<1>5. CASE UNCHANGED vars
  BY <1>5, StutterInv
<1> QED BY <1>1, <1>2, <1>3, <1>4, <1>5 DEF Next, Stopped

(* The inductive invariant holds in every reachable state.                 *)
THEOREM Invariance == Spec => []IInv
BY InitInv, NextInv, PTL DEF Spec

-----------------------------------------------------------------------------
(* Every variable keeps its type: in particular, only elements and         *)
(* sentinels are ever in the queue.                                        *)
THEOREM TypeCorrect == Spec => []TypeOK
<1>1. IInv => TypeOK
  BY DEF IInv
<1> QED BY <1>1, Invariance, PTL

(* No element is lost or duplicated on its way from producer to consumer.  *)
THEOREM NoLossNoDuplication == Spec => []OneHolder
<1>1. IInv => OneHolder
  <2> SUFFICES ASSUME IInv, main # "create", NEW e \in Elements
               PROVE  Cardinality(Holders(e, slice, posted, chan, got)) = 1
    BY DEF OneHolder
  <2>1. slice = [p \in Producers |-> [first |-> First(p), count |-> TaskCount(p)]]
    BY SlicedFacts DEF IInv
  <2>2. /\ chan \in Seq(Elements \cup {Sentinel})
        /\ posted \in LoopCounters
        /\ got \in [Consumers -> SUBSET Elements]
        /\ Placed(posted, chan, got)
    BY DEF IInv, TypeOK, SetupInv, ElementInv
  <2> QED BY <2>1, <2>2, HoldersOne
<1> QED BY <1>1, Invariance, PTL

(* A sentinel is followed by sentinels only.                               *)
THEOREM SentinelsEndQueue == Spec => []SentinelsLast
<1>1. IInv => SentinelsLast
  <2> SUFFICES ASSUME IInv, NEW j \in DOMAIN chan, NEW k \in DOMAIN chan,
                      j < k, chan[j] = Sentinel
               PROVE  chan[k] = Sentinel
    BY DEF SentinelsLast
  <2>1. /\ DOMAIN chan = 1 .. Len(chan) /\ Len(chan) \in Nat
        /\ Pending \in 0 .. Len(chan)
        /\ \A n \in DOMAIN chan : chan[n] = Sentinel <=> n > Len(chan) - Pending
    BY DEF IInv, TypeOK, SentinelInv
  <2>2. j > Len(chan) - Pending
    BY <2>1
  <2>3. k > Len(chan) - Pending
    BY <2>1, <2>2
  <2> QED BY <2>1, <2>3
<1> QED BY <1>1, Invariance, PTL

(* When a consumer stops, no element is left for another one to receive.   *)
THEOREM StopsOnlyWhenDrained == Spec => []StopsAfterLast
<1>1. IInv => StopsAfterLast
  BY StoppedReceived DEF StopsAfterLast, StoppedCons
<1> QED BY <1>1, Invariance, PTL

(* do_bench() destroys an empty queue.                                     *)
THEOREM QueueIsEmptyAtReturn == Spec => []QueueEmptyAtReturn
<1>1. IInv => QueueEmptyAtReturn
  BY CollectedReceived DEF QueueEmptyAtReturn
<1> QED BY <1>1, Invariance, PTL

(* do_bench() has counted and summed every element when it returns:        *)
(* neither of its two FAIL lines is ever printed.                          *)
THEOREM NeverFails ==
  Spec => [](NoFailure /\ (main = "returned" => total = TallyOf(Elements)))
<1>1. IInv => NoFailure /\ (main = "returned" => total = TallyOf(Elements))
  BY DEF IInv, CheckInv
<1> QED BY <1>1, Invariance, PTL

-----------------------------------------------------------------------------
(* The promise speaks of the same elements and the same consumers.         *)
LEMMA SameNames ==
  /\ Promise!Elements = Elements
  /\ Promise!Consumers = Consumers
  /\ Promise!Received(got) = Received(got)
BY DEF Promise!Elements, Promise!Consumers, Promise!Received,
       Elements, Consumers, Received

(* A step of the program is a step of the promise, or changes nothing the  *)
(* promise speaks of.                                                      *)
LEMMA StepRefines == IInv /\ [Next]_vars => [Promise!Next]_(Promise!promiseVars)
<1> SUFFICES ASSUME IInv, [Next]_vars
             PROVE  Promise!Next \/ UNCHANGED <<got, main = "returned">>
  BY DEF Promise!promiseVars
<1>1. CASE CreateProducer \/ StartAll \/ Collect \/ AddUp \/ UNCHANGED vars
  BY <1>1 DEF CreateProducer, StartAll, Collect, AddUp,
              vars, queueVars
<1>2. CASE Return
  <2>1. Received(got) = Elements
    BY <1>2, CollectedReceived DEF Return
  <2>2. Promise!Report
    BY <1>2, <2>1, SameNames DEF Return, queueVars, Promise!Report
  <2> QED BY <2>2 DEF Promise!Next
<1>3. CASE EnqueueSentinel \/ \E p \in Producers : Enqueue(p)
  BY <1>3 DEF EnqueueSentinel, Enqueue
<1>4. ASSUME NEW c \in Consumers, DequeueSentinel(c)
      PROVE  UNCHANGED <<got, main = "returned">>
  BY <1>4 DEF DequeueSentinel
<1>5. ASSUME NEW c \in Consumers, DequeueElement(c) PROVE Promise!Deliver(c)
  <2>1. chan \in Seq(Elements \cup {Sentinel}) /\ chan # <<>> /\ Head(chan) # Sentinel
    BY <1>5 DEF IInv, TypeOK, DequeueElement, CanDequeue
  <2>2. Head(chan) \in Elements
    BY <2>1
  <2>3. Head(chan) \notin Received(got)
    BY <2>1, <2>2, PlacedTake DEF IInv, TypeOK, ElementInv
  <2> QED
    BY <1>5, <2>2, <2>3, SameNames DEF DequeueElement, CanDequeue, Promise!Deliver
<1> QED
  BY <1>1, <1>2, <1>3, <1>4, <1>5, SameNames
  DEF Next, DoBench, Consume, Stopped, Promise!Next

(* The program implements the promise of a channel benchmark.              *)
THEOREM Refinement == Spec => PromiseSpec
<1>1. Init => Promise!Init
  BY SameNames DEF Init, Promise!Init
<1> QED BY <1>1, StepRefines, Invariance, PTL DEF Spec, PromiseSpec, Promise!Spec
=============================================================================

------------------------- MODULE SynchronizationProofs -------------------------
(***************************************************************************)
(* Proofs about the primitives of coreinit_Synchronization.cpp, for any    *)
(* threads, priorities and bounds: events, mutexes with their condition    *)
(* variable, fast mutexes with theirs, rendezvous.  Each has an invariant   *)
(* of its own; they share the facts about wait queues that come first.     *)
(***************************************************************************)
EXTENDS Event, Mutex, FastMutex, Rendezvous, ThreadQueueProofs, FiniteSetTheorems, FunctionTheorems

(***************************************************************************)
(* Wait queues                                                             *)
(***************************************************************************)
\* A queue without duplicates has as many members as it is long.
LEMMA MembersOfQueue ==
    ASSUME NEW T, NEW q \in Seq(T), NoDuplicates(q)
    PROVE  IsFiniteSet(ToSet(q)) /\ Cardinality(ToSet(q)) = Len(q)
<1>1. Len(q) \in Nat /\ DOMAIN q = 1..Len(q)
  BY LenProperties
<1>2. q \in Bijection(1..Len(q), ToSet(q))
  <2>1. q \in [1..Len(q) -> ToSet(q)]
    <3>1. q = [i \in 1..Len(q) |-> q[i]]
      BY IsASeq
    <3> QED
      BY <1>1, <3>1 DEF ToSet
  <2>2. \A i, j \in 1..Len(q) : i # j => q[i] # q[j]
    BY <1>1 DEF NoDuplicates
  <2>3. \A x \in ToSet(q) : \E i \in 1..Len(q) : q[i] = x
    BY <1>1 DEF ToSet
  <2> QED
    BY <2>1, <2>2, <2>3, Fun_IsBij
<1>3. ExistsBijection(1..Len(q), ToSet(q))
  BY <1>2 DEF ExistsBijection
<1>4. IsFiniteSet(1..Len(q)) /\ Cardinality(1..Len(q)) = Len(q)
  BY <1>1, FS_Interval
<1> QED
  BY <1>3, <1>4, FS_Bijection

LEMMA EmptyQueue == ToSet(<<>>) = {} /\ NoDuplicates(<<>>)
BY DEF ToSet, NoDuplicates

LEMMA MembersAreThreads ==
    ASSUME NEW T, NEW q \in Seq(T)
    PROVE  ToSet(q) \subseteq T
BY ElementOfSeq DEF ToSet

\* A thread that goes to sleep is on its queue, once.
LEMMA QueuedOnce ==
    ASSUME NEW q \in Seq(Threads), NEW t \in Threads, NoDuplicates(q), t \notin ToSet(q)
    PROVE  /\ AddThreadByPriority(q, Priority, t) \in Seq(Threads)
           /\ ToSet(AddThreadByPriority(q, Priority, t)) = ToSet(q) \cup {t}
           /\ NoDuplicates(AddThreadByPriority(q, Priority, t))
BY AddThreadByPriorityProperties, PriorityAssumption

-----------------------------------------------------------------------------
(***************************************************************************)
(* Event                                                                   *)
(***************************************************************************)
\* Threads that a signal has woken and that have not returned yet.
Served == {t \in Threads : Woken(t) /\ ~ hasTimeout[t]}

\* Only a wait with a timeout that has been taken off the queue is canceled;
\* a signal would otherwise be counted for a thread that returns false.
CanceledAreOffTheQueue ==
    \A t \in Threads : hasTimeout[t] => waitCall[t] = "timedWait" /\ ~ Queued(t)

EventInvariant ==
    /\ EventTypeOK
    /\ NoWaiterOnSignaledEvent
    /\ SignalsConserved
    /\ AlarmsEndWithTheirCall
    /\ CanceledAreOffTheQueue
    /\ IsFiniteSet(Served)

LEMMA EventFacts ==
    ASSUME EventInvariant
    PROVE  /\ mode \in {"AUTO", "MANUAL"}
           /\ ToSet(threadQueue) \subseteq Threads
           /\ Cardinality(Served) \in Nat
           /\ mode = "AUTO" => credit = (IF signaled THEN 1 ELSE 0) + Cardinality(Served)
<1>1. mode \in {"AUTO", "MANUAL"}
  BY ModesAssumption DEF EventInvariant, EventTypeOK
<1>2. ToSet(threadQueue) \subseteq Threads
  BY ElementOfSeq DEF EventInvariant, EventTypeOK, ToSet
<1>3. Cardinality(Served) \in Nat
  BY FS_CardinalityType DEF EventInvariant
<1>4. mode = "AUTO" => credit = (IF signaled THEN 1 ELSE 0) + Cardinality(Served)
  BY DEF EventInvariant, SignalsConserved, Served
<1> QED
  BY <1>1, <1>2, <1>3, <1>4

LEMMA EventInitInvariant == EventInit => EventInvariant
<1> SUFFICES ASSUME EventInit PROVE EventInvariant
  OBVIOUS
<1>1. ToSet(threadQueue) = {}
  BY DEF EventInit, ToSet
<1>2. EventTypeOK
  BY MaxSignalsAssumption DEF EventInit, EventTypeOK
<1>3. Served = {}
  BY DEF EventInit, Served, Woken
<1>4. IsFiniteSet(Served) /\ Cardinality(Served) = 0
  BY <1>3, FS_EmptySet
<1>5. SignalsConserved
  BY <1>4 DEF EventInit, SignalsConserved, Served
<1>6. NoWaiterOnSignaledEvent /\ CanceledAreOffTheQueue
  BY DEF EventInit, NoWaiterOnSignaledEvent, CanceledAreOffTheQueue
<1>7. AlarmsEndWithTheirCall
  BY <1>1 DEF EventInit, AlarmsEndWithTheirCall, NoDuplicates
<1> QED
  BY <1>2, <1>4, <1>5, <1>6, <1>7 DEF EventInvariant

\* The conjuncts about the queue and the calls; a step that leaves these alone
\* keeps them.
LEMMA EventCallsUnchanged ==
    ASSUME EventInvariant, UNCHANGED <<mode, threadQueue, waitCall, alarm, hasTimeout>>
    PROVE  AlarmsEndWithTheirCall' /\ CanceledAreOffTheQueue' /\ Served' = Served
BY DEF EventInvariant, AlarmsEndWithTheirCall, CanceledAreOffTheQueue, Queued, Served, Woken,
       NoDuplicates

\* A wait that finds the event signaled, and a reset, use up the signal.
LEMMA UseUpKeeps ==
    ASSUME EventInvariant, UNCHANGED mode, signaled,
           signaled' = FALSE \/ (mode # "AUTO" /\ signaled' = TRUE),
           credit' = IF mode = "AUTO" THEN credit - 1 ELSE credit,
           UNCHANGED <<threadQueue, waitCall, alarm, hasTimeout>>
    PROVE  EventInvariant'
<1>1. AlarmsEndWithTheirCall' /\ CanceledAreOffTheQueue' /\ Served' = Served
  BY EventCallsUnchanged
<1>2. SignalsConserved' /\ (mode = "AUTO" => credit - 1 \in Nat)
  <2>1. CASE mode = "AUTO"
    <3>1. credit = 1 + Cardinality(Served) /\ Cardinality(Served) \in Nat
      BY <2>1, EventFacts
    <3>2. ~ signaled' /\ credit' = Cardinality(Served')
      BY <1>1, <2>1, <3>1
    <3> QED
      BY <3>1, <3>2 DEF SignalsConserved, Served
  <2>2. CASE mode # "AUTO"
    BY <2>2 DEF SignalsConserved
  <2> QED
    BY <2>1, <2>2
<1>3. credit' \in 0..MaxSignals
  <2>1. credit \in 0..MaxSignals /\ MaxSignals \in Nat
    BY MaxSignalsAssumption DEF EventInvariant, EventTypeOK
  <2>2. CASE mode = "AUTO"
    BY <1>2, <2>1, <2>2
  <2>3. CASE mode # "AUTO"
    BY <2>1, <2>3
  <2> QED
    BY <2>2, <2>3
<1>4. EventTypeOK'
  <2>1. signaled' \in BOOLEAN
    OBVIOUS
  <2> QED
    BY <1>3, <2>1 DEF EventInvariant, EventTypeOK
<1>5. NoWaiterOnSignaledEvent'
  BY DEF EventInvariant, NoWaiterOnSignaledEvent
<1> QED
  BY <1>1, <1>2, <1>4, <1>5 DEF EventInvariant

LEMMA ConsumeKeeps ==
    ASSUME EventInvariant, UNCHANGED mode, Consume
    PROVE  EventInvariant'
BY UseUpKeeps, EventFacts DEF Consume

LEMMA OSResetEventKeeps ==
    ASSUME EventInvariant, UNCHANGED mode, OSResetEvent
    PROVE  EventInvariant'
BY UseUpKeeps DEF OSResetEvent

\* Going to sleep, with an alarm or without one.
LEMMA EventSleepKeeps ==
    ASSUME EventInvariant, UNCHANGED mode, NEW t \in Threads, NEW c \in {"wait", "timedWait"},
           waitCall[t] = "none", Sleep(t, c),
           \/ UNCHANGED <<alarm, hasTimeout>>
           \/ /\ c = "timedWait"
              /\ alarm' = [alarm EXCEPT ![t] = "armed"]
              /\ hasTimeout' = [hasTimeout EXCEPT ![t] = FALSE]
    PROVE  EventInvariant'
<1> USE DEF EventInvariant, EventTypeOK
<1>1. t \notin ToSet(threadQueue) /\ alarm[t] = "none" /\ ~ hasTimeout[t]
  BY DEF AlarmsEndWithTheirCall, CanceledAreOffTheQueue
<1>2. /\ threadQueue' \in Seq(Threads)
      /\ ToSet(threadQueue') = ToSet(threadQueue) \cup {t}
      /\ NoDuplicates(threadQueue')
  <2>1. threadQueue \in Seq(Threads) /\ NoDuplicates(threadQueue)
    BY DEF AlarmsEndWithTheirCall
  <2>2. threadQueue' = AddThreadByPriority(threadQueue, Priority, t)
    BY DEF Sleep
  <2> QED
    BY <1>1, <2>1, <2>2, QueuedOnce
<1>3. EventTypeOK'
  BY <1>2 DEF Sleep
<1>4. NoWaiterOnSignaledEvent'
  BY DEF Sleep, NoWaiterOnSignaledEvent
<1>5. /\ waitCall' = [waitCall EXCEPT ![t] = c]
      /\ alarm'[t] \in {"none", "armed"} /\ (alarm'[t] # "none" => c = "timedWait")
      /\ \A u \in Threads \ {t} : alarm'[u] = alarm[u]
      /\ hasTimeout' = hasTimeout
  BY <1>1 DEF Sleep
<1>6. AlarmsEndWithTheirCall'
  BY <1>2, <1>5, EventFacts DEF AlarmsEndWithTheirCall
<1>7. CanceledAreOffTheQueue'
  BY <1>1, <1>2, <1>5 DEF CanceledAreOffTheQueue, Queued
<1>8. Served' = Served
  BY <1>1, <1>2, <1>5 DEF Served, Woken, Queued
<1>9. SignalsConserved'
  BY <1>8, EventFacts DEF SignalsConserved, Served, Sleep
<1> QED
  BY <1>3, <1>4, <1>6, <1>7, <1>8, <1>9

LEMMA OSWaitEventKeeps ==
    ASSUME EventInvariant, UNCHANGED mode, NEW t \in Threads, OSWaitEvent(t)
    PROVE  EventInvariant'
BY ConsumeKeeps, EventSleepKeeps DEF OSWaitEvent

LEMMA OSWaitEventWithTimeoutKeeps ==
    ASSUME EventInvariant, UNCHANGED mode, NEW t \in Threads, OSWaitEventWithTimeout(t)
    PROVE  EventInvariant'
BY ConsumeKeeps, EventSleepKeeps DEF OSWaitEventWithTimeout

\* The end of a wait takes the thread out of Served if it was in there.
LEMMA ReturnKeeps ==
    ASSUME EventInvariant, UNCHANGED mode, NEW t \in Threads, Return(t)
    PROVE  EventInvariant'
<1> USE DEF EventInvariant, EventTypeOK
<1>1. Served' = Served \ {t}
  BY DEF Return, Served, Woken, Queued
<1>2. /\ IsFiniteSet(Served')
      /\ Cardinality(Served') = IF t \in Served THEN Cardinality(Served) - 1 ELSE Cardinality(Served)
      /\ Cardinality(Served') \in Nat
  BY <1>1, FS_RemoveElement, FS_CardinalityType
<1>3. t \in Served <=> ~ hasTimeout[t]
  BY DEF Return, Served
<1>4. SignalsConserved' /\ credit' \in 0..MaxSignals
  <2>1. CASE mode = "AUTO"
    <3>1. credit' = (IF signaled' THEN 1 ELSE 0) + Cardinality(Served')
      BY <1>2, <1>3, <2>1, EventFacts DEF Return
    <3>2. SignalsConserved'
      BY <3>1 DEF SignalsConserved, Served
    <3>3. credit' \in Nat /\ credit' <= credit
      BY <1>2, <1>3, <2>1, <3>1, EventFacts DEF Return
    <3> QED
      BY <3>2, <3>3, MaxSignalsAssumption
  <2>2. CASE mode # "AUTO"
    BY <2>2 DEF SignalsConserved, Return
  <2> QED
    BY <2>1, <2>2
<1>5. EventTypeOK'
  BY <1>4 DEF Return
<1>6. NoWaiterOnSignaledEvent'
  BY DEF NoWaiterOnSignaledEvent, Return
<1>7. AlarmsEndWithTheirCall' /\ CanceledAreOffTheQueue'
  BY EventFacts DEF AlarmsEndWithTheirCall, CanceledAreOffTheQueue, Return, Woken, Queued
<1> QED
  BY <1>2, <1>4, <1>5, <1>6, <1>7

\* The alarm of a thread that still waits takes it off the queue.
LEMMA CancelKeeps ==
    ASSUME EventInvariant, UNCHANGED mode, NEW t \in Threads, AlarmFires(t), Queued(t)
    PROVE  EventInvariant'
<1> USE DEF EventInvariant, EventTypeOK
<1>1. /\ threadQueue' \in Seq(Threads)
      /\ ToSet(threadQueue') = ToSet(threadQueue) \ {t}
      /\ NoDuplicates(threadQueue')
  BY RemoveThreadProperties DEF AlarmFires, Queued, AlarmsEndWithTheirCall
<1>2. /\ alarm' = [alarm EXCEPT ![t] = "fired"] /\ alarm[t] = "armed"
      /\ hasTimeout' = [hasTimeout EXCEPT ![t] = TRUE]
      /\ UNCHANGED <<signaled, waitCall, credit>>
  BY DEF AlarmFires
<1>3. waitCall[t] = "timedWait"
  BY <1>2 DEF AlarmsEndWithTheirCall
<1>4. EventTypeOK'
  BY <1>1, <1>2
<1>5. NoWaiterOnSignaledEvent'
  <2>1. threadQueue # <<>>
    BY DEF Queued, ToSet
  <2> QED
    BY <1>2, <2>1 DEF NoWaiterOnSignaledEvent
<1>6. AlarmsEndWithTheirCall'
  BY <1>1, <1>2, <1>3, EventFacts DEF AlarmsEndWithTheirCall
<1>7. CanceledAreOffTheQueue'
  BY <1>1, <1>2, <1>3 DEF CanceledAreOffTheQueue, Queued
<1>8. Served' = Served
  BY <1>1, <1>2 DEF Served, Woken, Queued
<1>9. SignalsConserved'
  BY <1>2, <1>8, EventFacts DEF SignalsConserved, Served
<1> QED
  BY <1>4, <1>5, <1>6, <1>7, <1>8, <1>9

\* That of a thread that has been woken comes too late.
LEMMA LateAlarmKeeps ==
    ASSUME EventInvariant, UNCHANGED mode, NEW t \in Threads, AlarmFires(t), ~ Queued(t)
    PROVE  EventInvariant'
<1> USE DEF EventInvariant, EventTypeOK
<1>1. /\ alarm' = [alarm EXCEPT ![t] = "fired"] /\ alarm[t] = "armed"
      /\ UNCHANGED <<signaled, waitCall, credit, hasTimeout, threadQueue>>
  BY DEF AlarmFires
<1>2. AlarmsEndWithTheirCall'
  BY <1>1, EventFacts DEF AlarmsEndWithTheirCall, Queued
<1>3. CanceledAreOffTheQueue' /\ Served' = Served
  BY <1>1 DEF CanceledAreOffTheQueue, Queued, Served, Woken
<1>4. SignalsConserved'
  BY <1>1, <1>3, EventFacts DEF SignalsConserved, Served
<1> QED
  BY <1>1, <1>2, <1>3, <1>4 DEF NoWaiterOnSignaledEvent

\* What a wakeup of the threads in W, some of those queued, does to Served.
LEMMA WakeupServes ==
    ASSUME EventInvariant, NEW W \in SUBSET ToSet(threadQueue), IsFiniteSet(W),
           ToSet(threadQueue') = ToSet(threadQueue) \ W, UNCHANGED <<waitCall, hasTimeout>>
    PROVE  /\ Served' = Served \cup W
           /\ IsFiniteSet(Served')
           /\ Cardinality(Served') = Cardinality(Served) + Cardinality(W)
<1> USE DEF EventInvariant
<1>1. \A t \in W : t \in Threads /\ waitCall[t] # "none" /\ ~ hasTimeout[t] /\ Queued(t)
  BY EventFacts DEF AlarmsEndWithTheirCall, CanceledAreOffTheQueue, Queued
<1>2. Served' = Served \cup W
  BY <1>1 DEF Served, Woken, Queued
<1>3. Served \cap W = {}
  BY <1>1 DEF Served, Woken
<1>4. Cardinality(Served \cap W) = 0
  BY <1>3, FS_EmptySet
<1>5. Cardinality(W) \in Nat /\ Cardinality(Served) \in Nat
  BY FS_CardinalityType
<1>6. /\ IsFiniteSet(Served \cup W)
      /\ Cardinality(Served \cup W) = Cardinality(Served) + Cardinality(W) - 0
  BY <1>4, FS_Union
<1> QED
  BY <1>2, <1>5, <1>6

\* Whatever a signal wakes, the rest stays as it is.
LEMMA WakeupKeepsCalls ==
    ASSUME EventInvariant, UNCHANGED <<waitCall, alarm, hasTimeout>>,
           ToSet(threadQueue') \subseteq ToSet(threadQueue), NoDuplicates(threadQueue')
    PROVE  AlarmsEndWithTheirCall' /\ CanceledAreOffTheQueue'
BY DEF EventInvariant, AlarmsEndWithTheirCall, CanceledAreOffTheQueue, Queued

\* OSSignalEvent and OSSignalEventAll on an event that has waiters: each thread
\* they wake will return true.
LEMMA WakeupKeeps ==
    ASSUME EventInvariant, UNCHANGED mode, NEW W \in SUBSET ToSet(threadQueue), IsFiniteSet(W),
           threadQueue' \in Seq(Threads), NoDuplicates(threadQueue'),
           ToSet(threadQueue') = ToSet(threadQueue) \ W,
           ~ signaled, signaled' \in BOOLEAN,
           signaled' => threadQueue' = <<>>,
           credit' \in 0..MaxSignals,
           mode = "AUTO" => credit' = credit + Cardinality(W) + (IF signaled' THEN 1 ELSE 0),
           UNCHANGED <<waitCall, alarm, hasTimeout>>
    PROVE  EventInvariant'
<1>1. /\ IsFiniteSet(Served')
      /\ Cardinality(Served') = Cardinality(Served) + Cardinality(W)
  BY WakeupServes
<1>2. AlarmsEndWithTheirCall' /\ CanceledAreOffTheQueue'
  BY WakeupKeepsCalls
<1>3. Cardinality(W) \in Nat
  BY FS_CardinalityType
<1>4. SignalsConserved'
  <2> SUFFICES ASSUME mode = "AUTO"
               PROVE  credit' = (IF signaled' THEN 1 ELSE 0) + Cardinality(Served')
    BY DEF SignalsConserved, Served
  <2>1. credit = Cardinality(Served) /\ Cardinality(Served) \in Nat
    BY EventFacts
  <2> QED
    BY <1>1, <1>3, <2>1
<1>5. EventTypeOK' /\ NoWaiterOnSignaledEvent'
  BY DEF EventInvariant, EventTypeOK, NoWaiterOnSignaledEvent
<1> QED
  BY <1>1, <1>2, <1>4, <1>5 DEF EventInvariant

\* A signal that empties the queue, or finds it empty.
LEMMA WakeupOfAllKeeps ==
    ASSUME EventInvariant, UNCHANGED mode, ~ signaled,
           threadQueue' = <<>>, signaled' = (mode # "AUTO" \/ threadQueue = <<>>),
           credit' \in 0..MaxSignals,
           mode = "AUTO" => credit' = credit + IF threadQueue = <<>> THEN 1 ELSE Len(threadQueue),
           UNCHANGED <<waitCall, alarm, hasTimeout>>
    PROVE  EventInvariant'
<1> DEFINE W == ToSet(threadQueue)
<1>1. threadQueue \in Seq(Threads) /\ NoDuplicates(threadQueue)
  BY DEF EventInvariant, EventTypeOK, AlarmsEndWithTheirCall
<1>2. IsFiniteSet(W) /\ Cardinality(W) = Len(threadQueue)
  BY <1>1, MembersOfQueue
<1>3. ToSet(threadQueue') = ToSet(threadQueue) \ W /\ NoDuplicates(threadQueue')
  BY EmptyQueue
<1>4. threadQueue' \in Seq(Threads)
  OBVIOUS
<1>5. mode = "AUTO" => credit' = credit + Cardinality(W) + (IF signaled' THEN 1 ELSE 0)
  <2> SUFFICES ASSUME mode = "AUTO"
               PROVE  credit' = credit + Cardinality(W) + (IF signaled' THEN 1 ELSE 0)
    OBVIOUS
  <2>1. credit \in Nat
    BY EventFacts DEF EventInvariant, EventTypeOK
  <2>2. CASE threadQueue = <<>>
    <3>1. Cardinality(W) = 0 /\ signaled'
      BY <1>2, <2>2
    <3> QED
      BY <2>1, <2>2, <3>1
  <2>3. CASE threadQueue # <<>>
    <3>1. Cardinality(W) = Len(threadQueue) /\ Len(threadQueue) \in Nat /\ ~ signaled'
      BY <1>1, <1>2, <2>3, LenProperties
    <3> QED
      BY <2>1, <2>3, <3>1
  <2> QED
    BY <2>2, <2>3
<1>6. signaled' \in BOOLEAN
  OBVIOUS
<1> HIDE DEF W
<1>7. W \in SUBSET ToSet(threadQueue)
  BY DEF W
<1> QED
  BY <1>2, <1>3, <1>4, <1>5, <1>6, <1>7, WakeupKeeps

LEMMA OSSignalEventKeeps ==
    ASSUME EventInvariant, UNCHANGED mode, OSSignalEvent
    PROVE  EventInvariant'
<1>1. ~ signaled /\ credit < MaxSignals /\ UNCHANGED <<waitCall, alarm, hasTimeout>>
  BY DEF OSSignalEvent
<1>2. credit \in 0..MaxSignals /\ MaxSignals \in Nat
  BY MaxSignalsAssumption DEF EventInvariant, EventTypeOK
<1>3. CASE mode = "AUTO" /\ threadQueue # <<>>
  <2> DEFINE W == {threadQueue[1]}
  <2>1. /\ threadQueue \in Seq(Threads) /\ NoDuplicates(threadQueue)
    BY DEF EventInvariant, EventTypeOK, AlarmsEndWithTheirCall
  <2>2. threadQueue' = Tail(threadQueue) /\ signaled' = FALSE /\ credit' = credit + 1
    BY <1>3 DEF OSSignalEvent
  <2>3. /\ threadQueue' \in Seq(Threads) /\ NoDuplicates(threadQueue')
        /\ ToSet(threadQueue') = ToSet(threadQueue) \ W
        /\ W \in SUBSET ToSet(threadQueue)
    BY <1>3, <2>1, <2>2, TailProperties
  <2>4. IsFiniteSet(W) /\ Cardinality(W) = 1
    BY FS_Singleton
  <2>5. credit' \in 0..MaxSignals
    BY <1>1, <1>2, <2>2
  <2>6. credit' = credit + Cardinality(W) + (IF signaled' THEN 1 ELSE 0)
    BY <1>2, <2>2, <2>4
  <2> HIDE DEF W
  <2> QED
    BY <1>1, <2>2, <2>3, <2>4, <2>5, <2>6, WakeupKeeps
<1>4. CASE mode = "AUTO" /\ threadQueue = <<>>
  <2>1. threadQueue' = <<>> /\ signaled' = TRUE /\ credit' = credit + 1
    BY <1>4 DEF OSSignalEvent
  <2>2. credit' \in 0..MaxSignals
    BY <1>1, <1>2, <2>1
  <2> QED
    BY <1>1, <1>4, <2>1, <2>2, WakeupOfAllKeeps
<1>5. CASE mode # "AUTO"
  <2>1. threadQueue' = <<>> /\ signaled' = TRUE /\ credit' = credit
    BY <1>5 DEF OSSignalEvent
  <2> QED
    BY <1>1, <1>2, <1>5, <2>1, WakeupOfAllKeeps
<1> QED
  BY <1>3, <1>4, <1>5

LEMMA OSSignalEventAllKeeps ==
    ASSUME EventInvariant, UNCHANGED mode, OSSignalEventAll
    PROVE  EventInvariant'
<1>1. /\ ~ signaled /\ UNCHANGED <<waitCall, alarm, hasTimeout>>
      /\ threadQueue' = <<>> /\ signaled' = (mode # "AUTO" \/ threadQueue = <<>>)
  BY DEF OSSignalEventAll
<1>2. /\ credit \in 0..MaxSignals /\ MaxSignals \in Nat
      /\ Len(threadQueue) \in Nat /\ credit + Len(threadQueue) < MaxSignals
  BY MaxSignalsAssumption, LenProperties DEF EventInvariant, EventTypeOK, OSSignalEventAll
<1>3. /\ mode = "AUTO" => credit' = credit + IF threadQueue = <<>> THEN 1 ELSE Len(threadQueue)
      /\ mode # "AUTO" => credit' = credit
  BY DEF OSSignalEventAll
<1>4. credit' \in 0..MaxSignals
  BY <1>2, <1>3
<1> QED
  BY <1>1, <1>3, <1>4, WakeupOfAllKeeps

LEMMA EventStutterKeeps == EventInvariant /\ UNCHANGED eventVars => EventInvariant'
BY DEF EventInvariant, eventVars, EventTypeOK, NoWaiterOnSignaledEvent, SignalsConserved,
       AlarmsEndWithTheirCall, CanceledAreOffTheQueue, Served, Woken, Queued, NoDuplicates

LEMMA EventNextKeeps == EventInvariant /\ [EventNext]_eventVars => EventInvariant'
<1> SUFFICES ASSUME EventInvariant, EventNext PROVE EventInvariant'
  BY EventStutterKeeps
<1>1. UNCHANGED mode
  BY DEF EventNext
<1>2. ASSUME NEW t \in Threads, AlarmFires(t) PROVE EventInvariant'
  BY <1>1, <1>2, CancelKeeps, LateAlarmKeeps
<1> QED
  BY <1>1, <1>2, OSSignalEventKeeps, OSSignalEventAllKeeps, OSResetEventKeeps, OSWaitEventKeeps,
     OSWaitEventWithTimeoutKeeps, ReturnKeeps DEF EventNext

\* The strengthened invariant of the event, for any threads and priorities, of
\* either kind of event.
THEOREM EventInvariantHolds == EventSpec => []EventInvariant
BY EventInitInvariant, EventNextKeeps, PTL DEF EventSpec

\* The variables keep their types; the credit is never negative.
THEOREM EventTypeCorrect == EventSpec => []EventTypeOK
BY EventInvariantHolds, PTL DEF EventInvariant

\* OSWaitEvent never leaves a thread asleep on an event that is signaled.
THEOREM SignaledEventHasNoWaiter == EventSpec => []NoWaiterOnSignaledEvent
BY EventInvariantHolds, PTL DEF EventInvariant

\* Each signal of an AUTO event lets exactly one wait return true, whatever
\* alarms fire in between.
THEOREM SignalsAreConserved == EventSpec => []SignalsConserved
BY EventInvariantHolds, PTL DEF EventInvariant

\* No alarm outlives the call on whose stack its record is, and a queued thread
\* is inside of a wait, once.
THEOREM AlarmsNeverOutliveTheirCall == EventSpec => []AlarmsEndWithTheirCall
BY EventInvariantHolds, PTL DEF EventInvariant

-----------------------------------------------------------------------------
(***************************************************************************)
(* Mutex                                                                   *)
(***************************************************************************)
\* A call that is about a mutex says which; a thread that has exited has an
\* empty list of mutexes.
CallsAreAbout ==
    \A t \in Threads :
        /\ call[t] \in {"lock", "cond"} => want[t] \in Mutexes
        /\ call[t] = "exited" => mutexQueue[t] = <<>>

MutexInvariant ==
    /\ MutexTypeOK
    /\ HoldersAgree
    /\ WaitersAreQueuedOnce
    /\ NoSleeperOnFreeMutex
    /\ CallsAreAbout

\* A thread that runs is on no wait queue.
Awake(t) ==
    /\ \A m \in Mutexes : t \notin ToSet(lockQueue[m])
    /\ t \notin ToSet(condQueue)

OnTheWay(t, m) == (WokenForLock(t) \/ WokenForCond(t)) /\ want[t] = m

LEMMA MutexConstants ==
    /\ NoThread \notin Threads /\ NoMutex \notin Mutexes
    /\ MaxLockCount \in Nat /\ MaxLockCount > 0
BY NoThreadAssumption, MaxLockCountAssumption

LEMMA MutexFacts ==
    ASSUME MutexInvariant
    PROVE  /\ \A m \in Mutexes : lockQueue[m] \in Seq(Threads) /\ ToSet(lockQueue[m]) \subseteq Threads
           /\ condQueue \in Seq(Threads) /\ ToSet(condQueue) \subseteq Threads
           /\ \A t \in Threads : mutexQueue[t] \in Seq(Mutexes)
<1>1. \A m \in Mutexes : lockQueue[m] \in Seq(Threads)
  BY DEF MutexInvariant, MutexTypeOK
<1>2. condQueue \in Seq(Threads)
  BY DEF MutexInvariant, MutexTypeOK
<1>3. \A t \in Threads : mutexQueue[t] \in Seq(Mutexes)
  BY DEF MutexInvariant, MutexTypeOK
<1> QED
  BY <1>1, <1>2, <1>3, MembersAreThreads

LEMMA RunningIsAwake ==
    ASSUME MutexInvariant, NEW t \in Threads,
           call[t] \notin {"lock", "cond"} \/ WokenForLock(t) \/ WokenForCond(t)
    PROVE  Awake(t)
BY DEF MutexInvariant, WaitersAreQueuedOnce, WokenForLock, WokenForCond, Awake

LEMMA MutexInitInvariant == MutexInit => MutexInvariant
<1> SUFFICES ASSUME MutexInit PROVE MutexInvariant
  OBVIOUS
<1> USE DEF MutexInit
<1>1. MutexTypeOK
  BY MutexConstants DEF MutexTypeOK
<1>2. HoldersAgree
  <2>1. \A m \in Mutexes : owner[m] = NoThread /\ lockCount[m] = 0
    OBVIOUS
  <2>2. \A t \in Threads : mutexQueue[t] = <<>>
    OBVIOUS
  <2>3. \A t \in Threads : {m \in Mutexes : owner[m] = t} = {}
    BY <2>1, MutexConstants
  <2> QED
    BY <2>1, <2>2, <2>3, EmptyQueue DEF HoldersAgree
<1>3. WaitersAreQueuedOnce
  <2>1. condQueue = <<>> /\ \A m \in Mutexes : lockQueue[m] = <<>>
    OBVIOUS
  <2> QED
    BY <2>1, EmptyQueue DEF WaitersAreQueuedOnce
<1>4. NoSleeperOnFreeMutex /\ CallsAreAbout
  BY DEF NoSleeperOnFreeMutex, CallsAreAbout
<1> QED
  BY <1>1, <1>2, <1>3, <1>4 DEF MutexInvariant

-----------------------------------------------------------------------------
\* A step of t leaves the other threads where they are, or takes them off
\* queues; whoever of them is on the way to a mutex stays so.
OthersOnlyWoken(t) ==
    /\ \A u \in Threads \ {t} : call'[u] = call[u] /\ want'[u] = want[u]
    /\ \A u \in Threads \ {t}, m \in Mutexes :
          u \in ToSet(lockQueue'[m]) => u \in ToSet(lockQueue[m])
    /\ \A u \in Threads \ {t} : u \in ToSet(condQueue') => u \in ToSet(condQueue)

LEMMA StaysOnTheWay ==
    ASSUME NEW t \in Threads, OthersOnlyWoken(t),
           NEW m \in Mutexes, NEW u \in Threads \ {t}, OnTheWay(u, m)
    PROVE  OnTheWay(u, m)'
BY DEF OthersOnlyWoken, OnTheWay, WokenForLock, WokenForCond

\* A step of a thread that is not on the way to a free mutex needs to look only
\* at mutexes it sets free, or on which it puts a sleeper.
LEMMA NobodyForgotten ==
    ASSUME MutexInvariant, NEW t \in Threads, OthersOnlyWoken(t),
           \A m \in Mutexes :
              owner'[m] = NoThread /\ lockQueue'[m] # <<>> =>
                 \/ \E u \in Threads : OnTheWay(u, m)'
                 \/ owner[m] = NoThread /\ lockQueue[m] # <<>> /\ ~ OnTheWay(t, m)
    PROVE  NoSleeperOnFreeMutex'
<1> SUFFICES ASSUME NEW m \in Mutexes, owner'[m] = NoThread, lockQueue'[m] # <<>>
             PROVE  \E u \in Threads : OnTheWay(u, m)'
  BY DEF NoSleeperOnFreeMutex, OnTheWay
<1>1. CASE \E u \in Threads : OnTheWay(u, m)'
  BY <1>1
<1>2. CASE owner[m] = NoThread /\ lockQueue[m] # <<>> /\ ~ OnTheWay(t, m)
  <2>1. PICK u \in Threads : OnTheWay(u, m)
    BY <1>2 DEF MutexInvariant, NoSleeperOnFreeMutex, OnTheWay
  <2>2. OnTheWay(u, m)'
    BY <1>2, <2>1, StaysOnTheWay
  <2> QED
    BY <2>2
<1> QED
  BY <1>1, <1>2

\* Calls and queues that do not change.
LEMMA WaitersUnchanged ==
    ASSUME MutexInvariant, UNCHANGED <<lockQueue, condQueue, call, want>>
    PROVE  WaitersAreQueuedOnce'
BY DEF MutexInvariant, WaitersAreQueuedOnce, NoDuplicates

-----------------------------------------------------------------------------
LEMMA AddMutexProperties ==
    ASSUME NEW q \in Seq(Mutexes), NEW m \in Mutexes, NoDuplicates(q), m \notin ToSet(q)
    PROVE  /\ Append(q, m) \in Seq(Mutexes)
           /\ ToSet(Append(q, m)) = ToSet(q) \cup {m}
           /\ NoDuplicates(Append(q, m))
BY AddThreadProperties DEF AddThread

LEMMA RemoveMutexProperties ==
    ASSUME NEW q \in Seq(Mutexes), NEW m \in ToSet(q), NoDuplicates(q)
    PROVE  /\ removeMutex(q, m) \in Seq(Mutexes)
           /\ ToSet(removeMutex(q, m)) = ToSet(q) \ {m}
           /\ NoDuplicates(removeMutex(q, m))
BY RemoveThreadProperties DEF RemoveThread, removeMutex

\* The holders when t takes m, and when it gives it up.
LEMMA HoldersGain ==
    ASSUME MutexInvariant, NEW t \in Threads, NEW m \in Mutexes, owner[m] = NoThread,
           NEW n \in 1..MaxLockCount,
           owner' = [owner EXCEPT ![m] = t], lockCount' = [lockCount EXCEPT ![m] = n],
           mutexQueue' = [mutexQueue EXCEPT ![t] = Append(@, m)]
    PROVE  HoldersAgree' /\ mutexQueue' \in [Threads -> Seq(Mutexes)]
<1> USE DEF MutexInvariant, MutexTypeOK
<1>1. /\ mutexQueue[t] \in Seq(Mutexes) /\ NoDuplicates(mutexQueue[t])
      /\ ToSet(mutexQueue[t]) = {x \in Mutexes : owner[x] = t}
  BY DEF HoldersAgree
<1>2. m \notin ToSet(mutexQueue[t])
  BY <1>1, MutexConstants
<1> DEFINE q == Append(mutexQueue[t], m)
<1>3. q \in Seq(Mutexes) /\ ToSet(q) = ToSet(mutexQueue[t]) \cup {m} /\ NoDuplicates(q)
  BY <1>1, <1>2, AddMutexProperties
<1> HIDE DEF q
<1>4. mutexQueue' = [mutexQueue EXCEPT ![t] = q]
  BY DEF q
<1>5. \A x \in Mutexes : owner'[x] = NoThread <=> lockCount'[x] = 0
  BY MutexConstants DEF HoldersAgree
<1>6. ASSUME NEW u \in Threads
      PROVE  /\ ToSet(mutexQueue'[u]) = {x \in Mutexes : owner'[x] = u}
             /\ NoDuplicates(mutexQueue'[u])
  <2>1. CASE u = t
    <3>1. mutexQueue'[t] = q
      BY <1>4
    <3>2. {x \in Mutexes : owner'[x] = t} = {x \in Mutexes : owner[x] = t} \cup {m}
      OBVIOUS
    <3> QED
      BY <1>1, <1>3, <2>1, <3>1, <3>2
  <2>2. CASE u # t
    <3>1. mutexQueue'[u] = mutexQueue[u]
      BY <1>4, <2>2
    <3>2. {x \in Mutexes : owner'[x] = u} = {x \in Mutexes : owner[x] = u}
      BY <2>2, MutexConstants
    <3> QED
      BY <3>1, <3>2 DEF HoldersAgree
  <2> QED
    BY <2>1, <2>2
<1> QED
  BY <1>3, <1>4, <1>5, <1>6 DEF HoldersAgree

LEMMA HoldersLose ==
    ASSUME MutexInvariant, NEW t \in Threads, NEW m \in Mutexes, owner[m] = t,
           owner' = [owner EXCEPT ![m] = NoThread], lockCount' = [lockCount EXCEPT ![m] = 0],
           mutexQueue' = [mutexQueue EXCEPT ![t] = removeMutex(@, m)]
    PROVE  HoldersAgree' /\ mutexQueue' \in [Threads -> Seq(Mutexes)]
<1> USE DEF MutexInvariant, MutexTypeOK
<1>1. /\ mutexQueue[t] \in Seq(Mutexes) /\ NoDuplicates(mutexQueue[t])
      /\ ToSet(mutexQueue[t]) = {x \in Mutexes : owner[x] = t}
  BY DEF HoldersAgree
<1> DEFINE q == removeMutex(mutexQueue[t], m)
<1>2. q \in Seq(Mutexes) /\ ToSet(q) = ToSet(mutexQueue[t]) \ {m} /\ NoDuplicates(q)
  BY <1>1, RemoveMutexProperties
<1> HIDE DEF q
<1>3. mutexQueue' = [mutexQueue EXCEPT ![t] = q]
  BY DEF q
<1>4. \A x \in Mutexes : owner'[x] = NoThread <=> lockCount'[x] = 0
  BY DEF HoldersAgree
<1>5. ASSUME NEW u \in Threads
      PROVE  /\ ToSet(mutexQueue'[u]) = {x \in Mutexes : owner'[x] = u}
             /\ NoDuplicates(mutexQueue'[u])
  <2>1. CASE u = t
    BY <1>1, <1>2, <1>3, <2>1, MutexConstants
  <2>2. CASE u # t
    <3>1. mutexQueue'[u] = mutexQueue[u]
      BY <1>3, <2>2
    <3>2. {x \in Mutexes : owner'[x] = u} = {x \in Mutexes : owner[x] = u}
      BY <2>2, MutexConstants
    <3> QED
      BY <3>1, <3>2 DEF HoldersAgree
  <2> QED
    BY <2>1, <2>2
<1> QED
  BY <1>2, <1>3, <1>4, <1>5 DEF HoldersAgree

-----------------------------------------------------------------------------
LEMMA AcquireKeeps ==
    ASSUME MutexInvariant, NEW t \in Threads, NEW m \in Mutexes, Awake(t),
           call[t] \in {"none", "lock", "cond"}, call[t] # "none" => want[t] = m,
           Acquire(t, m)
    PROVE  MutexInvariant'
<1> USE DEF MutexInvariant, MutexTypeOK
<1> DEFINE n == IF prevLockCount[t] = 0 THEN 1 ELSE prevLockCount[t]
<1>1. n \in 1..MaxLockCount
  BY MutexConstants
<1> HIDE DEF n
<1>2. /\ owner[m] = NoThread /\ owner' = [owner EXCEPT ![m] = t]
      /\ lockCount' = [lockCount EXCEPT ![m] = n]
      /\ mutexQueue' = [mutexQueue EXCEPT ![t] = Append(@, m)]
      /\ prevLockCount' = [prevLockCount EXCEPT ![t] = 0]
      /\ call' = [call EXCEPT ![t] = "none"] /\ want' = [want EXCEPT ![t] = NoMutex]
      /\ UNCHANGED <<lockQueue, condQueue>>
  BY DEF Acquire, InCall, n
<1>3. HoldersAgree' /\ mutexQueue' \in [Threads -> Seq(Mutexes)]
  BY <1>1, <1>2, HoldersGain
<1>4. MutexTypeOK'
  BY <1>1, <1>2, <1>3, MutexConstants
<1>5. WaitersAreQueuedOnce'
  BY <1>2, MutexFacts DEF WaitersAreQueuedOnce, Awake
<1>6. NoSleeperOnFreeMutex'
  <2>1. OthersOnlyWoken(t)
    BY <1>2 DEF OthersOnlyWoken
  <2>2. ASSUME NEW x \in Mutexes, owner'[x] = NoThread, lockQueue'[x] # <<>>
        PROVE  owner[x] = NoThread /\ lockQueue[x] # <<>> /\ ~ OnTheWay(t, x)
    <3>1. x # m
      BY <1>2, <2>2, MutexConstants
    <3> QED
      BY <1>2, <2>2, <3>1 DEF OnTheWay, WokenForLock, WokenForCond
  <2> QED
    BY <2>1, <2>2, NobodyForgotten
<1>7. CallsAreAbout'
  BY <1>2 DEF CallsAreAbout
<1> QED
  BY <1>3, <1>4, <1>5, <1>6, <1>7

LEMMA AcquireAgainKeeps ==
    ASSUME MutexInvariant, NEW t \in Threads, NEW m \in Mutexes, AcquireAgain(t, m)
    PROVE  MutexInvariant'
<1> USE DEF MutexInvariant, MutexTypeOK, AcquireAgain
<1>1. MutexTypeOK'
  BY MutexConstants
<1>2. HoldersAgree'
  BY MutexConstants DEF HoldersAgree, NoDuplicates
<1>3. WaitersAreQueuedOnce'
  BY WaitersUnchanged
<1>4. NoSleeperOnFreeMutex' /\ CallsAreAbout'
  BY DEF NoSleeperOnFreeMutex, CallsAreAbout, WokenForLock, WokenForCond
<1> QED
  BY <1>1, <1>2, <1>3, <1>4

LEMMA WaitForMutexKeeps ==
    ASSUME MutexInvariant, NEW t \in Threads, NEW m \in Mutexes, Awake(t),
           call[t] \in {"none", "lock", "cond"}, call[t] # "none" => want[t] = m,
           WaitForMutex(t, m)
    PROVE  MutexInvariant'
<1> USE DEF MutexInvariant, MutexTypeOK
<1> DEFINE q == AddThreadByPriority(lockQueue[m], Priority, t)
<1>1. q \in Seq(Threads) /\ ToSet(q) = ToSet(lockQueue[m]) \cup {t} /\ NoDuplicates(q)
  <2>1. lockQueue[m] \in Seq(Threads) /\ NoDuplicates(lockQueue[m]) /\ t \notin ToSet(lockQueue[m])
    BY DEF WaitersAreQueuedOnce, Awake
  <2> QED
    BY <2>1, QueuedOnce
<1> HIDE DEF q
<1>2. /\ owner[m] # NoThread
      /\ lockQueue' = [lockQueue EXCEPT ![m] = q]
      /\ call' = [call EXCEPT ![t] = "lock"] /\ want' = [want EXCEPT ![t] = m]
      /\ UNCHANGED <<owner, lockCount, mutexQueue, condQueue, prevLockCount>>
  BY DEF WaitForMutex, InCall, q
<1>3. MutexTypeOK'
  BY <1>1, <1>2
<1>4. HoldersAgree'
  BY <1>2 DEF HoldersAgree, NoDuplicates
<1>5. WaitersAreQueuedOnce'
  <2>1. ASSUME NEW x \in Mutexes
        PROVE  /\ NoDuplicates(lockQueue'[x])
               /\ \A u \in ToSet(lockQueue'[x]) : call'[u] = "lock" /\ want'[u] = x
    <3>1. CASE x = m
      BY <1>1, <1>2, <3>1, MutexFacts DEF WaitersAreQueuedOnce, Awake
    <3>2. CASE x # m
      BY <1>2, <3>2, MutexFacts DEF WaitersAreQueuedOnce, Awake
    <3> QED
      BY <3>1, <3>2
  <2>2. NoDuplicates(condQueue') /\ \A u \in ToSet(condQueue') : call'[u] = "cond"
    BY <1>2, MutexFacts DEF WaitersAreQueuedOnce, Awake
  <2> QED
    BY <2>1, <2>2 DEF WaitersAreQueuedOnce
<1>6. NoSleeperOnFreeMutex'
  <2>1. OthersOnlyWoken(t)
    BY <1>1, <1>2 DEF OthersOnlyWoken
  <2>2. ASSUME NEW x \in Mutexes, owner'[x] = NoThread, lockQueue'[x] # <<>>
        PROVE  owner[x] = NoThread /\ lockQueue[x] # <<>> /\ ~ OnTheWay(t, x)
    <3>1. x # m
      BY <1>2, <2>2
    <3> QED
      BY <1>2, <2>2, <3>1 DEF OnTheWay, WokenForLock, WokenForCond
  <2> QED
    BY <2>1, <2>2, NobodyForgotten
<1>7. CallsAreAbout'
  BY <1>2 DEF CallsAreAbout
<1> QED
  BY <1>3, <1>4, <1>5, <1>6, <1>7
-----------------------------------------------------------------------------
\* Giving m up wakes the first of its waiters, who is then on the way to it.
LEMMA ReleaseKeeps ==
    ASSUME MutexInvariant, NEW t \in Threads, NEW m \in Mutexes, owner[m] = t,
           call[t] \in {"none", "exit"},
           lockCount' = [lockCount EXCEPT ![m] = 0], Release(t, m),
           UNCHANGED <<condQueue, call, want, prevLockCount>>
    PROVE  MutexInvariant'
<1> USE DEF MutexInvariant, MutexTypeOK
<1> DEFINE q == IF lockQueue[m] = <<>> THEN <<>> ELSE Tail(lockQueue[m])
<1>1. /\ q \in Seq(Threads) /\ NoDuplicates(q) /\ ToSet(q) \subseteq ToSet(lockQueue[m])
      /\ q # <<>> => \E u \in ToSet(lockQueue[m]) : u \notin ToSet(q)
  <2>1. lockQueue[m] \in Seq(Threads) /\ NoDuplicates(lockQueue[m])
    BY DEF WaitersAreQueuedOnce
  <2>2. CASE lockQueue[m] = <<>>
    BY <2>2, EmptyQueue
  <2>3. CASE lockQueue[m] # <<>>
    BY <2>1, <2>3, TailProperties
  <2> QED
    BY <2>2, <2>3
<1> HIDE DEF q
<1>2. /\ owner' = [owner EXCEPT ![m] = NoThread]
      /\ mutexQueue' = [mutexQueue EXCEPT ![t] = removeMutex(@, m)]
      /\ lockQueue' = [lockQueue EXCEPT ![m] = q]
  BY DEF Release, q
<1>3. HoldersAgree' /\ mutexQueue' \in [Threads -> Seq(Mutexes)]
  BY <1>2, HoldersLose
<1>4. MutexTypeOK'
  BY <1>1, <1>2, <1>3, MutexConstants
<1>5. WaitersAreQueuedOnce'
  <2>1. ASSUME NEW x \in Mutexes
        PROVE  /\ NoDuplicates(lockQueue'[x])
               /\ \A u \in ToSet(lockQueue'[x]) : call'[u] = "lock" /\ want'[u] = x
    <3>1. CASE x = m
      BY <1>1, <1>2, <3>1 DEF WaitersAreQueuedOnce
    <3>2. CASE x # m
      BY <1>2, <3>2 DEF WaitersAreQueuedOnce
    <3> QED
      BY <3>1, <3>2
  <2>2. NoDuplicates(condQueue') /\ \A u \in ToSet(condQueue') : call'[u] = "cond"
    BY DEF WaitersAreQueuedOnce
  <2> QED
    BY <2>1, <2>2 DEF WaitersAreQueuedOnce
<1>6. NoSleeperOnFreeMutex'
  <2>1. OthersOnlyWoken(t)
    BY <1>1, <1>2 DEF OthersOnlyWoken
  <2>2. \A x \in Mutexes : ~ OnTheWay(t, x)
    BY DEF OnTheWay, WokenForLock, WokenForCond
  <2>3. ASSUME lockQueue'[m] # <<>> PROVE \E u \in Threads : OnTheWay(u, m)'
    <3>1. PICK u \in ToSet(lockQueue[m]) : u \notin ToSet(q)
      BY <1>1, <1>2, <2>3
    <3>2. u \in Threads /\ call[u] = "lock" /\ want[u] = m
      BY <3>1, MutexFacts DEF WaitersAreQueuedOnce
    <3> QED
      BY <1>2, <3>1, <3>2 DEF OnTheWay, WokenForLock
  <2>4. \A x \in Mutexes \ {m} : owner'[x] = owner[x] /\ lockQueue'[x] = lockQueue[x]
    BY <1>2
  <2> QED
    BY <2>1, <2>2, <2>3, <2>4, NobodyForgotten
<1>7. CallsAreAbout'
  <2>1. \A u \in Threads \ {t} : mutexQueue'[u] = mutexQueue[u]
    BY <1>2
  <2> QED
    BY <2>1 DEF CallsAreAbout
<1> QED
  BY <1>3, <1>4, <1>5, <1>6, <1>7

LEMMA UnlockKeeps ==
    ASSUME MutexInvariant, NEW t \in Threads, NEW m \in Mutexes, call[t] \in {"none", "exit"},
           OSUnlockMutexInternal(t, m), UNCHANGED <<condQueue, call, want, prevLockCount>>
    PROVE  MutexInvariant'
<1> USE DEF MutexInvariant, MutexTypeOK
<1>1. /\ owner[m] = t /\ lockCount[m] \in 1..MaxLockCount
      /\ lockCount' = [lockCount EXCEPT ![m] = lockCount[m] - 1]
  BY MutexConstants DEF OSUnlockMutexInternal
<1>2. CASE lockCount[m] = 1
  <2>1. Release(t, m) /\ lockCount' = [lockCount EXCEPT ![m] = 0]
    BY <1>1, <1>2 DEF OSUnlockMutexInternal
  <2> QED
    BY <1>1, <2>1, ReleaseKeeps
<1>3. CASE lockCount[m] # 1
  <2>1. UNCHANGED <<owner, mutexQueue, lockQueue>>
    BY <1>3 DEF OSUnlockMutexInternal
  <2>2. lockCount[m] - 1 \in 1..MaxLockCount
    BY <1>1, <1>3, MutexConstants
  <2>3. MutexTypeOK'
    BY <1>1, <2>1, <2>2, MutexConstants
  <2>4. HoldersAgree'
    <3>1. \A x \in Mutexes : owner'[x] = NoThread <=> lockCount'[x] = 0
      BY <1>1, <2>1, <2>2, MutexConstants DEF HoldersAgree
    <3> QED
      BY <2>1, <3>1 DEF HoldersAgree, NoDuplicates
  <2>5. WaitersAreQueuedOnce'
    BY <2>1, WaitersUnchanged
  <2>6. NoSleeperOnFreeMutex' /\ CallsAreAbout'
    BY <2>1 DEF NoSleeperOnFreeMutex, CallsAreAbout, WokenForLock, WokenForCond
  <2> QED
    BY <2>3, <2>4, <2>5, <2>6
<1> QED
  BY <1>2, <1>3

LEMMA ExitUnlocksKeeps ==
    ASSUME MutexInvariant, NEW t \in Threads, ExitUnlocks(t)
    PROVE  MutexInvariant'
<1> DEFINE m == Head(mutexQueue[t])
<1>1. /\ mutexQueue[t] \in Seq(Mutexes) /\ mutexQueue[t] # <<>>
      /\ ToSet(mutexQueue[t]) = {x \in Mutexes : owner[x] = t}
  BY MutexFacts DEF ExitUnlocks, MutexInvariant, HoldersAgree
<1>2. m \in ToSet(mutexQueue[t])
  <2>1. 1 \in DOMAIN mutexQueue[t] /\ m = mutexQueue[t][1]
    BY <1>1, HeadTailProperties, LenProperties, EmptySeq
  <2> QED
    BY <2>1 DEF ToSet
<1>3. m \in Mutexes /\ owner[m] = t
  BY <1>1, <1>2
<1>4. OSUnlockMutexInternal(t, m)
  BY <1>3 DEF ExitUnlocks
<1> HIDE DEF m
<1> QED
  BY <1>3, <1>4, UnlockKeeps DEF ExitUnlocks

-----------------------------------------------------------------------------
\* OSWaitCond wakes all who wait for the mutex.
LEMMA OSWaitCondKeeps ==
    ASSUME MutexInvariant, NEW t \in Threads, NEW m \in Mutexes, OSWaitCond(t, m)
    PROVE  MutexInvariant'
<1> USE DEF MutexInvariant, MutexTypeOK
<1>1. call[t] = "none" /\ Awake(t)
  BY RunningIsAwake DEF OSWaitCond
<1> DEFINE q == AddThreadByPriority(condQueue, Priority, t)
<1>2. q \in Seq(Threads) /\ ToSet(q) = ToSet(condQueue) \cup {t} /\ NoDuplicates(q)
  <2>1. condQueue \in Seq(Threads) /\ NoDuplicates(condQueue) /\ t \notin ToSet(condQueue)
    BY <1>1 DEF WaitersAreQueuedOnce, Awake
  <2> QED
    BY <2>1, QueuedOnce
<1> HIDE DEF q
<1>3. /\ owner[m] = t /\ owner' = [owner EXCEPT ![m] = NoThread]
      /\ lockCount' = [lockCount EXCEPT ![m] = 0]
      /\ mutexQueue' = [mutexQueue EXCEPT ![t] = removeMutex(@, m)]
      /\ prevLockCount' = [prevLockCount EXCEPT ![t] = lockCount[m]]
      /\ lockQueue' = [lockQueue EXCEPT ![m] = <<>>] /\ condQueue' = q
      /\ call' = [call EXCEPT ![t] = "cond"] /\ want' = [want EXCEPT ![t] = m]
  BY DEF OSWaitCond, InCall, q
<1>4. HoldersAgree' /\ mutexQueue' \in [Threads -> Seq(Mutexes)]
  BY <1>3, HoldersLose
<1>5. MutexTypeOK'
  BY <1>2, <1>3, <1>4, MutexConstants
<1>6. WaitersAreQueuedOnce'
  <2>1. ASSUME NEW x \in Mutexes
        PROVE  /\ NoDuplicates(lockQueue'[x])
               /\ \A u \in ToSet(lockQueue'[x]) : call'[u] = "lock" /\ want'[u] = x
    <3>1. CASE x = m
      BY <1>3, <3>1, EmptyQueue
    <3>2. CASE x # m
      BY <1>1, <1>3, <3>2, MutexFacts DEF WaitersAreQueuedOnce, Awake
    <3> QED
      BY <3>1, <3>2
  <2>2. NoDuplicates(condQueue') /\ \A u \in ToSet(condQueue') : call'[u] = "cond"
    BY <1>2, <1>3, MutexFacts DEF WaitersAreQueuedOnce
  <2> QED
    BY <2>1, <2>2 DEF WaitersAreQueuedOnce
<1>7. NoSleeperOnFreeMutex'
  <2>1. OthersOnlyWoken(t)
    BY <1>2, <1>3, EmptyQueue DEF OthersOnlyWoken
  <2>2. \A x \in Mutexes : ~ OnTheWay(t, x)
    BY <1>1 DEF OnTheWay, WokenForLock, WokenForCond
  <2>3. \A x \in Mutexes : lockQueue'[x] # <<>> => owner'[x] = owner[x] /\ lockQueue'[x] = lockQueue[x]
    BY <1>3
  <2> QED
    BY <2>1, <2>2, <2>3, NobodyForgotten
<1>8. CallsAreAbout'
  <2>1. \A u \in Threads \ {t} : mutexQueue'[u] = mutexQueue[u]
    BY <1>3
  <2> QED
    BY <1>3, <2>1 DEF CallsAreAbout
<1> QED
  BY <1>4, <1>5, <1>6, <1>7, <1>8

LEMMA OSSignalCondKeeps ==
    ASSUME MutexInvariant, NEW t \in Threads, OSSignalCond(t)
    PROVE  MutexInvariant'
<1> USE DEF MutexInvariant, MutexTypeOK, OSSignalCond
<1>1. MutexTypeOK' /\ HoldersAgree' /\ CallsAreAbout'
  BY DEF HoldersAgree, CallsAreAbout, NoDuplicates
<1>2. WaitersAreQueuedOnce'
  BY EmptyQueue DEF WaitersAreQueuedOnce
<1>3. NoSleeperOnFreeMutex'
  BY EmptyQueue DEF NoSleeperOnFreeMutex, WokenForLock, WokenForCond
<1> QED
  BY <1>1, <1>2, <1>3

\* The two ends of OSExitThread.
LEMMA ExitKeeps ==
    ASSUME MutexInvariant, NEW t \in Threads, OSExitThread(t) \/ ExitEnds(t)
    PROVE  MutexInvariant'
<1> USE DEF MutexInvariant, MutexTypeOK, OSExitThread, ExitEnds
<1>1. PICK c \in {"exit", "exited"} : /\ call' = [call EXCEPT ![t] = c]
                                      /\ c = "exited" => mutexQueue[t] = <<>>
  BY DEF InCall
<1>2. /\ call[t] \in {"none", "exit"} /\ want' = [want EXCEPT ![t] = NoMutex]
      /\ UNCHANGED <<owner, lockCount, lockQueue, mutexQueue, condQueue, prevLockCount>>
  BY DEF InCall
<1>3. MutexTypeOK' /\ HoldersAgree' /\ CallsAreAbout'
  BY <1>1, <1>2 DEF HoldersAgree, CallsAreAbout, NoDuplicates
<1>4. WaitersAreQueuedOnce'
  BY <1>1, <1>2, MutexFacts DEF WaitersAreQueuedOnce
<1>5. NoSleeperOnFreeMutex'
  <2>1. OthersOnlyWoken(t)
    BY <1>1, <1>2 DEF OthersOnlyWoken
  <2>2. \A x \in Mutexes : ~ OnTheWay(t, x)
    BY <1>2 DEF OnTheWay, WokenForLock, WokenForCond
  <2> QED
    BY <1>2, <2>1, <2>2, NobodyForgotten
<1> QED
  BY <1>3, <1>4, <1>5

LEMMA LockKeeps ==
    ASSUME MutexInvariant, NEW t \in Threads, NEW m \in Mutexes, OSLockMutex(t, m) \/ OSTryLockMutex(t, m)
    PROVE  MutexInvariant'
<1>1. call[t] = "none" /\ Awake(t)
  BY RunningIsAwake DEF OSLockMutex, OSTryLockMutex
<1> QED
  BY <1>1, AcquireKeeps, AcquireAgainKeeps, WaitForMutexKeeps DEF OSLockMutex, OSTryLockMutex

LEMMA ResumeLockKeeps ==
    ASSUME MutexInvariant, NEW t \in Threads, ResumeLock(t)
    PROVE  MutexInvariant'
<1>1. call[t] \in {"lock", "cond"} /\ Awake(t)
  BY RunningIsAwake DEF ResumeLock, WokenForLock, WokenForCond
<1>2. want[t] \in Mutexes
  BY <1>1 DEF MutexInvariant, CallsAreAbout
<1> QED
  BY <1>1, <1>2, AcquireKeeps, WaitForMutexKeeps DEF ResumeLock

LEMMA MutexStutterKeeps == MutexInvariant /\ UNCHANGED mutexVars => MutexInvariant'
BY DEF MutexInvariant, mutexVars, MutexTypeOK, HoldersAgree, WaitersAreQueuedOnce,
       NoSleeperOnFreeMutex, CallsAreAbout, WokenForLock, WokenForCond, NoDuplicates

LEMMA MutexNextKeeps == MutexInvariant /\ [MutexNext]_mutexVars => MutexInvariant'
<1> SUFFICES ASSUME MutexInvariant, MutexNext PROVE MutexInvariant'
  BY MutexStutterKeeps
<1>1. PICK t \in Threads :
         \/ ResumeLock(t)
         \/ OSExitThread(t) \/ ExitUnlocks(t) \/ ExitEnds(t)
         \/ OSSignalCond(t)
         \/ \E m \in Mutexes : \/ OSLockMutex(t, m) \/ OSTryLockMutex(t, m)
                               \/ OSUnlockMutex(t, m) \/ OSWaitCond(t, m)
  BY DEF MutexNext
<1>2. ASSUME NEW m \in Mutexes, OSUnlockMutex(t, m) PROVE MutexInvariant'
  BY <1>2, UnlockKeeps DEF OSUnlockMutex
<1> QED
  BY <1>1, <1>2, ResumeLockKeeps, ExitKeeps, ExitUnlocksKeeps, OSSignalCondKeeps, LockKeeps,
     OSWaitCondKeeps

\* The strengthened invariant of mutexes and the condition variable, for any
\* threads, priorities and mutexes.
THEOREM MutexInvariantHolds == MutexSpec => []MutexInvariant
BY MutexInitInvariant, MutexNextKeeps, PTL DEF MutexSpec

\* The variables keep their types: no lockCount is ever negative.
THEOREM MutexTypeCorrect == MutexSpec => []MutexTypeOK
BY MutexInvariantHolds, PTL DEF MutexInvariant

\* Owner, lockCount and the list of the mutexes a thread holds always agree,
\* through recursion, condition waits and exits.
THEOREM HoldersAlwaysAgree == MutexSpec => []HoldersAgree
BY MutexInvariantHolds, PTL DEF MutexInvariant

\* No thread sleeps on a free mutex unless another is on its way to it.
THEOREM FreeMutexHasNoSleeper == MutexSpec => []NoSleeperOnFreeMutex
BY MutexInvariantHolds, PTL DEF MutexInvariant

LEMMA ExitedHoldNothing == MutexInvariant => ExitReleasesAll
<1> SUFFICES ASSUME MutexInvariant, NEW t \in Threads, call[t] = "exited",
                    NEW m \in Mutexes, owner[m] = t
             PROVE  FALSE
  BY DEF ExitReleasesAll
<1>1. mutexQueue[t] = <<>>
  BY DEF MutexInvariant, CallsAreAbout
<1>2. m \in ToSet(mutexQueue[t])
  BY DEF MutexInvariant, HoldersAgree
<1> QED
  BY <1>1, <1>2, EmptyQueue

\* OSExitThread gives up every mutex before the thread is gone.
THEOREM ExitAlwaysReleasesAll == MutexSpec => []ExitReleasesAll
BY MutexInvariantHolds, ExitedHoldNothing, PTL

-----------------------------------------------------------------------------
(***************************************************************************)
(* FastMutex                                                               *)
(***************************************************************************)
\* What is known of the owner at each place.  A thread that goes on to queue
\* has seen an owner, and that owner is still there unless OSFastCond_Wait,
\* which ignores the contention lock, has taken it away.
PlacesExact ==
    \A t \in Threads :
        /\ pc[t] \in {"queue", "asleep", "wake", "condRelease", "condAsleep"} => fastOwner # t
        /\ pc[t] = "try" /\ fastOwner = t => fastLockCount < MaxNesting
        /\ ~ useCond => pc[t] \notin {"condRelease", "condAsleep"}
        /\ ~ useCond /\ pc[t] = "queue" => fastOwner # NoOwner

FastInvariant ==
    /\ FastMutexTypeOK
    /\ FreeMeansZero
    /\ QueuesConsistent
    /\ PlacesExact
    /\ UnlockLeavesNoSleeper

\* Threads that will take the mutex or wake a sleeper.
Helps(t) == WokenForFast(t) \/ pc[t] \in {"try", "wake", "condRelease"}

LEMMA FastConstants ==
    NoOwner \notin Threads /\ MaxNesting \in Nat /\ MaxNesting > 0
BY NoOwnerAssumption, MaxNestingAssumption

LEMMA FastFacts ==
    ASSUME FastInvariant
    PROVE  /\ waiters \in Seq(Threads) /\ ToSet(waiters) \subseteq Threads
           /\ fastCondQueue \in Seq(Threads) /\ ToSet(fastCondQueue) \subseteq Threads
BY MembersAreThreads DEF FastInvariant, FastMutexTypeOK

LEMMA FastInitInvariant == FastMutexInit => FastInvariant
<1> SUFFICES ASSUME FastMutexInit PROVE FastInvariant
  OBVIOUS
<1> USE DEF FastMutexInit
<1>1. FastMutexTypeOK
  BY FastConstants DEF FastMutexTypeOK, Places
<1>2. FreeMeansZero /\ PlacesExact
  BY DEF FreeMeansZero, PlacesExact
<1>3. QueuesConsistent
  BY EmptyQueue, FastConstants DEF QueuesConsistent
<1>4. UnlockLeavesNoSleeper
  BY DEF UnlockLeavesNoSleeper, NoSleeperOnFreeFastMutex
<1> QED
  BY <1>1, <1>2, <1>3, <1>4 DEF FastInvariant

\* A step of t that leaves the others where they are and queues at most t.
OnlyMoves(t) ==
    /\ \A u \in Threads \ {t} : pc'[u] = pc[u]
    /\ \A u \in Threads \ {t} : u \in ToSet(waiters') => u \in ToSet(waiters)
    /\ \A u \in Threads \ {t} : u \in ToSet(fastCondQueue') => u \in ToSet(fastCondQueue)

LEMMA HelperStays ==
    ASSUME FastInvariant, UNCHANGED useCond, NEW t \in Threads, OnlyMoves(t),
           ~ useCond /\ fastOwner' = NoOwner /\ waiters' # <<>> =>
              \/ \E u \in Threads : Helps(u)'
              \/ fastOwner = NoOwner /\ waiters # <<>> /\ ~ Helps(t)
    PROVE  UnlockLeavesNoSleeper'
<1> SUFFICES ASSUME ~ useCond, fastOwner' = NoOwner, waiters' # <<>>
             PROVE  \E u \in Threads : Helps(u)'
  BY DEF UnlockLeavesNoSleeper, NoSleeperOnFreeFastMutex, Helps
<1>1. CASE \E u \in Threads : Helps(u)'
  BY <1>1
<1>2. CASE fastOwner = NoOwner /\ waiters # <<>> /\ ~ Helps(t)
  <2>1. PICK u \in Threads : Helps(u)
    BY <1>2 DEF FastInvariant, UnlockLeavesNoSleeper, NoSleeperOnFreeFastMutex, Helps
  <2>2. Helps(u)'
    BY <1>2, <2>1 DEF OnlyMoves, Helps, WokenForFast
  <2> QED
    BY <2>2
<1> QED
  BY <1>1, <1>2

-----------------------------------------------------------------------------
\* Getting the contention lock, from the guest or after a wakeup.
LEMMA StartTryKeeps ==
    ASSUME FastInvariant, UNCHANGED useCond, NEW t \in Threads,
           pc[t] = "guest" \/ WokenForFast(t), contention = NoOwner,
           fastOwner = t => fastLockCount < MaxNesting,
           contention' = t, pc' = [pc EXCEPT ![t] = "try"],
           UNCHANGED <<fastOwner, fastLockCount, waiters, fastCondQueue, sched, fastPrevLockCount>>
    PROVE  FastInvariant'
<1> USE DEF FastInvariant, FastMutexTypeOK
<1>1. FastMutexTypeOK'
  BY DEF Places
<1>2. FreeMeansZero' /\ PlacesExact'
  BY DEF FreeMeansZero, PlacesExact
<1>3. QueuesConsistent'
  <2>1. t \notin ToSet(waiters) /\ t \notin ToSet(fastCondQueue) /\ pc[t] \notin {"condRelease", "try", "queue", "wake"}
    BY DEF QueuesConsistent, WokenForFast
  <2> QED
    BY <2>1, FastFacts, FastConstants DEF QueuesConsistent
<1>4. UnlockLeavesNoSleeper'
  <2>1. OnlyMoves(t)
    BY DEF OnlyMoves
  <2>2. Helps(t)'
    BY DEF Helps
  <2> QED
    BY <2>1, <2>2, HelperStays
<1> QED
  BY <1>1, <1>2, <1>3, <1>4

LEMMA LockStartKeeps ==
    ASSUME FastInvariant, UNCHANGED useCond, NEW t \in Threads, OSFastMutex_Lock(t)
    PROVE  FastInvariant'
BY StartTryKeeps DEF OSFastMutex_Lock, Goto

LEMMA ResumeFastLockKeeps ==
    ASSUME FastInvariant, UNCHANGED useCond, NEW t \in Threads, ResumeFastLock(t)
    PROVE  FastInvariant'
<1>1. fastOwner # t
  BY DEF ResumeFastLock, WokenForFast, FastInvariant, PlacesExact
<1> QED
  BY <1>1, StartTryKeeps DEF ResumeFastLock, Goto

\* Taking the mutex, with the contention lock held or free.
LEMMA TakeKeeps ==
    ASSUME FastInvariant, UNCHANGED useCond, NEW t \in Threads, TakeOwnership(t),
           pc[t] \in {"guest", "try"}, pc' = [pc EXCEPT ![t] = "guest"],
           pc[t] = "guest" => contention = NoOwner,
           fastOwner = t => fastLockCount < MaxNesting
    PROVE  FastInvariant'
<1> USE DEF FastInvariant, FastMutexTypeOK
<1>1. /\ fastOwner' = t /\ fastOwner \in {NoOwner, t} /\ contention' = NoOwner
      /\ fastPrevLockCount' = [fastPrevLockCount EXCEPT ![t] = 0]
      /\ UNCHANGED <<waiters, fastCondQueue, sched>>
  BY DEF TakeOwnership
<1>2. fastLockCount' \in 1..MaxNesting
  BY FastConstants DEF TakeOwnership
<1>3. FastMutexTypeOK'
  BY <1>1, <1>2, FastConstants DEF Places
<1>4. FreeMeansZero'
  BY <1>1, <1>2, FastConstants DEF FreeMeansZero
<1>5. PlacesExact'
  BY <1>1, FastConstants DEF PlacesExact
<1>6. QueuesConsistent'
  <2>1. \A u \in Threads \ {t} : contention # u
    <3>1. CASE pc[t] = "guest"
      BY <3>1, FastConstants
    <3>2. CASE pc[t] = "try"
      BY <3>2 DEF QueuesConsistent
    <3> QED
      BY <3>1, <3>2
  <2>2. \A u \in Threads \ {t} : pc[u] \notin {"try", "queue", "wake"}
    BY <2>1 DEF QueuesConsistent
  <2>3. t \notin ToSet(waiters) /\ t \notin ToSet(fastCondQueue) /\ sched # t
    BY DEF QueuesConsistent
  <2> QED
    BY <1>1, <2>2, <2>3, FastFacts, FastConstants DEF QueuesConsistent
<1>7. UnlockLeavesNoSleeper'
  BY <1>1, FastConstants DEF UnlockLeavesNoSleeper, NoSleeperOnFreeFastMutex
<1> QED
  BY <1>3, <1>4, <1>5, <1>6, <1>7

LEMMA TryAcquireKeeps ==
    ASSUME FastInvariant, UNCHANGED useCond, NEW t \in Threads, TryAcquire(t)
    PROVE  FastInvariant'
<1>1. fastOwner = t => fastLockCount < MaxNesting
  BY DEF TryAcquire, FastInvariant, PlacesExact
<1> QED
  BY <1>1, TakeKeeps DEF TryAcquire, Goto

LEMMA TryLockKeeps ==
    ASSUME FastInvariant, UNCHANGED useCond, NEW t \in Threads, OSFastMutex_TryLock(t)
    PROVE  FastInvariant'
<1>1. pc' = [pc EXCEPT ![t] = "guest"]
  BY DEF OSFastMutex_TryLock, FastInvariant, FastMutexTypeOK
<1> QED
  BY <1>1, TakeKeeps DEF OSFastMutex_TryLock

LEMMA TryFailsKeeps ==
    ASSUME FastInvariant, UNCHANGED useCond, NEW t \in Threads, TryFails(t)
    PROVE  FastInvariant'
<1> USE DEF FastInvariant, FastMutexTypeOK, TryFails, Goto
<1>1. FastMutexTypeOK'
  BY DEF Places
<1>2. FreeMeansZero' /\ PlacesExact'
  BY DEF FreeMeansZero, PlacesExact
<1>3. QueuesConsistent'
  BY FastFacts DEF QueuesConsistent
<1>4. UnlockLeavesNoSleeper'
  BY DEF UnlockLeavesNoSleeper, NoSleeperOnFreeFastMutex
<1> QED
  BY <1>1, <1>2, <1>3, <1>4

LEMMA QueueAndSleepKeeps ==
    ASSUME FastInvariant, UNCHANGED useCond, NEW t \in Threads, QueueAndSleep(t)
    PROVE  FastInvariant'
<1> USE DEF FastInvariant, FastMutexTypeOK
<1> DEFINE q == AddThreadByPriority(waiters, Priority, t)
<1>1. pc[t] = "queue" /\ t \notin ToSet(waiters) /\ t \notin ToSet(fastCondQueue) /\ contention = t
  BY DEF QueueAndSleep, QueuesConsistent
<1>2. q \in Seq(Threads) /\ ToSet(q) = ToSet(waiters) \cup {t} /\ NoDuplicates(q)
  BY <1>1, QueuedOnce DEF QueuesConsistent
<1> HIDE DEF q
<1>3. /\ waiters' = q /\ contention' = NoOwner /\ pc' = [pc EXCEPT ![t] = "asleep"]
      /\ UNCHANGED <<fastOwner, fastLockCount, fastCondQueue, sched, fastPrevLockCount>>
  BY DEF QueueAndSleep, Goto, q
<1>4. FastMutexTypeOK'
  BY <1>2, <1>3 DEF Places
<1>5. FreeMeansZero' /\ PlacesExact'
  BY <1>1, <1>3 DEF FreeMeansZero, PlacesExact
<1>6. QueuesConsistent'
  BY <1>1, <1>2, <1>3, FastFacts, FastConstants DEF QueuesConsistent
<1>7. UnlockLeavesNoSleeper'
  BY <1>1, <1>3 DEF PlacesExact, UnlockLeavesNoSleeper, NoSleeperOnFreeFastMutex
<1> QED
  BY <1>4, <1>5, <1>6, <1>7

\* An unlock that frees the mutex goes on, with the contention lock, to wake.
LEMMA FastUnlockKeeps ==
    ASSUME FastInvariant, UNCHANGED useCond, NEW t \in Threads, OSFastMutex_Unlock(t)
    PROVE  FastInvariant'
<1> USE DEF FastInvariant, FastMutexTypeOK
<1>1. /\ pc[t] = "guest" /\ contention = NoOwner /\ fastOwner = t
      /\ fastLockCount' = fastLockCount - 1
      /\ fastOwner' = IF fastLockCount' = 0 THEN NoOwner ELSE fastOwner
      /\ UNCHANGED <<waiters, fastCondQueue, sched, fastPrevLockCount>>
  BY DEF OSFastMutex_Unlock
<1>2. fastLockCount \in 1..MaxNesting
  BY <1>1, FastConstants DEF FreeMeansZero
<1>3. \/ /\ fastLockCount' = 0 /\ waiters # <<>>
         /\ contention' = t /\ pc' = [pc EXCEPT ![t] = "wake"]
      \/ /\ fastLockCount' # 0 \/ waiters = <<>>
         /\ UNCHANGED <<contention, pc>>
  BY DEF OSFastMutex_Unlock, Goto
<1>4. FastMutexTypeOK'
  <2>1. fastLockCount' \in 0..MaxNesting
    BY <1>1, <1>2, FastConstants
  <2>2. fastOwner' \in Threads \cup {NoOwner}
    BY <1>1
  <2>3. contention' \in Threads \cup {NoOwner} /\ pc' \in [Threads -> Places]
    BY <1>3 DEF Places
  <2> QED
    BY <1>1, <2>1, <2>2, <2>3
<1>5. FreeMeansZero'
  BY <1>1, <1>2, FastConstants DEF FreeMeansZero
<1>6. PlacesExact'
  BY <1>1, <1>2, <1>3, FastConstants DEF PlacesExact, QueuesConsistent
<1>7. QueuesConsistent'
  BY <1>1, <1>3, FastFacts, FastConstants DEF QueuesConsistent, NoDuplicates
<1>8. UnlockLeavesNoSleeper'
  BY <1>1, <1>2, <1>3, FastConstants DEF UnlockLeavesNoSleeper, NoSleeperOnFreeFastMutex
<1> QED
  BY <1>4, <1>5, <1>6, <1>7, <1>8

LEMMA UnlockWakesKeeps ==
    ASSUME FastInvariant, UNCHANGED useCond, NEW t \in Threads, UnlockWakes(t)
    PROVE  FastInvariant'
<1> USE DEF FastInvariant, FastMutexTypeOK
<1> DEFINE q == IF waiters = <<>> THEN <<>> ELSE Tail(waiters)
<1>1. /\ q \in Seq(Threads) /\ NoDuplicates(q) /\ ToSet(q) \subseteq ToSet(waiters)
      /\ q # <<>> => \E u \in ToSet(waiters) : u \notin ToSet(q)
  <2>1. CASE waiters = <<>>
    BY <2>1, EmptyQueue
  <2>2. CASE waiters # <<>>
    <3>1. waiters \in Seq(Threads) /\ NoDuplicates(waiters)
      BY DEF QueuesConsistent
    <3>2. /\ Tail(waiters) \in Seq(Threads) /\ NoDuplicates(Tail(waiters))
          /\ ToSet(Tail(waiters)) = ToSet(waiters) \ {waiters[1]}
          /\ waiters[1] \in ToSet(waiters)
      BY <2>2, <3>1, TailProperties
    <3> QED
      BY <2>2, <3>2
  <2> QED
    BY <2>1, <2>2
<1> HIDE DEF q
<1>2. /\ pc[t] = "wake" /\ waiters' = q /\ contention' = NoOwner /\ pc' = [pc EXCEPT ![t] = "guest"]
      /\ UNCHANGED <<fastOwner, fastLockCount, fastCondQueue, sched, fastPrevLockCount>>
  BY DEF UnlockWakes, Goto, q
<1>3. FastMutexTypeOK'
  BY <1>1, <1>2 DEF Places
<1>4. FreeMeansZero' /\ PlacesExact'
  BY <1>2 DEF FreeMeansZero, PlacesExact
<1>5. contention = t
  BY <1>2 DEF QueuesConsistent
<1>6. QueuesConsistent'
  BY <1>1, <1>2, <1>5, FastFacts, FastConstants DEF QueuesConsistent
<1>7. UnlockLeavesNoSleeper'
  <2>1. OnlyMoves(t)
    BY <1>1, <1>2 DEF OnlyMoves
  <2>2. ASSUME q # <<>> PROVE \E u \in Threads : Helps(u)'
    <3>1. PICK u \in ToSet(waiters) : u \notin ToSet(q)
      BY <1>1, <2>2
    <3>2. u \in Threads /\ pc[u] = "asleep"
      BY <3>1, FastFacts DEF QueuesConsistent
    <3>3. Helps(u)'
      BY <1>2, <3>1, <3>2 DEF Helps, WokenForFast
    <3> QED
      BY <3>2, <3>3
  <2> QED
    BY <1>2, <2>1, <2>2, HelperStays
<1> QED
  BY <1>3, <1>4, <1>6, <1>7

-----------------------------------------------------------------------------
LEMMA CondWaitKeeps ==
    ASSUME FastInvariant, UNCHANGED useCond, NEW t \in Threads, OSFastCond_Wait(t)
    PROVE  FastInvariant'
<1> USE DEF FastInvariant, FastMutexTypeOK, OSFastCond_Wait, Goto
<1>1. FastMutexTypeOK'
  <2>1. fastPrevLockCount' \in [Threads -> 0..MaxNesting] /\ pc' \in [Threads -> Places]
    BY DEF Places
  <2>2. fastLockCount' \in 0..MaxNesting /\ fastOwner' \in Threads \cup {NoOwner}
    BY FastConstants
  <2> QED
    BY <2>1, <2>2
<1>2. FreeMeansZero' /\ PlacesExact'
  BY FastConstants DEF FreeMeansZero, PlacesExact
<1>3. QueuesConsistent'
  BY FastFacts, FastConstants DEF QueuesConsistent
<1>4. UnlockLeavesNoSleeper'
  BY DEF UnlockLeavesNoSleeper
<1> QED
  BY <1>1, <1>2, <1>3, <1>4

LEMMA CondSleepKeeps ==
    ASSUME FastInvariant, UNCHANGED useCond, NEW t \in Threads, CondSleep(t)
    PROVE  FastInvariant'
<1> USE DEF FastInvariant, FastMutexTypeOK
<1> DEFINE q == AddThreadByPriority(fastCondQueue, Priority, t)
<1>1. /\ pc[t] = "condRelease" /\ t \notin ToSet(waiters) /\ t \notin ToSet(fastCondQueue)
      /\ sched = t /\ useCond
  BY DEF CondSleep, QueuesConsistent, PlacesExact
<1>2. q \in Seq(Threads) /\ ToSet(q) = ToSet(fastCondQueue) \cup {t} /\ NoDuplicates(q)
  BY <1>1, QueuedOnce DEF QueuesConsistent
<1> HIDE DEF q
<1>3. /\ waiters' = <<>> /\ fastCondQueue' = q /\ sched' = NoOwner
      /\ pc' = [pc EXCEPT ![t] = "condAsleep"]
      /\ UNCHANGED <<fastOwner, fastLockCount, contention, fastPrevLockCount>>
  BY DEF CondSleep, Goto, q
<1>4. FastMutexTypeOK'
  BY <1>2, <1>3 DEF Places
<1>5. FreeMeansZero' /\ PlacesExact'
  BY <1>1, <1>3 DEF FreeMeansZero, PlacesExact
<1>6. QueuesConsistent'
  BY <1>1, <1>2, <1>3, EmptyQueue, FastFacts, FastConstants DEF QueuesConsistent
<1>7. UnlockLeavesNoSleeper'
  BY <1>1 DEF UnlockLeavesNoSleeper
<1> QED
  BY <1>4, <1>5, <1>6, <1>7

LEMMA CondSignalKeeps ==
    ASSUME FastInvariant, UNCHANGED useCond, NEW t \in Threads, OSFastCond_Signal(t)
    PROVE  FastInvariant'
<1> USE DEF FastInvariant, FastMutexTypeOK, OSFastCond_Signal
<1>1. FastMutexTypeOK' /\ FreeMeansZero' /\ PlacesExact'
  BY DEF FreeMeansZero, PlacesExact
<1>2. QueuesConsistent'
  BY EmptyQueue DEF QueuesConsistent, NoDuplicates
<1>3. UnlockLeavesNoSleeper'
  <2>1. OnlyMoves(t)
    BY EmptyQueue DEF OnlyMoves
  <2>2. ~ Helps(t)
    BY DEF Helps, WokenForFast
  <2> QED
    BY <2>1, <2>2, HelperStays
<1> QED
  BY <1>1, <1>2, <1>3

LEMMA FastStutterKeeps == FastInvariant /\ UNCHANGED fastVars => FastInvariant'
BY DEF FastInvariant, fastVars, FastMutexTypeOK, FreeMeansZero, QueuesConsistent, PlacesExact,
       UnlockLeavesNoSleeper, NoSleeperOnFreeFastMutex, WokenForFast, NoDuplicates

LEMMA FastNextKeeps == FastInvariant /\ [FastMutexNext]_fastVars => FastInvariant'
<1> SUFFICES ASSUME FastInvariant, FastMutexNext PROVE FastInvariant'
  BY FastStutterKeeps
<1>1. PICK t \in Threads :
         \/ Continue(t) \/ OSFastMutex_Lock(t) \/ OSFastMutex_TryLock(t) \/ OSFastMutex_Unlock(t)
         \/ OSFastCond_Wait(t) \/ OSFastCond_Signal(t)
  BY DEF FastMutexNext
<1>2. UNCHANGED useCond
  BY DEF FastMutexNext
<1>3. CASE Continue(t)
  BY <1>2, <1>3, TryAcquireKeeps, TryFailsKeeps, QueueAndSleepKeeps, ResumeFastLockKeeps,
     UnlockWakesKeeps, CondSleepKeeps DEF Continue
<1> QED
  BY <1>1, <1>2, <1>3, LockStartKeeps, TryLockKeeps, FastUnlockKeeps, CondWaitKeeps, CondSignalKeeps

\* The strengthened invariant of the fast mutex, for any threads and priorities,
\* whether or not the guest uses the condition variable.
THEOREM FastInvariantHolds == FastMutexSpec => []FastInvariant
BY FastInitInvariant, FastNextKeeps, PTL DEF FastMutexSpec

\* The variables keep their types: lockCount stays within the nesting.
THEOREM FastMutexTypeCorrect == FastMutexSpec => []FastMutexTypeOK
BY FastInvariantHolds, PTL DEF FastInvariant

\* Whoever finds the fast mutex free finds lockCount 0, on both ways to release
\* it, one of which is not under the contention lock.
THEOREM FreeFastMutexIsZero == FastMutexSpec => []FreeMeansZero
BY FastInvariantHolds, PTL DEF FastInvariant

\* The queues hold the threads that sleep on them, once; each lock is held by
\* exactly the thread that is at a place that releases it.
THEOREM FastQueuesAreConsistent == FastMutexSpec => []QueuesConsistent
BY FastInvariantHolds, PTL DEF FastInvariant

\* OSFastMutex_Unlock leaves no thread asleep on a free mutex.
THEOREM FastUnlockLeavesNoSleeper == FastMutexSpec => []UnlockLeavesNoSleeper
BY FastInvariantHolds, PTL DEF FastInvariant

-----------------------------------------------------------------------------
(***************************************************************************)
(* Rendezvous                                                              *)
(***************************************************************************)
\* The mask of cores is exactly the cores of those who arrived.
CoresOfArrived ==
    \A r \in Rendezvouses : coreHit[r] = {CoreOf[u] : u \in arrived[r]}

SleepersAreInside == \A t \in queue : at[t] # Nobody

\* NobodySleepsWhenMet is not inductive by itself: an arrival that finds the
\* event signaled wakes nobody, which is harmless only because nobody waits.
RendezvousInvariant ==
    RendezvousTypeOK /\ CoresOfArrived /\ SleepersAreInside /\ NobodySleepsWhenMet /\ SignalHasNoWaiter

LEMMA MasksFacts ==
    ASSUME MasksAssumption
    PROVE  /\ CoreOf \in [Callers -> Cores] /\ Masks \in [Rendezvouses -> SUBSET Cores]
           /\ Nobody \notin Rendezvouses
BY DEF MasksAssumption

LEMMA RendezvousInitInvariant ==
    ASSUME MasksAssumption
    PROVE  RendezvousInit => RendezvousInvariant
BY MasksFacts
   DEF RendezvousInit, RendezvousInvariant, RendezvousTypeOK, CoresOfArrived, SleepersAreInside, NobodySleepsWhenMet,
       SignalHasNoWaiter

\* An arrival wakes everybody or finds nobody: it leaves an empty queue.
LEMMA SignalEmptiesQueue ==
    ASSUME MasksAssumption, SignalHasNoWaiter, queue \subseteq Callers, rendezvousSignaled \in BOOLEAN,
           OSSignalEventAllInternal
    PROVE  queue' = {} /\ rendezvousSignaled' \in BOOLEAN
BY DEF SignalHasNoWaiter, OSSignalEventAllInternal

LEMMA InitRendezvousKeeps ==
    ASSUME MasksAssumption, RendezvousInvariant, NEW r \in Rendezvouses, OSInitRendezvous(r)
    PROVE  RendezvousInvariant'
<1> USE DEF RendezvousInvariant, RendezvousTypeOK
<1>1. RendezvousTypeOK'
  BY DEF OSInitRendezvous
<1>2. CoresOfArrived'
  BY DEF OSInitRendezvous, CoresOfArrived
<1>3. NobodySleepsWhenMet'
  <2>1. \A t \in queue : at[t] \in Rendezvouses \ {r}
    BY DEF OSInitRendezvous, SleepersAreInside
  <2> QED
    BY <2>1 DEF OSInitRendezvous, NobodySleepsWhenMet, MetAll
<1>4. SleepersAreInside' /\ SignalHasNoWaiter'
  BY DEF OSInitRendezvous, SleepersAreInside, SignalHasNoWaiter
<1> QED
  BY <1>1, <1>2, <1>3, <1>4

LEMMA ArriveKeeps ==
    ASSUME MasksAssumption, RendezvousInvariant, NEW t \in Callers, NEW r \in Rendezvouses, Arrive(t, r)
    PROVE  RendezvousInvariant'
<1> USE DEF RendezvousInvariant, RendezvousTypeOK
<1>1. queue' = {} /\ rendezvousSignaled' \in BOOLEAN
  BY SignalEmptiesQueue DEF Arrive
<1>2. RendezvousTypeOK'
  BY <1>1, MasksFacts DEF Arrive
<1>3. CoresOfArrived'
  <2> SUFFICES ASSUME NEW s \in Rendezvouses
               PROVE  coreHit'[s] = {CoreOf[u] : u \in arrived'[s]}
    BY DEF CoresOfArrived
  <2>1. CASE s = r
    <3>1. coreHit'[r] = coreHit[r] \cup {CoreOf[t]} /\ arrived'[r] = arrived[r] \cup {t}
      BY DEF Arrive
    <3> QED
      BY <2>1, <3>1 DEF CoresOfArrived
  <2>2. CASE s # r
    BY <2>2 DEF Arrive, CoresOfArrived
  <2> QED
    BY <2>1, <2>2
<1>4. SleepersAreInside' /\ NobodySleepsWhenMet' /\ SignalHasNoWaiter'
  BY <1>1 DEF SleepersAreInside, NobodySleepsWhenMet, SignalHasNoWaiter
<1> QED
  BY <1>2, <1>3, <1>4

LEMMA RendezvousLeaveKeeps ==
    ASSUME MasksAssumption, RendezvousInvariant, NEW t \in Callers, Leave(t)
    PROVE  RendezvousInvariant'
<1> USE DEF RendezvousInvariant, RendezvousTypeOK, Leave
<1>1. RendezvousTypeOK' /\ CoresOfArrived' /\ SignalHasNoWaiter'
  BY DEF CoresOfArrived, SignalHasNoWaiter
<1>2. \A u \in queue : at'[u] = at[u]
  OBVIOUS
<1>3. SleepersAreInside' /\ NobodySleepsWhenMet'
  BY <1>2 DEF SleepersAreInside, NobodySleepsWhenMet, MetAll
<1> QED
  BY <1>1, <1>3

LEMMA RendezvousWaitKeeps ==
    ASSUME MasksAssumption, RendezvousInvariant, NEW t \in Callers, Wait(t)
    PROVE  RendezvousInvariant'
BY DEF RendezvousInvariant, RendezvousTypeOK, Wait, CoresOfArrived, SleepersAreInside,
       NobodySleepsWhenMet, SignalHasNoWaiter, MetAll

LEMMA RendezvousStutterKeeps ==
    ASSUME MasksAssumption
    PROVE  RendezvousInvariant /\ UNCHANGED rendezvousVars => RendezvousInvariant'
BY DEF RendezvousInvariant, RendezvousTypeOK, rendezvousVars, CoresOfArrived, SleepersAreInside,
       NobodySleepsWhenMet, SignalHasNoWaiter, MetAll

\* The strengthened invariant holds of every behaviour of the code.
THEOREM RendezvousInvariantHolds ==
    ASSUME MasksAssumption
    PROVE  RendezvousSpec => []RendezvousInvariant
<1>1. RendezvousInvariant /\ [RendezvousNext]_rendezvousVars => RendezvousInvariant'
  BY InitRendezvousKeeps, ArriveKeeps, RendezvousLeaveKeeps, RendezvousWaitKeeps, RendezvousStutterKeeps DEF RendezvousNext
<1> QED
  BY <1>1, RendezvousInitInvariant, PTL DEF RendezvousSpec

\* The variables keep their types.
THEOREM RendezvousTypeCorrect ==
    ASSUME MasksAssumption
    PROVE  RendezvousSpec => []RendezvousTypeOK
BY RendezvousInvariantHolds, PTL DEF RendezvousInvariant

\* No thread sleeps in WaitRendezvous when the cores of its rendezvous have
\* met, although one event serves every rendezvous.
THEOREM NobodyOversleeps ==
    ASSUME MasksAssumption
    PROVE  RendezvousSpec => []NobodySleepsWhenMet
BY RendezvousInvariantHolds, PTL DEF RendezvousInvariant

\* A kept signal never has a waiter behind it.
THEOREM KeptSignalHasNoWaiter ==
    ASSUME MasksAssumption
    PROVE  RendezvousSpec => []SignalHasNoWaiter
BY RendezvousInvariantHolds, PTL DEF RendezvousInvariant

LEMMA StepLeavesLate ==
    ASSUME MasksAssumption, RendezvousInvariant, [RendezvousNext]_rendezvousVars,
           NEW t \in Callers, at[t] # Nobody, at'[t] = Nobody,
           NEW c \in Masks[at[t]]
    PROVE  \E u \in arrived[at[t]] : CoreOf[u] = c
<1> USE DEF RendezvousInvariant, RendezvousTypeOK
<1>1. Leave(t)
  <2>1. ~ UNCHANGED rendezvousVars
    BY DEF rendezvousVars
  <2>2. ASSUME NEW r \in Rendezvouses, OSInitRendezvous(r) PROVE FALSE
    BY <2>2 DEF OSInitRendezvous
  <2>3. ASSUME NEW r \in Rendezvouses, NEW u \in Callers, Arrive(u, r) PROVE FALSE
    BY <2>3, MasksFacts DEF Arrive
  <2>4. ASSUME NEW u \in Callers, Wait(u) PROVE FALSE
    BY <2>4 DEF Wait
  <2>5. ASSUME NEW u \in Callers, Leave(u) PROVE u = t
    BY <2>5 DEF Leave
  <2> QED
    BY <2>1, <2>2, <2>3, <2>4, <2>5 DEF RendezvousNext
<1>2. c \in coreHit[at[t]] /\ at[t] \in Rendezvouses
  BY <1>1 DEF Leave, MetAll
<1> QED
  BY <1>2 DEF CoresOfArrived

\* WaitRendezvous returns only after a thread of every core in the mask came.
THEOREM NobodyIsEarly ==
    ASSUME MasksAssumption
    PROVE  RendezvousSpec => NobodyLeavesEarly
<1>1. RendezvousInvariant /\ [RendezvousNext]_rendezvousVars =>
        [\A t \in Callers : at[t] # Nobody /\ at'[t] = Nobody =>
           \A c \in Masks[at[t]] : \E u \in arrived[at[t]] : CoreOf[u] = c]_rendezvousVars
  BY StepLeavesLate
<1> QED
  BY <1>1, RendezvousInvariantHolds, PTL DEF RendezvousSpec, NobodyLeavesEarly
===============================================================================

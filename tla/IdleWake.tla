------------------------------ MODULE IdleWake ------------------------------
(***************************************************************************)
(* The idle loops of the emulated cores, how a thread that becomes         *)
(* runnable wakes them, and how OSSchedulerEnd stops them                  *)
(* (coreinit_Thread.cpp, CounterSemaphore of util/helpers/Semaphore.h).    *)
(*                                                                         *)
(* Hosts are the host threads: one for each core in multicore mode, a      *)
(* single one whose core index rotates otherwise.  The main host sleeps on *)
(* a condition variable with a timeout, the others on the counter of their *)
(* core.  Of a guest thread only its affinity and whether it is queued is  *)
(* kept; the scheduler lock is held by whoever is between queueing a       *)
(* thread and the notification.                                            *)
(***************************************************************************)
EXTENDS Naturals, FiniteSets

CONSTANTS
    Multicore, Cores, Threads,
    Affinity,       \* cores of each thread
    MainCore,
    SpinBudget,     \* kIdleSpinBudget
    NoThread

ASSUME ModeAssumption == Multicore \in BOOLEAN /\ MainCore \in Cores
ASSUME CoresAssumption == IsFiniteSet(Cores) /\ Cores = 0..(Cardinality(Cores) - 1)
ASSUME ThreadsAssumption == IsFiniteSet(Threads) /\ NoThread \notin Threads
ASSUME AffinityAssumption == Affinity \in [Threads -> (SUBSET Cores) \ {{}}]
ASSUME BoundAssumption == SpinBudget \in Nat

Hosts == IF Multicore THEN Cores ELSE {0}
Main == IF Multicore THEN MainCore ELSE 0

VARIABLES
    queued,     \* threads on the run queues
    current,    \* the thread each host runs
    count,      \* g_coreRunQueueThreadCount
    unnotified, \* the scheduler lock is held: __OSNotifyRunQueueChanged is due
    seqMoved,   \* g_idleWakeSeq is not the main host's wakeSeq any more
    active,     \* sSchedulerActive
    pc, core,   \* of each host: place in the loop and core index
    ran, spins, \* of the main host: ranGuestThread, emptyRunQueueSpins
    ending      \* OSSchedulerEnd: the counters it has incremented, and whether it notified

loop == <<pc, core, ran, spins>>
queues == <<queued, current, count>>
vars == <<queues, unnotified, seqMoved, active, loop, ending>>

On(c) == {t \in queued : c \in Affinity[t]}

TypeOK ==
    /\ queued \subseteq Threads
    /\ current \in [Hosts -> Threads \cup {NoThread}]
    /\ count \in [Cores -> 0..(Cardinality(Threads) + 1)]
    /\ unnotified \in BOOLEAN /\ active \in BOOLEAN
    /\ seqMoved \in BOOLEAN
    /\ pc \in [Hosts -> {"sample", "look", "guest", "decide", "asleep", "recheck",
                         "events", "counter", "counterAsleep", "exit"}]
    /\ core \in [Hosts -> Cores]
    /\ ran \in BOOLEAN /\ spins \in 0..SpinBudget
    /\ ending \in [incremented : SUBSET Cores, notified : BOOLEAN]

Init ==
    /\ queued = {}
    /\ current = [h \in Hosts |-> NoThread]
    /\ count = [c \in Cores |-> 0]
    /\ unnotified = FALSE
    /\ seqMoved = FALSE
    /\ active = TRUE
    /\ pc = [h \in Hosts |-> "sample"]
    /\ core = [h \in Hosts |-> h]
    /\ ran = FALSE /\ spins = 0
    /\ ending = [incremented |-> {}, notified |-> FALSE]

Goto(h, place) == pc' = [pc EXCEPT ![h] = place]

\* a counter that goes from zero to one wakes the hosts that sleep on it
Increment(C) == count' = [c \in Cores |-> count[c] + IF c \in C THEN 1 ELSE 0]
WokenByCounter(places, C) ==
    [h \in Hosts |-> IF places[h] = "counterAsleep" /\ h \in C /\ count[h] = 0
                     THEN "counter" ELSE places[h]]

\* under g_idleWakeMtx: the number changes, then everybody asleep looks again
WokenByNotify(places) == [h \in Hosts |-> IF places[h] = "asleep" THEN "recheck" ELSE places[h]]

-----------------------------------------------------------------------------
(***************************************************************************)
(* __OSAddReadyThreadToRunQueue: counters first, the notification last.    *)
(* The callers are guest threads on other cores, alarms and host threads.  *)
(***************************************************************************)
Enqueue(t) ==
    /\ ~ unnotified /\ active
    /\ t \notin queued /\ \A h \in Hosts : current[h] # t
    /\ queued' = queued \cup {t}
    /\ Increment(Affinity[t])
    /\ pc' = WokenByCounter(pc, Affinity[t])
    /\ unnotified' = TRUE
    /\ UNCHANGED <<current, seqMoved, active, core, ran, spins, ending>>

NotifyRunQueueChanged ==
    /\ unnotified
    /\ seqMoved' = TRUE
    /\ pc' = WokenByNotify(pc)
    /\ unnotified' = FALSE
    /\ UNCHANGED <<queues, active, core, ran, spins, ending>>

Take(t) ==
    /\ queued' = queued \ {t}
    /\ count' = [c \in Cores |-> count[c] - IF c \in Affinity[t] THEN 1 ELSE 0]

-----------------------------------------------------------------------------
(***************************************************************************)
(* __OSThreadCoreIdle.  The look at the counter is not under the lock.     *)
(***************************************************************************)
Sample(h) ==
    /\ pc[h] = "sample"
    /\ seqMoved' = IF h = Main THEN FALSE ELSE seqMoved
    /\ ran' = IF h = Main THEN FALSE ELSE ran
    /\ Goto(h, "look")
    /\ UNCHANGED <<queues, unnotified, active, core, spins, ending>>

LookEmpty(h) ==
    /\ pc[h] = "look"
    /\ \/ count[core[h]] = 0
       \/ ~ unnotified /\ On(core[h]) = {}
    /\ Goto(h, "decide")
    /\ UNCHANGED <<queues, unnotified, seqMoved, active, core, ran, spins, ending>>

LookFinds(h, t) ==
    /\ pc[h] = "look" /\ ~ unnotified
    /\ t \in On(core[h])
    /\ Take(t)
    /\ current' = [current EXCEPT ![h] = t]
    /\ Goto(h, "guest")
    /\ UNCHANGED <<unnotified, seqMoved, active, core, ran, spins, ending>>

\* the wait of the main host; its predicate is tested under g_idleWakeMtx
Woken == seqMoved \/ ~ active

DecideSamplingLate(h) ==                                         \* mutant
    /\ pc[h] = "decide" /\ h = Main /\ ~ ran /\ spins >= SpinBudget
    /\ seqMoved' = FALSE
    /\ spins' = IF active THEN SpinBudget ELSE 0
    /\ Goto(h, IF active THEN "asleep" ELSE "events")
    /\ UNCHANGED <<queues, unnotified, active, core, ran, ending>>

DecideToWait(h) ==
    /\ pc[h] = "decide" /\ h = Main /\ ~ ran /\ spins >= SpinBudget
    /\ spins' = IF Woken THEN 0 ELSE SpinBudget
    /\ Goto(h, IF Woken THEN "events" ELSE "asleep")
    /\ UNCHANGED <<queues, unnotified, seqMoved, active, core, ran, ending>>

DecideNotToWait(h) ==
    /\ pc[h] = "decide"
    /\ h = Main => ran \/ spins < SpinBudget
    /\ spins' = IF h # Main THEN spins ELSE IF ran THEN 0 ELSE spins + 1
    /\ Goto(h, IF h = Main THEN "events" ELSE "counter")
    /\ UNCHANGED <<queues, unnotified, seqMoved, active, core, ran, ending>>

Recheck(h) ==
    /\ pc[h] = "recheck"
    /\ spins' = IF Woken THEN 0 ELSE spins
    /\ Goto(h, IF Woken THEN "events" ELSE "asleep")
    /\ UNCHANGED <<queues, unnotified, seqMoved, active, core, ran, ending>>

WaitTimesOut(h) ==
    /\ pc[h] = "asleep"
    /\ spins' = IF Woken THEN 0 ELSE SpinBudget
    /\ Goto(h, "events")
    /\ UNCHANGED <<queues, unnotified, seqMoved, active, core, ran, ending>>

(***************************************************************************)
(* The main host leaves or runs the alarms (whose threads Enqueue queues)  *)
(* and, alone, looks at the next core.                                     *)
(***************************************************************************)
NextCore(c) == (c + 1) % Cardinality(Cores)

EventsForever(h) ==                                              \* mutant
    /\ pc[h] = "events"
    /\ Goto(h, "sample")
    /\ core' = [core EXCEPT ![h] = IF ~ Multicore THEN NextCore(@) ELSE @]
    /\ UNCHANGED <<queues, unnotified, seqMoved, active, ran, spins, ending>>

Events(h) ==
    /\ pc[h] = "events"
    /\ Goto(h, IF active THEN "sample" ELSE "exit")
    /\ core' = [core EXCEPT ![h] = IF active /\ ~ Multicore THEN NextCore(@) ELSE @]
    /\ UNCHANGED <<queues, unnotified, seqMoved, active, ran, spins, ending>>

CounterWaitsOn(h) ==                                             \* mutant
    /\ pc[h] = "counter"
    /\ Goto(h, IF count[h] = 0 THEN "counterAsleep" ELSE IF active THEN "counter" ELSE "exit")
    /\ UNCHANGED <<queues, unnotified, seqMoved, active, core, ran, spins, ending>>

\* waitUntilNonZero, and the exit after it
CounterWait(h) ==
    /\ pc[h] = "counter"
    /\ Goto(h, IF count[h] = 0 THEN "counterAsleep" ELSE IF active THEN "sample" ELSE "exit")
    /\ UNCHANGED <<queues, unnotified, seqMoved, active, core, ran, spins, ending>>

(***************************************************************************)
(* The end of a timeslice: __OSThreadSwitchToNext.  The main host goes     *)
(* back to its idle loop; the others take the next thread first.           *)
(***************************************************************************)
AfterSlice(h, left) ==
    IF ~ active THEN "exit"
    ELSE IF h = Main \/ {t \in left : core[h] \in Affinity[t]} = {} THEN "decide" ELSE "look"

Leave(h) ==
    /\ pc[h] = "guest" /\ ~ unnotified
    /\ current' = [current EXCEPT ![h] = NoThread]
    /\ ran' = IF h = Main THEN TRUE ELSE ran
    /\ UNCHANGED <<unnotified, active, core, spins, ending>>

SliceBlocks(h) ==
    /\ Leave(h)
    /\ Goto(h, AfterSlice(h, queued))
    /\ UNCHANGED <<queued, count, seqMoved>>

\* __OSStoreThread queues a thread that is still runnable, notification included
SlicePreempted(h) ==
    /\ Leave(h)
    /\ queued' = queued \cup {current[h]}
    /\ Increment(Affinity[current[h]])
    /\ seqMoved' = TRUE
    /\ pc' = [WokenByNotify(WokenByCounter(pc, Affinity[current[h]]))
                EXCEPT ![h] = AfterSlice(h, queued')]

-----------------------------------------------------------------------------
(***************************************************************************)
(* OSSchedulerEnd, and a title that starts after it.                       *)
(***************************************************************************)
EndBegins ==
    /\ active
    /\ active' = FALSE
    /\ UNCHANGED <<queues, unnotified, seqMoved, loop, ending>>

EndIncrements(c) ==
    /\ ~ active /\ c \notin ending.incremented
    /\ Increment({c}) /\ pc' = WokenByCounter(pc, {c})
    /\ ending' = [ending EXCEPT !.incremented = @ \cup {c}]
    /\ UNCHANGED <<queued, current, unnotified, seqMoved, active, core, ran, spins>>

EndNotifies ==
    /\ ~ active /\ ending.incremented = Cores /\ ~ ending.notified
    /\ seqMoved' = TRUE /\ pc' = WokenByNotify(pc)
    /\ ending' = [ending EXCEPT !.notified = TRUE]
    /\ UNCHANGED <<queues, unnotified, active, core, ran, spins>>

Joined == ending.notified /\ \A h \in Hosts : pc[h] = "exit"

EndKeepsCounts ==                                                \* mutant
    /\ Joined
    /\ ~ unnotified
    /\ queued' = {} /\ UNCHANGED <<current, unnotified>>
    /\ ending' = [incremented |-> {}, notified |-> FALSE]
    /\ active' = TRUE
    /\ pc' = [h \in Hosts |-> "sample"] /\ core' = [h \in Hosts |-> h]
    /\ ran' = FALSE /\ spins' = 0
    /\ UNCHANGED <<count, seqMoved>>

EndsAndRestarts ==
    /\ Joined
    /\ ~ unnotified
    /\ queued' = {} /\ UNCHANGED <<current, unnotified>>
    /\ count' = [c \in Cores |-> 0]
    /\ ending' = [incremented |-> {}, notified |-> FALSE]
    /\ active' = TRUE
    /\ pc' = [h \in Hosts |-> "sample"] /\ core' = [h \in Hosts |-> h]
    /\ ran' = FALSE /\ spins' = 0
    /\ UNCHANGED seqMoved

-----------------------------------------------------------------------------
HostNext(h) ==
    \/ Sample(h) \/ LookEmpty(h) \/ DecideToWait(h) \/ DecideNotToWait(h)
    \/ Recheck(h) \/ Events(h) \/ CounterWait(h)
    \/ SliceBlocks(h) \/ SlicePreempted(h)
    \/ \E t \in Threads : LookFinds(h, t)

EndNext == (\E c \in Cores : EndIncrements(c)) \/ EndNotifies \/ EndsAndRestarts

Next ==
    \/ \E h \in Hosts : HostNext(h) \/ WaitTimesOut(h)
    \/ \E t \in Threads : Enqueue(t)
    \/ NotifyRunQueueChanged
    \/ EndBegins \/ EndNext

Spec == Init /\ [][Next]_vars

(***************************************************************************)
(* Host threads keep running and get the scheduler lock sooner or later,   *)
(* timeslices and waits with a timeout end, and OSSchedulerEnd goes on     *)
(* once it was called.                                                     *)
(***************************************************************************)
Fairness ==
    /\ \A h \in Hosts : SF_vars(HostNext(h)) /\ WF_vars(WaitTimesOut(h))
    /\ WF_vars(NotifyRunQueueChanged) /\ WF_vars(EndNext)

FairSpec == Spec /\ Fairness

-----------------------------------------------------------------------------
(***************************************************************************)
(* Each counter is the number of threads queued for its core, plus the     *)
(* increment of OSSchedulerEnd: also after the scheduler was started again *)
(* (the comment at the reset in OSSchedulerEnd).                           *)
(***************************************************************************)
CountsExact ==
    \A c \in Cores :
        count[c] = Cardinality(On(c)) + IF c \in ending.incremented THEN 1 ELSE 0

(***************************************************************************)
(* No host sleeps while a thread it could run is queued, once the          *)
(* notification is out: "a wait that a newly runnable thread ends at once" *)
(* for the main host, waitUntilNonZero for the others.                     *)
(***************************************************************************)
Serves(h) == IF Multicore THEN {h} ELSE Cores

SleepersHaveNothingToRun ==
    ~ unnotified =>
        \A h \in Hosts : pc[h] \in {"asleep", "counterAsleep"} => \A c \in Serves(h) : On(c) = {}

(***************************************************************************)
(* OSSchedulerEnd joins every host thread, wherever it sleeps.             *)
(***************************************************************************)
EndTerminates == ~ active ~> active

(***************************************************************************)
(* A core does not leave its queue unserved, not even when it saw it empty *)
(* before it went to sleep.                                                *)
(***************************************************************************)
QueueIsServed ==
    \A c \in Cores :
        On(c) # {} ~> (On(c) = {} \/ ~ active \/ \E h \in Hosts : core[h] = c /\ pc[h] = "guest")
=============================================================================

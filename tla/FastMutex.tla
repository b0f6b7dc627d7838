------------------------------ MODULE FastMutex ------------------------------
(***************************************************************************)
(* OSFastMutex and OSFastCond (coreinit_Synchronization.cpp).  Unlike the  *)
(* other primitives they do not run under the scheduler lock: the owner    *)
(* field is changed by compare-and-exchange under a host spinlock, the     *)
(* "contention" lock, and the scheduler lock is only taken to queue, to    *)
(* wake and to switch.  OSFastCond_Wait takes the scheduler lock only.     *)
(* Threads run on different cores at the same time, so every access to     *)
(* owner and every lock operation is a step of its own.                    *)
(*                                                                         *)
(* One mutex and one condition variable.  Stores are assumed to become     *)
(* visible in program order.                                               *)
(*                                                                         *)
(* Definitions marked "mutant" are wrong on purpose; no specification uses *)
(* them.  PROJECT.json names the property that notices each of them.       *)
(***************************************************************************)
EXTENDS Synchronization

CONSTANTS
    NoOwner,        \* of the mutex, and of either lock
    MaxNesting,     \* bound: the guest nests no deeper
    CondUses        \* whether the guest calls OSFastCond_Wait: a set of choices

ASSUME NoOwnerAssumption == NoOwner \notin Threads
ASSUME MaxNestingAssumption == MaxNesting \in Nat \ {0}
ASSUME CondUsesAssumption == CondUses \subseteq BOOLEAN

VARIABLES
    useCond,        \* the choice
    fastOwner, fastLockCount,   \* owner and lockCount of the mutex
    waiters,        \* threadQueueSmall
    fastCondQueue,  \* the condition variable's threadQueue
    contention,     \* holder of g_fastMutexSpinlock
    sched,          \* holder of the scheduler lock between two steps
    pc,             \* where in the code each thread is
    fastPrevLockCount   \* local variable of OSFastCond_Wait, 0 outside of it

fastVars == <<useCond, fastOwner, fastLockCount, waiters, fastCondQueue, contention, sched, pc, fastPrevLockCount>>

Places == {"guest", "try", "queue", "asleep", "wake", "condRelease", "condAsleep"}

FastMutexTypeOK ==
    /\ useCond \in CondUses
    /\ fastOwner \in Threads \cup {NoOwner}
    /\ fastLockCount \in 0..MaxNesting
    /\ waiters \in Seq(Threads)
    /\ fastCondQueue \in Seq(Threads)
    /\ contention \in Threads \cup {NoOwner}
    /\ sched \in Threads \cup {NoOwner}
    /\ pc \in [Threads -> Places]
    /\ fastPrevLockCount \in [Threads -> 0..MaxNesting]

FastMutexInit ==   \* OSFastMutex_Init, OSFastCond_Init
    /\ useCond \in CondUses
    /\ fastOwner = NoOwner
    /\ fastLockCount = 0
    /\ waiters = <<>>
    /\ fastCondQueue = <<>>
    /\ contention = NoOwner
    /\ sched = NoOwner
    /\ pc = [t \in Threads |-> "guest"]
    /\ fastPrevLockCount = [t \in Threads |-> 0]

Goto(t, place) == pc' = [pc EXCEPT ![t] = place]

(***************************************************************************)
(* _OSFastMutex_AcquireContention at the start of OSFastMutex_Lock.        *)
(***************************************************************************)
OSFastMutex_Lock(t) ==
    /\ pc[t] = "guest"
    /\ contention = NoOwner
    /\ fastOwner = t => fastLockCount < MaxNesting
    /\ contention' = t
    /\ Goto(t, "try")
    /\ UNCHANGED <<fastOwner, fastLockCount, waiters, fastCondQueue, sched, fastPrevLockCount>>

(***************************************************************************)
(* The compare-and-exchange on owner at the head of the loop, and what     *)
(* follows it as long as the lock was acquired.  When it was for           *)
(* OSFastCond_Wait, that function then restores lockCount.                 *)
(***************************************************************************)
TakeOwnership(t) ==
    /\ \/ /\ fastOwner = NoOwner
          /\ fastOwner' = t
          /\ fastLockCount' = IF fastPrevLockCount[t] = 0 THEN 1 ELSE fastPrevLockCount[t]
       \/ /\ fastOwner = t
          /\ fastLockCount' = fastLockCount + 1
          /\ UNCHANGED fastOwner
    /\ contention' = NoOwner
    /\ fastPrevLockCount' = [fastPrevLockCount EXCEPT ![t] = 0]
    /\ UNCHANGED <<waiters, fastCondQueue, sched>>

TryAcquire(t) ==
    /\ pc[t] = "try"
    /\ TakeOwnership(t)
    /\ Goto(t, "guest")

TryFailsReleasing(t) ==                                          \* mutant
    /\ pc[t] = "try"
    /\ fastOwner \notin {NoOwner, t}
    /\ contention' = NoOwner
    /\ Goto(t, "queue")
    /\ UNCHANGED <<fastOwner, fastLockCount, waiters, fastCondQueue, sched, fastPrevLockCount>>

TryFails(t) ==
    /\ pc[t] = "try"
    /\ fastOwner \notin {NoOwner, t}
    /\ Goto(t, "queue")
    /\ UNCHANGED <<fastOwner, fastLockCount, waiters, fastCondQueue, contention, sched, fastPrevLockCount>>

(***************************************************************************)
(* queueOnly under both locks, then the contention lock is released and    *)
(* the scheduler lock is passed on by the switch.                          *)
(***************************************************************************)
QueueAndSleep(t) ==
    /\ pc[t] = "queue"
    /\ sched = NoOwner
    /\ waiters' = AddThreadByPriority(waiters, Priority, t)
    /\ contention' = NoOwner
    /\ Goto(t, "asleep")
    /\ UNCHANGED <<fastOwner, fastLockCount, fastCondQueue, sched, fastPrevLockCount>>

(***************************************************************************)
(* A thread that was woken from either queue is dispatched and takes the   *)
(* contention lock again.                                                  *)
(***************************************************************************)
WokenAnyTime(t) == pc[t] \in {"asleep", "condAsleep"}             \* mutant
WokenForFast(t) ==
    \/ pc[t] = "asleep" /\ t \notin ToSet(waiters)
    \/ pc[t] = "condAsleep" /\ t \notin ToSet(fastCondQueue)

ResumeFastLock(t) ==
    /\ WokenForFast(t)
    /\ contention = NoOwner
    /\ contention' = t
    /\ Goto(t, "try")
    /\ UNCHANGED <<fastOwner, fastLockCount, waiters, fastCondQueue, sched, fastPrevLockCount>>

OSFastMutex_TryLock(t) ==
    /\ pc[t] = "guest"
    /\ contention = NoOwner
    /\ fastOwner = t => fastLockCount < MaxNesting
    /\ TakeOwnership(t)
    /\ UNCHANGED pc

(***************************************************************************)
(* OSFastMutex_UnlockInternal up to the wakeup.  Called by a thread that   *)
(* does not own the mutex it has no effect.                                *)
(***************************************************************************)
OSFastMutex_Unlock(t) ==
    /\ pc[t] = "guest"
    /\ contention = NoOwner
    /\ fastOwner = t
    /\ fastLockCount' = fastLockCount - 1
    /\ fastOwner' = IF fastLockCount' = 0 THEN NoOwner ELSE fastOwner
    /\ IF fastLockCount' = 0 /\ waiters # <<>>
       THEN contention' = t /\ Goto(t, "wake")
       ELSE UNCHANGED <<contention, pc>>
    /\ UNCHANGED <<waiters, fastCondQueue, sched, fastPrevLockCount>>

UnlockWakesNobody(t) ==                                          \* mutant
    /\ pc[t] = "wake"
    /\ sched = NoOwner
    /\ contention' = NoOwner
    /\ Goto(t, "guest")
    /\ UNCHANGED <<waiters, fastOwner, fastLockCount, fastCondQueue, sched, fastPrevLockCount>>

UnlockWakes(t) ==
    /\ pc[t] = "wake"
    /\ sched = NoOwner
    /\ waiters' = IF waiters = <<>> THEN <<>> ELSE Tail(waiters)
    /\ contention' = NoOwner
    /\ Goto(t, "guest")
    /\ UNCHANGED <<fastOwner, fastLockCount, fastCondQueue, sched, fastPrevLockCount>>

(***************************************************************************)
(* OSFastCond_Wait: under the scheduler lock, the owner is cleared by a    *)
(* plain store (first step), then the waiters of the mutex are woken and   *)
(* the thread goes to sleep.                                               *)
(***************************************************************************)
OSFastCond_Wait(t) ==
    /\ useCond
    /\ pc[t] = "guest"
    /\ fastOwner = t
    /\ sched = NoOwner
    /\ sched' = t
    /\ fastPrevLockCount' = [fastPrevLockCount EXCEPT ![t] = fastLockCount]
    /\ fastLockCount' = 0
    /\ fastOwner' = NoOwner
    /\ Goto(t, "condRelease")
    /\ UNCHANGED <<waiters, fastCondQueue, contention>>

CondSleep(t) ==
    /\ pc[t] = "condRelease"
    /\ waiters' = <<>>
    /\ fastCondQueue' = AddThreadByPriority(fastCondQueue, Priority, t)
    /\ sched' = NoOwner
    /\ Goto(t, "condAsleep")
    /\ UNCHANGED <<fastOwner, fastLockCount, contention, fastPrevLockCount>>

OSFastCond_Signal(t) ==
    /\ pc[t] = "guest"
    /\ sched = NoOwner
    /\ fastCondQueue' = <<>>
    /\ UNCHANGED <<fastOwner, fastLockCount, waiters, contention, sched, pc, fastPrevLockCount>>

-----------------------------------------------------------------------------
(***************************************************************************)
(* What a thread does without the guest's doing.                           *)
(***************************************************************************)
Continue(t) ==
    \/ TryAcquire(t) \/ TryFails(t) \/ QueueAndSleep(t) \/ ResumeFastLock(t)
    \/ UnlockWakes(t) \/ CondSleep(t)

FastMutexNext ==
    /\ UNCHANGED useCond
    /\ \E t \in Threads :
        \/ Continue(t)
        \/ OSFastMutex_Lock(t)
        \/ OSFastMutex_TryLock(t)
        \/ OSFastMutex_Unlock(t)
        \/ OSFastCond_Wait(t)
        \/ OSFastCond_Signal(t)

FastMutexSpec == FastMutexInit /\ [][FastMutexNext]_fastVars

(***************************************************************************)
(* Threads inside of the functions run on (strongly fair: they spin for    *)
(* the contention lock), and the guest does not hold a mutex for ever.     *)
(***************************************************************************)
GuestReleases(t) == fastLockCount = 1 /\ OSFastMutex_Unlock(t)

FastMutexFairness ==
    \A t \in Threads :
        /\ SF_fastVars(Continue(t) /\ UNCHANGED useCond)
        /\ SF_fastVars(OSFastMutex_Unlock(t) /\ UNCHANGED useCond)
        /\ SF_fastVars(GuestReleases(t) /\ UNCHANGED useCond)

FastMutexFairSpec == FastMutexSpec /\ FastMutexFairness

-----------------------------------------------------------------------------
(***************************************************************************)
(* The assertions behind the compare-and-exchange: whoever gets the mutex  *)
(* finds lockCount 0, whatever way it was released on.                     *)
(***************************************************************************)
FreeMeansZero == fastOwner = NoOwner <=> fastLockCount = 0

(***************************************************************************)
(* Each wait queue holds just threads that sleep on it, once; the two      *)
(* locks are only held by threads at a place that will release them.       *)
(***************************************************************************)
QueuesConsistent ==
    /\ NoDuplicates(waiters) /\ NoDuplicates(fastCondQueue)
    /\ \A t \in ToSet(waiters) : pc[t] = "asleep"
    /\ \A t \in ToSet(fastCondQueue) : pc[t] = "condAsleep"
    /\ \A t \in Threads :
        /\ contention = t <=> pc[t] \in {"try", "queue", "wake"}
        /\ sched = t <=> pc[t] = "condRelease"

(***************************************************************************)
(* "releases the mutex while waiting for the condition to be signaled"     *)
(* (OSFastCond_Wait), and OSFastMutex_Unlock alike: nobody sleeps on a     *)
(* free mutex unless somebody is about to take it or to wake a sleeper.    *)
(***************************************************************************)
NoSleeperOnFreeFastMutex ==
    fastOwner = NoOwner /\ waiters # <<>> =>
        \E t \in Threads : WokenForFast(t) \/ pc[t] \in {"try", "wake", "condRelease"}

(***************************************************************************)
(* That holds as long as the mutex is only released by OSFastMutex_Unlock, *)
(* which keeps the contention lock until it has woken a sleeper.           *)
(***************************************************************************)
UnlockLeavesNoSleeper == ~ useCond => NoSleeperOnFreeFastMutex

(***************************************************************************)
(* A sleeping thread is woken if the guest always unlocks and does so with *)
(* OSFastMutex_Unlock, unless threads of higher priority outrank it again  *)
(* and again: the queue is ordered by priority and an unlock hands the     *)
(* mutex to nobody, so two of them may keep a third asleep for ever.       *)
(***************************************************************************)
Outranked(t) == \E u \in ToSet(waiters) : Priority[u] < Priority[t]

SleepersWoken ==
    \A t \in Threads :
        ~ useCond /\ t \in ToSet(waiters) ~> t \notin ToSet(waiters) \/ Outranked(t)
=============================================================================

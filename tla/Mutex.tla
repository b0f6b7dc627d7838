-------------------------------- MODULE Mutex --------------------------------
(***************************************************************************)
(* OSMutex and OSCond (coreinit_Synchronization.cpp), and the release of   *)
(* held mutexes by OSExitThread (coreinit_Thread.cpp).  Everything happens *)
(* under the scheduler lock: an action is the stretch from a thread's call *)
(* or dispatch to its return, or to the context switch in queueAndWait.    *)
(*                                                                         *)
(* A woken thread does not get the mutex: it is READY, and runs the loop   *)
(* of OSLockMutexInternal again when it is dispatched.  Until then anybody *)
(* may take the mutex.                                                     *)
(*                                                                         *)
(* Definitions marked "mutant" are wrong on purpose; no specification uses *)
(* them.  PROJECT.json names the property that notices each of them.       *)
(***************************************************************************)
EXTENDS Synchronization

CONSTANTS
    Mutexes,
    NoThread, NoMutex,
    MaxLockCount    \* bound: the guest nests no deeper

ASSUME NoThreadAssumption == NoThread \notin Threads /\ NoMutex \notin Mutexes
ASSUME MaxLockCountAssumption == MaxLockCount \in Nat \ {0}

VARIABLES
    owner, lockCount,   \* of each mutex
    lockQueue,          \* threadQueue of each mutex
    mutexQueue,         \* the mutexes a thread holds, in order of acquisition
    condQueue,          \* threadQueue of the condition variable
    call,               \* the function that each thread is inside of
    want,               \* the mutex that call is about
    prevLockCount       \* local variable of OSWaitCond, 0 outside of it

mutexVars == <<owner, lockCount, lockQueue, mutexQueue, condQueue, call, want, prevLockCount>>

MutexTypeOK ==
    /\ owner \in [Mutexes -> Threads \cup {NoThread}]
    /\ lockCount \in [Mutexes -> 0..MaxLockCount]
    /\ lockQueue \in [Mutexes -> Seq(Threads)]
    /\ mutexQueue \in [Threads -> Seq(Mutexes)]
    /\ condQueue \in Seq(Threads)
    /\ call \in [Threads -> {"none", "lock", "cond", "exit", "exited"}]
    /\ want \in [Threads -> Mutexes \cup {NoMutex}]
    /\ prevLockCount \in [Threads -> 0..MaxLockCount]

MutexInit ==   \* OSInitMutexEx, OSInitCond
    /\ owner = [m \in Mutexes |-> NoThread]
    /\ lockCount = [m \in Mutexes |-> 0]
    /\ lockQueue = [m \in Mutexes |-> <<>>]
    /\ mutexQueue = [t \in Threads |-> <<>>]
    /\ condQueue = <<>>
    /\ call = [t \in Threads |-> "none"]
    /\ want = [t \in Threads |-> NoMutex]
    /\ prevLockCount = [t \in Threads |-> 0]

\* OSMutexQueue::removeMutex of a mutex that is on the list
removeMutex(q, m) == RemoveAt(q, CHOOSE i \in DOMAIN q : q[i] = m)

InCall(t, c, m) == call' = [call EXCEPT ![t] = c] /\ want' = [want EXCEPT ![t] = m]

(***************************************************************************)
(* Threads woken from a mutex, or from the condition variable.             *)
(***************************************************************************)
WokenForLock(t) == call[t] = "lock" /\ t \notin ToSet(lockQueue[want[t]])
WokenForCond(t) == call[t] = "cond" /\ t \notin ToSet(condQueue)

(***************************************************************************)
(* The loop of OSLockMutexInternal, up to its end or its next wait.        *)
(***************************************************************************)
Acquire(t, m) ==
    /\ owner[m] = NoThread
    /\ owner' = [owner EXCEPT ![m] = t]
    /\ lockCount' = [lockCount EXCEPT ![m] = IF prevLockCount[t] = 0 THEN 1
                                             ELSE prevLockCount[t]]
    /\ mutexQueue' = [mutexQueue EXCEPT ![t] = Append(@, m)]
    /\ prevLockCount' = [prevLockCount EXCEPT ![t] = 0]
    /\ InCall(t, "none", NoMutex)
    /\ UNCHANGED <<lockQueue, condQueue>>

AcquireAgain(t, m) ==
    /\ owner[m] = t
    /\ lockCount[m] < MaxLockCount
    /\ lockCount' = [lockCount EXCEPT ![m] = @ + 1]
    /\ UNCHANGED <<owner, lockQueue, mutexQueue, condQueue, call, want, prevLockCount>>

WaitForMutex(t, m) ==
    /\ owner[m] \notin {NoThread, t}
    /\ lockQueue' = [lockQueue EXCEPT ![m] = AddThreadByPriority(@, Priority, t)]
    /\ InCall(t, "lock", m)
    /\ UNCHANGED <<owner, lockCount, mutexQueue, condQueue, prevLockCount>>

OSLockMutex(t, m) ==
    /\ call[t] = "none"
    /\ Acquire(t, m) \/ AcquireAgain(t, m) \/ WaitForMutex(t, m)

ResumeLock(t) ==
    /\ WokenForLock(t) \/ WokenForCond(t)
    /\ Acquire(t, want[t]) \/ WaitForMutex(t, want[t])

OSTryLockMutex(t, m) ==
    /\ call[t] = "none"
    /\ Acquire(t, m) \/ AcquireAgain(t, m)

(***************************************************************************)
(* The part of OSUnlockMutexInternal that gives the mutex up.  Its         *)
(* reschedule only delays what the caller does next.                       *)
(***************************************************************************)
ReleaseWithoutWakeup(t, m) ==                                    \* mutant
    /\ owner' = [owner EXCEPT ![m] = NoThread]
    /\ mutexQueue' = [mutexQueue EXCEPT ![t] = removeMutex(@, m)]
    /\ UNCHANGED lockQueue

Release(t, m) ==
    /\ owner' = [owner EXCEPT ![m] = NoThread]
    /\ mutexQueue' = [mutexQueue EXCEPT ![t] = removeMutex(@, m)]
    /\ lockQueue' = [lockQueue EXCEPT ![m] = IF @ = <<>> THEN <<>> ELSE Tail(@)]

OSUnlockMutexInternal(t, m) ==
    /\ lockCount[m] # 0 /\ owner[m] = t
    /\ lockCount' = [lockCount EXCEPT ![m] = @ - 1]
    /\ IF lockCount[m] = 1 THEN Release(t, m)
                           ELSE UNCHANGED <<owner, mutexQueue, lockQueue>>

OSUnlockMutex(t, m) ==
    /\ call[t] = "none"
    /\ OSUnlockMutexInternal(t, m)
    /\ UNCHANGED <<condQueue, call, want, prevLockCount>>

(***************************************************************************)
(* OSExitThread unlocks the first mutex of mutexQueue until none is left.  *)
(* Others may run in between, since a wakeup may reschedule (the model     *)
(* lets them whether or not it does).  Both ways of locking end in         *)
(* OSExitThread if the thread has been canceled: the same step, since a    *)
(* thread that is in no call may exit at any time.                         *)
(***************************************************************************)
OSExitThread(t) ==
    /\ call[t] = "none"
    /\ InCall(t, "exit", NoMutex)
    /\ UNCHANGED <<owner, lockCount, lockQueue, mutexQueue, condQueue, prevLockCount>>

ExitUnlocks(t) ==
    /\ call[t] = "exit"
    /\ mutexQueue[t] # <<>>
    /\ LET m == Head(mutexQueue[t])
       IN  IF owner[m] = t
           THEN OSUnlockMutexInternal(t, m)
           ELSE /\ mutexQueue' = [mutexQueue EXCEPT ![t] = Tail(@)]
                /\ UNCHANGED <<owner, lockCount, lockQueue>>
    /\ UNCHANGED <<condQueue, call, want, prevLockCount>>

ExitEndsHolding(t) ==                                            \* mutant
    /\ call[t] = "exit"
    /\ InCall(t, "exited", NoMutex)
    /\ UNCHANGED <<owner, lockCount, lockQueue, mutexQueue, condQueue, prevLockCount>>

ExitEnds(t) ==
    /\ call[t] = "exit"
    /\ mutexQueue[t] = <<>>
    /\ InCall(t, "exited", NoMutex)
    /\ UNCHANGED <<owner, lockCount, lockQueue, mutexQueue, condQueue, prevLockCount>>

(***************************************************************************)
(* OSWaitCond up to its queueAndWait: releases the mutex completely and    *)
(* wakes all its waiters.  ResumeLock is the rest.                         *)
(***************************************************************************)
OSWaitCondForgetsCount(t, m) ==                                  \* mutant
    /\ call[t] = "none"
    /\ owner[m] = t
    /\ prevLockCount' = [prevLockCount EXCEPT ![t] = lockCount[m]]
    /\ owner' = [owner EXCEPT ![m] = NoThread]
    /\ mutexQueue' = [mutexQueue EXCEPT ![t] = removeMutex(@, m)]
    /\ lockQueue' = [lockQueue EXCEPT ![m] = <<>>]
    /\ condQueue' = AddThreadByPriority(condQueue, Priority, t)
    /\ InCall(t, "cond", m)
    /\ UNCHANGED lockCount

OSWaitCond(t, m) ==
    /\ call[t] = "none"
    /\ owner[m] = t
    /\ prevLockCount' = [prevLockCount EXCEPT ![t] = lockCount[m]]
    /\ lockCount' = [lockCount EXCEPT ![m] = 0]
    /\ owner' = [owner EXCEPT ![m] = NoThread]
    /\ mutexQueue' = [mutexQueue EXCEPT ![t] = removeMutex(@, m)]
    /\ lockQueue' = [lockQueue EXCEPT ![m] = <<>>]
    /\ condQueue' = AddThreadByPriority(condQueue, Priority, t)
    /\ InCall(t, "cond", m)

OSSignalCond(t) ==
    /\ call[t] = "none"
    /\ condQueue' = <<>>
    /\ UNCHANGED <<owner, lockCount, lockQueue, mutexQueue, call, want, prevLockCount>>

-----------------------------------------------------------------------------
MutexNext ==
    \E t \in Threads :
        \/ ResumeLock(t)
        \/ OSExitThread(t) \/ ExitUnlocks(t) \/ ExitEnds(t)
        \/ OSSignalCond(t)
        \/ \E m \in Mutexes :
            \/ OSLockMutex(t, m) \/ OSTryLockMutex(t, m)
            \/ OSUnlockMutex(t, m)
            \/ OSWaitCond(t, m)

MutexSpec == MutexInit /\ [][MutexNext]_mutexVars

(***************************************************************************)
(* Woken threads are dispatched, an exiting thread runs on.                *)
(***************************************************************************)
MutexFairness ==
    \A t \in Threads : WF_mutexVars(ResumeLock(t)) /\ WF_mutexVars(ExitUnlocks(t) \/ ExitEnds(t))

MutexFairSpec == MutexSpec /\ MutexFairness

-----------------------------------------------------------------------------
(***************************************************************************)
(* Owner, lockCount and the holder's list of mutexes always agree; a mutex *)
(* is on one list at most, once (its links are a single pair).             *)
(***************************************************************************)
HoldersAgree ==
    /\ \A m \in Mutexes : owner[m] = NoThread <=> lockCount[m] = 0
    /\ \A t \in Threads :
        /\ ToSet(mutexQueue[t]) = {m \in Mutexes : owner[m] = t}
        /\ NoDuplicates(mutexQueue[t])

(***************************************************************************)
(* Nobody sleeps on a free mutex unless a woken thread is on its way to    *)
(* it; that thread wakes the next one when it unlocks, even if it loses    *)
(* the mutex to a third thread first.                                      *)
(***************************************************************************)
NoSleeperOnFreeMutex ==
    \A m \in Mutexes :
        owner[m] = NoThread /\ lockQueue[m] # <<>> =>
            \E t \in Threads : (WokenForLock(t) \/ WokenForCond(t)) /\ want[t] = m

(***************************************************************************)
(* The wait queues hold only threads that are inside of the call that      *)
(* queued them, about that mutex, once.                                    *)
(***************************************************************************)
WaitersAreQueuedOnce ==
    /\ \A m \in Mutexes :
        /\ NoDuplicates(lockQueue[m])
        /\ \A t \in ToSet(lockQueue[m]) : call[t] = "lock" /\ want[t] = m
    /\ NoDuplicates(condQueue)
    /\ \A t \in ToSet(condQueue) : call[t] = "cond"

(***************************************************************************)
(* A thread that has exited holds no mutex, however often and in whatever  *)
(* order it had locked them; and it gets to that point although every      *)
(* unlock may let others run.                                              *)
(***************************************************************************)
ExitReleasesAll ==
    \A t \in Threads :
        call[t] = "exited" => \A m \in Mutexes : owner[m] # t

ExitCompletes == \A t \in Threads : call[t] = "exit" ~> call[t] = "exited"

(***************************************************************************)
(* A mutex that is free does not keep a sleeper for ever.                  *)
(***************************************************************************)
FreeMutexIsTaken ==
    \A m \in Mutexes :
        owner[m] = NoThread /\ lockQueue[m] # <<>>
            ~> owner[m] # NoThread \/ lockQueue[m] = <<>>
=============================================================================

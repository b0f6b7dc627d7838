------------------------------ MODULE Scheduler ------------------------------
(***************************************************************************)
(* coreinit's thread scheduler in multi-core mode (coreinit_Thread.cpp,    *)
(* coreinit_ThreadQueue.cpp): one run queue per emulated PPC core, a       *)
(* thread is on the run queue of every core of its affinity mask.          *)
(*                                                                         *)
(* Everything here happens under the one scheduler lock, so a stretch      *)
(* between taking and releasing it (or switching away, which passes it on  *)
(* to the thread or idle fiber that is switched to) is one action.  Two    *)
(* stretches are cut in steps, with the lock held in between (variable     *)
(* lock): the loop of wakeupEntireWaitQueue, one iteration a step, and a   *)
(* thread that is switched to inside OSJoinThread and has the rest of that *)
(* function to run.                                                        *)
(*                                                                         *)
(* Definitions marked "mutant" are wrong on purpose; no specification uses *)
(* them.  PROJECT.json names the property that notices each of them.       *)
(***************************************************************************)
EXTENDS ThreadQueue, FiniteSets

CONSTANTS
    Threads, Cores,
    MainCore,       \* the core whose idle loop drives alarms and audio (core 1)
    BootThread,     \* the thread the host runs first
    NoThread,
    SleepQueue,     \* a wait queue of the guest (OSSleepThread / OSWakeupThread)
    Affinities,     \* affinity masks the guest uses, as sets of cores
    Priorities,     \* priorities the guest uses
    MaxSuspend,     \* bound: the guest nests no more suspensions than this
    JoinContract    \* TRUE: while a thread is being joined nobody else joins,
                    \* detaches or restarts it

ASSUME CoresAssumption == MainCore \in Cores /\ BootThread \in Threads
ASSUME NoThreadAssumption == NoThread \notin Threads /\ SleepQueue \notin Threads
ASSUME AffinitiesAssumption ==
    Affinities \subseteq SUBSET Cores /\ Affinities # {} /\ {} \notin Affinities
ASSUME PrioritiesAssumption == Priorities \subseteq Int /\ Priorities # {}
ASSUME MaxSuspendAssumption == MaxSuspend \in Nat
ASSUME JoinContractAssumption == JoinContract \in BOOLEAN

VARIABLES
    state,          \* OSThread_t::state
    suspendCounter,
    affinity,       \* context.affinity
    prio,           \* effectivePriority
    detached,       \* ATTR_DETACHED
    active,         \* on the list of active threads and has a fiber
    waitQueue,      \* every thread's joinQueue, and SleepQueue
    joinTarget,     \* the thread that a call of OSJoinThread waits for
    rq,             \* run queues, currentRunQueue back pointers, counters
    current,        \* __currentCoreThread
    lock            \* who holds the scheduler lock between two steps

vars == <<state, suspendCounter, affinity, prio, detached, active, waitQueue,
          joinTarget, rq, current, lock>>

States == {"NONE", "READY", "RUNNING", "WAITING", "MORIBUND"}
QueueIds == Threads \cup {SleepQueue}

Free == [kind |-> "free"]
Joining(c) == [kind |-> "join", core |-> c]
Waking(c, id, mayResched, exit) ==
    [kind |-> "wake", core |-> c, queue |-> id, mayResched |-> mayResched,
     resched |-> FALSE, exit |-> exit]

LockStates ==
    {Free} \cup [kind : {"join"}, core : Cores]
           \cup [kind : {"wake"}, core : Cores, queue : QueueIds,
                 mayResched : BOOLEAN, resched : BOOLEAN, exit : BOOLEAN]

TypeOK ==
    /\ state \in [Threads -> States]
    /\ suspendCounter \in [Threads -> 0..MaxSuspend]
    /\ affinity \in [Threads -> Affinities]
    /\ prio \in [Threads -> Priorities]
    /\ detached \in [Threads -> BOOLEAN]
    /\ active \in [Threads -> BOOLEAN]
    /\ waitQueue \in [QueueIds -> Seq(Threads)]
    /\ joinTarget \in [Threads -> Threads \cup {NoThread}]
    /\ rq \in [queue : [Cores -> Seq(Threads)], on : [Threads -> SUBSET Cores],
               count : [Cores -> Int]]
    /\ current \in [Cores -> Threads \cup {NoThread}]
    /\ lock \in LockStates

-----------------------------------------------------------------------------
(***************************************************************************)
(* The cores on whose run queues a thread belongs, given the states,       *)
(* suspend counters and affinities of the threads.                         *)
(***************************************************************************)
RunnableCoresSuspendedToo(st, sc, aff, t) ==                     \* mutant
    IF st[t] = "READY" THEN aff[t] ELSE {}

RunnableCores(st, sc, aff, t) ==
    IF st[t] = "READY" /\ sc[t] = 0 THEN aff[t] ELSE {}

(***************************************************************************)
(* __OSAddReadyThreadToRunQueue: cores is RunnableCores of t; a core whose *)
(* queue the thread is already on is skipped.                              *)
(***************************************************************************)
Enqueue(r, t, cores) ==
    [queue |-> [c \in Cores |-> IF c \in cores \ r.on[t]
                                THEN AddThread(r.queue[c], t) ELSE r.queue[c]],
     on    |-> [r.on EXCEPT ![t] = @ \cup cores],
     count |-> [c \in Cores |-> IF c \in cores \ r.on[t]
                                THEN r.count[c] + 1 ELSE r.count[c]]]

(***************************************************************************)
(* __OSRemoveThreadFromRunQueues.                                          *)
(***************************************************************************)
DequeueOneCore(r, t) ==                                          \* mutant
    LET cores == IF r.on[t] = {} THEN {} ELSE {CHOOSE c \in r.on[t] : TRUE}
    IN  [queue |-> [c \in Cores |-> IF c \in cores
                                    THEN RemoveThread(r.queue[c], t) ELSE r.queue[c]],
         on    |-> [r.on EXCEPT ![t] = @ \ cores],
         count |-> [c \in Cores |-> IF c \in cores THEN r.count[c] - 1 ELSE r.count[c]]]

Dequeue(r, t) ==
    [queue |-> [c \in Cores |-> IF c \in r.on[t]
                                THEN RemoveThread(r.queue[c], t) ELSE r.queue[c]],
     on    |-> [r.on EXCEPT ![t] = {}],
     count |-> [c \in Cores |-> IF c \in r.on[t] THEN r.count[c] - 1 ELSE r.count[c]]]

(***************************************************************************)
(* The thread __OSGetNextRunableThread selects: the first of those with    *)
(* the best priority.  p: the priorities of the threads.                   *)
(***************************************************************************)
NextRunableLast(q, p) ==                                            \* mutant
    q[CHOOSE i \in DOMAIN q :
        /\ \A j \in DOMAIN q : p[q[i]] <= p[q[j]]
        /\ \A j \in (i + 1)..Len(q) : p[q[i]] < p[q[j]]]

NextRunable(q, p) ==
    q[CHOOSE i \in DOMAIN q :
        /\ \A j \in DOMAIN q : p[q[i]] <= p[q[j]]
        /\ \A j \in 1..(i - 1) : p[q[i]] < p[q[j]]]

(***************************************************************************)
(* __OSGetNextRunableThread and the switch to its fiber.  The thread gets  *)
(* the lock; unless it has a call of OSJoinThread to finish it releases it *)
(* at once.                                                                *)
(***************************************************************************)
Dispatch(c, st, r) ==
    LET t == NextRunable(r.queue[c], prio')
    IN  /\ state' = [st EXCEPT ![t] = "RUNNING"]
        /\ rq' = Dequeue(r, t)
        /\ current' = [current EXCEPT ![c] = t]
        /\ lock' = IF joinTarget'[t] = NoThread THEN Free ELSE Joining(c)

(***************************************************************************)
(* __OSThreadSwitchToNext on core c, with thread states st and run queues  *)
(* r: __OSStoreThread of the thread that leaves, then the next thread, or  *)
(* the idle loop.  The main core always takes the way over its idle loop.  *)
(* A leaving thread that is RUNNING becomes READY.                         *)
(***************************************************************************)
SwitchToNext(c, st, r) ==
    LET t == current[c]
        runs == st[t] = "RUNNING"
        st2 == IF runs THEN [st EXCEPT ![t] = "READY"] ELSE st
        r2 == IF runs
              THEN Enqueue(r, t, RunnableCores(st2, suspendCounter', affinity', t))
              ELSE r
    IN  IF c = MainCore \/ r2.queue[c] = <<>>
        THEN /\ state' = st2
             /\ rq' = r2
             /\ current' = [current EXCEPT ![c] = NoThread]
             /\ lock' = Free
        ELSE Dispatch(c, st2, r2)

StayOn(st, r) ==
    state' = st /\ rq' = r /\ UNCHANGED current /\ lock' = Free

(***************************************************************************)
(* __OSCoreShouldSwitchToThread, called on core c.                         *)
(***************************************************************************)
ShouldSwitchTo(c, t) ==
    c \in affinity'[t] /\ prio'[t] < prio'[current[c]]

SwitchIf(cond, c, st, r) == IF cond THEN SwitchToNext(c, st, r) ELSE StayOn(st, r)

(***************************************************************************)
(* Core c runs guest code and nobody is inside of the scheduler.           *)
(***************************************************************************)
InGuest(c) == lock = Free /\ current[c] # NoThread

Joiners(t) == {u \in Threads : joinTarget[u] = t}
MayEnd(t) == JoinContract => Joiners(t) = {}

attributes == <<suspendCounter, affinity, prio, detached, active>>

-----------------------------------------------------------------------------
Init ==
    /\ affinity \in [Threads -> Affinities]
    /\ prio \in [Threads -> Priorities]
    /\ state = [t \in Threads |-> IF t = BootThread THEN "READY" ELSE "NONE"]
    /\ suspendCounter = [t \in Threads |-> 0]
    /\ detached = [t \in Threads |-> FALSE]
    /\ active = [t \in Threads |-> t = BootThread]
    /\ waitQueue = [id \in QueueIds |-> <<>>]
    /\ joinTarget = [t \in Threads |-> NoThread]
    /\ rq = Enqueue([queue |-> [c \in Cores |-> <<>>],
                     on    |-> [t \in Threads |-> {}],
                     count |-> [c \in Cores |-> 0]], BootThread, affinity[BootThread])
    /\ current = [c \in Cores |-> NoThread]
    /\ lock = Free

(***************************************************************************)
(* The end of a timeslice, and OSYieldThread.                              *)
(***************************************************************************)
TimesliceEnd(c) ==
    /\ InGuest(c)
    /\ UNCHANGED <<attributes, waitQueue, joinTarget>>
    /\ SwitchToNext(c, state, rq)

(***************************************************************************)
(* The idle loop finds a thread on the run queue of its core.              *)
(***************************************************************************)
IdlePick(c) ==
    /\ lock = Free
    /\ current[c] = NoThread
    /\ rq.queue[c] # <<>>
    /\ UNCHANGED <<attributes, waitQueue, joinTarget>>
    /\ Dispatch(c, state, rq)

(***************************************************************************)
(* OSCreateThread with an entry point: ready, suspended once, active.  A   *)
(* thread that is READY or RUNNING is waited for and one that is MORIBUND  *)
(* detached first (OSDetachThread, an action of its own); what is left is  *)
(* the assertion behind that, that the thread is not active, which a guest *)
(* must not break with a thread that is WAITING or suspended.              *)
(***************************************************************************)
OSCreateThread(c, t, aff, p, d) ==
    /\ InGuest(c)
    /\ ~ active[t] /\ MayEnd(t)
    /\ MaxSuspend > 0
    /\ state' = [state EXCEPT ![t] = "READY"]
    /\ suspendCounter' = [suspendCounter EXCEPT ![t] = 1]
    /\ affinity' = [affinity EXCEPT ![t] = aff]
    /\ prio' = [prio EXCEPT ![t] = p]
    /\ detached' = [detached EXCEPT ![t] = d]
    /\ active' = [active EXCEPT ![t] = TRUE]
    /\ waitQueue' = [waitQueue EXCEPT ![t] = <<>>]
    /\ joinTarget' = [joinTarget EXCEPT ![t] = NoThread]
    /\ rq' = [rq EXCEPT !.on[t] = {}]
    /\ UNCHANGED <<current, lock>>

(***************************************************************************)
(* OSRunThread: (re)starts a thread that has not started or has ended.     *)
(***************************************************************************)
OSRunThread(c, t) ==
    /\ InGuest(c)
    /\ state[t] \in {"NONE", "MORIBUND"} /\ MayEnd(t)
    /\ LET st == [state EXCEPT ![t] = "READY"]
       IN  /\ state' = st
           /\ suspendCounter' = [suspendCounter EXCEPT ![t] = 0]
           /\ active' = [active EXCEPT ![t] = TRUE]
           /\ joinTarget' = [joinTarget EXCEPT ![t] = NoThread]
           /\ rq' = Enqueue(IF state[t] = "MORIBUND" THEN Dequeue(rq, t) ELSE rq,
                            t, RunnableCores(st, suspendCounter', affinity, t))
    /\ UNCHANGED <<affinity, prio, detached, waitQueue, current, lock>>

(***************************************************************************)
(* wakeupEntireWaitQueue, called by the thread on core c: from here on it  *)
(* holds the lock until the queue is empty.                                *)
(***************************************************************************)
WakeupEntire(c, id, mayResched, exit) == lock' = Waking(c, id, mayResched, exit)

(***************************************************************************)
(* One iteration of its loop.                                              *)
(***************************************************************************)
WakeNext ==
    /\ lock.kind = "wake"
    /\ waitQueue[lock.queue] # <<>>
    /\ LET t == Head(waitQueue[lock.queue])
           st == [state EXCEPT ![t] = "READY"]
       IN  /\ UNCHANGED <<attributes, joinTarget, current>>
           /\ state' = st
           /\ waitQueue' = [waitQueue EXCEPT ![lock.queue] = Tail(@)]
           /\ rq' = Enqueue(rq, t, RunnableCores(st, suspendCounter, affinity, t))
           /\ lock' = [lock EXCEPT !.resched =
                          @ \/ (/\ lock.mayResched /\ suspendCounter[t] = 0
                                /\ ShouldSwitchTo(lock.core, t))]

(***************************************************************************)
(* Its end, and the rest of the function that called it.  OSExitThread     *)
(* then gives up the core: a detached thread is deactivated, another one   *)
(* stays MORIBUND until it is joined or detached.                          *)
(***************************************************************************)
WakeReturn ==
    /\ lock.kind = "wake" /\ ~ lock.exit
    /\ waitQueue[lock.queue] = <<>>
    /\ UNCHANGED <<attributes, waitQueue, joinTarget>>
    /\ SwitchIf(lock.resched, lock.core, state, rq)

ExitReturnEarly ==                                               \* mutant
    /\ lock.kind = "wake" /\ lock.exit
    /\ LET t == current[lock.core]
       IN  /\ active' = [active EXCEPT ![t] = ~ detached[t]]
           /\ UNCHANGED <<suspendCounter, affinity, prio, detached, waitQueue, joinTarget>>
           /\ SwitchToNext(lock.core,
                 [state EXCEPT ![t] = IF detached[t] THEN "NONE" ELSE "MORIBUND"], rq)

ExitReturnAllDetached ==                                         \* mutant
    /\ lock.kind = "wake" /\ lock.exit
    /\ waitQueue[lock.queue] = <<>>
    /\ LET t == current[lock.core]
       IN  /\ active' = [active EXCEPT ![t] = FALSE]
           /\ UNCHANGED <<suspendCounter, affinity, prio, detached, waitQueue, joinTarget>>
           /\ SwitchToNext(lock.core, [state EXCEPT ![t] = "NONE"], rq)

ExitReturn ==
    /\ lock.kind = "wake" /\ lock.exit
    /\ waitQueue[lock.queue] = <<>>
    /\ LET t == current[lock.core]
       IN  /\ active' = [active EXCEPT ![t] = ~ detached[t]]
           /\ UNCHANGED <<suspendCounter, affinity, prio, detached, waitQueue, joinTarget>>
           /\ SwitchToNext(lock.core,
                 [state EXCEPT ![t] = IF detached[t] THEN "NONE" ELSE "MORIBUND"], rq)

OSExitThread(c) ==
    /\ InGuest(c)
    /\ WakeupEntire(c, current[c], FALSE, TRUE)
    /\ UNCHANGED <<state, attributes, waitQueue, joinTarget, rq, current>>

OSDetachThread(c, t) ==
    /\ InGuest(c)
    /\ MayEnd(t)
    /\ detached' = [detached EXCEPT ![t] = TRUE]
    /\ IF state[t] = "MORIBUND"
       THEN /\ state' = [state EXCEPT ![t] = "NONE"]
            /\ active' = [active EXCEPT ![t] = FALSE]
            /\ WakeupEntire(c, t, TRUE, FALSE)
       ELSE UNCHANGED <<state, active, lock>>
    /\ UNCHANGED <<suspendCounter, affinity, prio, waitQueue, joinTarget, rq, current>>

(***************************************************************************)
(* queueAndWait of the thread on core c.                                   *)
(***************************************************************************)
QueueAndWait(c, id) ==
    /\ waitQueue' = [waitQueue EXCEPT ![id] = AddThreadByPriority(@, prio, current[c])]
    /\ SwitchToNext(c, [state EXCEPT ![current[c]] = "WAITING"], rq)

(***************************************************************************)
(* The end of OSJoinThread: t is deactivated.                              *)
(***************************************************************************)
EndJoined(t) ==
    /\ state' = [state EXCEPT ![t] = "NONE"]
    /\ active' = [active EXCEPT ![t] = FALSE]
    /\ rq' = Dequeue(rq, t)
    /\ lock' = Free
    /\ UNCHANGED <<suspendCounter, affinity, prio, detached, waitQueue, current>>

OSJoinThread(c, t) ==
    /\ InGuest(c)
    /\ t # current[c] /\ MayEnd(t)
    /\ \/ /\ ~ detached[t] /\ state[t] # "MORIBUND"
          /\ joinTarget' = [joinTarget EXCEPT ![current[c]] = t]
          /\ UNCHANGED attributes
          /\ QueueAndWait(c, t)
       \/ /\ state[t] = "MORIBUND"
          /\ EndJoined(t)
          /\ UNCHANGED joinTarget

JoinReturn ==
    /\ lock.kind = "join"
    /\ joinTarget' = [joinTarget EXCEPT ![current[lock.core]] = NoThread]
    /\ EndJoined(joinTarget[current[lock.core]])

(***************************************************************************)
(* __OSSuspendThreadInternal.  A thread that runs on another core keeps    *)
(* running until its timeslice ends.                                       *)
(***************************************************************************)
OSSuspendThread(c, t) ==
    /\ InGuest(c)
    /\ state[t] \notin {"NONE", "MORIBUND"}
    /\ suspendCounter[t] < MaxSuspend
    /\ suspendCounter' = [suspendCounter EXCEPT ![t] = @ + 1]
    /\ UNCHANGED <<affinity, prio, detached, active, waitQueue, joinTarget>>
    /\ IF t = current[c]
       THEN SwitchToNext(c, state, rq)
       ELSE StayOn(state, IF suspendCounter[t] = 0 THEN Dequeue(rq, t) ELSE rq)

(***************************************************************************)
(* __OSResumeThreadInternal: OSResumeThread takes one suspension back,     *)
(* OSContinueThread all of them.                                           *)
(***************************************************************************)
ResumeThread(c, t, resumeCount) ==
    /\ InGuest(c)
    /\ suspendCounter[t] # 0
    /\ suspendCounter' = [suspendCounter EXCEPT
                            ![t] = IF @ > resumeCount THEN @ - resumeCount ELSE 0]
    /\ UNCHANGED <<affinity, prio, detached, active, waitQueue, joinTarget>>
    /\ IF suspendCounter'[t] = 0
       THEN SwitchIf(ShouldSwitchTo(c, t), c, state,
                     Enqueue(rq, t, RunnableCores(state, suspendCounter', affinity, t)))
       ELSE StayOn(state, rq)

OSResumeThread(c, t) == ResumeThread(c, t, 1)
OSContinueThread(c, t) == ResumeThread(c, t, suspendCounter[t])

OSSleepThread(c) ==
    /\ InGuest(c)
    /\ UNCHANGED <<attributes, joinTarget>>
    /\ QueueAndWait(c, SleepQueue)

OSWakeupThread(c) ==
    /\ InGuest(c)
    /\ WakeupEntire(c, SleepQueue, TRUE, FALSE)
    /\ UNCHANGED <<state, attributes, waitQueue, joinTarget, rq, current>>

(***************************************************************************)
(* OSSetThreadAffinity.  A running thread is not moved; its new mask takes *)
(* effect when its timeslice ends.                                         *)
(***************************************************************************)
OSSetThreadAffinityNoRequeue(c, t, mask) ==                      \* mutant
    /\ InGuest(c)
    /\ affinity[t] # mask
    /\ affinity' = [affinity EXCEPT ![t] = mask]
    /\ UNCHANGED <<state, suspendCounter, prio, detached, active, waitQueue,
                   joinTarget, current, lock, rq>>

OSSetThreadAffinity(c, t, mask) ==
    /\ InGuest(c)
    /\ affinity[t] # mask
    /\ affinity' = [affinity EXCEPT ![t] = mask]
    /\ rq' = IF state[t] \in {"RUNNING", "NONE"} THEN rq
             ELSE Enqueue(Dequeue(rq, t), t,
                          RunnableCores(state, suspendCounter, affinity', t))
    /\ UNCHANGED <<state, suspendCounter, prio, detached, active, waitQueue,
                   joinTarget, current, lock>>

OSSetThreadPriority(c, t, p) ==
    /\ InGuest(c)
    /\ prio' = [prio EXCEPT ![t] = p]
    /\ UNCHANGED <<suspendCounter, affinity, detached, active, waitQueue, joinTarget>>
    /\ SwitchIf(t # current[c] /\ ShouldSwitchTo(c, t), c, state, rq)

-----------------------------------------------------------------------------
GuestCall(c) ==
    \/ OSExitThread(c)
    \/ OSSleepThread(c)
    \/ OSWakeupThread(c)
    \/ \E t \in Threads :
        \/ \E aff \in Affinities, p \in Priorities, d \in BOOLEAN :
                OSCreateThread(c, t, aff, p, d)
        \/ OSRunThread(c, t)
        \/ OSDetachThread(c, t)
        \/ OSJoinThread(c, t)
        \/ OSSuspendThread(c, t)
        \/ OSResumeThread(c, t)
        \/ OSContinueThread(c, t)
        \/ \E mask \in Affinities : OSSetThreadAffinity(c, t, mask)
        \/ \E p \in Priorities : OSSetThreadPriority(c, t, p)

Next ==
    \/ \E c \in Cores : GuestCall(c) \/ TimesliceEnd(c) \/ IdlePick(c)
    \/ WakeNext \/ WakeReturn \/ ExitReturn \/ JoinReturn

Spec == Init /\ [][Next]_vars

(***************************************************************************)
(* Timeslices are bounded by an instruction budget and idle loops keep     *)
(* looking; a core that wants the scheduler lock gets it in the end (SF).  *)
(* Who holds the lock goes on.  No guest call is obliged to happen.        *)
(***************************************************************************)
Fairness ==
    /\ \A c \in Cores : SF_vars(TimesliceEnd(c)) /\ SF_vars(IdlePick(c))
    /\ WF_vars(WakeNext \/ WakeReturn \/ ExitReturn \/ JoinReturn)

FairSpec == Spec /\ Fairness

-----------------------------------------------------------------------------
(***************************************************************************)
(* A thread is on exactly those run queues it should be on, once, whatever *)
(* sequence of suspend, resume, affinity changes, waits, wakeups and ends  *)
(* of timeslices led here: READY and not suspended means queued on every   *)
(* core of its mask (it can not be forgotten), anything else means on no   *)
(* queue.  The back pointers and the counters that idle cores sleep on     *)
(* agree with the queues.                                                  *)
(***************************************************************************)
RunQueuesExact ==
    /\ \A t \in Threads : rq.on[t] = RunnableCores(state, suspendCounter, affinity, t)
    /\ \A c \in Cores :
        /\ ToSet(rq.queue[c]) = {t \in Threads : c \in rq.on[t]}
        /\ NoDuplicates(rq.queue[c])
        /\ rq.count[c] = Len(rq.queue[c])

(***************************************************************************)
(* A thread is RUNNING exactly while it is the current thread of one core; *)
(* no two cores run the same fiber.                                        *)
(***************************************************************************)
RunningIsCurrent ==
    /\ \A t \in Threads : state[t] = "RUNNING" <=> \E c \in Cores : current[c] = t
    /\ \A c, d \in Cores : current[c] = current[d] /\ current[c] # NoThread => c = d

(***************************************************************************)
(* A WAITING thread is on exactly one wait queue, once, and only WAITING   *)
(* threads are: none waits where nobody can wake it.                       *)
(***************************************************************************)
WaitingIsQueued ==
    /\ \A t \in Threads :
        Cardinality({id \in QueueIds : t \in ToSet(waitQueue[id])}) =
            IF state[t] = "WAITING" THEN 1 ELSE 0
    /\ \A id \in QueueIds : NoDuplicates(waitQueue[id])

(***************************************************************************)
(* The list of active threads (which have a fiber) and the states agree:   *)
(* what the list functions only assert, "todo - check if thread already in *)
(* queue" at coreinit_Thread.cpp:195.                                      *)
(***************************************************************************)
ActiveIffStarted == \A t \in Threads : active[t] <=> state[t] # "NONE"

(***************************************************************************)
(* No thread waits to join one that has already ended, except while that   *)
(* end is still waking its joiners.                                        *)
(***************************************************************************)
NoForgottenJoiner ==
    \A t \in Threads :
        waitQueue[t] # <<>> /\ state[t] = "MORIBUND"
            => lock.kind = "wake" /\ lock.queue = t

(***************************************************************************)
(* The assertion in OSJoinThread behind the wait: the joined thread has    *)
(* ended, is still attached and nobody else has deactivated it.            *)
(***************************************************************************)
JoinFindsMoribund ==
    lock.kind = "join" =>
        LET t == joinTarget[current[lock.core]]
        IN  state[t] = "MORIBUND" /\ ~ detached[t]

(***************************************************************************)
(* Whenever a core switches, the thread that gets it is not suspended and  *)
(* allows that core, although both may have changed while it was running.  *)
(***************************************************************************)
SwitchRespectsSuspendAndAffinity ==
    [][\A c \in Cores :
          TimesliceEnd(c) \/ current'[c] # current[c] =>
              (current'[c] # NoThread =>
                  /\ suspendCounter'[current'[c]] = 0
                  /\ c \in affinity'[current'[c]])]_vars

(***************************************************************************)
(* Among equals no thread starves, unless the guest moves threads between  *)
(* cores for ever: a READY thread runs, unless it is suspended, or         *)
(* outranked by another thread, first.                                     *)
(***************************************************************************)
NoStarvation ==
    <>[][affinity' = affinity]_vars =>
        \A t \in Threads :
            state[t] = "READY" /\ suspendCounter[t] = 0
                ~> \/ state[t] # "READY" \/ suspendCounter[t] # 0
                   \/ \E u \in Threads : prio[u] < prio[t]
=============================================================================

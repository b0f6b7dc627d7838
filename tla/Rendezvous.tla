----------------------------- MODULE Rendezvous -----------------------------
(***************************************************************************)
(* OSRendezvous (coreinit_Synchronization.cpp): threads on different cores *)
(* wait for each other.  All rendezvous share one AUTO event; whoever      *)
(* arrives anywhere wakes everybody who waits for anything.                *)
(*                                                                         *)
(* An action is a stretch under the scheduler lock.  The wakeups of an     *)
(* arrival may give up the core, so that the caller's first look at the    *)
(* cores is a step of its own.                                             *)
(***************************************************************************)
EXTENDS Integers, FiniteSets

CONSTANTS
    Callers,
    Cores,
    Rendezvouses,
    CoreOf,         \* [Threads -> Cores], OSGetCoreId of the callers
    Masks,          \* [Rendezvouses -> SUBSET Cores], the core mask they agreed on
    Nobody

MasksAssumption ==
    /\ CoreOf \in [Callers -> Cores] /\ Masks \in [Rendezvouses -> SUBSET Cores]
    /\ Nobody \notin Rendezvouses

VARIABLES
    coreHit,        \* of each rendezvous: the cores that have arrived
    rendezvousSignaled,       \* state of g_rendezvousEvent
    queue,          \* its waiters
    at,             \* the rendezvous a thread is inside of
    arrived         \* history: threads that called since OSInitRendezvous

rendezvousVars == <<coreHit, rendezvousSignaled, queue, at, arrived>>

RendezvousTypeOK ==
    /\ coreHit \in [Rendezvouses -> SUBSET Cores] /\ rendezvousSignaled \in BOOLEAN
    /\ queue \subseteq Callers /\ at \in [Callers -> Rendezvouses \cup {Nobody}]
    /\ arrived \in [Rendezvouses -> SUBSET Callers]

RendezvousInit ==
    /\ coreHit = [r \in Rendezvouses |-> {}] /\ rendezvousSignaled = FALSE /\ queue = {}
    /\ at = [t \in Callers |-> Nobody] /\ arrived = [r \in Rendezvouses |-> {}]

-----------------------------------------------------------------------------
\* The guest initialises it again when nobody is inside.
OSInitRendezvous(r) ==
    /\ \A t \in Callers : at[t] # r
    /\ coreHit' = [coreHit EXCEPT ![r] = {}] /\ arrived' = [arrived EXCEPT ![r] = {}]
    /\ UNCHANGED <<rendezvousSignaled, queue, at>>

OSSignalEventAllInternal ==
    IF rendezvousSignaled THEN UNCHANGED <<rendezvousSignaled, queue>>
    ELSE /\ rendezvousSignaled' = (queue = {})
         /\ queue' = {}

Arrive(t, r) ==
    /\ at[t] = Nobody
    /\ at' = [at EXCEPT ![t] = r]
    /\ coreHit' = [coreHit EXCEPT ![r] = @ \cup {CoreOf[t]}]
    /\ arrived' = [arrived EXCEPT ![r] = @ \cup {t}]
    /\ OSSignalEventAllInternal

MetAll(r) == Masks[r] \subseteq coreHit[r]

\* a waiter that is not queued looks at the cores: after its arrival, after a
\* wakeup, after it has taken the signal
Leave(t) ==
    /\ at[t] # Nobody /\ t \notin queue /\ MetAll(at[t])
    /\ at' = [at EXCEPT ![t] = Nobody]
    /\ UNCHANGED <<coreHit, rendezvousSignaled, queue, arrived>>

\* taking the signal and the second look, which finds the same, are one stretch
Wait(t) ==
    /\ at[t] # Nobody /\ t \notin queue /\ ~ MetAll(at[t])
    /\ rendezvousSignaled' = FALSE
    /\ queue' = queue \cup {t}
    /\ UNCHANGED <<coreHit, at, arrived>>

-----------------------------------------------------------------------------
RendezvousNext ==
    \/ \E r \in Rendezvouses : OSInitRendezvous(r) \/ \E t \in Callers : Arrive(t, r)
    \/ \E t \in Callers : Leave(t) \/ Wait(t)

RendezvousSpec == RendezvousInit /\ [][RendezvousNext]_rendezvousVars

\* A thread that does not sleep gets to run.
RendezvousFairSpec == RendezvousSpec /\ \A t \in Callers : WF_rendezvousVars(Leave(t) \/ Wait(t))

-----------------------------------------------------------------------------
\* Nobody sleeps for a rendezvous at which all cores have met, although one
\* event serves all of them, keeps a signal that nobody waited for, and is not
\* signaled again while it has one.
NobodySleepsWhenMet == \A t \in queue : ~ MetAll(at[t])

\* A pending signal has no waiter, or the next arrival would wake nobody.
SignalHasNoWaiter == rendezvousSignaled => queue = {}

\* Nobody leaves before a thread of every core in the mask has arrived.
NobodyLeavesEarly ==
    [][\A t \in Callers : at[t] # Nobody /\ at'[t] = Nobody =>
          \A c \in Masks[at[t]] : \E u \in arrived[at[t]] : CoreOf[u] = c]_rendezvousVars

\* Whoever is inside when all cores have met gets out.
EverybodyLeaves == \A t \in Callers : at[t] # Nobody /\ MetAll(at[t]) ~> at[t] = Nobody
=============================================================================

----------------------------- MODULE TitlePause -----------------------------
(***************************************************************************)
(* Pausing a running title from the app (IOSTitlePause.cpp), and the wait  *)
(* of a save or load for the moment when no core touches guest memory      *)
(* (IOSSaveState.cpp, the flags g_coreIsBusy of coreinit_Thread.cpp).      *)
(*                                                                         *)
(* Of the scheduler only what decides whether guest code runs is kept: the *)
(* three run queues are one set, without priorities and affinity masks,    *)
(* and whoever is in it may be dispatched on any idle core, suspended or   *)
(* not; who gets in and out is the code's own.                             *)
(* Two host threads call the bridge: the queue of pause and resume (app)   *)
(* and the queue of save and load (saver).                                 *)
(*                                                                         *)
(* Definitions marked "mutant" are wrong on purpose; no specification uses *)
(* them.  PROJECT.json names the property that notices each of them.       *)
(***************************************************************************)
EXTENDS Naturals, FiniteSets

CONSTANTS
    Threads, Cores,
    InitialThreads, \* active when the model starts; the others can be created
    BlockInCalls,   \* guest threads give up their core inside of OS calls
    AppActs,        \* the app pauses and resumes on its own
    LateCreation,   \* guest threads create others while the title is paused
    MaxSuspend,     \* bound of the suspend counters
    NoThread

ASSUME InitialAssumption == InitialThreads \subseteq Threads
ASSUME SwitchAssumption == BlockInCalls \in BOOLEAN /\ AppActs \in BOOLEAN /\ LateCreation \in BOOLEAN
ASSUME MaxSuspendAssumption == MaxSuspend \in Nat \ {0}
ASSUME NothingAssumption == NoThread \notin Threads

VARIABLES
    current,        \* the thread on each core
    phase,          \* where in __OSFiberThreadEntry's loop a thread is
    waiting,        \* threads that are WAITING
    queued,         \* threads on the run queues
    active,         \* threads in activeThread[]
    ended,          \* those of them that are MORIBUND
    suspendCounter,
    guestSuspends,  \* history: what the guest's own calls make of the counter
    busy,           \* g_coreIsBusy
    paused,         \* sTitlePaused
    hostPc,         \* where the two host threads are
    wasPaused,      \* the saver's wasAlreadyPaused, FALSE when it is not needed any more
    polled          \* cores whose flag __OSAllCoresIdle has found clear

guest == <<current, phase, waiting, busy>>
activeList == <<active, ended>>
counters == <<suspendCounter, guestSuspends>>
bridge == <<paused, hostPc, wasPaused, polled>>
pauseVars == <<guest, queued, activeList, counters, bridge>>

Agents == {"app", "saver"}

PauseTypeOK ==
    /\ current \in [Cores -> Threads \cup {NoThread}]
    /\ phase \in [Threads -> {"top", "executing", "after"}]
    /\ waiting \subseteq Threads /\ queued \subseteq Threads
    /\ active \subseteq Threads /\ ended \subseteq Threads
    /\ suspendCounter \in [Threads -> 0..MaxSuspend]
    /\ guestSuspends \in [Threads -> 0..1]
    /\ busy \in [Cores -> BOOLEAN]
    /\ paused \in BOOLEAN /\ wasPaused \in BOOLEAN
    /\ hostPc \in [Agents -> {"idle", "pause", "suspend", "poll", "drain", "access",
                              "resumeFlag", "resume"}]
    /\ polled \subseteq Cores

PauseInit ==
    /\ current = [c \in Cores |-> NoThread]
    /\ phase = [t \in Threads |-> "top"]
    /\ waiting = {} /\ queued = InitialThreads
    /\ active = InitialThreads /\ ended = {}
    /\ suspendCounter = [t \in Threads |-> 0]
    /\ guestSuspends = [t \in Threads |-> 0]
    /\ busy = [c \in Cores |-> FALSE]
    /\ paused = FALSE
    /\ hostPc = [a \in Agents |-> "idle"]
    /\ wasPaused = FALSE
    /\ polled = {}

OnCore(t) == \E c \in Cores : current[c] = t
Executing(c) == current[c] # NoThread /\ phase[current[c]] = "executing"

Ready(t) == t \in active \ (waiting \cup ended) /\ ~ OnCore(t)

-----------------------------------------------------------------------------
(***************************************************************************)
(* Who gets on a run queue: of the threads ts that are READY those whose   *)
(* counter is 0 (__OSAddReadyThreadToRunQueue).  Who leaves it: a thread   *)
(* that is suspended for the first time (__OSSuspendThreadInternal).       *)
(***************************************************************************)
AddReadySuspended(q, counter, ts) == q \cup ts                    \* mutant
AddReady(q, counter, ts) == q \cup {t \in ts : counter[t] = 0}

LeaveQueued(q, counter, ts) == q                                  \* mutant
Dequeue(q, counter, ts) == q \ {t \in ts : counter[t] = 0}

(***************************************************************************)
(* The guest.  A thread that is dispatched goes on where it gave up its    *)
(* core: at the top of the loop or in the middle of an OS call.            *)
(***************************************************************************)
Dispatch(c, t) ==
    /\ current[c] = NoThread /\ t \in queued
    /\ current' = [current EXCEPT ![c] = t]
    /\ queued' = queued \ {t}
    /\ UNCHANGED <<phase, waiting, busy, activeList, counters, bridge>>

(***************************************************************************)
(* The loop of __OSFiberThreadEntry, around attemptEnterThread.  At its    *)
(* end the thread goes back to the run queues (__OSStoreThread).           *)
(***************************************************************************)
EnterGuest(c) ==
    /\ current[c] # NoThread /\ phase[current[c]] = "top"
    /\ phase' = [phase EXCEPT ![current[c]] = "executing"]
    /\ busy' = [busy EXCEPT ![c] = TRUE]
    /\ UNCHANGED <<current, waiting, queued, activeList, counters, bridge>>

LeaveGuest(c) ==
    /\ Executing(c)
    /\ phase' = [phase EXCEPT ![current[c]] = "after"]
    /\ busy' = [busy EXCEPT ![c] = FALSE]
    /\ UNCHANGED <<current, waiting, queued, activeList, counters, bridge>>

Reschedule(c) ==
    /\ current[c] # NoThread /\ phase[current[c]] = "after"
    /\ phase' = [phase EXCEPT ![current[c]] = "top"]
    /\ current' = [current EXCEPT ![c] = NoThread]
    /\ queued' = AddReady(queued, suspendCounter, {current[c]})
    /\ UNCHANGED <<waiting, busy, activeList, counters, bridge>>

(***************************************************************************)
(* PPCCore_switchToSchedulerWithLock from inside of an OS call, to wait or *)
(* to let others run: the fiber stays in attemptEnterThread, the flag of   *)
(* the core as it is.                                                      *)
(***************************************************************************)
SwitchInCall(c) ==
    /\ BlockInCalls /\ Executing(c)
    /\ current' = [current EXCEPT ![c] = NoThread]
    /\ \/ waiting' = waiting \cup {current[c]} /\ UNCHANGED queued
       \/ queued' = AddReady(queued, suspendCounter, {current[c]}) /\ UNCHANGED waiting
    /\ UNCHANGED <<phase, busy, activeList, counters, bridge>>

(***************************************************************************)
(* OSExitThread also leaves the core from inside of a call.  A detached    *)
(* thread leaves the list of active threads, any other stays in it until   *)
(* it is joined or detached.  (The counters of a thread that is not in the *)
(* list mean nothing; they are kept at 0.)                                 *)
(***************************************************************************)
Forget(t) ==
    /\ active' = active \ {t} /\ ended' = ended \ {t}
    /\ suspendCounter' = [suspendCounter EXCEPT ![t] = 0]
    /\ guestSuspends' = [guestSuspends EXCEPT ![t] = 0]

GuestExits(c) ==
    /\ BlockInCalls /\ Executing(c)
    /\ \/ Forget(current[c])
       \/ ended' = ended \cup {current[c]} /\ UNCHANGED <<active, counters>>
    /\ phase' = [phase EXCEPT ![current[c]] = "top"]
    /\ current' = [current EXCEPT ![c] = NoThread]
    /\ UNCHANGED <<waiting, queued, busy, bridge>>

GuestJoins(c, t) ==
    /\ Executing(c) /\ t \in ended
    /\ Forget(t)
    /\ UNCHANGED <<guest, queued, bridge>>

(***************************************************************************)
(* Somebody wakes a waiting thread: another thread, or an alarm, which     *)
(* fires on the idle loop whether or not the title is paused.              *)
(***************************************************************************)
Wake(t) ==
    /\ t \in waiting
    /\ waiting' = waiting \ {t}
    /\ queued' = AddReady(queued, suspendCounter, {t})
    /\ UNCHANGED <<current, phase, busy, activeList, counters, bridge>>

(***************************************************************************)
(* Calls that change other threads.  A guest suspends a thread once, and   *)
(* not after it has ended, and resumes only what it has suspended or       *)
(* created.                                                                *)
(***************************************************************************)
NoPause == ~ paused /\ \A a \in Agents : hostPc[a] # "resume"

GuestCreates(c, t) ==
    /\ Executing(c) /\ t \notin active
    /\ LateCreation \/ NoPause
    /\ active' = active \cup {t}
    /\ suspendCounter' = [suspendCounter EXCEPT ![t] = 1]
    /\ guestSuspends' = [guestSuspends EXCEPT ![t] = 1]
    /\ UNCHANGED <<ended, guest, queued, bridge>>

GuestSuspends(c, t) ==
    /\ Executing(c) /\ t \in active \ ended /\ t # current[c]
    /\ guestSuspends[t] = 0 /\ suspendCounter[t] < MaxSuspend
    /\ guestSuspends' = [guestSuspends EXCEPT ![t] = 1]
    /\ suspendCounter' = [suspendCounter EXCEPT ![t] = @ + 1]
    /\ queued' = Dequeue(queued, suspendCounter, {t})
    /\ UNCHANGED <<activeList, guest, bridge>>

LessOne(n) == IF n = 0 THEN 0 ELSE n - 1

\* __OSResumeThreadInternal does nothing to a thread whose counter is 0
Requeue(ts) == AddReady(queued, suspendCounter', {t \in ts : Ready(t) /\ suspendCounter[t] > 0})

GuestResumes(c, t) ==
    /\ Executing(c) /\ t \in active /\ guestSuspends[t] = 1
    /\ guestSuspends' = [guestSuspends EXCEPT ![t] = 0]
    /\ suspendCounter' = [suspendCounter EXCEPT ![t] = LessOne(@)]
    /\ queued' = Requeue({t})
    /\ UNCHANGED <<activeList, guest, bridge>>

-----------------------------------------------------------------------------
(***************************************************************************)
(* IOSTitlePause_Pause and _Resume: exchange the flag, then change the     *)
(* counters under the scheduler lock.  The list of active threads includes *)
(* those that have ended; the assertion in __OSSuspendThreadInternal about *)
(* them is only compiled into debug builds.                                *)
(***************************************************************************)
PauseFlag(a, onSuccess, onFailure) ==
    /\ paused' = TRUE
    /\ hostPc' = [hostPc EXCEPT ![a] = IF paused THEN onFailure ELSE onSuccess]
    /\ UNCHANGED <<wasPaused, polled, guest, queued, activeList, counters>>

SuspendAll(a) ==
    /\ hostPc[a] = "suspend"
    /\ \A t \in active : suspendCounter[t] < MaxSuspend
    /\ suspendCounter' = [t \in Threads |->
                            suspendCounter[t] + IF t \in active THEN 1 ELSE 0]
    /\ queued' = Dequeue(queued, suspendCounter, active)
    /\ hostPc' = [hostPc EXCEPT ![a] = IF a = "saver" THEN "poll" ELSE "idle"]
    /\ UNCHANGED <<activeList, guestSuspends, guest, paused, wasPaused, polled>>

ResumeFlag(a) ==
    /\ paused' = FALSE
    /\ hostPc' = [hostPc EXCEPT ![a] = IF paused THEN "resume" ELSE "idle"]
    /\ UNCHANGED <<wasPaused, polled, guest, queued, activeList, counters>>

ResumeAll(a) ==
    /\ hostPc[a] = "resume"
    /\ suspendCounter' = [t \in Threads |-> IF t \in active THEN LessOne(suspendCounter[t])
                                                            ELSE suspendCounter[t]]
    /\ queued' = Requeue(active)
    /\ hostPc' = [hostPc EXCEPT ![a] = "idle"]
    /\ UNCHANGED <<activeList, guestSuspends, guest, paused, wasPaused, polled>>

(***************************************************************************)
(* cemu_bridge_pause and cemu_bridge_resume, called by the app.            *)
(***************************************************************************)
AppPauses == AppActs /\ hostPc["app"] = "idle" /\ PauseFlag("app", "suspend", "idle")
AppResumes == AppActs /\ hostPc["app"] = "idle" /\ ResumeFlag("app")

(***************************************************************************)
(* IOSSaveState_Save and _Load.  WaitForCoresIdle reads one flag after the *)
(* other, starts again when one is set, and gives up in the end.           *)
(***************************************************************************)
SaveBegins ==
    /\ hostPc["saver"] = "idle"
    /\ wasPaused' = paused
    /\ polled' = {}
    /\ hostPc' = [hostPc EXCEPT !["saver"] = IF paused THEN "poll" ELSE "pause"]
    /\ UNCHANGED <<paused, guest, queued, activeList, counters>>

SavePauses == hostPc["saver"] = "pause" /\ PauseFlag("saver", "suspend", "idle")

AfterAccess == IF wasPaused THEN "idle" ELSE "resumeFlag"

PollCore(c) ==
    /\ hostPc["saver"] = "poll" /\ c \notin polled
    /\ polled' = IF busy[c] THEN {} ELSE polled \cup {c}
    /\ UNCHANGED <<paused, hostPc, wasPaused, guest, queued, activeList, counters>>

PollEnds ==
    /\ hostPc["saver"] = "poll" /\ polled = Cores
    /\ hostPc' = [hostPc EXCEPT !["saver"] = "drain"]
    /\ UNCHANGED <<paused, wasPaused, polled, guest, queued, activeList, counters>>

\* WaitForGPUDrain, or no wait for a save of a stalled picture
DrainEnds ==
    /\ hostPc["saver"] = "drain"
    /\ hostPc' = [hostPc EXCEPT !["saver"] = "access"]
    /\ UNCHANGED <<paused, wasPaused, polled, guest, queued, activeList, counters>>

WaitTimesOutCoresOnly ==                                         \* mutant
    /\ hostPc["saver"] = "poll"
    /\ polled' = {} /\ wasPaused' = FALSE
    /\ hostPc' = [hostPc EXCEPT !["saver"] = AfterAccess]
    /\ UNCHANGED <<paused, guest, queued, activeList, counters>>

WaitTimesOut ==
    /\ hostPc["saver"] \in {"poll", "drain"}
    /\ polled' = {} /\ wasPaused' = FALSE
    /\ hostPc' = [hostPc EXCEPT !["saver"] = AfterAccess]
    /\ UNCHANGED <<paused, guest, queued, activeList, counters>>

(***************************************************************************)
(* The end of WriteSaveFile or ReadSaveFile; while the saver is at         *)
(* "access" it copies guest memory.                                        *)
(***************************************************************************)
AccessEnds ==
    /\ hostPc["saver"] = "access"
    /\ polled' = {} /\ wasPaused' = FALSE
    /\ hostPc' = [hostPc EXCEPT !["saver"] = AfterAccess]
    /\ UNCHANGED <<paused, guest, queued, activeList, counters>>

SaveResumes == hostPc["saver"] = "resumeFlag" /\ ResumeFlag("saver")

-----------------------------------------------------------------------------
GuestNext ==
    \/ \E c \in Cores :
        \/ EnterGuest(c) \/ LeaveGuest(c) \/ Reschedule(c) \/ SwitchInCall(c)
        \/ GuestExits(c)
        \/ \E t \in Threads :
            \/ Dispatch(c, t) \/ GuestCreates(c, t) \/ GuestJoins(c, t)
            \/ GuestSuspends(c, t) \/ GuestResumes(c, t)
    \/ \E t \in Threads : Wake(t)

SaverNext ==
    \/ SaveBegins \/ SavePauses \/ PollEnds \/ DrainEnds \/ WaitTimesOut \/ AccessEnds \/ SaveResumes
    \/ \E c \in Cores : PollCore(c)

PauseNext ==
    \/ GuestNext
    \/ SaverNext
    \/ AppPauses \/ AppResumes
    \/ \E a \in Agents : SuspendAll(a) \/ ResumeAll(a)

PauseSpec == PauseInit /\ [][PauseNext]_pauseVars

(***************************************************************************)
(* Timeslices end (the instruction budget), the saver's waits are bounded, *)
(* and both host threads get the scheduler lock.                           *)
(***************************************************************************)
CallGoesOn(a) == SuspendAll(a) \/ ResumeAll(a)
SaverGoesOn ==
    \/ SavePauses \/ WaitTimesOut \/ AccessEnds \/ SaveResumes
    \/ CallGoesOn("saver")

PauseFairness ==
    /\ \A c \in Cores : WF_pauseVars(EnterGuest(c) \/ Reschedule(c))
    /\ \A c \in Cores : SF_pauseVars(LeaveGuest(c))
    /\ WF_pauseVars(SaverGoesOn) /\ WF_pauseVars(CallGoesOn("app"))

PauseFairSpec == PauseSpec /\ PauseFairness

-----------------------------------------------------------------------------
Parked == \A c \in Cores : current[c] = NoThread
AllSuspended == \A t \in active : suspendCounter[t] > 0
BetweenCalls == \A a \in Agents : hostPc[a] \notin {"suspend", "resume"}

(***************************************************************************)
(* Once no thread is on a core and all are suspended, that stays so until  *)
(* a resume.  The dispatcher does not look at the counters: nobody may be  *)
(* left on a run queue from before, and nobody who is woken may get there  *)
(* (__OSSuspendThreadInternal, __OSAddReadyThreadToRunQueue).              *)
(***************************************************************************)
StaysQuiet ==
    [][(Parked /\ AllSuspended /\ ~ \E a \in Agents : ResumeAll(a))
            => (Parked /\ AllSuspended)']_pauseVars

(***************************************************************************)
(* A pause that lasts takes effect: the threads that were in the middle of *)
(* a timeslice reach their reschedule point and nobody follows.  (It never *)
(* lasts for ever with a thread on a core.)                                *)
(***************************************************************************)
PauseStops == []<>(AllSuspended => Parked)

(***************************************************************************)
(* IOSSaveState_Save and _Load return, whatever the title and the app do   *)
(* ("this must never hang the UI forever"): the saver is idle again and    *)
(* again.  A pause that cannot count up any more is the end of the model,  *)
(* not of the program.                                                     *)
(***************************************************************************)
BoundReached == hostPc["saver"] = "suspend" /\ \E t \in active : suspendCounter[t] = MaxSuspend
SaveEnds == []<>(hostPc["saver"] = "idle" \/ BoundReached)

(***************************************************************************)
(* When the title is not paused and no call is under way, every thread is  *)
(* suspended exactly as the guest left it: pausing gave back what it took. *)
(***************************************************************************)
ResumeRestores ==
    (~ paused /\ BetweenCalls) => \A t \in active : suspendCounter[t] = guestSuspends[t]

(***************************************************************************)
(* The comment in __OSFiberThreadEntry: a core executes guest code only    *)
(* between the two stores of its flag.                                     *)
(***************************************************************************)
BusyCoversExecution == \A c \in Cores : Executing(c) => busy[c]

(***************************************************************************)
(* The comment at __OSAllCoresIdle: a save can poll for the point where    *)
(* every core is parked in its idle fiber.  The flags show that point.     *)
(***************************************************************************)
ParkedIsIdle == Parked => \A c \in Cores : ~ busy[c]

(***************************************************************************)
(* The comment at WaitForQuiescence: while a save or load copies guest     *)
(* memory no core is in the middle of a timeslice.                         *)
(***************************************************************************)
QuietWhileSaving == hostPc["saver"] = "access" => \A c \in Cores : ~ Executing(c)
=============================================================================

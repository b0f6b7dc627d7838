-------------------------------- MODULE Event --------------------------------
(***************************************************************************)
(* OSEvent (coreinit_Synchronization.cpp) with waits that time out.  A     *)
(* waiter with a timeout creates a host alarm whose handler gets a pointer *)
(* to a record on the waiter's stack; the handler runs on the idle loop of *)
(* the main core (alarm_update).  All of it happens under the scheduler    *)
(* lock: an action is the stretch between taking and passing it on.        *)
(*                                                                         *)
(* A thread that was woken, by a signal or by its alarm, destroys its      *)
(* alarm only when it is dispatched; the alarm may fire in between.        *)
(*                                                                         *)
(* Definitions marked "mutant" are wrong on purpose; no specification uses *)
(* them.  PROJECT.json names the property that notices each of them.       *)
(***************************************************************************)
EXTENDS Synchronization

CONSTANTS
    Modes,          \* kinds of event that OSInitEvent is asked for
    MaxSignals      \* bound on credit

ASSUME ModesAssumption == Modes \subseteq {"AUTO", "MANUAL"}
ASSUME MaxSignalsAssumption == MaxSignals \in Nat \ {0}

VARIABLES
    mode,           \* event->mode
    signaled,       \* event->state is STATE_SIGNALED
    threadQueue,
    waitCall,       \* "none", or the wait that a thread is inside of
    alarm,          \* the host alarm of a wait: "none", "armed", "fired"
    hasTimeout,     \* of the record on the waiter's stack
    credit          \* history: signals of an AUTO event that were not lost
                    \* to one still pending, less the waits that consumed one

eventVars == <<mode, signaled, threadQueue, waitCall, alarm, hasTimeout, credit>>

EventTypeOK ==
    /\ mode \in Modes
    /\ signaled \in BOOLEAN
    /\ threadQueue \in Seq(Threads)
    /\ waitCall \in [Threads -> {"none", "wait", "timedWait"}]
    /\ alarm \in [Threads -> {"none", "armed", "fired"}]
    /\ hasTimeout \in [Threads -> BOOLEAN]
    /\ credit \in 0..MaxSignals

EventInit ==   \* OSInitEvent
    /\ mode \in Modes
    /\ signaled \in BOOLEAN
    /\ threadQueue = <<>>
    /\ waitCall = [t \in Threads |-> "none"]
    /\ alarm = [t \in Threads |-> "none"]
    /\ hasTimeout = [t \in Threads |-> FALSE]
    /\ credit = IF signaled THEN 1 ELSE 0

Queued(t) == t \in ToSet(threadQueue)
Woken(t) == waitCall[t] # "none" /\ ~ Queued(t)

(***************************************************************************)
(* The part of the wait functions for a signaled event.                    *)
(***************************************************************************)
Consume ==
    /\ signaled
    /\ signaled' = (mode # "AUTO")
    /\ credit' = IF mode = "AUTO" THEN credit - 1 ELSE credit
    /\ UNCHANGED <<threadQueue, waitCall, alarm, hasTimeout>>

Sleep(t, c) ==
    /\ ~ signaled
    /\ threadQueue' = AddThreadByPriority(threadQueue, Priority, t)
    /\ waitCall' = [waitCall EXCEPT ![t] = c]
    /\ UNCHANGED <<signaled, credit>>

OSWaitEvent(t) ==
    /\ waitCall[t] = "none"
    /\ Consume \/ (Sleep(t, "wait") /\ UNCHANGED <<alarm, hasTimeout>>)

(***************************************************************************)
(* With timeout 0 and no signal the function returns false at once.        *)
(***************************************************************************)
OSWaitEventWithTimeout(t) ==
    /\ waitCall[t] = "none"
    /\ \/ Consume
       \/ /\ Sleep(t, "timedWait")
          /\ alarm' = [alarm EXCEPT ![t] = "armed"]
          /\ hasTimeout' = [hasTimeout EXCEPT ![t] = FALSE]

(***************************************************************************)
(* The rest of either function once the thread is dispatched.  A timed     *)
(* wait that was not canceled has consumed a signal.                       *)
(***************************************************************************)
ReturnLeavingAlarm(t) ==                                         \* mutant
    /\ Woken(t)
    /\ waitCall' = [waitCall EXCEPT ![t] = "none"]
    /\ credit' = IF mode = "AUTO" /\ ~ hasTimeout[t] THEN credit - 1 ELSE credit
    /\ hasTimeout' = [hasTimeout EXCEPT ![t] = FALSE]
    /\ UNCHANGED <<signaled, threadQueue, alarm>>

Return(t) ==
    /\ Woken(t)
    /\ waitCall' = [waitCall EXCEPT ![t] = "none"]
    /\ alarm' = [alarm EXCEPT ![t] = "none"]       \* OSHostAlarmDestroy
    /\ credit' = IF mode = "AUTO" /\ ~ hasTimeout[t] THEN credit - 1 ELSE credit
    /\ hasTimeout' = [hasTimeout EXCEPT ![t] = FALSE]
    /\ UNCHANGED <<signaled, threadQueue>>

(***************************************************************************)
(* _OSWaitEventWithTimeoutHandler.  It cancels the wait of a thread that   *)
(* is WAITING; here a thread is WAITING exactly while it is queued.        *)
(***************************************************************************)
AlarmFiresUnchecked(t) ==                                        \* mutant
    /\ alarm[t] = "armed"
    /\ alarm' = [alarm EXCEPT ![t] = "fired"]
    /\ hasTimeout' = [hasTimeout EXCEPT ![t] = TRUE]
    /\ threadQueue' = SelectSeq(threadQueue, LAMBDA u : u # t)
    /\ UNCHANGED <<signaled, waitCall, credit>>

AlarmFiresLeavingQueued(t) ==                                    \* mutant
    /\ alarm[t] = "armed"
    /\ alarm' = [alarm EXCEPT ![t] = "fired"]
    /\ hasTimeout' = [hasTimeout EXCEPT ![t] = Queued(t)]
    /\ UNCHANGED <<signaled, threadQueue, waitCall, credit>>

AlarmFires(t) ==
    /\ alarm[t] = "armed"
    /\ alarm' = [alarm EXCEPT ![t] = "fired"]
    /\ IF Queued(t)
       THEN /\ hasTimeout' = [hasTimeout EXCEPT ![t] = TRUE]
            /\ threadQueue' = RemoveThread(threadQueue, t)
       ELSE UNCHANGED <<hasTimeout, threadQueue>>
    /\ UNCHANGED <<signaled, waitCall, credit>>

(***************************************************************************)
(* OSSignalEvent: wakes one waiter of an AUTO event, all of a MANUAL one;  *)
(* an AUTO event stays signaled only if nobody waits.                      *)
(***************************************************************************)
OSSignalEventStaysSignaled ==                                    \* mutant
    /\ ~ signaled
    /\ credit < MaxSignals
    /\ signaled' = TRUE
    /\ credit' = IF mode = "AUTO" THEN credit + 1 ELSE credit
    /\ threadQueue' = IF mode = "AUTO" /\ threadQueue # <<>> THEN Tail(threadQueue)
                                                             ELSE <<>>
    /\ UNCHANGED <<waitCall, alarm, hasTimeout>>

OSSignalEvent ==
    /\ ~ signaled
    /\ credit < MaxSignals
    /\ IF mode = "AUTO"
       THEN /\ signaled' = (threadQueue = <<>>)
            /\ threadQueue' = IF threadQueue = <<>> THEN <<>> ELSE Tail(threadQueue)
            /\ credit' = credit + 1
       ELSE /\ signaled' = TRUE
            /\ threadQueue' = <<>>
            /\ UNCHANGED credit
    /\ UNCHANGED <<waitCall, alarm, hasTimeout>>

(***************************************************************************)
(* OSSignalEventAll differs on an AUTO event: it wakes all.                *)
(***************************************************************************)
OSSignalEventAll ==
    /\ ~ signaled
    /\ credit + Len(threadQueue) < MaxSignals
    /\ signaled' = (mode # "AUTO" \/ threadQueue = <<>>)
    /\ threadQueue' = <<>>
    /\ credit' = IF mode # "AUTO" THEN credit
                 ELSE credit + IF threadQueue = <<>> THEN 1 ELSE Len(threadQueue)
    /\ UNCHANGED <<waitCall, alarm, hasTimeout>>

OSResetEvent ==
    /\ signaled
    /\ signaled' = FALSE
    /\ credit' = IF mode = "AUTO" THEN credit - 1 ELSE credit
    /\ UNCHANGED <<threadQueue, waitCall, alarm, hasTimeout>>

-----------------------------------------------------------------------------
EventNext ==
    /\ UNCHANGED mode
    /\ \/ OSSignalEvent \/ OSSignalEventAll \/ OSResetEvent
       \/ \E t \in Threads :
           \/ OSWaitEvent(t) \/ OSWaitEventWithTimeout(t)
           \/ AlarmFires(t)
           \/ Return(t)

EventSpec == EventInit /\ [][EventNext]_eventVars

(***************************************************************************)
(* The main core's idle loop keeps checking alarms; woken threads are      *)
(* dispatched.  Nobody is obliged to signal.                               *)
(***************************************************************************)
EventFairness ==
    \A t \in Threads :
        /\ WF_eventVars(AlarmFires(t) /\ UNCHANGED mode)
        /\ WF_eventVars(Return(t) /\ UNCHANGED mode)

EventFairSpec == EventSpec /\ EventFairness

-----------------------------------------------------------------------------
(***************************************************************************)
(* An event that is signaled keeps nobody waiting.  OSSignalEvent does     *)
(* nothing on a signaled event, so a waiter on one could sleep for ever.   *)
(***************************************************************************)
NoWaiterOnSignaledEvent == signaled => threadQueue = <<>>

(***************************************************************************)
(* Every signal of an AUTO event that found none pending lets exactly one  *)
(* wait return true: none is lost to an alarm that fires at the same time, *)
(* none is delivered twice.                                                *)
(***************************************************************************)
SignalsConserved ==
    mode = "AUTO" =>
        credit = (IF signaled THEN 1 ELSE 0)
                 + Cardinality({t \in Threads : Woken(t) /\ ~ hasTimeout[t]})

(***************************************************************************)
(* An alarm never outlives the call whose stack its handler writes to, and *)
(* only threads inside of a wait are queued, once.                         *)
(***************************************************************************)
AlarmsEndWithTheirCall ==
    /\ \A t \in Threads : alarm[t] # "none" => waitCall[t] = "timedWait"
    /\ \A t \in ToSet(threadQueue) : waitCall[t] # "none" /\ alarm[t] # "fired"
    /\ NoDuplicates(threadQueue)

(***************************************************************************)
(* A wait with a timeout ends, signal or not.                              *)
(***************************************************************************)
TimedWaitsEnd == \A t \in Threads : waitCall[t] = "timedWait" ~> waitCall[t] = "none"
=============================================================================

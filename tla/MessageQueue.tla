---------------------------- MODULE MessageQueue ----------------------------
(***************************************************************************)
(* coreinit's OSMessageQueue (coreinit_MessageQueue.cpp): a ring buffer of *)
(* messages with a wait queue of blocked receivers and one of blocked      *)
(* senders.  The scheduler lock is held from the entry of an operation to  *)
(* its return or to the context switch in queueAndWait, so each of these   *)
(* stretches is one action.                                                *)
(*                                                                         *)
(* A thread that was woken is READY, not running: before it is dispatched  *)
(* any other thread may call OSReceiveMessage/OSSendMessage and take the   *)
(* message or the free slot it was woken for.  The while loops of the code *)
(* re-check; here that is ResumeReceive and ResumeSend.                    *)
(*                                                                         *)
(* Definitions marked "mutant" are wrong on purpose; no specification uses *)
(* them.  PROJECT.json names the property that notices each of them.       *)
(***************************************************************************)
EXTENDS ThreadQueue, FiniteSets

CONSTANTS
    Threads,        \* guest threads that use the queue
    Messages,       \* message contents
    NoMessage,      \* "no message delivered"
    MsgCount,       \* msgCount: number of slots of the ring
    Priority        \* effectivePriority of each thread

ASSUME ThreadsAssumption == IsFiniteSet(Threads)
ASSUME NoMessageAssumption == NoMessage \notin Messages
ASSUME MsgCountAssumption == MsgCount \in Nat \ {0}
ASSUME PriorityAssumption == Priority \in [Threads -> Int]

VARIABLES
    msgArray,       \* the ring, slots 0 .. MsgCount-1
    firstIndex,     \* slot of the oldest message
    usedCount,      \* number of messages in the ring
    recvQueue,      \* threadQueueReceive
    sendQueue,      \* threadQueueSend
    op,             \* the blocking call each thread is inside of
    arg,            \* the message and priority flag of a blocked OSSendMessage
    last            \* the last message handed out and who got it

vars == <<msgArray, firstIndex, usedCount, recvQueue, sendQueue, op, arg, last>>

Slots == 0..(MsgCount - 1)
Requests == [msg : Messages, high : BOOLEAN]
NoRequest == [msg |-> NoMessage, high |-> FALSE]

TypeOK ==
    /\ msgArray \in [Slots -> Messages \cup {NoMessage}]
    /\ firstIndex \in Slots
    /\ usedCount \in 0..MsgCount
    /\ recvQueue \in Seq(Threads)
    /\ sendQueue \in Seq(Threads)
    /\ op \in [Threads -> {"none", "receive", "send"}]
    /\ arg \in [Threads -> Requests \cup {NoRequest}]
    /\ last \in [thread : Threads \cup {NoMessage}, msg : Messages \cup {NoMessage}]

Init ==   \* OSInitMessageQueueEx
    /\ msgArray = [i \in Slots |-> NoMessage]
    /\ firstIndex = 0
    /\ usedCount = 0
    /\ recvQueue = <<>>
    /\ sendQueue = <<>>
    /\ op = [t \in Threads |-> "none"]
    /\ arg = [t \in Threads |-> NoRequest]
    /\ last = [thread |-> NoMessage, msg |-> NoMessage]

(***************************************************************************)
(* Threads that were taken off a wait queue and are READY, but have not    *)
(* run since: each of them is a wakeup that is still on its way.           *)
(***************************************************************************)
WokenReceivers == {t \in Threads : op[t] = "receive"} \ ToSet(recvQueue)
WokenSenders   == {t \in Threads : op[t] = "send"} \ ToSet(sendQueue)

(***************************************************************************)
(* The slot k places behind slot i of the ring, k < MsgCount.              *)
(***************************************************************************)
SlotAfter(i, k) == (i + k) % MsgCount

(***************************************************************************)
(* wakeupSingleThreadWaitQueue on a queue that may be empty.  (Its         *)
(* reschedule argument only delays the return of the caller, whose work is *)
(* done by then.)                                                          *)
(***************************************************************************)
WakeupSingleForgotten(q) == q                                    \* mutant
WakeupSingle(q) == IF q = <<>> THEN <<>> ELSE Tail(q)

(***************************************************************************)
(* The messages in the ring in the order in which they will be received.   *)
(***************************************************************************)
Contents == [i \in 1..usedCount |-> msgArray[SlotAfter(firstIndex, i - 1)]]

-----------------------------------------------------------------------------
(***************************************************************************)
(* The part of OSReceiveMessage behind its while loop.                     *)
(***************************************************************************)
TakeMessageWakeIfFull(t) ==                                      \* mutant
    /\ usedCount # 0
    /\ last' = [thread |-> t, msg |-> msgArray[firstIndex]]
    /\ firstIndex' = SlotAfter(firstIndex, 1)
    /\ usedCount' = usedCount - 1
    /\ sendQueue' = IF usedCount = MsgCount THEN WakeupSingle(sendQueue)
                                            ELSE sendQueue
    /\ op' = [op EXCEPT ![t] = "none"]
    /\ UNCHANGED <<msgArray, recvQueue, arg>>

TakeMessage(t) ==
    /\ usedCount # 0
    /\ last' = [thread |-> t, msg |-> msgArray[firstIndex]]
    /\ firstIndex' = SlotAfter(firstIndex, 1)
    /\ usedCount' = usedCount - 1
    /\ sendQueue' = WakeupSingle(sendQueue)
    /\ op' = [op EXCEPT ![t] = "none"]
    /\ UNCHANGED <<msgArray, recvQueue, arg>>

(***************************************************************************)
(* The body of that loop with OS_MESSAGE_BLOCK.                            *)
(***************************************************************************)
WaitForMessage(t) ==
    /\ usedCount = 0
    /\ recvQueue' = AddThreadByPriority(recvQueue, Priority, t)
    /\ op' = [op EXCEPT ![t] = "receive"]
    /\ UNCHANGED <<msgArray, firstIndex, usedCount, sendQueue, arg, last>>

(***************************************************************************)
(* A call of OSReceiveMessage.  Without OS_MESSAGE_BLOCK it returns false  *)
(* and changes nothing if the queue is empty.                              *)
(***************************************************************************)
OSReceiveMessage(t) ==
    /\ op[t] = "none"
    /\ TakeMessage(t) \/ WaitForMessage(t)

ResumeReceiveStillQueued(t) ==                                   \* mutant
    /\ op[t] = "receive"
    /\ TakeMessage(t) \/ WaitForMessage(t)

ResumeReceive(t) ==
    /\ t \in WokenReceivers
    /\ TakeMessage(t) \/ WaitForMessage(t)

(***************************************************************************)
(* The part of OSSendMessage behind its while loop: in front of all        *)
(* messages with OS_MESSAGE_HIGH_PRIORITY, else behind them.               *)
(***************************************************************************)
PutInFrontOldSlot(m) ==                                          \* mutant
    /\ firstIndex' = SlotAfter(firstIndex, MsgCount - 1)
    /\ msgArray' = [msgArray EXCEPT ![firstIndex] = m]

PutInFront(m) ==
    LET newFirstIndex == SlotAfter(firstIndex, MsgCount - 1)
    IN  /\ firstIndex' = newFirstIndex
        /\ msgArray' = [msgArray EXCEPT ![newFirstIndex] = m]

PutBehind(m) ==
    /\ msgArray' = [msgArray EXCEPT ![SlotAfter(firstIndex, usedCount)] = m]
    /\ UNCHANGED firstIndex

AddMessage(t, req) ==
    /\ usedCount < MsgCount
    /\ IF req.high THEN PutInFront(req.msg) ELSE PutBehind(req.msg)
    /\ usedCount' = usedCount + 1
    /\ recvQueue' = WakeupSingle(recvQueue)
    /\ op' = [op EXCEPT ![t] = "none"]
    /\ arg' = [arg EXCEPT ![t] = NoRequest]
    /\ UNCHANGED <<sendQueue, last>>

WaitForSlot(t, req) ==
    /\ usedCount >= MsgCount
    /\ sendQueue' = AddThreadByPriority(sendQueue, Priority, t)
    /\ op' = [op EXCEPT ![t] = "send"]
    /\ arg' = [arg EXCEPT ![t] = req]
    /\ UNCHANGED <<msgArray, firstIndex, usedCount, recvQueue, last>>

OSSendMessage(t, req) ==
    /\ op[t] = "none"
    /\ AddMessage(t, req) \/ WaitForSlot(t, req)

ResumeSend(t) ==
    /\ t \in WokenSenders
    /\ AddMessage(t, arg[t]) \/ WaitForSlot(t, arg[t])

Next ==
    \E t \in Threads :
        \/ OSReceiveMessage(t)
        \/ ResumeReceive(t)
        \/ \E req \in Requests : OSSendMessage(t, req)
        \/ ResumeSend(t)

Spec == Init /\ [][Next]_vars

(***************************************************************************)
(* A READY thread is dispatched eventually (see README, Fairness).  No     *)
(* thread is obliged to call an operation.                                 *)
(***************************************************************************)
Fairness == \A t \in Threads : WF_vars(ResumeReceive(t)) /\ WF_vars(ResumeSend(t))

FairSpec == Spec /\ Fairness

-----------------------------------------------------------------------------
(***************************************************************************)
(* A receiver is left asleep only while every message in the ring has a    *)
(* woken receiver on its way to it.  A send that wakes no one, or a wakeup *)
(* that is consumed by a thread which goes back to sleep while messages    *)
(* remain, would break this (the if around wakeupSingleThreadWaitQueue).   *)
(***************************************************************************)
NoLostReceiver == recvQueue # <<>> => usedCount <= Cardinality(WokenReceivers)

(***************************************************************************)
(* The same for senders and free slots.                                    *)
(***************************************************************************)
NoLostSender ==
    sendQueue # <<>> => MsgCount - usedCount <= Cardinality(WokenSenders)

(***************************************************************************)
(* The wait queues, the threads' calls and the requests they carry agree:  *)
(* a thread waits at most once, only in the call it is in.                 *)
(***************************************************************************)
WaitQueuesConsistent ==
    /\ NoDuplicates(recvQueue) /\ NoDuplicates(sendQueue)
    /\ \A t \in ToSet(recvQueue) : op[t] = "receive"
    /\ \A t \in ToSet(sendQueue) : op[t] = "send"
    /\ \A t \in Threads : op[t] = "send" => arg[t] \in Requests

(***************************************************************************)
(* No receiver is handed a slot that no sender filled: the used part of    *)
(* the ring holds messages, whatever mixture of normal and high priority   *)
(* sends moved firstIndex where it is.                                     *)
(***************************************************************************)
SlotsFilled == Contents \in Seq(Messages)

(***************************************************************************)
(* A message and a sleeping receiver do not coexist for ever: once woken   *)
(* threads get to run, the message is taken or every receiver is awake.    *)
(***************************************************************************)
SleepersDrain ==
    /\ (recvQueue # <<>> /\ usedCount > 0) ~> (recvQueue = <<>> \/ usedCount = 0)
    /\ (sendQueue # <<>> /\ usedCount < MsgCount)
           ~> (sendQueue = <<>> \/ usedCount = MsgCount)

-----------------------------------------------------------------------------
(***************************************************************************)
(* The ring implements a bounded double-ended queue.                       *)
(***************************************************************************)
Deque == INSTANCE MessageDeque WITH queue <- Contents, last <- last

ImplementsDeque == Deque!Spec
=============================================================================

----------------------------- MODULE IOSKernel -----------------------------
(***************************************************************************)
(* The IOSU kernel between the guest's IOS_Open/Ioctl/Close calls and the  *)
(* thread of a device (iosu_kernel.cpp, iosu_fsa.cpp).  A call copies its  *)
(* command into an entry of a pool, checks or creates a device handle and  *)
(* puts the entry on the message queue of the device; the device's thread  *)
(* works on one message after the other and answers through                *)
(* IOS_ResourceReply.  A handle of the kernel stands for a client slot of  *)
(* the device.  When a title stops, the host asks the device's thread to   *)
(* release its clients and then closes the handles itself.                 *)
(*                                                                         *)
(* One step is one critical section of sInternalMutex or the work between  *)
(* two of them.  A guest uses only the handle it has opened.               *)
(***************************************************************************)
EXTENDS Integers, Sequences, SequencesExt, FiniteSets, FiniteSetsExt

CONSTANTS
    Callers,        \* guest threads
    MultiCore,      \* whether they run on several host threads
    NumHandles,     \* MAX_NUM_ACTIVE_DEV_HANDLES
    NumClients,     \* client slots of the device
    PoolSize,       \* dispatchable commands
    QueueSize,      \* messages the device's queue holds
    LateResets,     \* titles at whose end the wait for the device may run out
    MaxOpens,       \* bound: IOS_Open calls
    Titles          \* bound: titles, one after the other

ASSUME CallersAssumption == Callers # {}
ASSUME SizesAssumption ==
    {NumHandles, NumClients, PoolSize, QueueSize, MaxOpens, Titles} \subseteq Nat \ {0}
ASSUME MultiCoreAssumption == MultiCore \in BOOLEAN
ASSUME LateResetsAssumption == LateResets \subseteq 1 .. Titles

Slots == 0 .. NumHandles - 1
Clients == 1 .. NumClients
Cmds == 1 .. PoolSize
NoHandle == [slot |-> 0, gen |-> 0]
Handles == {NoHandle} \cup [slot : Slots, gen : 1 .. MaxOpens]
RESET == 0      \* message 1 in the code, never the address of a command

VARIABLES
    handles,        \* sActiveDeviceHandles: set, check, target (0: no dispatch target handle)
    counter,        \* sHandleCreationCounter
    free,           \* sIPCFreeDispatchableCommands
    body,           \* the pool: caller, title, op, replyHandle, target (body.devHandle)
    queue,          \* the device's message queue
    clients,        \* its client slots that are allocated
    pc, cmd, found, \* of the callers: where, the pool entry, the slot and counter it has read
    held,           \* the handle a caller has open
    dev,            \* the device's thread: pc, cmd, client (0: error), handle to destroy
    host, resetDone, title,
    failed          \* an assertion has stopped the program

callers == <<pc, cmd, found, held>>
stop == <<host, resetDone, title>>
vars == <<handles, counter, free, body, queue, clients, callers, dev, stop, failed>>

HasHandle(c) == held[c] # NoHandle
\* between IPCSubmitFromCOS's first and last line
Inside(c) == pc[c] \in {"create", "claim", "dispatch", "send", "error"}
Empty == [set |-> FALSE, check |-> NoHandle, target |-> 0]

TypeOK ==
    /\ handles \in [Slots -> [set : BOOLEAN, check : Handles, target : 0 .. NumClients]]
    /\ counter \in 1 .. MaxOpens + 1
    /\ free \in Seq(Cmds) /\ queue \in Seq(Cmds \cup {RESET})
    /\ Len(queue) <= QueueSize
    /\ body \in [Cmds -> [caller : Callers, title : 1 .. Titles, op : {"open", "ioctl", "close"},
                          replyHandle : Handles, target : 0 .. NumClients]]
    /\ clients \subseteq Clients
    /\ pc \in [Callers -> {"idle", "create", "claim", "dispatch", "send", "error", "wait", "gone"}]
    /\ cmd \in [Callers -> Cmds] /\ held \in [Callers -> Handles] /\ found \in [Callers -> Handles]
    /\ dev \in [pc : {"receive", "assign", "reply", "release", "destroy"},
                cmd : Cmds, client : 0 .. NumClients, handle : Handles]
    /\ host \in {"run", "ended", "sent", "done", "unmount"}
    /\ resetDone \in BOOLEAN /\ title \in 1 .. Titles /\ failed \in BOOLEAN

Init ==
    /\ handles = [s \in Slots |-> Empty]
    /\ counter = 1
    /\ free = [i \in Cmds |-> i]
    /\ body = [i \in Cmds |-> [caller |-> CHOOSE c \in Callers : TRUE, title |-> 1, op |-> "open",
                               replyHandle |-> NoHandle, target |-> 0]]
    /\ queue = <<>> /\ clients = {}
    /\ pc = [c \in Callers |-> "idle"] /\ cmd = [c \in Callers |-> 1]
    /\ found = [c \in Callers |-> NoHandle] /\ held = [c \in Callers |-> NoHandle]
    /\ dev = [pc |-> "receive", cmd |-> 1, client |-> 0, handle |-> NoHandle]
    /\ host = "run" /\ resetDone = TRUE /\ title = 1 /\ failed = FALSE

Goto(c, l) == pc' = [pc EXCEPT ![c] = l]
AssertThat(b) == failed' = ~b

-----------------------------------------------------------------------------
(***************************************************************************)
(* The guest's side.                                                       *)
(***************************************************************************)
\* _IPCAllocateDispatchableCommand and the copy, which asks nothing of the
\* result: an empty pool is the end of the program
IPCSubmitFromCOS(c, op) ==
    /\ host = "run" /\ pc[c] = "idle"
    /\ MultiCore \/ \A d \in Callers : ~Inside(d)
    /\ (op = "open") <=> ~HasHandle(c)
    /\ op = "open" => counter + Cardinality({d \in Callers : pc[d] \in {"create", "claim"}}) <= MaxOpens
    /\ AssertThat(free # <<>>)
    /\ IF free = <<>> THEN UNCHANGED <<cmd, free, body, pc>>
       ELSE /\ cmd' = [cmd EXCEPT ![c] = Head(free)] /\ free' = Tail(free)
            /\ body' = [body EXCEPT ![Head(free)] =
                   [caller |-> c, title |-> title, op |-> op, replyHandle |-> held[c], target |-> 0]]
            /\ Goto(c, IF op = "open" THEN "create" ELSE "dispatch")
    /\ UNCHANGED <<handles, counter, queue, clients, found, held, dev, stop>>

\* _IPCCreateResourceHandle: after the lock is released, find a slot and read the counter ...
FindSlot(c) ==
    /\ pc[c] = "create"
    /\ LET unset == {s \in Slots : ~handles[s].set}
       IN  IF unset = {} THEN Goto(c, "error") /\ UNCHANGED found
           ELSE Goto(c, "claim") /\ found' = [found EXCEPT ![c] = [slot |-> Min(unset), gen |-> counter]]
    /\ UNCHANGED <<handles, counter, free, body, queue, clients, cmd, held, dev, stop, failed>>

\* ... and claim it
ClaimSlot(c) ==
    /\ pc[c] = "claim"
    /\ handles' = [handles EXCEPT ![found[c].slot] = [set |-> TRUE, check |-> found[c], target |-> 0]]
    /\ body' = [body EXCEPT ![cmd[c]].replyHandle = found[c]]
    /\ counter' = counter + 1
    /\ Goto(c, "dispatch")
    /\ UNCHANGED <<free, queue, clients, cmd, found, held, dev, stop, failed>>

\* _IPCDispatchToResourceManager under the lock
CheckHandle(c) ==
    /\ pc[c] = "dispatch"
    /\ LET h == body[cmd[c]].replyHandle
           e == handles[h.slot]
       IN  IF ~e.set \/ e.check # h
           THEN Goto(c, "error") /\ UNCHANGED <<body, failed>>
           ELSE /\ AssertThat((body[cmd[c]].op = "open") <=> (e.target = 0))
                /\ body' = [body EXCEPT ![cmd[c]].target = e.target]
                /\ Goto(c, "send")
    /\ UNCHANGED <<handles, counter, free, queue, clients, cmd, found, held, dev, stop>>

\* IOS_SendMessage does not block
SendToDevice(c) ==
    /\ pc[c] = "send"
    /\ IF Len(queue) = QueueSize THEN Goto(c, "error") /\ UNCHANGED queue
       ELSE Goto(c, "wait") /\ queue' = Append(queue, cmd[c])
    /\ UNCHANGED <<handles, counter, free, body, clients, cmd, found, held, dev, stop, failed>>

ErrorKeepsCommand(c) ==                                          \* mutant
    /\ pc[c] = "error"
    /\ Goto(c, "idle")
    /\ UNCHANGED <<handles, counter, free, body, queue, clients, cmd, found, held, dev, stop, failed>>

\* the caller answers itself (IPCSubmitFromCOS, r < 0)
ReplyWithError(c) ==
    /\ pc[c] = "error"
    /\ Goto(c, "idle")
    /\ free' = Append(free, cmd[c])
    /\ UNCHANGED <<handles, counter, body, queue, clients, cmd, found, held, dev, stop, failed>>

-----------------------------------------------------------------------------
(***************************************************************************)
(* The thread of the device, FSAIoThread, and IOS_ResourceReply.           *)
(***************************************************************************)
Current == body[dev.cmd]
Owns(h) == handles[h.slot].set /\ handles[h.slot].check = h

ReceiveReset ==
    /\ dev.pc = "receive" /\ queue # <<>> /\ Head(queue) = RESET
    /\ queue' = Tail(queue)
    /\ clients' = {} /\ resetDone' = TRUE
    /\ UNCHANGED <<handles, counter, free, body, callers, dev, host, title, failed>>

OpenSharesClient ==                                              \* mutant
    /\ dev.pc = "receive" /\ queue # <<>> /\ Head(queue) # RESET /\ body[Head(queue)].op = "open"
    /\ dev' = [dev EXCEPT !.pc = "assign", !.cmd = Head(queue), !.client = 1]
    /\ clients' = clients \cup {1}
    /\ queue' = Tail(queue)
    /\ UNCHANGED <<handles, counter, free, body, callers, stop, failed>>

ReceiveOpen ==
    /\ dev.pc = "receive" /\ queue # <<>> /\ Head(queue) # RESET /\ body[Head(queue)].op = "open"
    /\ LET unused == Clients \ clients
           new == IF unused = {} THEN 0 ELSE Min(unused)
       IN  /\ dev' = [dev EXCEPT !.pc = "assign", !.cmd = Head(queue), !.client = new]
           /\ clients' = clients \cup ({new} \ {0})
    /\ queue' = Tail(queue)
    /\ UNCHANGED <<handles, counter, free, body, callers, stop, failed>>

ReceiveClose ==
    /\ dev.pc = "receive" /\ queue # <<>> /\ Head(queue) # RESET /\ body[Head(queue)].op = "close"
    /\ dev' = [dev EXCEPT !.pc = "reply", !.cmd = Head(queue), !.client = body[Head(queue)].target]
    /\ clients' = clients \ {body[Head(queue)].target}
    /\ queue' = Tail(queue)
    /\ UNCHANGED <<handles, counter, free, body, callers, stop, failed>>

ReceiveIoctl ==
    /\ dev.pc = "receive" /\ queue # <<>> /\ Head(queue) # RESET /\ body[Head(queue)].op = "ioctl"
    /\ AssertThat(body[Head(queue)].target \in clients)
    /\ dev' = [dev EXCEPT !.pc = "reply", !.cmd = Head(queue), !.client = body[Head(queue)].target]
    /\ queue' = Tail(queue)
    /\ UNCHANGED <<handles, counter, free, body, clients, callers, stop>>

\* IOS_OPEN: the handle gets its dispatch target, or is destroyed when the device refuses
AssignDispatchTarget ==
    /\ dev.pc = "assign"
    /\ AssertThat(Owns(Current.replyHandle))
    /\ handles' = IF ~Owns(Current.replyHandle) THEN handles
                  ELSE [handles EXCEPT ![Current.replyHandle.slot] =
                           IF dev.client = 0 THEN Empty ELSE [@ EXCEPT !.target = dev.client]]
    /\ dev' = [dev EXCEPT !.pc = "reply"]
    /\ UNCHANGED <<counter, free, body, queue, clients, callers, stop>>

\* the result of a command, in the hand of its caller
HeldAfter == CASE Current.op = "open" /\ dev.client # 0 -> Current.replyHandle
               [] Current.op = "ioctl" -> held[Current.caller]
               [] OTHER -> NoHandle
\* a caller of a title that has ended is not there any more
IsWaiting == pc[Current.caller] = "wait" /\ Current.title = title

AnswerWithoutCaller ==                                           \* mutant
    /\ dev.pc = "reply"
    /\ dev' = [dev EXCEPT !.pc = "release"]
    /\ UNCHANGED <<handles, counter, free, body, queue, clients, callers, stop, failed>>

\* _IPCReplyAndRelease, first the answer ...
Answer ==
    /\ dev.pc = "reply"
    /\ IF IsWaiting THEN /\ Goto(Current.caller, "idle")
                         /\ held' = [held EXCEPT ![Current.caller] = HeldAfter]
                    ELSE UNCHANGED <<pc, held>>
    /\ dev' = [dev EXCEPT !.pc = "release"]
    /\ UNCHANGED <<handles, counter, free, body, queue, clients, cmd, found, stop, failed>>

\* ... then the pool entry ...
ReleaseCommand ==
    /\ dev.pc = "release"
    /\ free' = Append(free, dev.cmd)
    /\ dev' = [dev EXCEPT !.pc = IF Current.op = "close" THEN "destroy" ELSE "receive",
                           !.handle = Current.replyHandle]
    /\ UNCHANGED <<handles, counter, body, queue, clients, callers, stop, failed>>

DestroyWholeQueue ==                                             \* mutant
    /\ dev.pc = "destroy"
    /\ handles' = [s \in Slots |-> Empty]
    /\ dev' = [dev EXCEPT !.pc = "receive"]
    /\ UNCHANGED <<counter, free, body, queue, clients, callers, stop, failed>>

\* ... and for IOS_CLOSE the handle
DestroyHandle ==
    /\ dev.pc = "destroy"
    /\ handles' = IF Owns(dev.handle) THEN [handles EXCEPT ![dev.handle.slot] = Empty] ELSE handles
    /\ dev' = [dev EXCEPT !.pc = "receive"]
    /\ UNCHANGED <<counter, free, body, queue, clients, callers, stop, failed>>

Device == \/ ReceiveReset \/ ReceiveOpen \/ ReceiveClose \/ ReceiveIoctl
          \/ AssignDispatchTarget \/ Answer \/ ReleaseCommand \/ DestroyHandle

-----------------------------------------------------------------------------
(***************************************************************************)
(* The end of a title: OSSchedulerEnd leaves no guest thread inside a host *)
(* function, then ResetClientState, then the title is unmounted.           *)
(***************************************************************************)
EndTitle ==
    /\ host = "run" /\ \A c \in Callers : ~Inside(c)
    /\ pc' = [c \in Callers |-> "gone"] /\ held' = [c \in Callers |-> NoHandle]
    /\ host' = "ended"
    /\ UNCHANGED <<handles, counter, free, body, queue, clients, cmd, found, dev, resetDone, title, failed>>

SendReset ==
    /\ host = "ended" /\ Len(queue) < QueueSize
    /\ resetDone' = FALSE
    /\ queue' = Append(queue, RESET)
    /\ host' = "sent"
    /\ UNCHANGED <<handles, counter, free, body, clients, callers, dev, title, failed>>

ResetSeen ==
    /\ host = "sent" /\ resetDone
    /\ host' = "done"
    /\ UNCHANGED <<handles, counter, free, body, queue, clients, callers, dev, resetDone, title, failed>>

ResetRunsOut ==
    /\ title \in LateResets /\ host = "sent" /\ ~resetDone
    /\ host' = "unmount"
    /\ UNCHANGED <<handles, counter, free, body, queue, clients, callers, dev, resetDone, title, failed>>

CloseNothing ==                                                  \* mutant
    /\ host = "done"
    /\ host' = "unmount"
    /\ UNCHANGED <<handles, counter, free, body, queue, clients, callers, dev, resetDone, title, failed>>

IOS_CloseAllHandlesForQueue ==
    /\ host = "done"
    /\ handles' = [s \in Slots |-> Empty]
    /\ host' = "unmount"
    /\ UNCHANGED <<counter, free, body, queue, clients, callers, dev, resetDone, title, failed>>

StartTitle ==
    /\ host = "unmount" /\ title < Titles
    /\ title' = title + 1 /\ host' = "run"
    /\ pc' = [c \in Callers |-> "idle"]
    /\ UNCHANGED <<handles, counter, free, body, queue, clients, cmd, found, held, dev, resetDone, failed>>

\* the last title is over, and the device's thread has nothing left to do
Finished ==
    /\ host = "unmount" /\ title = Titles /\ dev.pc = "receive" /\ queue = <<>>
    /\ UNCHANGED vars

Host == EndTitle \/ SendReset \/ ResetSeen \/ ResetRunsOut \/ IOS_CloseAllHandlesForQueue \/ StartTitle

Caller(c) == FindSlot(c) \/ ClaimSlot(c) \/ CheckHandle(c) \/ SendToDevice(c) \/ ReplyWithError(c)

Next ==
    /\ ~failed
    /\ \/ \E c \in Callers : Caller(c) \/ \E op \in {"open", "ioctl", "close"} : IPCSubmitFromCOS(c, op)
       \/ Device
       \/ Host
       \/ Finished

Spec == Init /\ [][Next]_vars

\* host threads are scheduled by the host's kernel; the title may run for ever
FairSpec == /\ Spec /\ WF_vars(Device)
            /\ \A c \in Callers : WF_vars(Caller(c))
            /\ WF_vars(SendReset) /\ WF_vars(ResetSeen) /\ WF_vars(IOS_CloseAllHandlesForQueue)

-----------------------------------------------------------------------------
(***************************************************************************)
(* Properties.                                                             *)
(***************************************************************************)
\* The assertions of the kernel and of the device hold: a call finds an entry
\* in the pool, a reply to IOS_Open finds the handle it was made for, a command
\* is dispatched to the target of its handle, the device knows the client
\* (iosu_kernel.cpp:682-683, 562-567, 738, iosu_fsa.cpp:951).  The pool must
\* have more entries than there are callers: the entry of a call that has been
\* answered is not free yet.
AssertionsHold == ~failed

\* A handle that a caller has been given, and is not closing, is one the kernel
\* accepts, and stands for a client the device has allocated, which no other
\* caller's handle stands for; whatever order opens, replies and closes come in.
HeldHandlesWork ==
    \A c \in Callers :
        HasHandle(c) /\ (Inside(c) \/ pc[c] = "wait" => body[cmd[c]].op # "close")
            => /\ Owns(held[c]) /\ handles[held[c].slot].target \in clients
               /\ \A d \in Callers \ {c} : HasHandle(d) =>
                    handles[held[c].slot].target # handles[held[d].slot].target

\* Every pool entry is in exactly one place: the free list, the hands of the
\* caller that submits it, the device's queue, or the device's thread.  (A
\* caller that has gone leaves its entry in the queue or with the thread.)  A
\* caller that waits has its own command on the way to the device or back, so
\* that no reply is lost and none goes to somebody else.
InHand(i) == {c \in Callers : Inside(c) /\ cmd[c] = i}
AtDevice(i) == dev.cmd = i /\ dev.pc \in {"assign", "reply", "release"}
CommandsConserved ==
    /\ \A i \in Cmds :
        Cardinality({k \in 1 .. Len(free) : free[k] = i}) + Cardinality({k \in 1 .. Len(queue) : queue[k] = i})
        + Cardinality(InHand(i)) + (IF AtDevice(i) THEN 1 ELSE 0) = 1
    /\ \A c \in Callers : pc[c] = "wait" =>
        /\ body[cmd[c]].caller = c
        /\ \/ cmd[c] \in ToSet(queue)
           \/ dev.cmd = cmd[c] /\ dev.pc \in {"assign", "reply"}

\* "it has to precede the unmounts below (open files sit on those mounts)",
\* CafeSystem.cpp:1267: nothing is left of the title's clients and handles when
\* it is unmounted, those it was still opening or closing included, unless the
\* device takes longer than the host waits.
ReleasedAtUnmount ==
    host = "unmount" /\ title \notin LateResets => clients = {} /\ \A s \in Slots : ~handles[s].set

\* Every call returns, as long as its title is there, and a title that has
\* ended is unmounted.
CallsReturn ==
    /\ \A c \in Callers : pc[c] \notin {"idle", "gone"} ~> pc[c] \in {"idle", "gone"}
    /\ host = "ended" ~> host = "unmount"
=============================================================================

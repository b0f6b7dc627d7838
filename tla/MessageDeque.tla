---------------------------- MODULE MessageDeque ----------------------------
(***************************************************************************)
(* What OSMessageQueue promises to its callers, without ring indices and   *)
(* wait queues: a bounded queue.  OSReceiveMessage hands out the front;    *)
(* OSSendMessage adds behind all messages, or with                         *)
(* OS_MESSAGE_HIGH_PRIORITY in front of them.                              *)
(***************************************************************************)
EXTENDS Integers, Sequences

CONSTANTS Threads, Messages, NoMessage, MsgCount

VARIABLES queue, last

Init == queue = <<>> /\ last = [thread |-> NoMessage, msg |-> NoMessage]

Receive(t) ==
    /\ queue # <<>>
    /\ last' = [thread |-> t, msg |-> Head(queue)]
    /\ queue' = Tail(queue)

Send(m) ==
    /\ Len(queue) < MsgCount
    /\ queue' = Append(queue, m)
    /\ UNCHANGED last

SendHighPriority(m) ==
    /\ Len(queue) < MsgCount
    /\ queue' = <<m>> \o queue
    /\ UNCHANGED last

Next ==
    \/ \E t \in Threads : Receive(t)
    \/ \E m \in Messages : Send(m) \/ SendHighPriority(m)

Spec == Init /\ [][Next]_<<queue, last>>
=============================================================================

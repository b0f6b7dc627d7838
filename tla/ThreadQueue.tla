----------------------------- MODULE ThreadQueue -----------------------------
(***************************************************************************)
(* The intrusive, doubly linked lists of threads that every part of        *)
(* coreinit is built on (coreinit_ThreadQueue.cpp and the template in      *)
(* coreinit_Thread.h).  A queue is the sequence of its threads from head   *)
(* to tail; the prev/next links are abstracted away.  prio is the function *)
(* of effective priorities (a SMALLER number is a HIGHER priority).        *)
(***************************************************************************)
EXTENDS Integers, Sequences, SequencesExt

(***************************************************************************)
(* OSThreadQueueInternal::addThread: insert after the tail.                *)
(***************************************************************************)
AddThread(q, t) == Append(q, t)

(***************************************************************************)
(* The number of threads that stay in front of t when it is inserted by    *)
(* priority.  The code walks from the tail towards the head as long as the *)
(* thread it looks at has a numerically larger priority than t.            *)
(***************************************************************************)
ThreadsAhead(q, prio, t) ==
    CHOOSE k \in 0..Len(q) :
        /\ \A i \in (k+1)..Len(q) : prio[q[i]] > prio[t]
        /\ k > 0 => prio[q[k]] <= prio[t]

(***************************************************************************)
(* OSThreadQueueInternal::addThreadByPriority.                             *)
(***************************************************************************)
AddThreadByPriority(q, prio, t) == InsertAt(q, ThreadsAhead(q, prio, t) + 1, t)

(***************************************************************************)
(* OSThreadQueueInternal::removeThread of a thread that is on the queue.   *)
(***************************************************************************)
RemoveThread(q, t) == RemoveAt(q, CHOOSE i \in DOMAIN q : q[i] = t)

(***************************************************************************)
(* A thread's waitQueueLink is a single pair of pointers: a thread may be  *)
(* on a queue only once.                                                   *)
(***************************************************************************)
NoDuplicates(q) == \A i, j \in DOMAIN q : q[i] = q[j] => i = j

(***************************************************************************)
(* What addThreadByPriority maintains as long as priorities do not change  *)
(* while threads wait: the head is a thread of the highest priority.       *)
(***************************************************************************)
SortedByPriority(q, prio) ==
    \A i, j \in DOMAIN q : i < j => prio[q[i]] <= prio[q[j]]
=============================================================================

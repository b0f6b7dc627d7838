--------------------------- MODULE SchedulerProofs ---------------------------
(***************************************************************************)
(* Proofs about Scheduler for any sets of threads, cores, affinity masks   *)
(* and priorities: type correctness, and the safety invariants that the    *)
(* runs check, all of them conjuncts or consequences of one inductive      *)
(* invariant.  As in those runs, guests respect JoinContract.              *)
(*                                                                         *)
(* The parts of the invariant are operators of the values they speak       *)
(* about, so that they can be stated of the point inside of                *)
(* __OSThreadSwitchToNext at which a thread has left its core and the next *)
(* one has not been chosen: st are the states of the threads, cur the      *)
(* current threads, wq the wait queues, jt the join targets.               *)
(***************************************************************************)
EXTENDS Scheduler, ThreadQueueProofs, FiniteSetTheorems

(***************************************************************************)
(* The run queues, the back pointers and the counters agree.               *)
(***************************************************************************)
RunQueueType ==
    [queue : [Cores -> Seq(Threads)], on : [Threads -> SUBSET Cores],
     count : [Cores -> Int]]

QueuesMatch(r) ==
    /\ r \in RunQueueType
    /\ \A c \in Cores :
        /\ ToSet(r.queue[c]) = {t \in Threads : c \in r.on[t]}
        /\ NoDuplicates(r.queue[c])
        /\ r.count[c] = Len(r.queue[c])

QueuedExactly(r, st, sc, aff) ==
    QueuesMatch(r) /\ \A t \in Threads : r.on[t] = RunnableCores(st, sc, aff, t)

(***************************************************************************)
(* Who runs where.                                                         *)
(***************************************************************************)
CoresExact(st, cur) ==
    /\ st \in [Threads -> States]
    /\ cur \in [Cores -> Threads \cup {NoThread}]
    /\ \A t \in Threads : st[t] = "RUNNING" <=> \E c \in Cores : cur[c] = t
    /\ \A c, d \in Cores : cur[c] = cur[d] /\ cur[c] # NoThread => c = d

(***************************************************************************)
(* Who waits where.                                                        *)
(***************************************************************************)
WaitsExact(st, wq) ==
    /\ wq \in [QueueIds -> Seq(Threads)]
    /\ \A id \in QueueIds : NoDuplicates(wq[id])
    /\ \A id \in QueueIds : \A t \in ToSet(wq[id]) : st[t] = "WAITING"
    /\ \A i, j \in QueueIds : \A t \in ToSet(wq[i]) \cap ToSet(wq[j]) : i = j
    /\ \A t \in Threads :
        st[t] = "WAITING" => \E id \in QueueIds : t \in ToSet(wq[id])
    /\ \A t \in Threads : st[t] = "MORIBUND" => wq[t] = <<>>

(***************************************************************************)
(* Who joins whom: a thread that a call of OSJoinThread waits for is       *)
(* attached and has at most that one joiner, and either the joiner is on   *)
(* its queue, or it has ended, or it is in the middle of ending.           *)
(***************************************************************************)
JoinsExact(st, cur, wq, jt, det, lk) ==
    /\ jt \in [Threads -> Threads \cup {NoThread}]
    /\ det \in [Threads -> BOOLEAN]
    /\ \A t \in Threads : \A u \in ToSet(wq[t]) : jt[u] = t
    /\ \A u, v \in Threads : jt[u] = jt[v] /\ jt[u] # NoThread => u = v
    /\ \A u \in Threads :
        jt[u] # NoThread =>
            /\ \/ st[u] \in {"WAITING", "READY"}
               \/ lk.kind = "join" /\ cur[lk.core] = u
            /\ ~ det[jt[u]]
            /\ \/ u \in ToSet(wq[jt[u]])
               \/ st[jt[u]] = "MORIBUND"
               \/ lk.kind = "wake" /\ lk.exit /\ lk.queue = jt[u]

(***************************************************************************)
(* The thread that holds the lock between two steps.                       *)
(***************************************************************************)
LockExact(cur, wq, jt, lk) ==
    /\ lk \in LockStates
    /\ lk.kind # "free" => cur[lk.core] # NoThread
    /\ lk.kind = "join" => jt[cur[lk.core]] # NoThread
    /\ lk.kind = "wake" =>
        IF lk.exit THEN lk.queue = cur[lk.core]
                   ELSE lk.queue \in Threads => wq[lk.queue] = <<>>

ActiveExact(st, act) ==
    /\ act \in [Threads -> BOOLEAN]
    /\ \A t \in Threads : act[t] <=> st[t] # "NONE"

ThreadsExact(st, cur, wq, jt, det, act, lk) ==
    /\ CoresExact(st, cur)
    /\ WaitsExact(st, wq)
    /\ JoinsExact(st, cur, wq, jt, det, lk)
    /\ LockExact(cur, wq, jt, lk)
    /\ ActiveExact(st, act)

(***************************************************************************)
(* The inductive invariant.                                                *)
(***************************************************************************)
AttributesOK(sc, aff, p) ==
    /\ sc \in [Threads -> 0..MaxSuspend]
    /\ aff \in [Threads -> Affinities]
    /\ p \in [Threads -> Priorities]

IInv ==
    /\ AttributesOK(suspendCounter, affinity, prio)
    /\ QueuedExactly(rq, state, suspendCounter, affinity)
    /\ ThreadsExact(state, current, waitQueue, joinTarget, detached, active, lock)

-----------------------------------------------------------------------------
(***************************************************************************)
(* __OSAddReadyThreadToRunQueue and __OSRemoveThreadFromRunQueues keep the *)
(* queues, the back pointers and the counters in agreement.                *)
(***************************************************************************)
LEMMA EnqueueMatches ==
    ASSUME NEW r, QueuesMatch(r), NEW t \in Threads, NEW cores \in SUBSET Cores
    PROVE  /\ QueuesMatch(Enqueue(r, t, cores))
           /\ Enqueue(r, t, cores).on = [r.on EXCEPT ![t] = @ \cup cores]
<1> DEFINE new == cores \ r.on[t]
           e == Enqueue(r, t, cores)
<1>1. /\ r.queue \in [Cores -> Seq(Threads)] /\ r.on \in [Threads -> SUBSET Cores]
      /\ r.count \in [Cores -> Int]
  BY DEF QueuesMatch, RunQueueType
<1>2. ASSUME NEW c \in Cores
      PROVE  /\ ToSet(r.queue[c]) = {u \in Threads : c \in r.on[u]}
             /\ NoDuplicates(r.queue[c])
             /\ r.count[c] = Len(r.queue[c])
  BY DEF QueuesMatch
<1>3. /\ e.queue = [c \in Cores |-> IF c \in new THEN AddThread(r.queue[c], t) ELSE r.queue[c]]
      /\ e.on = [r.on EXCEPT ![t] = @ \cup cores]
      /\ e.count = [c \in Cores |-> IF c \in new THEN r.count[c] + 1 ELSE r.count[c]]
      /\ e = [queue |-> e.queue, on |-> e.on, count |-> e.count]
  BY DEF Enqueue
<1> HIDE DEF e
<1>4. ASSUME NEW c \in Cores
      PROVE  /\ e.queue[c] \in Seq(Threads)
             /\ e.count[c] \in Int
             /\ ToSet(e.queue[c]) = {u \in Threads : c \in e.on[u]}
             /\ NoDuplicates(e.queue[c])
             /\ e.count[c] = Len(e.queue[c])
  <2>1. \A u \in Threads : e.on[u] = IF u = t THEN r.on[t] \cup cores ELSE r.on[u]
    BY <1>1, <1>3
  <2>2. CASE c \in new
    <3> DEFINE q == r.queue[c]
    <3>1. q \in Seq(Threads) /\ t \notin ToSet(q) /\ NoDuplicates(q)
      BY <1>1, <1>2, <2>2
    <3>2. e.queue[c] = AddThread(q, t) /\ e.count[c] = r.count[c] + 1
      BY <1>3, <2>2
    <3> HIDE DEF q
    <3>3. /\ AddThread(q, t) \in Seq(Threads) /\ Len(AddThread(q, t)) = Len(q) + 1
          /\ ToSet(AddThread(q, t)) = ToSet(q) \cup {t}
          /\ NoDuplicates(AddThread(q, t))
      BY <3>1, AddThreadProperties
    <3>4. ToSet(q) = {u \in Threads : c \in r.on[u]} /\ r.count[c] = Len(q)
      BY <1>2 DEF q
    <3>5. ToSet(e.queue[c]) = {u \in Threads : c \in e.on[u]}
      BY <3>2, <3>3, <3>4, <2>1, <2>2
    <3> QED BY <3>2, <3>3, <3>4, <3>5, <1>1
  <2>3. CASE c \notin new
    <3>1. e.queue[c] = r.queue[c] /\ e.count[c] = r.count[c]
      BY <1>3, <2>3
    <3>2. {u \in Threads : c \in e.on[u]} = {u \in Threads : c \in r.on[u]}
      BY <2>1, <2>3
    <3> QED BY <3>1, <3>2, <1>1, <1>2
  <2> QED BY <2>2, <2>3
<1>5. e \in RunQueueType
  <2>1. e.queue \in [Cores -> Seq(Threads)] /\ e.count \in [Cores -> Int]
    BY <1>3, <1>4
  <2>2. e.on \in [Threads -> SUBSET Cores]
    BY <1>1, <1>3
  <2> QED BY <2>1, <2>2, <1>3 DEF RunQueueType
<1> QED BY <1>3, <1>4, <1>5 DEF QueuesMatch, e

LEMMA DequeueMatches ==
    ASSUME NEW r, QueuesMatch(r), NEW t \in Threads
    PROVE  /\ QueuesMatch(Dequeue(r, t))
           /\ Dequeue(r, t).on = [r.on EXCEPT ![t] = {}]
<1> DEFINE e == Dequeue(r, t)
<1>1. /\ r.queue \in [Cores -> Seq(Threads)] /\ r.on \in [Threads -> SUBSET Cores]
      /\ r.count \in [Cores -> Int]
  BY DEF QueuesMatch, RunQueueType
<1>2. ASSUME NEW c \in Cores
      PROVE  /\ ToSet(r.queue[c]) = {u \in Threads : c \in r.on[u]}
             /\ NoDuplicates(r.queue[c])
             /\ r.count[c] = Len(r.queue[c])
  BY DEF QueuesMatch
<1>3. /\ e.queue = [c \in Cores |-> IF c \in r.on[t]
                                    THEN RemoveThread(r.queue[c], t) ELSE r.queue[c]]
      /\ e.on = [r.on EXCEPT ![t] = {}]
      /\ e.count = [c \in Cores |-> IF c \in r.on[t] THEN r.count[c] - 1 ELSE r.count[c]]
      /\ e = [queue |-> e.queue, on |-> e.on, count |-> e.count]
  BY DEF Dequeue
<1> HIDE DEF e
<1>4. ASSUME NEW c \in Cores
      PROVE  /\ e.queue[c] \in Seq(Threads)
             /\ e.count[c] \in Int
             /\ ToSet(e.queue[c]) = {u \in Threads : c \in e.on[u]}
             /\ NoDuplicates(e.queue[c])
             /\ e.count[c] = Len(e.queue[c])
  <2>1. \A u \in Threads : e.on[u] = IF u = t THEN {} ELSE r.on[u]
    BY <1>1, <1>3
  <2>2. CASE c \in r.on[t]
    <3> DEFINE q == r.queue[c]
    <3>1. q \in Seq(Threads) /\ t \in ToSet(q) /\ NoDuplicates(q)
      BY <1>1, <1>2, <2>2
    <3>2. e.queue[c] = RemoveThread(q, t) /\ e.count[c] = r.count[c] - 1
      BY <1>3, <2>2
    <3> HIDE DEF q
    <3>3. /\ RemoveThread(q, t) \in Seq(Threads) /\ Len(RemoveThread(q, t)) = Len(q) - 1
          /\ ToSet(RemoveThread(q, t)) = ToSet(q) \ {t}
          /\ NoDuplicates(RemoveThread(q, t))
      BY <3>1, RemoveThreadProperties
    <3>4. ToSet(q) = {u \in Threads : c \in r.on[u]} /\ r.count[c] = Len(q)
      BY <1>2 DEF q
    <3>5. ToSet(e.queue[c]) = {u \in Threads : c \in e.on[u]}
      BY <3>2, <3>3, <3>4, <2>1, <2>2
    <3> QED BY <3>2, <3>3, <3>4, <3>5, <1>1
  <2>3. CASE c \notin r.on[t]
    <3>1. e.queue[c] = r.queue[c] /\ e.count[c] = r.count[c]
      BY <1>3, <2>3
    <3>2. {u \in Threads : c \in e.on[u]} = {u \in Threads : c \in r.on[u]}
      BY <2>1, <2>3
    <3> QED BY <3>1, <3>2, <1>1, <1>2
  <2> QED BY <2>2, <2>3
<1>5. e \in RunQueueType
  <2>1. e.queue \in [Cores -> Seq(Threads)] /\ e.count \in [Cores -> Int]
    BY <1>3, <1>4
  <2>2. e.on \in [Threads -> SUBSET Cores]
    BY <1>1, <1>3
  <2> QED BY <2>1, <2>2, <1>3 DEF RunQueueType
<1> QED BY <1>3, <1>4, <1>5 DEF QueuesMatch, e

(***************************************************************************)
(* __OSGetNextRunableThread finds a thread of the queue of its core.       *)
(***************************************************************************)
LEMMA NextRunableQueued ==
    ASSUME NEW r, QueuesMatch(r), NEW p \in [Threads -> Priorities],
           NEW c \in Cores, r.queue[c] # <<>>
    PROVE  NextRunable(r.queue[c], p) \in Threads /\ c \in r.on[NextRunable(r.queue[c], p)]
<1> DEFINE q == r.queue[c]
           best(i) == /\ \A j \in DOMAIN q : p[q[i]] <= p[q[j]]
                      /\ \A j \in 1..(i - 1) : p[q[i]] < p[q[j]]
           k == CHOOSE i \in DOMAIN q : best(i)
<1>1. q \in Seq(Threads) /\ ToSet(q) = {t \in Threads : c \in r.on[t]}
  BY DEF QueuesMatch, RunQueueType
<1>2. p \in [Threads -> Int]
  BY PrioritiesAssumption
<1>3. \E i \in DOMAIN q : best(i)
  BY <1>1, <1>2, FirstOfBestPriority
<1>4. NextRunable(q, p) = q[k]
  BY DEF NextRunable
<1> HIDE DEF q, best
<1>5. k \in DOMAIN q
  BY <1>3
<1>6. q[k] \in ToSet(q)
  BY <1>5 DEF ToSet
<1> QED BY <1>1, <1>4, <1>6 DEF q

(***************************************************************************)
(* The fields of the lock.                                                 *)
(***************************************************************************)
LEMMA LockFields ==
    ASSUME NEW lk \in LockStates
    PROVE  /\ lk.kind \in {"free", "join", "wake"}
           /\ lk.kind = "free" => lk = Free
           /\ lk.kind = "join" => lk.core \in Cores
           /\ lk.kind = "wake" => /\ lk.core \in Cores /\ lk.queue \in QueueIds
                                  /\ lk.mayResched \in BOOLEAN /\ lk.resched \in BOOLEAN
                                  /\ lk.exit \in BOOLEAN
  BY DEF LockStates, Free

LEMMA LockTypes ==
    /\ Free \in LockStates /\ Free.kind = "free"
    /\ \A c \in Cores : /\ Joining(c) \in LockStates
                         /\ Joining(c).kind = "join" /\ Joining(c).core = c
  BY DEF LockStates, Free, Joining

-----------------------------------------------------------------------------
(***************************************************************************)
(* Putting one thread on the queues where it now belongs, or taking it off *)
(* all of them, when the others are where they belong.                     *)
(***************************************************************************)
LEMMA EnqueueExact ==
    ASSUME NEW r, QueuesMatch(r), NEW st, NEW sc, NEW aff, NEW p, AttributesOK(sc, aff, p),
           NEW t \in Threads, r.on[t] \subseteq RunnableCores(st, sc, aff, t),
           \A u \in Threads \ {t} : r.on[u] = RunnableCores(st, sc, aff, u)
    PROVE  QueuedExactly(Enqueue(r, t, RunnableCores(st, sc, aff, t)), st, sc, aff)
<1> DEFINE cores == RunnableCores(st, sc, aff, t)
           e == Enqueue(r, t, cores)
<1>1. cores \in SUBSET Cores
  BY AffinitiesAssumption DEF RunnableCores, AttributesOK
<1>2. QueuesMatch(e) /\ e.on = [r.on EXCEPT ![t] = @ \cup cores]
  BY <1>1, EnqueueMatches
<1>3. r.on \in [Threads -> SUBSET Cores]
  BY DEF QueuesMatch, RunQueueType
<1> HIDE DEF e
<1>4. \A u \in Threads : e.on[u] = RunnableCores(st, sc, aff, u)
  BY <1>2, <1>3
<1> QED BY <1>2, <1>4 DEF QueuedExactly, e

LEMMA DequeueExact ==
    ASSUME NEW r, QueuesMatch(r), NEW st, NEW sc, NEW aff,
           NEW t \in Threads, RunnableCores(st, sc, aff, t) = {},
           \A u \in Threads \ {t} : r.on[u] = RunnableCores(st, sc, aff, u)
    PROVE  QueuedExactly(Dequeue(r, t), st, sc, aff)
<1> DEFINE e == Dequeue(r, t)
<1>1. QueuesMatch(e) /\ e.on = [r.on EXCEPT ![t] = {}]
  BY DequeueMatches
<1>2. r.on \in [Threads -> SUBSET Cores]
  BY DEF QueuesMatch, RunQueueType
<1> HIDE DEF e
<1>3. \A u \in Threads : e.on[u] = RunnableCores(st, sc, aff, u)
  BY <1>1, <1>2
<1> QED BY <1>1, <1>3 DEF QueuedExactly, e

(***************************************************************************)
(* Only threads are on wait queues; a queue with nobody on it is empty.    *)
(***************************************************************************)
LEMMA QueuedThreads ==
    ASSUME NEW wq \in [QueueIds -> Seq(Threads)], NEW id \in QueueIds
    PROVE  /\ ToSet(wq[id]) \subseteq Threads
           /\ ToSet(wq[id]) = {} => wq[id] = <<>>
<1> DEFINE q == wq[id]
<1>1. q \in Seq(Threads)
  OBVIOUS
<1> HIDE DEF q
<1>2. ToSet(q) \subseteq Threads
  BY <1>1, ElementOfSeq, LenProperties DEF ToSet
<1>3. ASSUME q # <<>> PROVE ToSet(q) # {}
  <2>1. 1 \in DOMAIN q
    BY <1>1, <1>3, LenProperties, EmptySeq
  <2> QED BY <2>1 DEF ToSet
<1> QED BY <1>2, <1>3 DEF q

(***************************************************************************)
(* A READY thread gets an idle core, and with it the lock when it has a    *)
(* call of OSJoinThread to finish.                                         *)
(***************************************************************************)
LEMMA RunsNext ==
    ASSUME NEW st, NEW cur, NEW wq, NEW jt, NEW det, NEW act,
           ThreadsExact(st, cur, wq, jt, det, act, Free),
           NEW c \in Cores, cur[c] = NoThread, NEW n \in Threads, st[n] = "READY"
    PROVE  ThreadsExact([st EXCEPT ![n] = "RUNNING"], [cur EXCEPT ![c] = n], wq, jt, det, act,
                        IF jt[n] = NoThread THEN Free ELSE Joining(c))
<1> DEFINE st2 == [st EXCEPT ![n] = "RUNNING"]
           cur2 == [cur EXCEPT ![c] = n]
           lk == IF jt[n] = NoThread THEN Free ELSE Joining(c)
<1> USE NoThreadAssumption
<1>1. /\ CoresExact(st, cur) /\ WaitsExact(st, wq) /\ ActiveExact(st, act)
      /\ JoinsExact(st, cur, wq, jt, det, Free) /\ LockExact(cur, wq, jt, Free)
  BY DEF ThreadsExact
<1>2. /\ st \in [Threads -> States] /\ cur \in [Cores -> Threads \cup {NoThread}]
      /\ \A u \in Threads : st2[u] = IF u = n THEN "RUNNING" ELSE st[u]
      /\ \A d \in Cores : cur2[d] = IF d = c THEN n ELSE cur[d]
      /\ st2 \in [Threads -> States] /\ cur2 \in [Cores -> Threads \cup {NoThread}]
  BY <1>1 DEF CoresExact, States
<1>3. /\ lk \in LockStates /\ lk.kind # "wake"
      /\ IF jt[n] = NoThread THEN lk.kind = "free" ELSE lk.kind = "join" /\ lk.core = c
  BY LockTypes
<1> HIDE DEF st2, cur2, lk
<1>4. CoresExact(st2, cur2)
  <2>1. \A d \in Cores : cur[d] # n
    BY <1>1 DEF CoresExact
  <2>2. \A t \in Threads : st2[t] = "RUNNING" <=> \E d \in Cores : cur2[d] = t
    BY <1>1, <1>2, <2>1 DEF CoresExact
  <2>3. \A d, e \in Cores : cur2[d] = cur2[e] /\ cur2[d] # NoThread => d = e
    BY <1>1, <1>2, <2>1 DEF CoresExact
  <2> QED BY <1>2, <2>2, <2>3 DEF CoresExact
<1>5. WaitsExact(st2, wq)
  <2>1. wq \in [QueueIds -> Seq(Threads)]
    BY <1>1 DEF WaitsExact
  <2>2. \A id \in QueueIds : \A t \in ToSet(wq[id]) : t \in Threads
    BY <2>1, QueuedThreads
  <2>3. \A id \in QueueIds : \A t \in ToSet(wq[id]) : st2[t] = "WAITING"
    BY <1>1, <1>2, <2>2 DEF WaitsExact
  <2>4. \A t \in Threads :
          /\ st2[t] = "WAITING" => st[t] = "WAITING"
          /\ st2[t] = "MORIBUND" => st[t] = "MORIBUND"
    BY <1>2
  <2> QED BY <1>1, <2>3, <2>4 DEF WaitsExact
<1>6. JoinsExact(st2, cur2, wq, jt, det, lk)
  <2>1. ASSUME NEW u \in Threads, jt[u] # NoThread
        PROVE  /\ \/ st2[u] \in {"WAITING", "READY"}
                  \/ lk.kind = "join" /\ cur2[lk.core] = u
               /\ ~ det[jt[u]]
               /\ \/ u \in ToSet(wq[jt[u]])
                  \/ st2[jt[u]] = "MORIBUND"
                  \/ lk.kind = "wake" /\ lk.exit /\ lk.queue = jt[u]
    <3>1. /\ st[u] \in {"WAITING", "READY"}
          /\ ~ det[jt[u]]
          /\ u \in ToSet(wq[jt[u]]) \/ st[jt[u]] = "MORIBUND"
          /\ jt[u] \in Threads
      BY <2>1, <1>1, LockTypes DEF JoinsExact
    <3>2. st[jt[u]] = "MORIBUND" => st2[jt[u]] = "MORIBUND"
      BY <3>1, <1>2
    <3>3. \/ st2[u] \in {"WAITING", "READY"}
          \/ lk.kind = "join" /\ cur2[lk.core] = u
      BY <3>1, <2>1, <1>2, <1>3
    <3> QED BY <3>1, <3>2, <3>3
  <2> QED BY <1>1, <2>1 DEF JoinsExact
<1>7. LockExact(cur2, wq, jt, lk)
  BY <1>2, <1>3 DEF LockExact
<1>8. ActiveExact(st2, act)
  BY <1>1, <1>2 DEF ActiveExact
<1> QED BY <1>4, <1>5, <1>6, <1>7, <1>8 DEF ThreadsExact, st2, cur2, lk

(***************************************************************************)
(* A thread that could go on leaves its core.                              *)
(***************************************************************************)
LEMMA Yields ==
    ASSUME NEW st, NEW cur, NEW wq, NEW jt, NEW det, NEW act,
           ThreadsExact(st, cur, wq, jt, det, act, Free),
           NEW c \in Cores, cur[c] \in Threads
    PROVE  ThreadsExact([st EXCEPT ![cur[c]] = "READY"], [cur EXCEPT ![c] = NoThread],
                        wq, jt, det, act, Free)
<1> DEFINE t == cur[c]
           st2 == [st EXCEPT ![t] = "READY"]
           cur2 == [cur EXCEPT ![c] = NoThread]
<1> USE NoThreadAssumption
<1>1. /\ CoresExact(st, cur) /\ WaitsExact(st, wq) /\ ActiveExact(st, act)
      /\ JoinsExact(st, cur, wq, jt, det, Free) /\ LockExact(cur, wq, jt, Free)
  BY DEF ThreadsExact
<1>2. /\ st \in [Threads -> States] /\ cur \in [Cores -> Threads \cup {NoThread}]
      /\ \A u \in Threads : st2[u] = IF u = t THEN "READY" ELSE st[u]
      /\ \A d \in Cores : cur2[d] = IF d = c THEN NoThread ELSE cur[d]
      /\ st2 \in [Threads -> States] /\ cur2 \in [Cores -> Threads \cup {NoThread}]
      /\ t \in Threads /\ st[t] = "RUNNING" /\ cur[c] = t
  BY <1>1 DEF CoresExact, States
<1> HIDE DEF st2, cur2, t
<1>4. CoresExact(st2, cur2)
  <2>2. \A u \in Threads : st2[u] = "RUNNING" <=> \E d \in Cores : cur2[d] = u
    BY <1>1, <1>2 DEF CoresExact
  <2>3. \A d, e \in Cores : cur2[d] = cur2[e] /\ cur2[d] # NoThread => d = e
    BY <1>1, <1>2 DEF CoresExact
  <2> QED BY <1>2, <2>2, <2>3 DEF CoresExact
<1>5. WaitsExact(st2, wq)
  <2>1. wq \in [QueueIds -> Seq(Threads)]
    BY <1>1 DEF WaitsExact
  <2>2. \A id \in QueueIds : \A u \in ToSet(wq[id]) : u \in Threads
    BY <2>1, QueuedThreads
  <2>3. \A id \in QueueIds : \A u \in ToSet(wq[id]) : st2[u] = "WAITING"
    BY <1>1, <1>2, <2>2 DEF WaitsExact
  <2>4. \A u \in Threads :
          /\ st2[u] = "WAITING" => st[u] = "WAITING"
          /\ st2[u] = "MORIBUND" => st[u] = "MORIBUND"
    BY <1>2
  <2> QED BY <1>1, <2>3, <2>4 DEF WaitsExact
<1>6. JoinsExact(st2, cur2, wq, jt, det, Free)
  <2>1. ASSUME NEW u \in Threads, jt[u] # NoThread
        PROVE  /\ st2[u] \in {"WAITING", "READY"}
               /\ ~ det[jt[u]]
               /\ u \in ToSet(wq[jt[u]]) \/ st2[jt[u]] = "MORIBUND"
    <3>1. /\ st[u] \in {"WAITING", "READY"}
          /\ ~ det[jt[u]]
          /\ u \in ToSet(wq[jt[u]]) \/ st[jt[u]] = "MORIBUND"
          /\ jt[u] \in Threads
      BY <2>1, <1>1, LockTypes DEF JoinsExact
    <3>2. st[jt[u]] = "MORIBUND" => st2[jt[u]] = "MORIBUND"
      BY <3>1, <1>2
    <3> QED BY <3>1, <3>2, <1>2
  <2> QED BY <1>1, <2>1 DEF JoinsExact
<1>7. LockExact(cur2, wq, jt, Free)
  BY LockTypes DEF LockExact
<1>8. ActiveExact(st2, act)
  BY <1>1, <1>2 DEF ActiveExact
<1> QED BY <1>4, <1>5, <1>6, <1>7, <1>8 DEF ThreadsExact, st2, cur2, t

-----------------------------------------------------------------------------
(***************************************************************************)
(* Core c gave its thread up, for nobody or for one that may run there.    *)
(***************************************************************************)
Switched(c) ==
    /\ \A d \in Cores \ {c} : current'[d] = current[d]
    /\ current'[c] # NoThread =>
          suspendCounter'[current'[c]] = 0 /\ c \in affinity'[current'[c]]

NoneOn(c) == [current EXCEPT ![c] = NoThread]

LEMMA DispatchExact ==
    ASSUME NEW c \in Cores, NEW st, NEW r,
           current \in [Cores -> Threads \cup {NoThread}],
           AttributesOK(suspendCounter', affinity', prio'),
           QueuedExactly(r, st, suspendCounter', affinity'), r.queue[c] # <<>>,
           ThreadsExact(st, NoneOn(c), waitQueue', joinTarget', detached', active', Free),
           Dispatch(c, st, r)
    PROVE  IInv' /\ Switched(c)
<1> DEFINE n == NextRunable(r.queue[c], prio')
<1>1. n \in Threads /\ c \in r.on[n]
  BY NextRunableQueued DEF QueuedExactly, AttributesOK
<1>2. /\ state' = [st EXCEPT ![n] = "RUNNING"]
      /\ rq' = Dequeue(r, n)
      /\ current' = [current EXCEPT ![c] = n]
      /\ lock' = IF joinTarget'[n] = NoThread THEN Free ELSE Joining(c)
  BY DEF Dispatch
<1> HIDE DEF n
<1>3. st[n] = "READY" /\ suspendCounter'[n] = 0 /\ c \in affinity'[n]
  BY <1>1 DEF QueuedExactly, RunnableCores
<1>4. QueuedExactly(rq', state', suspendCounter', affinity')
  <2>1. QueuesMatch(r) /\ st \in [Threads -> States]
    BY DEF QueuedExactly, ThreadsExact, CoresExact
  <2>2. /\ \A u \in Threads \ {n} : state'[u] = st[u]
        /\ state'[n] = "RUNNING"
    BY <1>1, <1>2, <2>1
  <2>3. RunnableCores(state', suspendCounter', affinity', n) = {}
    BY <2>2 DEF RunnableCores
  <2>4. \A u \in Threads \ {n} : r.on[u] = RunnableCores(state', suspendCounter', affinity', u)
    BY <2>2 DEF QueuedExactly, RunnableCores
  <2> QED BY <1>1, <1>2, <2>1, <2>3, <2>4, DequeueExact
<1>5. ThreadsExact(state', current', waitQueue', joinTarget', detached', active', lock')
  <2>1. current' = [NoneOn(c) EXCEPT ![c] = n] /\ NoneOn(c)[c] = NoThread
    BY <1>2 DEF NoneOn
  <2> DEFINE cur == NoneOn(c)
  <2>2. cur[c] = NoThread /\ ThreadsExact(st, cur, waitQueue', joinTarget', detached', active', Free)
    BY <2>1
  <2> HIDE DEF cur
  <2>3. ThreadsExact([st EXCEPT ![n] = "RUNNING"], [cur EXCEPT ![c] = n],
                     waitQueue', joinTarget', detached', active',
                     IF joinTarget'[n] = NoThread THEN Free ELSE Joining(c))
    BY <2>2, <1>1, <1>3, RunsNext
  <2> QED BY <2>1, <2>3, <1>2 DEF cur
<1>6. Switched(c)
  BY <1>2, <1>3 DEF Switched
<1> QED BY <1>4, <1>5, <1>6 DEF IInv

(***************************************************************************)
(* __OSThreadSwitchToNext: enough is known once the thread that leaves has *)
(* left.                                                                   *)
(***************************************************************************)
Left(st, t) == IF st[t] = "RUNNING" THEN [st EXCEPT ![t] = "READY"] ELSE st

LEMMA SwitchToNextExact ==
    ASSUME NEW c \in Cores, NEW st \in [Threads -> States], NEW r,
           current \in [Cores -> Threads \cup {NoThread}], current[c] # NoThread,
           AttributesOK(suspendCounter', affinity', prio'),
           QueuedExactly(r, st, suspendCounter', affinity'),
           ThreadsExact(Left(st, current[c]), NoneOn(c),
                        waitQueue', joinTarget', detached', active', Free),
           SwitchToNext(c, st, r)
    PROVE  IInv' /\ Switched(c)
<1> DEFINE t == current[c]
           st2 == Left(st, t)
           r2 == IF st[t] = "RUNNING"
                 THEN Enqueue(r, t, RunnableCores(st2, suspendCounter', affinity', t))
                 ELSE r
<1>1. t \in Threads
  OBVIOUS
<1>2. IF c = MainCore \/ r2.queue[c] = <<>>
      THEN /\ state' = st2
           /\ rq' = r2
           /\ current' = NoneOn(c)
           /\ lock' = Free
      ELSE Dispatch(c, st2, r2)
  BY DEF SwitchToNext, Left, NoneOn
<1>3. QueuedExactly(r2, st2, suspendCounter', affinity')
  <2>1. CASE st[t] = "RUNNING"
    <3>1. /\ \A u \in Threads \ {t} : st2[u] = st[u]
          /\ r2 = Enqueue(r, t, RunnableCores(st2, suspendCounter', affinity', t))
          /\ QueuesMatch(r)
      BY <1>1, <2>1 DEF QueuedExactly, Left
    <3>2. r.on[t] = {}
      BY <1>1, <2>1 DEF QueuedExactly, RunnableCores
    <3>3. \A u \in Threads \ {t} : r.on[u] = RunnableCores(st2, suspendCounter', affinity', u)
      BY <3>1 DEF QueuedExactly, RunnableCores
    <3> HIDE DEF st2, r2, t
    <3> QED BY <1>1, <3>1, <3>2, <3>3, EnqueueExact
  <2>2. CASE st[t] # "RUNNING"
    BY <2>2 DEF Left
  <2> QED BY <2>1, <2>2
<1> HIDE DEF st2, r2
<1>4. ThreadsExact(st2, NoneOn(c), waitQueue', joinTarget', detached', active', Free)
  BY DEF st2
<1>5. CASE c = MainCore \/ r2.queue[c] = <<>>
  <2>1. IInv'
    BY <1>2, <1>3, <1>4, <1>5 DEF IInv
  <2>2. Switched(c)
    BY <1>2, <1>5 DEF Switched, NoneOn
  <2> QED BY <2>1, <2>2
<1>6. CASE ~ (c = MainCore \/ r2.queue[c] = <<>>)
  BY <1>2, <1>3, <1>4, <1>6, DispatchExact
<1> QED BY <1>5, <1>6

(***************************************************************************)
(* The same when the thread that leaves could go on.                       *)
(***************************************************************************)
LEMMA SwitchAwayExact ==
    ASSUME NEW c \in Cores, NEW st, NEW r, current[c] # NoThread,
           AttributesOK(suspendCounter', affinity', prio'),
           QueuedExactly(r, st, suspendCounter', affinity'),
           ThreadsExact(st, current, waitQueue', joinTarget', detached', active', Free),
           SwitchToNext(c, st, r)
    PROVE  IInv' /\ Switched(c)
<1>1. /\ st \in [Threads -> States] /\ current \in [Cores -> Threads \cup {NoThread}]
      /\ current[c] \in Threads /\ st[current[c]] = "RUNNING"
  BY DEF ThreadsExact, CoresExact
<1>2. Left(st, current[c]) = [st EXCEPT ![current[c]] = "READY"]
  BY <1>1 DEF Left
<1>3. ThreadsExact(Left(st, current[c]), NoneOn(c),
                   waitQueue', joinTarget', detached', active', Free)
  <2>1. ThreadsExact([st EXCEPT ![current[c]] = "READY"], [current EXCEPT ![c] = NoThread],
                     waitQueue', joinTarget', detached', active', Free)
    BY <1>1, Yields
  <2> QED BY <2>1, <1>2 DEF NoneOn
<1> QED BY <1>1, <1>3, SwitchToNextExact

LEMMA SwitchIfExact ==
    ASSUME NEW cond, NEW c \in Cores, NEW st, NEW r, current[c] # NoThread,
           AttributesOK(suspendCounter', affinity', prio'),
           QueuedExactly(r, st, suspendCounter', affinity'),
           ThreadsExact(st, current, waitQueue', joinTarget', detached', active', Free),
           SwitchIf(cond, c, st, r)
    PROVE  IInv' /\ (UNCHANGED current \/ Switched(c))
<1>1. CASE cond
  BY <1>1, SwitchAwayExact DEF SwitchIf
<1>2. CASE ~ cond
  BY <1>2 DEF SwitchIf, StayOn, IInv
<1> QED BY <1>1, <1>2

-----------------------------------------------------------------------------
(***************************************************************************)
(* The steps, one lemma each.  What a step does to the current threads is  *)
(* proved with it.                                                         *)
(***************************************************************************)
SwitchOK == UNCHANGED current \/ \E c \in Cores : Switched(c)

LEMMA TimesliceEndExact ==
    ASSUME IInv, NEW c \in Cores, TimesliceEnd(c)
    PROVE  IInv' /\ Switched(c)
  BY SwitchAwayExact DEF IInv, TimesliceEnd, InGuest, attributes

LEMMA IdlePickExact ==
    ASSUME IInv, NEW c \in Cores, IdlePick(c)
    PROVE  IInv' /\ Switched(c)
<1>1. current \in [Cores -> Threads \cup {NoThread}]
  BY DEF IInv, ThreadsExact, CoresExact
<1>2. NoneOn(c) = current
  BY <1>1 DEF IdlePick, NoneOn
<1> QED BY <1>1, <1>2, DispatchExact DEF IInv, IdlePick, attributes

LEMMA OSSuspendThreadExact ==
    ASSUME IInv, NEW c \in Cores, NEW t \in Threads, OSSuspendThread(c, t)
    PROVE  IInv' /\ SwitchOK
<1>1. /\ AttributesOK(suspendCounter, affinity, prio) /\ current[c] # NoThread
      /\ QueuedExactly(rq, state, suspendCounter, affinity)
      /\ ThreadsExact(state, current, waitQueue, joinTarget, detached, active, Free)
      /\ UNCHANGED <<affinity, prio, detached, active, waitQueue, joinTarget>>
      /\ suspendCounter' = [suspendCounter EXCEPT ![t] = @ + 1]
      /\ suspendCounter[t] < MaxSuspend
  BY DEF IInv, OSSuspendThread, InGuest
<1>2. suspendCounter \in [Threads -> 0..MaxSuspend]
  BY <1>1 DEF AttributesOK
<1>3. /\ AttributesOK(suspendCounter', affinity', prio')
      /\ suspendCounter'[t] # 0 /\ suspendCounter'[t] = suspendCounter[t] + 1
      /\ \A u \in Threads \ {t} : suspendCounter'[u] = suspendCounter[u]
  BY <1>1, <1>2, MaxSuspendAssumption DEF AttributesOK
<1>4. /\ \A u \in Threads \ {t} :
            rq.on[u] = RunnableCores(state, suspendCounter', affinity', u)
      /\ RunnableCores(state, suspendCounter', affinity', t) = {}
  BY <1>1, <1>3 DEF QueuedExactly, RunnableCores
<1>5. CASE t = current[c]
  <2>1. state[t] = "RUNNING"
    BY <1>1, <1>5 DEF ThreadsExact, CoresExact
  <2>2. rq.on[t] = {}
    BY <1>1, <2>1 DEF QueuedExactly, RunnableCores
  <2>3. QueuedExactly(rq, state, suspendCounter', affinity')
    BY <1>1, <1>4, <2>2 DEF QueuedExactly
  <2>4. SwitchToNext(c, state, rq)
    BY <1>5 DEF OSSuspendThread
  <2> QED BY <1>1, <1>3, <2>3, <2>4, SwitchAwayExact DEF SwitchOK
<1>6. CASE t # current[c]
  <2> DEFINE r == IF suspendCounter[t] = 0 THEN Dequeue(rq, t) ELSE rq
  <2>1. StayOn(state, r)
    BY <1>6 DEF OSSuspendThread
  <2>2. QueuedExactly(r, state, suspendCounter', affinity')
    <3>1. CASE suspendCounter[t] = 0
      <4>1. QueuesMatch(rq)
        BY <1>1 DEF QueuedExactly
      <4> QED BY <3>1, <4>1, <1>4, DequeueExact
    <3>2. CASE suspendCounter[t] # 0
      <4>1. rq.on[t] = {}
        BY <1>1, <3>2 DEF QueuedExactly, RunnableCores
      <4> QED BY <3>2, <4>1, <1>1, <1>4 DEF QueuedExactly
    <3> QED BY <3>1, <3>2
  <2> HIDE DEF r
  <2> QED BY <1>1, <1>3, <2>1, <2>2 DEF StayOn, IInv, SwitchOK
<1> QED BY <1>5, <1>6

LEMMA ResumeThreadExact ==
    ASSUME IInv, NEW c \in Cores, NEW t \in Threads, NEW n \in Nat, ResumeThread(c, t, n)
    PROVE  IInv' /\ SwitchOK
<1> DEFINE r == IF suspendCounter'[t] = 0
                THEN Enqueue(rq, t, RunnableCores(state, suspendCounter', affinity, t))
                ELSE rq
<1>1. /\ AttributesOK(suspendCounter, affinity, prio) /\ current[c] # NoThread
      /\ QueuedExactly(rq, state, suspendCounter, affinity)
      /\ ThreadsExact(state, current, waitQueue, joinTarget, detached, active, Free)
      /\ UNCHANGED <<affinity, prio, detached, active, waitQueue, joinTarget>>
      /\ suspendCounter' = [suspendCounter EXCEPT ![t] = IF @ > n THEN @ - n ELSE 0]
      /\ suspendCounter[t] # 0
      /\ IF suspendCounter'[t] = 0 THEN SwitchIf(ShouldSwitchTo(c, t), c, state, r)
                                   ELSE StayOn(state, r)
  BY DEF IInv, ResumeThread, InGuest
<1>2. suspendCounter \in [Threads -> 0..MaxSuspend]
  BY <1>1 DEF AttributesOK
<1>3. /\ AttributesOK(suspendCounter', affinity', prio')
      /\ \A u \in Threads \ {t} : suspendCounter'[u] = suspendCounter[u]
  <2>1. suspendCounter' \in [Threads -> 0..MaxSuspend]
    BY <1>1, <1>2, MaxSuspendAssumption
  <2> QED BY <1>1, <1>2, <2>1 DEF AttributesOK
<1>4. /\ \A u \in Threads \ {t} :
            rq.on[u] = RunnableCores(state, suspendCounter', affinity', u)
      /\ rq.on[t] = {} /\ QueuesMatch(rq)
  BY <1>1, <1>3 DEF QueuedExactly, RunnableCores
<1>5. QueuedExactly(r, state, suspendCounter', affinity')
  <2>1. CASE suspendCounter'[t] = 0
    <3>1. r = Enqueue(rq, t, RunnableCores(state, suspendCounter', affinity', t))
      BY <1>1, <2>1
    <3> HIDE DEF r
    <3> QED BY <3>1, <1>3, <1>4, EnqueueExact
  <2>2. CASE suspendCounter'[t] # 0
    <3>1. RunnableCores(state, suspendCounter', affinity', t) = {}
      BY <2>2 DEF RunnableCores
    <3> QED BY <2>2, <3>1, <1>4 DEF QueuedExactly
  <2> QED BY <2>1, <2>2
<1> HIDE DEF r
<1>6. CASE suspendCounter'[t] = 0
  BY <1>1, <1>3, <1>5, <1>6, SwitchIfExact DEF SwitchOK
<1>7. CASE suspendCounter'[t] # 0
  BY <1>1, <1>3, <1>5, <1>7 DEF StayOn, IInv, SwitchOK
<1> QED BY <1>6, <1>7

LEMMA OSSetThreadAffinityExact ==
    ASSUME IInv, NEW c \in Cores, NEW t \in Threads, NEW mask \in Affinities,
           OSSetThreadAffinity(c, t, mask)
    PROVE  IInv' /\ SwitchOK
<1>1. /\ AttributesOK(suspendCounter, affinity, prio)
      /\ QueuedExactly(rq, state, suspendCounter, affinity)
      /\ ThreadsExact(state, current, waitQueue, joinTarget, detached, active, lock)
      /\ UNCHANGED <<state, suspendCounter, prio, detached, active, waitQueue,
                     joinTarget, current, lock>>
      /\ affinity' = [affinity EXCEPT ![t] = mask]
      /\ rq' = IF state[t] \in {"RUNNING", "NONE"} THEN rq
               ELSE Enqueue(Dequeue(rq, t), t,
                            RunnableCores(state, suspendCounter, affinity', t))
  BY DEF IInv, OSSetThreadAffinity
<1>2. /\ AttributesOK(suspendCounter', affinity', prio')
      /\ \A u \in Threads \ {t} : affinity'[u] = affinity[u]
  BY <1>1 DEF AttributesOK
<1>3. /\ \A u \in Threads \ {t} :
            rq.on[u] = RunnableCores(state, suspendCounter, affinity', u)
      /\ QueuesMatch(rq)
  BY <1>1, <1>2 DEF QueuedExactly, RunnableCores
<1>4. QueuedExactly(rq', state, suspendCounter, affinity')
  <2>1. CASE state[t] \in {"RUNNING", "NONE"}
    <3>1. rq.on[t] = {} /\ RunnableCores(state, suspendCounter, affinity', t) = {}
      BY <1>1, <2>1 DEF QueuedExactly, RunnableCores
    <3> QED BY <1>1, <1>3, <2>1, <3>1 DEF QueuedExactly
  <2>2. CASE state[t] \notin {"RUNNING", "NONE"}
    <3> DEFINE d == Dequeue(rq, t)
    <3>1. QueuesMatch(d) /\ d.on = [rq.on EXCEPT ![t] = {}]
      BY <1>3, DequeueMatches
    <3>2. rq.on \in [Threads -> SUBSET Cores]
      BY <1>3 DEF QueuesMatch, RunQueueType
    <3>3. rq' = Enqueue(d, t, RunnableCores(state, suspendCounter, affinity', t))
      BY <1>1, <2>2
    <3> HIDE DEF d
    <3>4. /\ d.on[t] = {}
          /\ \A u \in Threads \ {t} :
                d.on[u] = RunnableCores(state, suspendCounter, affinity', u)
      BY <1>3, <3>1, <3>2
    <3>5. AttributesOK(suspendCounter, affinity', prio)
      BY <1>1, <1>2
    <3> QED BY <3>1, <3>3, <3>4, <3>5, EnqueueExact
  <2> QED BY <2>1, <2>2
<1> QED BY <1>1, <1>2, <1>4 DEF IInv, SwitchOK

LEMMA OSSetThreadPriorityExact ==
    ASSUME IInv, NEW c \in Cores, NEW t \in Threads, NEW p \in Priorities,
           OSSetThreadPriority(c, t, p)
    PROVE  IInv' /\ SwitchOK
<1>1. /\ AttributesOK(suspendCounter, affinity, prio) /\ current[c] # NoThread
      /\ QueuedExactly(rq, state, suspendCounter, affinity)
      /\ ThreadsExact(state, current, waitQueue, joinTarget, detached, active, Free)
      /\ UNCHANGED <<suspendCounter, affinity, detached, active, waitQueue, joinTarget>>
      /\ prio' = [prio EXCEPT ![t] = p]
  BY DEF IInv, OSSetThreadPriority, InGuest
<1>2. AttributesOK(suspendCounter', affinity', prio')
  BY <1>1 DEF AttributesOK
<1>3. SwitchIf(t # current[c] /\ ShouldSwitchTo(c, t), c, state, rq)
  BY DEF OSSetThreadPriority
<1> DEFINE cond == t # current[c] /\ ShouldSwitchTo(c, t)
<1> HIDE DEF cond
<1>4. SwitchIf(cond, c, state, rq)
  BY <1>3 DEF cond
<1> QED BY <1>1, <1>2, <1>4, SwitchIfExact DEF SwitchOK

-----------------------------------------------------------------------------
(***************************************************************************)
(* A thread that has not started or has ended, and that nobody joins, is   *)
(* started again or deactivated.                                           *)
(***************************************************************************)
LEMMA Restates ==
    ASSUME NEW st, NEW cur, NEW wq, NEW jt, NEW det, NEW act,
           ThreadsExact(st, cur, wq, jt, det, act, Free),
           NEW t \in Threads, st[t] \in {"NONE", "MORIBUND"},
           \A u \in Threads : jt[u] # t,
           NEW st2 \in [Threads -> States], st2[t] \in {"NONE", "READY"},
           \A u \in Threads \ {t} : st2[u] = st[u],
           NEW det2 \in [Threads -> BOOLEAN], \A u \in Threads \ {t} : det2[u] = det[u],
           NEW act2, ActiveExact(st2, act2)
    PROVE  ThreadsExact(st2, cur, wq, jt, det2, act2, Free) /\ jt[t] = NoThread
<1> USE NoThreadAssumption
<1>1. /\ CoresExact(st, cur) /\ WaitsExact(st, wq) /\ ActiveExact(st, act)
      /\ JoinsExact(st, cur, wq, jt, det, Free) /\ LockExact(cur, wq, jt, Free)
  BY DEF ThreadsExact
<1>2. st \in [Threads -> States] /\ det \in [Threads -> BOOLEAN]
  BY <1>1 DEF CoresExact, JoinsExact
<1>4. CoresExact(st2, cur)
  BY <1>1, <1>2 DEF CoresExact
<1>5. WaitsExact(st2, wq)
  <2>1. wq \in [QueueIds -> Seq(Threads)]
    BY <1>1 DEF WaitsExact
  <2>2. \A id \in QueueIds : \A u \in ToSet(wq[id]) : u \in Threads
    BY <2>1, QueuedThreads
  <2>3. \A id \in QueueIds : \A u \in ToSet(wq[id]) : st2[u] = "WAITING"
    BY <1>1, <1>2, <2>2 DEF WaitsExact
  <2>4. \A u \in Threads :
          /\ st2[u] = "WAITING" => st[u] = "WAITING"
          /\ st2[u] = "MORIBUND" => st[u] = "MORIBUND"
    BY <1>2
  <2> QED BY <1>1, <2>3, <2>4 DEF WaitsExact
<1>6. ASSUME NEW u \in Threads, jt[u] # NoThread
      PROVE  /\ st[u] \in {"WAITING", "READY"}
             /\ ~ det[jt[u]]
             /\ u \in ToSet(wq[jt[u]]) \/ st[jt[u]] = "MORIBUND"
             /\ jt[u] \in Threads /\ jt[u] # t
  BY <1>6, <1>1, LockTypes DEF JoinsExact
<1>7. JoinsExact(st2, cur, wq, jt, det2, Free)
  <2>1. ASSUME NEW u \in Threads, jt[u] # NoThread
        PROVE  /\ st2[u] \in {"WAITING", "READY"}
               /\ ~ det2[jt[u]]
               /\ u \in ToSet(wq[jt[u]]) \/ st2[jt[u]] = "MORIBUND"
    BY <2>1, <1>2, <1>6
  <2> QED BY <1>1, <1>2, <2>1 DEF JoinsExact
<1>8. jt[t] = NoThread
  BY <1>6
<1> QED BY <1>1, <1>4, <1>5, <1>7, <1>8 DEF ThreadsExact

(***************************************************************************)
(* What JoinContract grants.                                               *)
(***************************************************************************)
LEMMA NobodyJoins ==
    ASSUME JoinContract, IInv, NEW t \in Threads, MayEnd(t)
    PROVE  (\A u \in Threads : joinTarget[u] # t) /\ waitQueue[t] = <<>>
<1>1. \A u \in Threads : joinTarget[u] # t
  BY DEF MayEnd, Joiners
<1>2. waitQueue \in [QueueIds -> Seq(Threads)] /\ t \in QueueIds
  BY DEF IInv, ThreadsExact, WaitsExact, QueueIds
<1>3. \A u \in ToSet(waitQueue[t]) : joinTarget[u] = t
  BY DEF IInv, ThreadsExact, JoinsExact
<1> QED BY <1>1, <1>2, <1>3, QueuedThreads

LEMMA OSCreateThreadExact ==
    ASSUME JoinContract, IInv, NEW c \in Cores, NEW t \in Threads, NEW aff \in Affinities,
           NEW p \in Priorities, NEW d \in BOOLEAN, OSCreateThread(c, t, aff, p, d)
    PROVE  IInv' /\ SwitchOK
<1>1. /\ AttributesOK(suspendCounter, affinity, prio)
      /\ QueuedExactly(rq, state, suspendCounter, affinity)
      /\ ThreadsExact(state, current, waitQueue, joinTarget, detached, active, Free)
      /\ lock = Free
  BY DEF IInv, OSCreateThread, InGuest
<1>2. /\ ~ active[t] /\ MayEnd(t) /\ MaxSuspend > 0
      /\ state' = [state EXCEPT ![t] = "READY"]
      /\ suspendCounter' = [suspendCounter EXCEPT ![t] = 1]
      /\ affinity' = [affinity EXCEPT ![t] = aff]
      /\ prio' = [prio EXCEPT ![t] = p]
      /\ detached' = [detached EXCEPT ![t] = d]
      /\ active' = [active EXCEPT ![t] = TRUE]
      /\ waitQueue' = [waitQueue EXCEPT ![t] = <<>>]
      /\ joinTarget' = [joinTarget EXCEPT ![t] = NoThread]
      /\ rq' = [rq EXCEPT !.on[t] = {}]
      /\ UNCHANGED <<current, lock>>
  BY DEF OSCreateThread
<1>3. state[t] = "NONE"
  BY <1>1, <1>2 DEF ThreadsExact, ActiveExact
<1>4. (\A u \in Threads : joinTarget[u] # t) /\ waitQueue[t] = <<>>
  BY <1>2, NobodyJoins
<1>5. /\ ThreadsExact(state', current, waitQueue, joinTarget, detached', active', Free)
      /\ joinTarget[t] = NoThread
  <2>1. /\ ActiveExact(state', active')
        /\ state' \in [Threads -> States] /\ state'[t] = "READY"
        /\ \A u \in Threads \ {t} : state'[u] = state[u]
    BY <1>1, <1>2 DEF ThreadsExact, ActiveExact, CoresExact, States
  <2>2. /\ detached' \in [Threads -> BOOLEAN]
        /\ \A u \in Threads \ {t} : detached'[u] = detached[u]
    BY <1>1, <1>2 DEF ThreadsExact, JoinsExact
  <2> QED BY <2>1, <2>2, <1>1, <1>3, <1>4, Restates
<1>6. waitQueue' = waitQueue /\ joinTarget' = joinTarget
  <2>1. waitQueue \in [QueueIds -> Seq(Threads)]
    BY <1>1 DEF ThreadsExact, WaitsExact
  <2>2. joinTarget \in [Threads -> Threads \cup {NoThread}]
    BY <1>1 DEF ThreadsExact, JoinsExact
  <2> QED BY <2>1, <2>2, <1>2, <1>4, <1>5
<1>7. AttributesOK(suspendCounter', affinity', prio')
  BY <1>1, <1>2, MaxSuspendAssumption DEF AttributesOK
<1>8. rq' = rq
  <2>1. rq.on[t] = {} /\ rq.on \in [Threads -> SUBSET Cores] /\ rq \in RunQueueType
    BY <1>1, <1>3 DEF QueuedExactly, QueuesMatch, RunQueueType, RunnableCores
  <2>2. [rq.on EXCEPT ![t] = {}] = rq.on
    BY <2>1
  <2>3. rq' = [rq EXCEPT !.on = [rq.on EXCEPT ![t] = {}]]
    BY <1>2
  <2> QED BY <2>1, <2>2, <2>3 DEF RunQueueType
<1>9. QueuedExactly(rq', state', suspendCounter', affinity')
  <2>1. state \in [Threads -> States]
    BY <1>1 DEF ThreadsExact, CoresExact
  <2>2. \A u \in Threads \ {t} :
            rq.on[u] = RunnableCores(state', suspendCounter', affinity', u)
    BY <1>1, <1>2, <2>1 DEF QueuedExactly, RunnableCores, AttributesOK
  <2>3. rq.on[t] = {} /\ suspendCounter'[t] = 1
    BY <1>1, <1>2, <1>3 DEF QueuedExactly, RunnableCores, AttributesOK
  <2>4. RunnableCores(state', suspendCounter', affinity', t) = {}
    BY <2>3 DEF RunnableCores
  <2>5. QueuesMatch(rq)
    BY <1>1 DEF QueuedExactly
  <2>6. \A u \in Threads : rq.on[u] = RunnableCores(state', suspendCounter', affinity', u)
    BY <2>2, <2>3, <2>4
  <2> QED BY <1>8, <2>5, <2>6 DEF QueuedExactly
<1> QED BY <1>1, <1>2, <1>5, <1>6, <1>7, <1>9 DEF IInv, SwitchOK

LEMMA OSRunThreadExact ==
    ASSUME JoinContract, IInv, NEW c \in Cores, NEW t \in Threads, OSRunThread(c, t)
    PROVE  IInv' /\ SwitchOK
<1> DEFINE r == IF state[t] = "MORIBUND" THEN Dequeue(rq, t) ELSE rq
<1>1. /\ AttributesOK(suspendCounter, affinity, prio)
      /\ QueuedExactly(rq, state, suspendCounter, affinity)
      /\ ThreadsExact(state, current, waitQueue, joinTarget, detached, active, Free)
      /\ lock = Free
  BY DEF IInv, OSRunThread, InGuest
<1>2. /\ state[t] \in {"NONE", "MORIBUND"} /\ MayEnd(t)
      /\ state' = [state EXCEPT ![t] = "READY"]
      /\ suspendCounter' = [suspendCounter EXCEPT ![t] = 0]
      /\ active' = [active EXCEPT ![t] = TRUE]
      /\ joinTarget' = [joinTarget EXCEPT ![t] = NoThread]
      /\ rq' = Enqueue(r, t, RunnableCores(state', suspendCounter', affinity, t))
      /\ UNCHANGED <<affinity, prio, detached, waitQueue, current, lock>>
  BY DEF OSRunThread
<1>3. \A u \in Threads : joinTarget[u] # t
  BY <1>2, NobodyJoins
<1>4. /\ joinTarget \in [Threads -> Threads \cup {NoThread}]
      /\ detached \in [Threads -> BOOLEAN] /\ state \in [Threads -> States]
  BY <1>1 DEF ThreadsExact, JoinsExact, CoresExact
<1>5. /\ ThreadsExact(state', current, waitQueue, joinTarget, detached, active', Free)
      /\ joinTarget[t] = NoThread
  <2>1. /\ ActiveExact(state', active')
        /\ state' \in [Threads -> States] /\ state'[t] = "READY"
        /\ \A u \in Threads \ {t} : state'[u] = state[u]
    BY <1>1, <1>2 DEF ThreadsExact, ActiveExact, CoresExact, States
  <2>2. state[t] \in {"NONE", "MORIBUND"}
    BY <1>2
  <2> QED BY <2>1, <2>2, <1>1, <1>3, <1>4, Restates
<1>6. joinTarget' = joinTarget
  BY <1>2, <1>4, <1>5
<1>7. AttributesOK(suspendCounter', affinity', prio')
  BY <1>1, <1>2, MaxSuspendAssumption DEF AttributesOK
<1>8. QueuesMatch(r) /\ r.on[t] = {} /\ \A u \in Threads \ {t} : r.on[u] = rq.on[u]
  <2>1. rq.on[t] = {} /\ rq.on \in [Threads -> SUBSET Cores] /\ QueuesMatch(rq)
    BY <1>1, <1>2 DEF QueuedExactly, QueuesMatch, RunQueueType, RunnableCores
  <2>2. CASE state[t] = "MORIBUND"
    BY <2>1, <2>2, DequeueMatches
  <2>3. CASE state[t] # "MORIBUND"
    BY <2>1, <2>3
  <2> QED BY <2>2, <2>3
<1> HIDE DEF r
<1>9. QueuedExactly(rq', state', suspendCounter', affinity')
  <2>1. \A u \in Threads \ {t} :
            r.on[u] = RunnableCores(state', suspendCounter', affinity', u)
    BY <1>1, <1>2, <1>4, <1>8 DEF QueuedExactly, RunnableCores, AttributesOK
  <2>2. rq' = Enqueue(r, t, RunnableCores(state', suspendCounter', affinity', t))
    BY <1>2
  <2> QED BY <1>7, <1>8, <2>1, <2>2, EnqueueExact
<1> QED BY <1>1, <1>2, <1>5, <1>6, <1>7, <1>9 DEF IInv, SwitchOK

-----------------------------------------------------------------------------
(***************************************************************************)
(* The end of OSJoinThread, with or without a wait in front of it.         *)
(***************************************************************************)
LEMMA EndJoinedExact ==
    ASSUME IInv, NEW t \in Threads, state[t] = "MORIBUND",
           \A u \in Threads : joinTarget'[u] # t,
           ThreadsExact(state, current, waitQueue, joinTarget', detached, active, Free),
           EndJoined(t)
    PROVE  IInv' /\ SwitchOK
<1>1. /\ AttributesOK(suspendCounter, affinity, prio)
      /\ QueuedExactly(rq, state, suspendCounter, affinity)
  BY DEF IInv
<1>2. /\ state' = [state EXCEPT ![t] = "NONE"]
      /\ active' = [active EXCEPT ![t] = FALSE]
      /\ rq' = Dequeue(rq, t)
      /\ lock' = Free
      /\ UNCHANGED <<suspendCounter, affinity, prio, detached, waitQueue, current>>
  BY DEF EndJoined
<1>3. /\ state \in [Threads -> States] /\ active \in [Threads -> BOOLEAN]
      /\ detached \in [Threads -> BOOLEAN] /\ ActiveExact(state, active)
  BY DEF ThreadsExact, CoresExact, ActiveExact, JoinsExact
<1>4. /\ ActiveExact(state', active')
      /\ state' \in [Threads -> States] /\ state'[t] = "NONE"
      /\ \A u \in Threads \ {t} : state'[u] = state[u]
  BY <1>2, <1>3 DEF ActiveExact, States
<1>5. ThreadsExact(state', current, waitQueue, joinTarget', detached, active', Free)
  BY <1>3, <1>4, Restates
<1>6. QueuedExactly(rq', state', suspendCounter', affinity')
  <2>1. /\ RunnableCores(state', suspendCounter', affinity', t) = {}
        /\ \A u \in Threads \ {t} :
              rq.on[u] = RunnableCores(state', suspendCounter', affinity', u)
        /\ QueuesMatch(rq)
    BY <1>1, <1>2, <1>4 DEF QueuedExactly, RunnableCores
  <2> QED BY <2>1, <1>2, DequeueExact
<1> QED BY <1>1, <1>2, <1>5, <1>6 DEF IInv, SwitchOK

(***************************************************************************)
(* A joiner that runs again is on no queue, and whoever it joins is past its *)
(* end: the third possibility of JoinsExact would need the lock.           *)
(***************************************************************************)
LEMMA JoinerFindsMoribund ==
    ASSUME IInv PROVE JoinFindsMoribund
<1> DEFINE u == current[lock.core]
           t == joinTarget[u]
<1> SUFFICES ASSUME lock.kind = "join" PROVE state[t] = "MORIBUND" /\ ~ detached[t]
  BY DEF JoinFindsMoribund
<1> USE NoThreadAssumption
<1>1. /\ CoresExact(state, current) /\ WaitsExact(state, waitQueue)
      /\ JoinsExact(state, current, waitQueue, joinTarget, detached, lock)
      /\ LockExact(current, waitQueue, joinTarget, lock)
  BY DEF IInv, ThreadsExact
<1>2. lock.core \in Cores /\ u \in Threads /\ t \in Threads /\ t # NoThread
  BY <1>1, LockFields DEF LockExact, CoresExact, JoinsExact
<1>3. state[u] = "RUNNING"
  BY <1>1, <1>2 DEF CoresExact
<1>4. ~ (lock.kind = "wake")
  OBVIOUS
<1> HIDE DEF u
<1>5. u \notin ToSet(waitQueue[t])
  BY <1>1, <1>2, <1>3 DEF WaitsExact, QueueIds
<1> QED BY <1>1, <1>2, <1>4, <1>5 DEF JoinsExact

LEMMA JoinReturnExact ==
    ASSUME IInv, JoinReturn
    PROVE  IInv' /\ SwitchOK
<1> DEFINE u == current[lock.core]
           t == joinTarget[u]
           cur == current
           jt == joinTarget
<1> USE NoThreadAssumption
<1>1. /\ lock.kind = "join" /\ joinTarget' = [joinTarget EXCEPT ![u] = NoThread]
      /\ EndJoined(t)
  BY DEF JoinReturn
<1>2. /\ CoresExact(state, current) /\ WaitsExact(state, waitQueue) /\ ActiveExact(state, active)
      /\ JoinsExact(state, current, waitQueue, joinTarget, detached, lock)
      /\ LockExact(current, waitQueue, joinTarget, lock)
  BY DEF IInv, ThreadsExact
<1>3. lock.core \in Cores /\ u \in Threads /\ t \in Threads
  BY <1>1, <1>2, LockFields DEF LockExact, CoresExact, JoinsExact
<1>4. state[u] = "RUNNING"
  BY <1>2, <1>3 DEF CoresExact
<1>5. joinTarget \in [Threads -> Threads \cup {NoThread}]
  BY <1>2 DEF JoinsExact
<1>7. state[t] = "MORIBUND"
  BY <1>1, JoinerFindsMoribund DEF JoinFindsMoribund
<1> HIDE DEF u
<1>8. \A v \in Threads : joinTarget'[v] = IF v = u THEN NoThread ELSE joinTarget[v]
  BY <1>1, <1>5
<1>9. \A v \in Threads : joinTarget'[v] # t
  <2>1. \A v \in Threads : joinTarget[v] = t => v = u
    BY <1>2, <1>3 DEF JoinsExact
  <2> QED BY <2>1, <1>3, <1>8
<1>10. JoinsExact(state, current, waitQueue, joinTarget', detached, Free)
  <2>1. ASSUME NEW v \in Threads, joinTarget'[v] # NoThread
        PROVE  /\ state[v] \in {"WAITING", "READY"}
               /\ ~ detached[joinTarget'[v]]
               /\ \/ v \in ToSet(waitQueue[joinTarget'[v]])
                  \/ state[joinTarget'[v]] = "MORIBUND"
    <3>1. v # u /\ joinTarget'[v] = joinTarget[v]
      BY <2>1, <1>8
    <3>2. current[lock.core] = u
      BY DEF u
    <3> QED BY <3>1, <3>2, <2>1, <1>1, <1>2 DEF JoinsExact
  <2>2. \A id \in Threads : \A v \in ToSet(waitQueue[id]) : joinTarget'[v] = id
    <3>1. \A id \in Threads : \A v \in ToSet(waitQueue[id]) : v \in Threads /\ v # u
      <4>1. waitQueue \in [QueueIds -> Seq(Threads)] /\ Threads \subseteq QueueIds
        BY <1>2 DEF WaitsExact, QueueIds
      <4> QED BY <4>1, <1>2, <1>4, QueuedThreads DEF WaitsExact
    <3> QED BY <3>1, <1>2, <1>8 DEF JoinsExact
  <2>3. \A v, w \in Threads : joinTarget'[v] = joinTarget'[w] /\ joinTarget'[v] # NoThread => v = w
    BY <1>2, <1>8 DEF JoinsExact
  <2>4. joinTarget' \in [Threads -> Threads \cup {NoThread}]
    BY <1>1, <1>5
  <2> QED BY <2>1, <2>2, <2>3, <2>4, <1>2 DEF JoinsExact
<1>11. LockExact(current, waitQueue, joinTarget', Free)
  BY LockTypes DEF LockExact
<1>12. ThreadsExact(state, current, waitQueue, joinTarget', detached, active, Free)
  BY <1>2, <1>10, <1>11 DEF ThreadsExact
<1> HIDE DEF t
<1> QED BY <1>1, <1>3, <1>7, <1>9, <1>12, EndJoinedExact

(***************************************************************************)
(* Taking the lock for the loop of wakeupEntireWaitQueue.                  *)
(***************************************************************************)
LEMMA TakesLock ==
    ASSUME NEW st, NEW cur, NEW wq, NEW jt, NEW det, NEW act,
           ThreadsExact(st, cur, wq, jt, det, act, Free),
           NEW lk, lk.kind = "wake", LockExact(cur, wq, jt, lk)
    PROVE  ThreadsExact(st, cur, wq, jt, det, act, lk)
<1>1. JoinsExact(st, cur, wq, jt, det, Free)
  BY DEF ThreadsExact
<1>2. JoinsExact(st, cur, wq, jt, det, lk)
  BY <1>1, LockTypes DEF JoinsExact
<1> QED BY <1>2 DEF ThreadsExact

LEMMA OSExitThreadExact ==
    ASSUME IInv, NEW c \in Cores, OSExitThread(c)
    PROVE  IInv' /\ SwitchOK
<1> DEFINE lk == Waking(c, current[c], FALSE, TRUE)
<1>1. /\ lock = Free /\ lock' = lk /\ current[c] \in Threads
      /\ UNCHANGED <<state, attributes, waitQueue, joinTarget, rq, current>>
  BY DEF OSExitThread, InGuest, WakeupEntire, IInv, ThreadsExact, CoresExact
<1>2. lk \in LockStates /\ lk.kind = "wake" /\ lk.core = c /\ lk.queue = current[c] /\ lk.exit
  BY <1>1 DEF Waking, LockStates, QueueIds
<1> HIDE DEF lk
<1>3. LockExact(current, waitQueue, joinTarget, lk)
  BY <1>1, <1>2, NoThreadAssumption DEF LockExact
<1>4. ThreadsExact(state, current, waitQueue, joinTarget, detached, active, lk)
  BY <1>1, <1>2, <1>3, TakesLock DEF IInv
<1> QED BY <1>1, <1>4 DEF IInv, attributes, SwitchOK

LEMMA OSWakeupThreadExact ==
    ASSUME IInv, NEW c \in Cores, OSWakeupThread(c)
    PROVE  IInv' /\ SwitchOK
<1> DEFINE lk == Waking(c, SleepQueue, TRUE, FALSE)
<1>1. /\ lock = Free /\ lock' = lk /\ current[c] \in Threads
      /\ UNCHANGED <<state, attributes, waitQueue, joinTarget, rq, current>>
  BY DEF OSWakeupThread, InGuest, WakeupEntire, IInv, ThreadsExact, CoresExact
<1>2. lk \in LockStates /\ lk.kind = "wake" /\ lk.core = c /\ lk.queue = SleepQueue /\ ~ lk.exit
  BY DEF Waking, LockStates, QueueIds
<1> HIDE DEF lk
<1>3. LockExact(current, waitQueue, joinTarget, lk)
  BY <1>1, <1>2, NoThreadAssumption DEF LockExact
<1>4. ThreadsExact(state, current, waitQueue, joinTarget, detached, active, lk)
  BY <1>1, <1>2, <1>3, TakesLock DEF IInv
<1> QED BY <1>1, <1>4 DEF IInv, attributes, SwitchOK

LEMMA OSDetachThreadExact ==
    ASSUME JoinContract, IInv, NEW c \in Cores, NEW t \in Threads, OSDetachThread(c, t)
    PROVE  IInv' /\ SwitchOK
<1> DEFINE lk == Waking(c, t, TRUE, FALSE)
<1>1. /\ lock = Free /\ current[c] \in Threads /\ MayEnd(t)
      /\ UNCHANGED <<suspendCounter, affinity, prio, waitQueue, joinTarget, rq, current>>
      /\ detached' = [detached EXCEPT ![t] = TRUE]
      /\ AttributesOK(suspendCounter, affinity, prio)
      /\ QueuedExactly(rq, state, suspendCounter, affinity)
      /\ ThreadsExact(state, current, waitQueue, joinTarget, detached, active, Free)
  BY DEF OSDetachThread, InGuest, IInv, ThreadsExact, CoresExact
<1>2. (\A u \in Threads : joinTarget[u] # t) /\ waitQueue[t] = <<>>
  BY <1>1, NobodyJoins
<1>3. /\ detached' \in [Threads -> BOOLEAN]
      /\ \A u \in Threads \ {t} : detached'[u] = detached[u]
  BY <1>1 DEF ThreadsExact, JoinsExact
<1>4. CASE state[t] = "MORIBUND"
  <2>1. /\ state' = [state EXCEPT ![t] = "NONE"] /\ active' = [active EXCEPT ![t] = FALSE]
        /\ lock' = lk
    BY <1>4 DEF OSDetachThread, WakeupEntire
  <2>2. /\ ActiveExact(state', active')
        /\ state' \in [Threads -> States] /\ state'[t] = "NONE"
        /\ \A u \in Threads \ {t} : state'[u] = state[u]
    BY <1>1, <2>1 DEF ThreadsExact, ActiveExact, CoresExact, States
  <2>3. lk \in LockStates /\ lk.kind = "wake" /\ lk.core = c /\ lk.queue = t /\ ~ lk.exit
    BY DEF Waking, LockStates, QueueIds
  <2> HIDE DEF lk
  <2>4. ThreadsExact(state', current, waitQueue, joinTarget, detached', active', Free)
    <3>1. /\ ThreadsExact(state, current, waitQueue, joinTarget, detached, active, Free)
          /\ state[t] \in {"NONE", "MORIBUND"}
      BY <1>1, <1>4
    <3> QED BY <3>1, <1>2, <1>3, <2>2, Restates
  <2>5. LockExact(current, waitQueue, joinTarget, lk)
    BY <1>1, <1>2, <2>3, NoThreadAssumption DEF LockExact
  <2>6. ThreadsExact(state', current, waitQueue, joinTarget, detached', active', lk)
    BY <2>3, <2>4, <2>5, TakesLock
  <2>7. QueuedExactly(rq, state', suspendCounter, affinity)
    <3>1. \A u \in Threads : RunnableCores(state', suspendCounter, affinity, u)
                                 = RunnableCores(state, suspendCounter, affinity, u)
      BY <1>4, <2>2 DEF RunnableCores
    <3> QED BY <3>1, <1>1 DEF QueuedExactly
  <2> QED BY <1>1, <2>1, <2>6, <2>7 DEF IInv, SwitchOK
<1>5. CASE state[t] # "MORIBUND"
  <2>1. UNCHANGED <<state, active, lock>>
    BY <1>5 DEF OSDetachThread
  <2>2. JoinsExact(state, current, waitQueue, joinTarget, detached', Free)
    <3>1. JoinsExact(state, current, waitQueue, joinTarget, detached, Free)
      BY <1>1 DEF ThreadsExact
    <3>2. ASSUME NEW u \in Threads, joinTarget[u] # NoThread PROVE ~ detached'[joinTarget[u]]
      <4>1. joinTarget[u] \in Threads \ {t}
        BY <3>1, <3>2, <1>2 DEF JoinsExact
      <4> QED BY <4>1, <3>1, <3>2, <1>3 DEF JoinsExact
    <3> QED BY <3>1, <3>2, <1>3 DEF JoinsExact
  <2>3. ThreadsExact(state, current, waitQueue, joinTarget, detached', active, Free)
    BY <1>1, <2>2 DEF ThreadsExact
  <2> QED BY <1>1, <2>1, <2>3 DEF IInv, SwitchOK
<1> QED BY <1>4, <1>5

-----------------------------------------------------------------------------
(***************************************************************************)
(* One iteration of wakeupEntireWaitQueue.                                 *)
(***************************************************************************)
LEMMA WakeNextExact ==
    ASSUME IInv, WakeNext
    PROVE  IInv' /\ SwitchOK
<1> DEFINE id == lock.queue
           q == waitQueue[id]
           t == Head(q)
           b == lock.resched \/ (/\ lock.mayResched /\ suspendCounter[t] = 0
                                 /\ ShouldSwitchTo(lock.core, t))
<1>1. /\ lock.kind = "wake" /\ q # <<>>
      /\ UNCHANGED <<suspendCounter, affinity, prio, detached, active, joinTarget, current>>
      /\ state' = [state EXCEPT ![t] = "READY"]
      /\ waitQueue' = [waitQueue EXCEPT ![id] = Tail(q)]
      /\ rq' = Enqueue(rq, t, RunnableCores(state', suspendCounter, affinity, t))
      /\ lock' = [lock EXCEPT !.resched = b]
  BY DEF WakeNext, attributes
<1>2. /\ CoresExact(state, current) /\ WaitsExact(state, waitQueue) /\ ActiveExact(state, active)
      /\ JoinsExact(state, current, waitQueue, joinTarget, detached, lock)
      /\ LockExact(current, waitQueue, joinTarget, lock)
      /\ AttributesOK(suspendCounter, affinity, prio)
      /\ QueuedExactly(rq, state, suspendCounter, affinity)
  BY DEF IInv, ThreadsExact
<1>3. /\ lock.core \in Cores /\ id \in QueueIds /\ lock.exit \in BOOLEAN
      /\ lock.mayResched \in BOOLEAN /\ lock.resched \in BOOLEAN /\ lock \in LockStates
  BY <1>1, <1>2, LockFields DEF LockExact
<1>4. b \in BOOLEAN
  BY <1>3
<1> HIDE DEF b
<1>5. /\ lock' \in LockStates /\ lock'.kind = "wake" /\ lock'.core = lock.core
      /\ lock'.queue = id /\ lock'.exit = lock.exit
  BY <1>1, <1>3, <1>4 DEF LockStates, Free
<1>6. waitQueue \in [QueueIds -> Seq(Threads)] /\ q \in Seq(Threads) /\ NoDuplicates(q)
  BY <1>2, <1>3 DEF WaitsExact
<1>7. /\ t \in Threads /\ t \in ToSet(q) /\ Tail(q) \in Seq(Threads)
      /\ ToSet(Tail(q)) = ToSet(q) \ {t} /\ NoDuplicates(Tail(q))
  <2>1. t = q[1]
    BY <1>1, <1>6, HeadTailProperties
  <2> HIDE DEF q, t
  <2> QED BY <2>1, <1>1, <1>6, TailProperties
<1>8. state[t] = "WAITING"
  BY <1>2, <1>3, <1>7 DEF WaitsExact
<1>9. /\ state \in [Threads -> States] /\ state' \in [Threads -> States] /\ state'[t] = "READY"
      /\ \A u \in Threads \ {t} : state'[u] = state[u]
  BY <1>1, <1>2, <1>7 DEF CoresExact, States
<1>10. /\ waitQueue' \in [QueueIds -> Seq(Threads)]
       /\ \A i \in QueueIds : ToSet(waitQueue'[i]) =
              IF i = id THEN ToSet(waitQueue[i]) \ {t} ELSE ToSet(waitQueue[i])
       /\ \A i \in QueueIds : NoDuplicates(waitQueue'[i])
  BY <1>1, <1>2, <1>3, <1>6, <1>7 DEF WaitsExact
<1> HIDE DEF q, t
<1>11. QueuedExactly(rq', state', suspendCounter', affinity')
  <2>1. /\ \A u \in Threads \ {t} :
              rq.on[u] = RunnableCores(state', suspendCounter, affinity, u)
        /\ rq.on[t] = {} /\ QueuesMatch(rq)
    BY <1>2, <1>7, <1>8, <1>9 DEF QueuedExactly, RunnableCores
  <2>2. rq' = Enqueue(rq, t, RunnableCores(state', suspendCounter, affinity, t))
    BY <1>1
  <2>3. QueuedExactly(rq', state', suspendCounter, affinity)
    BY <1>2, <1>7, <2>1, <2>2, EnqueueExact
  <2> QED BY <2>3, <1>1
<1>12. CoresExact(state', current)
  BY <1>2, <1>7, <1>8, <1>9 DEF CoresExact
<1>13. WaitsExact(state', waitQueue')
  <2>1. \A i \in QueueIds : t \in ToSet(waitQueue[i]) => i = id
    BY <1>2, <1>3, <1>7 DEF WaitsExact, q
  <2>2. \A i \in QueueIds : ToSet(waitQueue[i]) \subseteq Threads
    BY <1>6, QueuedThreads
  <2>7. ASSUME NEW i \in QueueIds
        PROVE  ToSet(waitQueue'[i]) \subseteq ToSet(waitQueue[i]) /\ t \notin ToSet(waitQueue'[i])
    BY <1>10, <2>1
  <2>3. ASSUME NEW i \in QueueIds, NEW u \in ToSet(waitQueue'[i]) PROVE state'[u] = "WAITING"
    <3>1. u \in ToSet(waitQueue[i]) /\ u \in Threads \ {t}
      BY <2>2, <2>7
    <3>2. state[u] = "WAITING"
      BY <3>1, <1>2 DEF WaitsExact
    <3> QED BY <3>1, <3>2, <1>9
  <2>4. ASSUME NEW i \in QueueIds, NEW j \in QueueIds,
               NEW u \in ToSet(waitQueue'[i]) \cap ToSet(waitQueue'[j])
        PROVE  i = j
    <3>1. u \in ToSet(waitQueue[i]) \cap ToSet(waitQueue[j])
      BY <2>7
    <3> QED BY <3>1, <1>2 DEF WaitsExact
  <2>5. \A u \in Threads :
          state'[u] = "WAITING" => \E i \in QueueIds : u \in ToSet(waitQueue'[i])
    BY ZenonT(40), <1>2, <1>9, <1>10 DEF WaitsExact
  <2>6. \A u \in Threads : state'[u] = "MORIBUND" => waitQueue'[u] = <<>>
    <3> SUFFICES ASSUME NEW u \in Threads, state'[u] = "MORIBUND" PROVE waitQueue'[u] = <<>>
      OBVIOUS
    <3>1. u # t /\ waitQueue[u] = <<>>
      BY <1>2, <1>9 DEF WaitsExact
    <3>2. u # id
      BY <3>1, <1>1 DEF q
    <3> QED BY <3>1, <3>2, <1>1, <1>6 DEF QueueIds
  <2> QED BY <1>10, <2>3, <2>4, <2>5, <2>6 DEF WaitsExact
<1>14. id \in Threads => lock.exit
  BY <1>1, <1>2 DEF LockExact, q
<1>15. JoinsExact(state', current, waitQueue', joinTarget, detached, lock')
  <2>1. ASSUME NEW u \in Threads, joinTarget[u] # NoThread
        PROVE  /\ state'[u] \in {"WAITING", "READY"}
               /\ ~ detached[joinTarget[u]]
               /\ \/ u \in ToSet(waitQueue'[joinTarget[u]])
                  \/ state'[joinTarget[u]] = "MORIBUND"
                  \/ lock'.kind = "wake" /\ lock'.exit /\ lock'.queue = joinTarget[u]
    <3>1. /\ state[u] \in {"WAITING", "READY"}
          /\ ~ detached[joinTarget[u]]
          /\ \/ u \in ToSet(waitQueue[joinTarget[u]])
             \/ state[joinTarget[u]] = "MORIBUND"
             \/ lock.kind = "wake" /\ lock.exit /\ lock.queue = joinTarget[u]
          /\ joinTarget[u] \in Threads
      BY <2>1, <1>1, <1>2 DEF JoinsExact
    <3>2. state'[u] \in {"WAITING", "READY"}
      BY <3>1, <1>9
    <3>3. CASE u \in ToSet(waitQueue[joinTarget[u]])
      BY <3>1, <3>2, <3>3, <1>5, <1>10, <1>14 DEF QueueIds
    <3>4. CASE state[joinTarget[u]] = "MORIBUND"
      BY <3>1, <3>2, <3>4, <1>8, <1>9
    <3>5. CASE lock.kind = "wake" /\ lock.exit /\ lock.queue = joinTarget[u]
      BY <3>1, <3>2, <3>5, <1>5
    <3> QED BY <3>1, <3>3, <3>4, <3>5
  <2>2. \A i \in Threads : \A u \in ToSet(waitQueue'[i]) : joinTarget[u] = i
    <3>1. \A i \in Threads : \A u \in ToSet(waitQueue[i]) : joinTarget[u] = i
      BY <1>2 DEF JoinsExact
    <3>2. \A i \in Threads : ToSet(waitQueue'[i]) \subseteq ToSet(waitQueue[i])
      BY <1>10 DEF QueueIds
    <3> QED BY <3>1, <3>2
  <2> QED BY <1>2, <2>1, <2>2 DEF JoinsExact
<1>16. LockExact(current, waitQueue', joinTarget, lock')
  <2>1. ~ lock.exit => id \notin Threads
    BY <1>14
  <2> HIDE DEF id
  <2>2. lock'.kind # "free" /\ lock'.kind # "join"
    BY <1>5
  <2>3. current[lock.core] # NoThread /\ (lock.exit => id = current[lock.core])
    BY <1>1, <1>2 DEF LockExact, id
  <2> QED BY <2>1, <2>2, <2>3, <1>5 DEF LockExact
<1>17. ActiveExact(state', active)
  BY <1>2, <1>7, <1>8, <1>9 DEF ActiveExact
<1> QED BY <1>1, <1>2, <1>11, <1>12, <1>13, <1>15, <1>16, <1>17
        DEF IInv, ThreadsExact, SwitchOK

LEMMA WakeReturnExact ==
    ASSUME IInv, WakeReturn
    PROVE  IInv' /\ SwitchOK
<1> DEFINE c == lock.core
           cond == lock.resched
<1>1. /\ lock.kind = "wake" /\ ~ lock.exit
      /\ UNCHANGED <<suspendCounter, affinity, prio, detached, active, waitQueue, joinTarget>>
      /\ SwitchIf(cond, c, state, rq)
  BY DEF WakeReturn, attributes
<1>2. c \in Cores /\ current[c] # NoThread
  BY <1>1, LockFields DEF IInv, ThreadsExact, LockExact
<1>3. ThreadsExact(state, current, waitQueue, joinTarget, detached, active, Free)
  <2>1. JoinsExact(state, current, waitQueue, joinTarget, detached, Free)
    BY <1>1 DEF IInv, ThreadsExact, JoinsExact
  <2>2. LockExact(current, waitQueue, joinTarget, Free)
    BY LockTypes DEF LockExact
  <2> QED BY <2>1, <2>2 DEF IInv, ThreadsExact
<1>4. /\ AttributesOK(suspendCounter', affinity', prio')
      /\ QueuedExactly(rq, state, suspendCounter', affinity')
      /\ ThreadsExact(state, current, waitQueue', joinTarget', detached', active', Free)
  BY <1>1, <1>3 DEF IInv
<1> HIDE DEF c, cond
<1>5. SwitchIf(cond, c, state, rq)
  BY <1>1
<1> QED BY <1>2, <1>4, <1>5, SwitchIfExact DEF SwitchOK

(***************************************************************************)
(* The end of OSExitThread: the joiners have been woken and find a thread  *)
(* that is MORIBUND.                                                       *)
(***************************************************************************)
LEMMA ExitReturnExact ==
    ASSUME IInv, ExitReturn
    PROVE  IInv' /\ SwitchOK
<1> DEFINE c == lock.core
           t == current[c]
           st == [state EXCEPT ![t] = IF detached[t] THEN "NONE" ELSE "MORIBUND"]
           cur == NoneOn(c)
<1> USE NoThreadAssumption
<1>1. /\ lock.kind = "wake" /\ lock.exit /\ waitQueue[lock.queue] = <<>>
      /\ active' = [active EXCEPT ![t] = ~ detached[t]]
      /\ UNCHANGED <<suspendCounter, affinity, prio, detached, waitQueue, joinTarget>>
      /\ SwitchToNext(c, st, rq)
  BY DEF ExitReturn
<1>2. /\ CoresExact(state, current) /\ WaitsExact(state, waitQueue) /\ ActiveExact(state, active)
      /\ JoinsExact(state, current, waitQueue, joinTarget, detached, lock)
      /\ LockExact(current, waitQueue, joinTarget, lock)
      /\ AttributesOK(suspendCounter, affinity, prio)
      /\ QueuedExactly(rq, state, suspendCounter, affinity)
  BY DEF IInv, ThreadsExact
<1>3. c \in Cores /\ t \in Threads /\ lock.queue = t /\ waitQueue[t] = <<>>
  BY <1>1, <1>2, LockFields DEF LockExact, CoresExact
<1>4. state[t] = "RUNNING" /\ state \in [Threads -> States]
  BY <1>2, <1>3 DEF CoresExact
<1>5. /\ st \in [Threads -> States]
      /\ st[t] = IF detached[t] THEN "NONE" ELSE "MORIBUND"
      /\ \A u \in Threads \ {t} : st[u] = state[u]
  BY <1>3, <1>4 DEF States
<1>6. /\ current \in [Cores -> Threads \cup {NoThread}] /\ current[c] = t
      /\ cur \in [Cores -> Threads \cup {NoThread}]
      /\ \A d \in Cores : cur[d] = IF d = c THEN NoThread ELSE current[d]
  BY <1>2, <1>3 DEF CoresExact, NoneOn
<1>7. Left(st, t) = st
  BY <1>5 DEF Left
<1>8. ActiveExact(st, active')
  <2>1. active \in [Threads -> BOOLEAN] /\ detached \in [Threads -> BOOLEAN]
    BY <1>2 DEF ActiveExact, JoinsExact
  <2> HIDE DEF st, t
  <2>2. active' \in [Threads -> BOOLEAN] /\ active'[t] = ~ detached[t]
        /\ \A u \in Threads \ {t} : active'[u] = active[u]
    BY <2>1, <1>1, <1>3
  <2>3. active'[t] <=> st[t] # "NONE"
    BY <2>2, <1>5
  <2> QED BY <2>2, <2>3, <1>2, <1>5 DEF ActiveExact
<1> HIDE DEF st, cur, t
<1>9. CoresExact(st, cur)
  <2>1. \A u \in Threads : st[u] = "RUNNING" <=> \E d \in Cores : cur[d] = u
    BY <1>2, <1>3, <1>5, <1>6 DEF CoresExact
  <2>2. \A d, e \in Cores : cur[d] = cur[e] /\ cur[d] # NoThread => d = e
    BY <1>2, <1>6 DEF CoresExact
  <2> QED BY <1>5, <1>6, <2>1, <2>2 DEF CoresExact
<1>10. WaitsExact(st, waitQueue)
  <2>1. waitQueue \in [QueueIds -> Seq(Threads)]
    BY <1>2 DEF WaitsExact
  <2>2. \A id \in QueueIds : ToSet(waitQueue[id]) \subseteq Threads
    BY <2>1, QueuedThreads
  <2>3. \A id \in QueueIds : \A u \in ToSet(waitQueue[id]) : st[u] = "WAITING"
    BY <1>2, <1>4, <1>5, <2>2 DEF WaitsExact
  <2>4. \A u \in Threads :
          /\ st[u] = "WAITING" => state[u] = "WAITING"
          /\ st[u] = "MORIBUND" => state[u] = "MORIBUND" \/ u = t
    BY <1>5
  <2> QED BY <1>2, <1>3, <2>3, <2>4 DEF WaitsExact
<1>11. JoinsExact(st, cur, waitQueue, joinTarget, detached, Free)
  <2>1. ASSUME NEW u \in Threads, joinTarget[u] # NoThread
        PROVE  /\ st[u] \in {"WAITING", "READY"}
               /\ ~ detached[joinTarget[u]]
               /\ u \in ToSet(waitQueue[joinTarget[u]]) \/ st[joinTarget[u]] = "MORIBUND"
    <3>1. /\ state[u] \in {"WAITING", "READY"}
          /\ ~ detached[joinTarget[u]]
          /\ \/ u \in ToSet(waitQueue[joinTarget[u]])
             \/ state[joinTarget[u]] = "MORIBUND"
             \/ joinTarget[u] = t
          /\ joinTarget[u] \in Threads
      BY <2>1, <1>1, <1>2, <1>3 DEF JoinsExact
    <3> QED BY <3>1, <1>4, <1>5
  <2> QED BY <1>2, <2>1 DEF JoinsExact
<1>12. ThreadsExact(st, cur, waitQueue, joinTarget, detached, active', Free)
  <2>1. LockExact(cur, waitQueue, joinTarget, Free)
    BY LockTypes DEF LockExact
  <2> QED BY <2>1, <1>8, <1>9, <1>10, <1>11 DEF ThreadsExact
<1>13. QueuedExactly(rq, st, suspendCounter, affinity)
  <2>1. \A u \in Threads : RunnableCores(st, suspendCounter, affinity, u)
                               = RunnableCores(state, suspendCounter, affinity, u)
    BY <1>4, <1>5 DEF RunnableCores
  <2> QED BY <2>1, <1>2 DEF QueuedExactly
<1>14. /\ AttributesOK(suspendCounter', affinity', prio')
       /\ QueuedExactly(rq, st, suspendCounter', affinity')
       /\ ThreadsExact(Left(st, current[c]), NoneOn(c),
                       waitQueue', joinTarget', detached', active', Free)
  BY <1>1, <1>2, <1>6, <1>7, <1>12, <1>13 DEF cur
<1>15. SwitchToNext(c, st, rq) /\ current[c] # NoThread
  BY <1>1, <1>3, <1>6
<1> HIDE DEF c
<1> QED BY <1>3, <1>5, <1>6, <1>14, <1>15, SwitchToNextExact DEF SwitchOK

-----------------------------------------------------------------------------
(***************************************************************************)
(* The running thread goes to wait on queue id; when that is the join      *)
(* queue of a thread, it is the only one that joins that thread.           *)
(***************************************************************************)
GoesToWait(c, t, id, st, cur, wq, jt, st2, cur2, wq2, jt2) ==
    /\ c \in Cores /\ t \in Threads /\ cur[c] = t /\ id \in QueueIds
    /\ st2 \in [Threads -> States] /\ st2[t] = "WAITING"
    /\ \A u \in Threads \ {t} : st2[u] = st[u]
    /\ cur2 \in [Cores -> Threads \cup {NoThread}] /\ cur2[c] = NoThread
    /\ \A d \in Cores \ {c} : cur2[d] = cur[d]
    /\ wq2 \in [QueueIds -> Seq(Threads)] /\ NoDuplicates(wq2[id])
    /\ ToSet(wq2[id]) = ToSet(wq[id]) \cup {t}
    /\ \A i \in QueueIds \ {id} : wq2[i] = wq[i]
    /\ jt2 \in [Threads -> Threads \cup {NoThread}]
    /\ jt2[t] = IF id \in Threads THEN id ELSE NoThread
    /\ \A u \in Threads \ {t} : jt2[u] = jt[u]

MayBeJoined(st, jt, det, id, t) ==
    /\ ~ det[id] /\ st[id] # "MORIBUND" /\ id # t
    /\ \A u \in Threads : jt[u] # id

LEMMA Waits ==
    ASSUME NEW st, NEW cur, NEW wq, NEW jt, NEW det, NEW act,
           ThreadsExact(st, cur, wq, jt, det, act, Free),
           NEW c, NEW t, NEW id, id \in Threads => MayBeJoined(st, jt, det, id, t),
           NEW st2, NEW cur2, NEW wq2, NEW jt2,
           GoesToWait(c, t, id, st, cur, wq, jt, st2, cur2, wq2, jt2)
    PROVE  ThreadsExact(st2, cur2, wq2, jt2, det, act, Free)
<1> USE DEF GoesToWait, MayBeJoined
<1> USE NoThreadAssumption
<1>1. /\ CoresExact(st, cur) /\ WaitsExact(st, wq) /\ ActiveExact(st, act)
      /\ JoinsExact(st, cur, wq, jt, det, Free) /\ LockExact(cur, wq, jt, Free)
  BY DEF ThreadsExact
<1>2. st[t] = "RUNNING" /\ st \in [Threads -> States] /\ Threads \subseteq QueueIds
  BY <1>1 DEF CoresExact, QueueIds
<1>3. wq \in [QueueIds -> Seq(Threads)] /\ \A i \in QueueIds : ToSet(wq[i]) \subseteq Threads
  BY <1>1, QueuedThreads DEF WaitsExact
<1>4. \A i \in QueueIds : t \notin ToSet(wq[i])
  BY <1>1, <1>2 DEF WaitsExact
<1>5. CoresExact(st2, cur2)
  <2>1. ASSUME NEW u \in Threads PROVE st2[u] = "RUNNING" <=> \E d \in Cores : cur2[d] = u
    <3>1. CASE u = t
      <4>1. \A d \in Cores : cur2[d] # t
        BY <1>1 DEF CoresExact
      <4> QED BY <3>1, <4>1
    <3>2. CASE u # t
      <4>1. \A d \in Cores : cur2[d] = u <=> cur[d] = u
        BY <3>2
      <4>2. st[u] = "RUNNING" <=> \E d \in Cores : cur[d] = u
        BY <1>1 DEF CoresExact
      <4> QED BY <3>2, <4>1, <4>2
    <3> QED BY <3>1, <3>2
  <2>2. \A d, e \in Cores : cur2[d] = cur2[e] /\ cur2[d] # NoThread => d = e
    BY <1>1 DEF CoresExact
  <2> QED BY <2>1, <2>2 DEF CoresExact
<1>6. \A i \in QueueIds : ToSet(wq2[i]) = IF i = id THEN ToSet(wq[i]) \cup {t} ELSE ToSet(wq[i])
  OBVIOUS
<1>7. WaitsExact(st2, wq2)
  <2>1. \A i \in QueueIds : NoDuplicates(wq2[i])
    BY <1>1 DEF WaitsExact
  <2>2. ASSUME NEW i \in QueueIds, NEW u \in ToSet(wq2[i]) PROVE st2[u] = "WAITING"
    <3>1. CASE u = t
      BY <3>1
    <3>2. CASE u # t
      <4>1. u \in ToSet(wq[i]) /\ u \in Threads
        BY <3>2, <1>3, <1>6
      <4> QED BY <4>1, <3>2, <1>1 DEF WaitsExact
    <3> QED BY <3>1, <3>2
  <2>3. ASSUME NEW i \in QueueIds, NEW j \in QueueIds, NEW u \in ToSet(wq2[i]) \cap ToSet(wq2[j])
        PROVE  i = j
    <3>1. CASE u = t
      BY <3>1, <1>4, <1>6
    <3>2. CASE u # t
      <4>1. u \in ToSet(wq[i])
        BY <3>2, <1>6
      <4>2. u \in ToSet(wq[j])
        BY <3>2, <1>6
      <4> QED BY <4>1, <4>2, <1>1 DEF WaitsExact
    <3> QED BY <3>1, <3>2
  <2>4. ASSUME NEW u \in Threads, st2[u] = "WAITING"
        PROVE  \E i \in QueueIds : u \in ToSet(wq2[i])
    <3>1. CASE u = t
      BY <3>1, <1>6
    <3>2. CASE u # t
      <4>1. PICK i \in QueueIds : u \in ToSet(wq[i])
        BY <2>4, <3>2, <1>1 DEF WaitsExact
      <4> QED BY <4>1, <1>6
    <3> QED BY <3>1, <3>2
  <2>5. ASSUME NEW u \in Threads, st2[u] = "MORIBUND" PROVE wq2[u] = <<>>
    <3>1. u # t /\ st[u] = "MORIBUND" /\ u # id /\ u \in QueueIds
      BY <2>5, <1>2
    <3> QED BY <3>1, <1>1 DEF WaitsExact
  <2> QED BY <2>1, <2>2, <2>3, <2>4, <2>5 DEF WaitsExact
<1>8. JoinsExact(st2, cur2, wq2, jt2, det, Free)
  <2>1. ASSUME NEW u \in Threads, jt2[u] # NoThread
        PROVE  /\ st2[u] \in {"WAITING", "READY"}
               /\ ~ det[jt2[u]]
               /\ u \in ToSet(wq2[jt2[u]]) \/ st2[jt2[u]] = "MORIBUND"
    <3>1. CASE u = t
      BY <2>1, <3>1, <1>6
    <3>2. CASE u # t
      <4>1. /\ st[u] \in {"WAITING", "READY"}
            /\ ~ det[jt[u]]
            /\ u \in ToSet(wq[jt[u]]) \/ st[jt[u]] = "MORIBUND"
            /\ jt[u] \in Threads /\ jt2[u] = jt[u]
        BY <2>1, <3>2, <1>1, LockTypes DEF JoinsExact
      <4>2. ToSet(wq[jt[u]]) \subseteq ToSet(wq2[jt[u]])
        BY <4>1, <1>2, <1>6
      <4>3. st[jt[u]] = "MORIBUND" => st2[jt[u]] = "MORIBUND"
        BY <4>1, <1>2
      <4> QED BY <4>1, <4>2, <4>3, <3>2
    <3> QED BY <3>1, <3>2
  <2>2. ASSUME NEW i \in Threads, NEW u \in ToSet(wq2[i]) PROVE jt2[u] = i
    <3>1. CASE u = t
      BY <2>2, <3>1, <1>2, <1>4, <1>6
    <3>2. CASE u # t
      <4>1. u \in ToSet(wq[i]) /\ u \in Threads
        BY ZenonT(40), <2>2, <3>2, <1>2, <1>3, <1>6
      <4> QED BY <4>1, <3>2, <1>1 DEF JoinsExact
    <3> QED BY <3>1, <3>2
  <2>3. ASSUME NEW u \in Threads, NEW v \in Threads, jt2[u] = jt2[v], jt2[u] # NoThread
        PROVE  u = v
    <3>1. \A w \in Threads \ {t} : jt2[w] # jt2[t] \/ jt2[w] = NoThread
      OBVIOUS
    <3>2. CASE u = t \/ v = t
      BY <2>3, <3>1, <3>2
    <3>3. CASE u # t /\ v # t
      <4>1. jt[u] = jt[v] /\ jt[u] # NoThread
        BY <2>3, <3>3
      <4> QED BY <4>1, <1>1 DEF JoinsExact
    <3> QED BY <3>2, <3>3
  <2>4. det \in [Threads -> BOOLEAN]
    BY <1>1 DEF JoinsExact
  <2> QED BY <2>1, <2>2, <2>3, <2>4 DEF JoinsExact
<1>9. LockExact(cur2, wq2, jt2, Free)
  BY LockTypes DEF LockExact
<1>10. ActiveExact(st2, act)
  BY <1>1, <1>2 DEF ActiveExact
<1> QED BY <1>5, <1>7, <1>8, <1>9, <1>10 DEF ThreadsExact

LEMMA QueueAndWaitExact ==
    ASSUME IInv, NEW c \in Cores, InGuest(c), NEW id \in QueueIds,
           id \in Threads => MayBeJoined(state, joinTarget, detached, id, current[c]),
           joinTarget' = IF id \in Threads THEN [joinTarget EXCEPT ![current[c]] = id]
                                           ELSE joinTarget,
           UNCHANGED attributes,
           QueueAndWait(c, id)
    PROVE  IInv' /\ SwitchOK
<1> DEFINE t == current[c]
           st == [state EXCEPT ![t] = "WAITING"]
           cur == NoneOn(c)
           q == AddThreadByPriority(waitQueue[id], prio, t)
<1> USE NoThreadAssumption
<1>1. /\ lock = Free /\ UNCHANGED <<suspendCounter, affinity, prio, detached, active>>
      /\ waitQueue' = [waitQueue EXCEPT ![id] = q]
      /\ SwitchToNext(c, st, rq)
  BY DEF InGuest, QueueAndWait, attributes
<1>2. /\ CoresExact(state, current) /\ WaitsExact(state, waitQueue)
      /\ JoinsExact(state, current, waitQueue, joinTarget, detached, Free)
      /\ AttributesOK(suspendCounter, affinity, prio)
      /\ QueuedExactly(rq, state, suspendCounter, affinity)
      /\ ThreadsExact(state, current, waitQueue, joinTarget, detached, active, Free)
  BY <1>1 DEF IInv, ThreadsExact
<1>3. t \in Threads /\ state[t] = "RUNNING" /\ state \in [Threads -> States]
  BY <1>2 DEF InGuest, CoresExact
<1>4. st \in [Threads -> States] /\ st[t] = "WAITING" /\ \A u \in Threads \ {t} : st[u] = state[u]
  BY <1>3 DEF States
<1>5. /\ current \in [Cores -> Threads \cup {NoThread}] /\ current[c] = t
      /\ cur \in [Cores -> Threads \cup {NoThread}] /\ cur[c] = NoThread
      /\ \A d \in Cores \ {c} : cur[d] = current[d]
  BY <1>2 DEF CoresExact, NoneOn
<1>6. Left(st, t) = st
  BY <1>4 DEF Left
<1>7. /\ joinTarget \in [Threads -> Threads \cup {NoThread}]
      /\ joinTarget[t] = NoThread
  BY <1>2, <1>3, LockTypes DEF JoinsExact
<1> HIDE DEF st, cur, t
<1>8. /\ q \in Seq(Threads) /\ ToSet(q) = ToSet(waitQueue[id]) \cup {t} /\ NoDuplicates(q)
  <2>1. /\ waitQueue[id] \in Seq(Threads) /\ NoDuplicates(waitQueue[id])
        /\ t \notin ToSet(waitQueue[id])
    BY <1>2, <1>3 DEF WaitsExact
  <2>2. prio \in [Threads -> Int]
    BY <1>2, PrioritiesAssumption DEF AttributesOK
  <2> QED BY SMTT(30), <2>1, <2>2, <1>3, AddThreadByPriorityProperties
<1> HIDE DEF q
<1>9. /\ waitQueue' \in [QueueIds -> Seq(Threads)] /\ waitQueue'[id] = q
      /\ \A i \in QueueIds \ {id} : waitQueue'[i] = waitQueue[i]
  BY <1>1, <1>2, <1>8 DEF WaitsExact
<1>10. /\ joinTarget' \in [Threads -> Threads \cup {NoThread}]
       /\ joinTarget'[t] = IF id \in Threads THEN id ELSE NoThread
       /\ \A u \in Threads \ {t} : joinTarget'[u] = joinTarget[u]
  BY <1>3, <1>5, <1>7
<1>11. ThreadsExact(st, cur, waitQueue', joinTarget', detached, active, Free)
  <2>1. id \in Threads => MayBeJoined(state, joinTarget, detached, id, t)
    BY <1>5
  <2>2. ThreadsExact(state, current, waitQueue, joinTarget, detached, active, Free)
    BY <1>2
  <2>3. NoDuplicates(waitQueue'[id]) /\ ToSet(waitQueue'[id]) = ToSet(waitQueue[id]) \cup {t}
    BY <1>8, <1>9
  <2>4. GoesToWait(c, t, id, state, current, waitQueue, joinTarget,
                   st, cur, waitQueue', joinTarget')
    BY <2>3, <1>3, <1>4, <1>5, <1>9, <1>10 DEF GoesToWait
  <2> QED BY <2>1, <2>2, <2>4, Waits
<1>12. QueuedExactly(rq, st, suspendCounter, affinity)
  <2>1. \A u \in Threads : RunnableCores(st, suspendCounter, affinity, u)
                               = RunnableCores(state, suspendCounter, affinity, u)
    BY <1>3, <1>4 DEF RunnableCores
  <2> QED BY <2>1, <1>2 DEF QueuedExactly
<1>13. /\ AttributesOK(suspendCounter', affinity', prio')
       /\ QueuedExactly(rq, st, suspendCounter', affinity')
       /\ ThreadsExact(Left(st, current[c]), NoneOn(c),
                       waitQueue', joinTarget', detached', active', Free)
  BY <1>1, <1>2, <1>5, <1>6, <1>11, <1>12 DEF cur
<1>14. SwitchToNext(c, st, rq) /\ current[c] # NoThread
  BY <1>1, <1>3, <1>5
<1> QED BY <1>4, <1>5, <1>13, <1>14, SwitchToNextExact DEF SwitchOK

LEMMA OSSleepThreadExact ==
    ASSUME IInv, NEW c \in Cores, OSSleepThread(c)
    PROVE  IInv' /\ SwitchOK
<1>1. SleepQueue \in QueueIds /\ SleepQueue \notin Threads
  BY NoThreadAssumption DEF QueueIds
<1>2. /\ InGuest(c) /\ UNCHANGED attributes /\ joinTarget' = joinTarget
      /\ QueueAndWait(c, SleepQueue)
  BY DEF OSSleepThread
<1> QED BY <1>1, <1>2, QueueAndWaitExact

LEMMA OSJoinThreadExact ==
    ASSUME JoinContract, IInv, NEW c \in Cores, NEW t \in Threads, OSJoinThread(c, t)
    PROVE  IInv' /\ SwitchOK
<1>1. InGuest(c) /\ t # current[c] /\ MayEnd(t)
  BY DEF OSJoinThread
<1>2. \A u \in Threads : joinTarget[u] # t
  BY <1>1, NobodyJoins
<1>3. CASE /\ ~ detached[t] /\ state[t] # "MORIBUND"
           /\ joinTarget' = [joinTarget EXCEPT ![current[c]] = t]
           /\ UNCHANGED attributes
           /\ QueueAndWait(c, t)
  <2>1. t \in QueueIds
    BY DEF QueueIds
  <2>2. MayBeJoined(state, joinTarget, detached, t, current[c])
    BY <1>1, <1>2, <1>3 DEF MayBeJoined
  <2> QED BY <2>1, <2>2, <1>1, <1>3, QueueAndWaitExact
<1>4. CASE state[t] = "MORIBUND" /\ EndJoined(t) /\ UNCHANGED joinTarget
  <2>1. ThreadsExact(state, current, waitQueue, joinTarget, detached, active, Free)
    BY <1>1 DEF InGuest, IInv
  <2> QED BY <2>1, <1>2, <1>4, EndJoinedExact
<1> QED BY <1>3, <1>4 DEF OSJoinThread

-----------------------------------------------------------------------------
LEMMA InitExact ==
    ASSUME Init PROVE IInv
<1> DEFINE r == [queue |-> [c \in Cores |-> <<>>],
                 on    |-> [t \in Threads |-> {}],
                 count |-> [c \in Cores |-> 0]]
<1> USE NoThreadAssumption
<1>1. /\ affinity \in [Threads -> Affinities] /\ prio \in [Threads -> Priorities]
      /\ state = [t \in Threads |-> IF t = BootThread THEN "READY" ELSE "NONE"]
      /\ suspendCounter = [t \in Threads |-> 0]
      /\ detached = [t \in Threads |-> FALSE]
      /\ active = [t \in Threads |-> t = BootThread]
      /\ waitQueue = [id \in QueueIds |-> <<>>]
      /\ joinTarget = [t \in Threads |-> NoThread]
      /\ rq = Enqueue(r, BootThread, affinity[BootThread])
      /\ current = [c \in Cores |-> NoThread]
      /\ lock = Free
  BY DEF Init
<1>2. BootThread \in Threads
  BY CoresAssumption
<1>3. AttributesOK(suspendCounter, affinity, prio)
  BY <1>1, MaxSuspendAssumption DEF AttributesOK
<1>4. <<>> \in Seq(Threads) /\ ToSet(<<>>) = {} /\ NoDuplicates(<<>>) /\ Len(<<>>) = 0
  <2>1. <<>> \in Seq(Threads) /\ Len(<<>>) = 0 /\ DOMAIN <<>> = {}
    BY EmptySeq
  <2> QED BY <2>1 DEF ToSet, NoDuplicates
<1>5. QueuesMatch(r)
  <2>1. r \in RunQueueType
    BY <1>4 DEF RunQueueType
  <2>2. ASSUME NEW c \in Cores
        PROVE  r.queue[c] = <<>> /\ r.count[c] = 0 /\ {t \in Threads : c \in r.on[t]} = {}
    OBVIOUS
  <2> HIDE DEF r
  <2> QED BY <2>1, <2>2, <1>4 DEF QueuesMatch
<1>6. QueuedExactly(rq, state, suspendCounter, affinity)
  <2>1. RunnableCores(state, suspendCounter, affinity, BootThread) = affinity[BootThread]
    BY <1>1, <1>2 DEF RunnableCores
  <2>2. \A u \in Threads \ {BootThread} :
            r.on[u] = RunnableCores(state, suspendCounter, affinity, u)
    BY <1>1 DEF RunnableCores
  <2>3. r.on[BootThread] = {}
    BY <1>2
  <2> HIDE DEF r
  <2>4. rq = Enqueue(r, BootThread, RunnableCores(state, suspendCounter, affinity, BootThread))
    BY <1>1, <2>1
  <2>5. r.on[BootThread] \subseteq RunnableCores(state, suspendCounter, affinity, BootThread)
    BY <2>3
  <2> QED BY <1>2, <1>3, <1>5, <2>2, <2>4, <2>5, EnqueueExact
<1> HIDE DEF r
<1>7. CoresExact(state, current)
  BY <1>1, <1>2 DEF CoresExact, States
<1>8. WaitsExact(state, waitQueue)
  <2>1. \A id \in QueueIds : waitQueue[id] = <<>>
    BY <1>1
  <2>2. waitQueue \in [QueueIds -> Seq(Threads)]
    BY <1>1, <1>4
  <2>3. \A t \in Threads : state[t] # "WAITING" /\ t \in QueueIds
    BY <1>1 DEF QueueIds
  <2> QED BY <2>1, <2>2, <2>3, <1>4 DEF WaitsExact
<1>9. JoinsExact(state, current, waitQueue, joinTarget, detached, lock)
  <2>1. \A t \in Threads : ToSet(waitQueue[t]) = {}
    BY <1>1, <1>4 DEF QueueIds
  <2> QED BY <2>1, <1>1 DEF JoinsExact
<1>10. LockExact(current, waitQueue, joinTarget, lock)
  BY <1>1, LockTypes DEF LockExact
<1>11. ActiveExact(state, active)
  BY <1>1 DEF ActiveExact
<1> QED BY <1>3, <1>6, <1>7, <1>8, <1>9, <1>10, <1>11 DEF IInv, ThreadsExact

LEMMA StepExact ==
    ASSUME JoinContract, IInv, Next
    PROVE  IInv' /\ SwitchOK
<1>1. ASSUME NEW c \in Cores, GuestCall(c)
      PROVE  IInv' /\ SwitchOK
  <2>1. CASE OSExitThread(c)
    BY <2>1, OSExitThreadExact
  <2>2. CASE OSSleepThread(c)
    BY <2>2, OSSleepThreadExact
  <2>3. CASE OSWakeupThread(c)
    BY <2>3, OSWakeupThreadExact
  <2>4. ASSUME NEW t \in Threads, NEW aff \in Affinities, NEW p \in Priorities,
               NEW d \in BOOLEAN, OSCreateThread(c, t, aff, p, d)
        PROVE  IInv' /\ SwitchOK
    BY <2>4, OSCreateThreadExact
  <2>5. ASSUME NEW t \in Threads, OSRunThread(c, t)
        PROVE  IInv' /\ SwitchOK
    BY <2>5, OSRunThreadExact
  <2>6. ASSUME NEW t \in Threads, OSDetachThread(c, t)
        PROVE  IInv' /\ SwitchOK
    BY <2>6, OSDetachThreadExact
  <2>7. ASSUME NEW t \in Threads, OSJoinThread(c, t)
        PROVE  IInv' /\ SwitchOK
    BY <2>7, OSJoinThreadExact
  <2>8. ASSUME NEW t \in Threads, OSSuspendThread(c, t)
        PROVE  IInv' /\ SwitchOK
    BY <2>8, OSSuspendThreadExact
  <2>9. ASSUME NEW t \in Threads, OSResumeThread(c, t)
        PROVE  IInv' /\ SwitchOK
    <3>1. ResumeThread(c, t, 1) /\ 1 \in Nat
      BY <2>9 DEF OSResumeThread
    <3> QED BY <3>1, ResumeThreadExact
  <2>10. ASSUME NEW t \in Threads, OSContinueThread(c, t)
         PROVE  IInv' /\ SwitchOK
    <3>1. ResumeThread(c, t, suspendCounter[t])
      BY <2>10 DEF OSContinueThread
    <3>2. suspendCounter[t] \in Nat
      BY MaxSuspendAssumption DEF IInv, AttributesOK
    <3> QED BY <3>1, <3>2, ResumeThreadExact
  <2>11. ASSUME NEW t \in Threads, NEW mask \in Affinities, OSSetThreadAffinity(c, t, mask)
         PROVE  IInv' /\ SwitchOK
    BY <2>11, OSSetThreadAffinityExact
  <2>12. ASSUME NEW t \in Threads, NEW p \in Priorities, OSSetThreadPriority(c, t, p)
         PROVE  IInv' /\ SwitchOK
    BY <2>12, OSSetThreadPriorityExact
  <2> QED BY <1>1, <2>1, <2>2, <2>3, <2>4, <2>5, <2>6, <2>7, <2>8, <2>9, <2>10, <2>11, <2>12
          DEF GuestCall
<1>2. ASSUME NEW c \in Cores, TimesliceEnd(c)
      PROVE  IInv' /\ SwitchOK
  BY <1>2, TimesliceEndExact DEF SwitchOK
<1>3. ASSUME NEW c \in Cores, IdlePick(c)
      PROVE  IInv' /\ SwitchOK
  BY <1>3, IdlePickExact DEF SwitchOK
<1>4. CASE WakeNext
  BY <1>4, WakeNextExact
<1>5. CASE WakeReturn
  BY <1>5, WakeReturnExact
<1>6. CASE ExitReturn
  BY <1>6, ExitReturnExact
<1>7. CASE JoinReturn
  BY <1>7, JoinReturnExact
<1> QED BY <1>1, <1>2, <1>3, <1>4, <1>5, <1>6, <1>7 DEF Next

(***************************************************************************)
(* The inductive invariant holds in every reachable state of a guest that  *)
(* respects JoinContract.                                                  *)
(***************************************************************************)
THEOREM SchedulerInvariant ==
    ASSUME JoinContract PROVE Spec => []IInv
<1>1. Init => IInv
  BY InitExact
<1>2. IInv /\ [Next]_vars => IInv'
  <2>1. ASSUME IInv, UNCHANGED vars PROVE IInv'
    BY <2>1 DEF vars, IInv
  <2> QED BY <2>1, StepExact
<1> QED BY <1>1, <1>2, PTL DEF Spec

(***************************************************************************)
(* Type correctness of the scheduler.                                      *)
(***************************************************************************)
THEOREM SchedulerTypes ==
    ASSUME JoinContract PROVE Spec => []TypeOK
<1>1. IInv => TypeOK
  BY DEF IInv, AttributesOK, QueuedExactly, QueuesMatch, RunQueueType, ThreadsExact,
         CoresExact, WaitsExact, JoinsExact, LockExact, ActiveExact, TypeOK
<1> QED BY <1>1, SchedulerInvariant, PTL

(***************************************************************************)
(* A thread is on exactly the run queues it belongs on, once; nothing that *)
(* suspends, resumes, moves, queues or wakes threads can lose one.         *)
(***************************************************************************)
THEOREM NoThreadIsForgotten ==
    ASSUME JoinContract PROVE Spec => []RunQueuesExact
<1>1. IInv => RunQueuesExact
  BY DEF IInv, QueuedExactly, QueuesMatch, RunQueuesExact
<1> QED BY <1>1, SchedulerInvariant, PTL

(***************************************************************************)
(* No two cores ever run the same fiber.                                   *)
(***************************************************************************)
THEOREM OneCorePerThread ==
    ASSUME JoinContract PROVE Spec => []RunningIsCurrent
<1>1. IInv => RunningIsCurrent
  BY DEF IInv, ThreadsExact, CoresExact, RunningIsCurrent
<1> QED BY <1>1, SchedulerInvariant, PTL

(***************************************************************************)
(* A thread that waits is on exactly one queue, where a wakeup finds it.   *)
(***************************************************************************)
THEOREM WaitingThreadsCanBeWoken ==
    ASSUME JoinContract PROVE Spec => []WaitingIsQueued
<1>1. ASSUME IInv PROVE WaitingIsQueued
  <2>1. WaitsExact(state, waitQueue)
    BY <1>1 DEF IInv, ThreadsExact
  <2>2. ASSUME NEW t \in Threads
        PROVE  Cardinality({id \in QueueIds : t \in ToSet(waitQueue[id])}) =
                  IF state[t] = "WAITING" THEN 1 ELSE 0
    <3> DEFINE Where == {id \in QueueIds : t \in ToSet(waitQueue[id])}
    <3>1. CASE state[t] = "WAITING"
      <4>1. PICK id \in QueueIds : t \in ToSet(waitQueue[id])
        BY <2>1, <3>1 DEF WaitsExact
      <4>2. Where = {id}
        BY <2>1, <4>1 DEF WaitsExact
      <4>3. Cardinality(Where) = 1
        BY <4>2, FS_Singleton
      <4> QED BY <3>1, <4>3
    <3>2. CASE state[t] # "WAITING"
      <4>1. Where = {}
        BY <2>1, <3>2 DEF WaitsExact
      <4>2. Cardinality(Where) = 0
        BY <4>1, FS_EmptySet
      <4> QED BY <3>2, <4>2
    <3> QED BY <3>1, <3>2
  <2> QED BY <2>1, <2>2 DEF WaitsExact, WaitingIsQueued
<1> QED BY <1>1, SchedulerInvariant, PTL

(***************************************************************************)
(* The list of active threads never gets a thread twice nor loses one.     *)
(***************************************************************************)
THEOREM ActiveListIsRight ==
    ASSUME JoinContract PROVE Spec => []ActiveIffStarted
<1>1. IInv => ActiveIffStarted
  BY DEF IInv, ThreadsExact, ActiveExact, ActiveIffStarted
<1> QED BY <1>1, SchedulerInvariant, PTL

(***************************************************************************)
(* A thread that has ended has woken everyone who waits to join it.        *)
(***************************************************************************)
THEOREM NoJoinerIsForgotten ==
    ASSUME JoinContract PROVE Spec => []NoForgottenJoiner
<1>1. IInv => NoForgottenJoiner
  BY DEF IInv, ThreadsExact, WaitsExact, NoForgottenJoiner
<1> QED BY <1>1, SchedulerInvariant, PTL

(***************************************************************************)
(* OSJoinThread finds what it asserts behind its wait: a thread that has   *)
(* ended, is still attached and has not been deactivated.                  *)
(***************************************************************************)
THEOREM JoinersFindMoribund ==
    ASSUME JoinContract PROVE Spec => []JoinFindsMoribund
<1>1. IInv => JoinFindsMoribund
  BY JoinerFindsMoribund
<1> QED BY <1>1, SchedulerInvariant, PTL

(***************************************************************************)
(* A core that switches gets a thread that is not suspended and allows the *)
(* core.                                                                   *)
(***************************************************************************)
THEOREM SwitchesRespectSuspendAndAffinity ==
    ASSUME JoinContract PROVE Spec => SwitchRespectsSuspendAndAffinity
<1> DEFINE Runs(c) == current'[c] # NoThread =>
                         /\ suspendCounter'[current'[c]] = 0
                         /\ c \in affinity'[current'[c]]
           Respects == \A c \in Cores : TimesliceEnd(c) \/ current'[c] # current[c] => Runs(c)
<1>1. IInv /\ [Next]_vars => [Respects]_vars
  <2> SUFFICES ASSUME IInv, Next, NEW c \in Cores,
                      TimesliceEnd(c) \/ current'[c] # current[c]
               PROVE  Runs(c)
    OBVIOUS
  <2>1. CASE TimesliceEnd(c)
    BY <2>1, TimesliceEndExact DEF Switched
  <2>2. CASE current'[c] # current[c]
    BY <2>2, StepExact DEF SwitchOK, Switched
  <2> QED BY <2>1, <2>2
<1>2. (Spec => []IInv) => (Spec => [][Respects]_vars)
  BY <1>1, PTL DEF Spec
<1> QED BY <1>2, SchedulerInvariant DEF SwitchRespectsSuspendAndAffinity
=============================================================================

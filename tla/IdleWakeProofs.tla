--------------------------- MODULE IdleWakeProofs ---------------------------
(***************************************************************************)
(* Proofs about IdleWake for every number of cores and threads: the         *)
(* counters of the run queues are exact, and in multicore mode no core      *)
(* sleeps while a thread it could run is queued.  The single host of the    *)
(* other mode may, until its wait times out.                                *)
(***************************************************************************)
EXTENDS IdleWake, FiniteSetTheorems, TLAPS

Places == {"sample", "look", "guest", "decide", "asleep", "recheck",
           "events", "counter", "counterAsleep", "exit"}

\* TypeOK with a counter as any number; CountsExact bounds it.
Types ==
    /\ queued \subseteq Threads
    /\ current \in [Hosts -> Threads \cup {NoThread}]
    /\ count \in [Cores -> Nat]
    /\ unnotified \in BOOLEAN /\ active \in BOOLEAN /\ seqMoved \in BOOLEAN
    /\ pc \in [Hosts -> Places]
    /\ core \in [Hosts -> Cores]
    /\ ran \in BOOLEAN /\ spins \in 0..SpinBudget
    /\ ending \in [incremented : SUBSET Cores, notified : BOOLEAN]

\* A thread is queued once or runs on one host.
ThreadsInOnePlace ==
    /\ \A h \in Hosts : current[h] # NoThread <=> pc[h] = "guest"
    /\ \A h \in Hosts : current[h] \notin queued
    /\ \A g, h \in Hosts : current[g] = current[h] /\ current[g] # NoThread => g = h

SleepPlaces ==
    /\ \A h \in Hosts : pc[h] \in {"asleep", "recheck"} => h = Main
    /\ \A h \in Hosts : pc[h] = "counterAsleep" => count[h] = 0
    /\ pc[Main] = "asleep" => ~ seqMoved
    /\ Multicore => \A h \in Hosts : core[h] = h

\* What the main host saw of its queue still holds, or somebody has moved the
\* sequence number since it was sampled, or is about to.
LookIsFresh ==
    pc[Main] \in {"asleep", "recheck"} \/ (pc[Main] = "decide" /\ ~ ran) =>
        seqMoved \/ unnotified \/ On(core[Main]) = {}

\* SleepersHaveNothingToRun is about hosts asleep; the look that sent them to
\* sleep came steps before, which is what LookIsFresh carries across.
IdleInvariant == Types /\ CountsExact /\ ThreadsInOnePlace /\ SleepPlaces /\ LookIsFresh

(***************************************************************************)
(* Constants and the run queues                                            *)
(***************************************************************************)
LEMMA CoreNumbers ==
    /\ Cardinality(Cores) \in Nat \ {0} /\ 0 \in Cores
    /\ \A c \in Cores : NextCore(c) \in Cores
    /\ Hosts \subseteq Cores /\ Main \in Hosts
<1>1. Cardinality(Cores) \in Nat
  BY CoresAssumption, FS_CardinalityType
<1>2. Cardinality(Cores) # 0
  BY <1>1, CoresAssumption, ModeAssumption
<1>3. 0 \in Cores
  BY <1>1, <1>2, CoresAssumption
<1>4. ASSUME NEW c \in Cores PROVE NextCore(c) \in Cores
  <2> DEFINE k == Cardinality(Cores)
  <2>1. c \in Nat /\ k \in Nat \ {0}
    BY <1>1, <1>2, CoresAssumption
  <2> HIDE DEF k
  <2>2. (c + 1) % k \in 0 .. k - 1
    BY <2>1
  <2> QED
    BY <2>2, CoresAssumption DEF NextCore, k
<1> QED
  BY <1>1, <1>2, <1>3, <1>4, ModeAssumption DEF Hosts, Main

LEMMA OnIsFinite ==
    ASSUME Types, NEW c
    PROVE  IsFiniteSet(On(c)) /\ Cardinality(On(c)) \in Nat
<1>1. On(c) \subseteq Threads
  BY DEF On, Types
<1>2. IsFiniteSet(On(c))
  BY <1>1, ThreadsAssumption, FS_Subset
<1> QED
  BY <1>2, FS_CardinalityType

LEMMA OnAfterQueueing ==
    ASSUME Types, NEW t \in Threads \ queued, queued' = queued \cup {t}, NEW c
    PROVE  Cardinality(On(c)') = Cardinality(On(c)) + IF c \in Affinity[t] THEN 1 ELSE 0
<1>1. CASE c \in Affinity[t]
  <2>1. On(c)' = On(c) \cup {t} /\ t \notin On(c)
    BY <1>1 DEF On
  <2>2. Cardinality(On(c) \cup {t}) = Cardinality(On(c)) + 1
    BY <2>1, OnIsFinite, FS_AddElement
  <2> QED
    BY <1>1, <2>1, <2>2
<1>2. CASE c \notin Affinity[t]
  <2>1. On(c)' = On(c)
    BY <1>2 DEF On
  <2> QED
    BY <1>2, <2>1, OnIsFinite
<1> QED
  BY <1>1, <1>2

LEMMA OnAfterTaking ==
    ASSUME Types, NEW t \in queued, queued' = queued \ {t}, NEW c
    PROVE  /\ On(c)' \subseteq On(c)
           /\ c \in Affinity[t] => Cardinality(On(c)) >= 1
           /\ Cardinality(On(c)') = Cardinality(On(c)) - IF c \in Affinity[t] THEN 1 ELSE 0
<1>0. On(c)' \subseteq On(c)
  BY DEF On
<1>1. CASE c \in Affinity[t]
  <2>1. On(c)' = On(c) \ {t} /\ t \in On(c)
    BY <1>1 DEF On
  <2>2. Cardinality(On(c) \ {t}) = Cardinality(On(c)) - 1
    BY <2>1, OnIsFinite, FS_RemoveElement
  <2>3. IsFiniteSet(On(c) \ {t})
    BY OnIsFinite, FS_Subset
  <2>4. Cardinality(On(c) \ {t}) \in Nat
    BY <2>3, FS_CardinalityType
  <2> QED
    BY <1>0, <1>1, <2>1, <2>2, <2>4, OnIsFinite
<1>2. CASE c \notin Affinity[t]
  <2>1. On(c)' = On(c)
    BY <1>2 DEF On
  <2> QED
    BY <1>0, <1>2, <2>1, OnIsFinite
<1> QED
  BY <1>1, <1>2

LEMMA ZeroMeansEmpty ==
    ASSUME Types, CountsExact, NEW c \in Cores, count[c] = 0
    PROVE  On(c) = {}
<1>1. Cardinality(On(c)) = 0
  BY OnIsFinite DEF CountsExact
<1> QED
  BY <1>1, OnIsFinite, FS_EmptySet

LEMMA InitInvariant == Init => IdleInvariant
<1> SUFFICES ASSUME Init PROVE IdleInvariant
  OBVIOUS
<1> USE DEF Init
<1>1. Types
  <2>1. pc \in [Hosts -> Places] /\ current \in [Hosts -> Threads \cup {NoThread}]
    BY DEF Places
  <2>2. core \in [Hosts -> Cores] /\ count \in [Cores -> Nat]
    BY CoreNumbers
  <2>3. 0 \in 0..SpinBudget
    BY BoundAssumption
  <2> QED
    BY <2>1, <2>2, <2>3 DEF Types
<1>2. CountsExact
  BY FS_EmptySet DEF CountsExact, On
<1>3. ThreadsInOnePlace /\ SleepPlaces /\ LookIsFresh
  BY CoreNumbers DEF ThreadsInOnePlace, SleepPlaces, LookIsFresh
<1> QED
  BY <1>1, <1>2, <1>3 DEF IdleInvariant

(***************************************************************************)
(* Steps of a host that leave the run queues alone                          *)
(***************************************************************************)
LEMMA QueuesKept ==
    ASSUME IdleInvariant, UNCHANGED queues, UNCHANGED ending.incremented
    PROVE  CountsExact' /\ \A c : On(c)' = On(c)
<1>1. \A c : On(c)' = On(c)
  BY DEF On, queues
<1> QED
  BY <1>1 DEF IdleInvariant, CountsExact, queues

QuietStep(h) ==
    \/ Sample(h) \/ LookEmpty(h) \/ DecideToWait(h) \/ DecideNotToWait(h)
    \/ Recheck(h) \/ WaitTimesOut(h) \/ Events(h) \/ CounterWait(h)

LEMMA QuietFacts ==
    ASSUME Types, NEW h \in Hosts, QuietStep(h)
    PROVE  /\ UNCHANGED <<queued, current, count, unnotified, active, ending>>
           /\ \A g \in Hosts \ {h} : pc'[g] = pc[g] /\ core'[g] = core[g]
           /\ pc[h] # "guest" /\ pc'[h] # "guest" /\ pc' \in [Hosts -> Places]
           /\ core' \in [Hosts -> Cores] /\ (Multicore => core' = core)
           /\ (seqMoved' # seqMoved => pc'[h] = "look" /\ h = Main)
           /\ seqMoved' \in BOOLEAN /\ (h # Main => ran' = ran /\ seqMoved' = seqMoved)
<1> USE DEF Types, QuietStep, queues, loop, Goto, Places
<1>1. CASE Sample(h)
  BY <1>1 DEF Sample
<1>2. CASE LookEmpty(h)
  BY <1>2 DEF LookEmpty
<1>3. CASE DecideToWait(h)
  BY <1>3 DEF DecideToWait
<1>4. CASE DecideNotToWait(h)
  BY <1>4 DEF DecideNotToWait
<1>5. CASE Recheck(h) \/ WaitTimesOut(h)
  BY <1>5 DEF Recheck, WaitTimesOut
<1>6. CASE Events(h)
  BY <1>6, CoreNumbers DEF Events
<1>7. CASE CounterWait(h)
  BY <1>7 DEF CounterWait
<1> QED
  BY <1>1, <1>2, <1>3, <1>4, <1>5, <1>6, <1>7

LEMMA QuietTypes ==
    ASSUME Types, NEW h \in Hosts, QuietStep(h)
    PROVE  ran' \in BOOLEAN /\ spins' \in 0..SpinBudget
<1> USE BoundAssumption DEF Types, QuietStep
<1>1. CASE Sample(h) \/ LookEmpty(h) \/ Events(h) \/ CounterWait(h)
  BY <1>1 DEF Sample, LookEmpty, Events, CounterWait, loop
<1>2. CASE DecideToWait(h) \/ Recheck(h) \/ WaitTimesOut(h)
  BY <1>2 DEF DecideToWait, Recheck, WaitTimesOut
<1>3. CASE DecideNotToWait(h)
  BY <1>3 DEF DecideNotToWait
<1> QED
  BY <1>1, <1>2, <1>3

LEMMA QuietKeeps ==
    ASSUME IdleInvariant, NEW h \in Hosts, QuietStep(h)
    PROVE  IdleInvariant'
<1> USE DEF IdleInvariant
<1>1. /\ UNCHANGED <<queued, current, count, unnotified, active, ending>>
      /\ \A g \in Hosts \ {h} : pc'[g] = pc[g] /\ core'[g] = core[g]
      /\ pc[h] # "guest" /\ pc'[h] # "guest" /\ pc' \in [Hosts -> Places]
      /\ core' \in [Hosts -> Cores] /\ (Multicore => core' = core)
      /\ (seqMoved' # seqMoved => pc'[h] = "look" /\ h = Main)
      /\ seqMoved' \in BOOLEAN /\ (h # Main => ran' = ran /\ seqMoved' = seqMoved)
  BY QuietFacts
<1>2. Types'
  BY <1>1, QuietTypes DEF Types
<1>3. CountsExact' /\ \A c : On(c)' = On(c)
  BY <1>1, QueuesKept DEF queues
<1>4. ThreadsInOnePlace'
  BY <1>1 DEF ThreadsInOnePlace
<1>5. /\ pc'[h] \in {"asleep", "recheck"} => h = Main /\ ~ seqMoved /\ seqMoved' = seqMoved
      /\ pc'[h] = "counterAsleep" => count[h] = 0
  BY DEF QuietStep, Sample, LookEmpty, DecideToWait, DecideNotToWait, Recheck, WaitTimesOut, Events,
         CounterWait, Goto, Woken, Types, SleepPlaces
<1>6. SleepPlaces'
  <2>1. \A g \in Hosts : pc'[g] \in {"asleep", "recheck"} => g = Main
    BY <1>1, <1>5 DEF SleepPlaces
  <2>2. \A g \in Hosts : pc'[g] = "counterAsleep" => count'[g] = 0
    BY <1>1, <1>5 DEF SleepPlaces
  <2>3. pc'[Main] = "asleep" => ~ seqMoved'
    BY <1>1, <1>5, CoreNumbers DEF SleepPlaces
  <2>4. Multicore => \A g \in Hosts : core'[g] = g
    BY <1>1 DEF SleepPlaces
  <2> QED
    BY <2>1, <2>2, <2>3, <2>4 DEF SleepPlaces
<1>7. LookIsFresh'
  <2>1. CASE h # Main
    <3>1. UNCHANGED <<pc[Main], core[Main], ran, seqMoved, unnotified>>
      BY <1>1, <2>1, CoreNumbers
    <3> QED
      BY <1>3, <3>1 DEF LookIsFresh
  <2>2. CASE h = Main
    <3>1. CASE Sample(h) \/ Events(h) \/ CounterWait(h) \/ DecideNotToWait(h) \/ WaitTimesOut(h)
      <4>1. pc'[Main] \notin {"asleep", "recheck", "decide"}
        BY ZenonT(40), <2>2, <3>1, CoreNumbers DEF Sample, Events, CounterWait, DecideNotToWait, WaitTimesOut,
                                        Goto, Types, SleepPlaces
      <4> QED
        BY <4>1 DEF LookIsFresh
    <3>2. CASE LookEmpty(h)
      <4>1. On(core[h]) = {} /\ core' = core
        <5>1. core[h] \in Cores
          BY DEF Types
        <5> QED
          BY <3>2, <5>1, ZeroMeansEmpty DEF LookEmpty
      <4>2. On(core[Main])' = {}
        BY <1>3, <2>2, <4>1 DEF On
      <4> QED
        BY <4>2 DEF LookIsFresh
    <3>3. CASE DecideToWait(h) \/ Recheck(h)
      <4>1. UNCHANGED <<core, ran, seqMoved, unnotified>>
            /\ ((pc[Main] = "decide" /\ ~ ran) \/ pc[Main] = "recheck")
        BY <2>2, <3>3 DEF DecideToWait, Recheck
      <4>2. seqMoved \/ unnotified \/ On(core[Main]) = {}
        BY <4>1 DEF LookIsFresh
      <4>3. On(core[Main])' = On(core[Main])
        BY <1>3, <4>1
      <4> QED
        BY <4>1, <4>2, <4>3 DEF LookIsFresh
    <3> QED
      BY <3>1, <3>2, <3>3 DEF QuietStep
  <2> QED
    BY <2>1, <2>2
<1> QED
  BY <1>2, <1>3, <1>4, <1>6, <1>7

(***************************************************************************)
(* Steps that change the run queues                                        *)
(***************************************************************************)
\* Queueing t, the counters and the hosts that sleep on them: the common part
\* of Enqueue and SlicePreempted.
LEMMA QueueingKeepsCounts ==
    ASSUME Types, CountsExact, NEW t \in Threads \ queued, queued' = queued \cup {t},
           Increment(Affinity[t]), UNCHANGED ending.incremented
    PROVE  /\ CountsExact' /\ count' \in [Cores -> Nat]
           /\ \A c \in Cores : c \notin Affinity[t] => count'[c] = count[c]
<1>1. \A c \in Cores : count'[c] = count[c] + IF c \in Affinity[t] THEN 1 ELSE 0
  BY DEF Increment
<1>2. count' \in [Cores -> Nat]
  BY DEF Increment, Types
<1>3. ASSUME NEW c \in Cores
      PROVE  count'[c] = Cardinality(On(c)') + IF c \in ending'.incremented THEN 1 ELSE 0
  <2>1. Cardinality(On(c)') = Cardinality(On(c)) + IF c \in Affinity[t] THEN 1 ELSE 0
    BY OnAfterQueueing
  <2>2. count[c] = Cardinality(On(c)) + IF c \in ending.incremented THEN 1 ELSE 0
    BY DEF CountsExact
  <2> QED
    BY <1>1, <2>1, <2>2, OnIsFinite
<1>4. CountsExact'
  BY <1>3 DEF CountsExact
<1> QED
  BY <1>1, <1>2, <1>4 DEF Types

LEMMA EnqueueKeeps ==
    ASSUME IdleInvariant, NEW t \in Threads, Enqueue(t)
    PROVE  IdleInvariant'
<1> USE DEF IdleInvariant, Enqueue
<1>1. /\ t \notin queued /\ queued' = queued \cup {t} /\ unnotified'
      /\ UNCHANGED <<current, seqMoved, active, core, ran, spins, ending>>
  OBVIOUS
<1>0. /\ \A h \in Hosts : \/ pc'[h] = pc[h]
                          \/ pc'[h] = "counter" /\ pc[h] = "counterAsleep"
      /\ \A h \in Hosts : pc[h] = "counterAsleep" /\ h \in Affinity[t] => pc'[h] = "counter"
      /\ pc' \in [Hosts -> Places]
  BY DEF WokenByCounter, Types, Places, SleepPlaces
<1>2. CountsExact' /\ count' \in [Cores -> Nat]
      /\ \A c \in Cores : c \notin Affinity[t] => count'[c] = count[c]
  BY <1>1, QueueingKeepsCounts
<1>3. Types'
  BY <1>0, <1>1, <1>2 DEF Types
<1>4. ThreadsInOnePlace'
  <2>1. \A h \in Hosts : pc'[h] = "guest" <=> pc[h] = "guest"
    BY <1>0
  <2> QED
    BY <1>1, <2>1 DEF ThreadsInOnePlace
<1>5. SleepPlaces'
  <2>1. \A h \in Hosts : pc'[h] = "counterAsleep" => count'[h] = 0
    BY <1>0, <1>2, CoreNumbers DEF SleepPlaces
  <2> QED
    BY <1>0, <1>1, <2>1, CoreNumbers DEF SleepPlaces
<1>6. LookIsFresh'
  BY <1>1 DEF LookIsFresh
<1> QED
  BY <1>2, <1>3, <1>4, <1>5, <1>6

LEMMA LookFindsKeeps ==
    ASSUME IdleInvariant, NEW h \in Hosts, NEW t \in Threads, LookFinds(h, t)
    PROVE  IdleInvariant'
<1> USE DEF IdleInvariant, LookFinds
<1>1. /\ t \in queued /\ queued' = queued \ {t} /\ pc[h] = "look" /\ pc'[h] = "guest"
      /\ UNCHANGED <<unnotified, seqMoved, active, core, ran, spins, ending>>
      /\ \A g \in Hosts \ {h} : pc'[g] = pc[g] /\ current'[g] = current[g]
      /\ current'[h] = t /\ t # NoThread
      /\ \A c \in Cores : count'[c] = count[c] - IF c \in Affinity[t] THEN 1 ELSE 0
      /\ pc' \in [Hosts -> Places] /\ current' \in [Hosts -> Threads \cup {NoThread}]
      /\ count' = [c \in Cores |-> count'[c]]
  BY ThreadsAssumption DEF Take, On, Goto, Types, Places
<1>2. ASSUME NEW c \in Cores
      PROVE  /\ count'[c] = Cardinality(On(c)') + IF c \in ending'.incremented THEN 1 ELSE 0
             /\ count'[c] \in Nat /\ (count[c] = 0 => count'[c] = 0)
  <2>1. /\ c \in Affinity[t] => Cardinality(On(c)) >= 1
        /\ Cardinality(On(c)') = Cardinality(On(c)) - IF c \in Affinity[t] THEN 1 ELSE 0
    BY <1>1, OnAfterTaking
  <2>2. count[c] = Cardinality(On(c)) + IF c \in ending.incremented THEN 1 ELSE 0
    BY DEF CountsExact
  <2> QED
    BY <1>1, <2>1, <2>2, OnIsFinite
<1>3. CountsExact' /\ count' \in [Cores -> Nat]
  BY <1>1, <1>2 DEF CountsExact
<1>4. Types'
  BY <1>1, <1>3 DEF Types
<1>5. ThreadsInOnePlace'
  BY <1>1 DEF ThreadsInOnePlace
<1>6. SleepPlaces'
  BY <1>1, <1>2, CoreNumbers DEF SleepPlaces
<1>7. LookIsFresh'
  <2>1. On(core[Main])' \subseteq On(core[Main])
    BY <1>1 DEF On
  <2> QED
    BY <1>1, <2>1, CoreNumbers DEF LookIsFresh
<1> QED
  BY <1>3, <1>4, <1>5, <1>6, <1>7

LEMMA NotifyKeeps ==
    ASSUME IdleInvariant, NotifyRunQueueChanged
    PROVE  IdleInvariant'
<1> USE DEF IdleInvariant, NotifyRunQueueChanged
<1>1. /\ UNCHANGED <<queued, current, count, active, core, ran, spins, ending>>
      /\ seqMoved' /\ ~ unnotified'
      /\ \A h \in Hosts : pc'[h] = IF pc[h] = "asleep" THEN "recheck" ELSE pc[h]
      /\ pc' \in [Hosts -> Places]
  BY DEF WokenByNotify, Types, Places, queues
<1>2. CountsExact'
  BY <1>1, QueuesKept DEF queues
<1>3. Types' /\ ThreadsInOnePlace' /\ SleepPlaces' /\ LookIsFresh'
  BY <1>1, CoreNumbers DEF Types, ThreadsInOnePlace, SleepPlaces, LookIsFresh
<1> QED
  BY <1>2, <1>3

LEMMA AfterSliceIs == \A h, left : AfterSlice(h, left) \in {"exit", "decide", "look"}
BY DEF AfterSlice

LEMMA BlocksKeeps ==
    ASSUME IdleInvariant, NEW h \in Hosts, SliceBlocks(h)
    PROVE  IdleInvariant'
<1> USE DEF IdleInvariant, SliceBlocks, Leave
<1>1. /\ UNCHANGED <<queued, count, unnotified, seqMoved, active, core, spins, ending>>
      /\ pc[h] = "guest" /\ pc'[h] \in {"exit", "decide", "look"}
      /\ \A g \in Hosts \ {h} : pc'[g] = pc[g] /\ current'[g] = current[g]
      /\ current'[h] = NoThread /\ (h = Main => ran') /\ (h # Main => ran' = ran) /\ ran' \in BOOLEAN
      /\ pc' \in [Hosts -> Places] /\ current' \in [Hosts -> Threads \cup {NoThread}]
  BY AfterSliceIs DEF Goto, Types, Places
<1>2. CountsExact' /\ \A c : On(c)' = On(c)
  <2>1. \A c : On(c)' = On(c)
    BY <1>1 DEF On
  <2> QED
    BY <1>1, <2>1 DEF CountsExact
<1>3. Types' /\ ThreadsInOnePlace' /\ SleepPlaces'
  <2>1. Types'
    BY <1>1 DEF Types
  <2>2. \A g \in Hosts : /\ current'[g] = IF g = h THEN NoThread ELSE current[g]
                         /\ pc'[g] = "guest" <=> pc[g] = "guest" /\ g # h
    BY <1>1
  <2>3. ThreadsInOnePlace'
    <3>1. \A g \in Hosts : current'[g] # NoThread <=> pc'[g] = "guest"
      BY <2>2 DEF ThreadsInOnePlace
    <3>2. \A g \in Hosts : current'[g] \notin queued'
      BY <1>1, <2>2, ThreadsAssumption DEF ThreadsInOnePlace, Types
    <3> QED
      BY <2>2, <3>1, <3>2 DEF ThreadsInOnePlace
  <2>4. SleepPlaces'
    BY <1>1, CoreNumbers DEF SleepPlaces
  <2> QED
    BY <2>1, <2>3, <2>4
<1>4. LookIsFresh'
  <2>1. CASE h = Main
    BY <1>1, <2>1, CoreNumbers DEF LookIsFresh
  <2>2. CASE h # Main
    <3>1. UNCHANGED <<pc[Main], core[Main], ran, seqMoved, unnotified>>
      BY <1>1, <2>2, CoreNumbers
    <3> QED
      BY <1>2, <3>1 DEF LookIsFresh
  <2> QED
    BY <2>1, <2>2
<1> QED
  BY <1>2, <1>3, <1>4

LEMMA PreemptedKeeps ==
    ASSUME IdleInvariant, NEW h \in Hosts, SlicePreempted(h)
    PROVE  IdleInvariant'
<1> USE DEF IdleInvariant, SlicePreempted, Leave
<1> DEFINE t == current[h]
<1>1. /\ t \in Threads \ queued /\ queued' = queued \cup {t} /\ pc[h] = "guest"
      /\ \A g \in Hosts \ {h} : current[g] # t
      /\ UNCHANGED <<unnotified, active, core, spins, ending>> /\ seqMoved'
      /\ \A g \in Hosts \ {h} : current'[g] = current[g]
      /\ current'[h] = NoThread /\ ran' \in BOOLEAN
      /\ current' \in [Hosts -> Threads \cup {NoThread}]
      /\ Increment(Affinity[t])
  BY DEF ThreadsInOnePlace, Types
<1>2. /\ pc'[h] \in {"exit", "decide", "look"} /\ pc' \in [Hosts -> Places]
      /\ \A g \in Hosts \ {h} : \/ pc'[g] = pc[g] /\ pc[g] # "asleep"
                                \/ pc'[g] = "recheck" /\ pc[g] = "asleep"
                                \/ pc'[g] = "counter" /\ pc[g] = "counterAsleep"
      /\ \A g \in Hosts \ {h} : pc[g] = "counterAsleep" /\ g \in Affinity[t] => pc'[g] = "counter"
  BY AfterSliceIs DEF WokenByNotify, WokenByCounter, Types, Places, SleepPlaces
<1> HIDE DEF t
<1>3. CountsExact' /\ count' \in [Cores -> Nat]
      /\ \A c \in Cores : c \notin Affinity[t] => count'[c] = count[c]
  BY <1>1, QueueingKeepsCounts
<1>4. Types'
  BY <1>1, <1>2, <1>3 DEF Types
<1>5. ThreadsInOnePlace'
  <2>1. \A g \in Hosts : /\ current'[g] = IF g = h THEN NoThread ELSE current[g]
                         /\ pc'[g] = "guest" <=> pc[g] = "guest" /\ g # h
    BY <1>1, <1>2
  <2>2. \A g \in Hosts : current'[g] # NoThread <=> pc'[g] = "guest"
    BY <2>1 DEF ThreadsInOnePlace
  <2>3. \A g \in Hosts : current'[g] \notin queued'
    BY <1>1, <2>1, ThreadsAssumption DEF ThreadsInOnePlace, Types
  <2> QED
    BY <2>1, <2>2, <2>3 DEF ThreadsInOnePlace
<1>6. SleepPlaces'
  <2>1. \A g \in Hosts : pc'[g] = "counterAsleep" => count'[g] = 0
    BY <1>2, <1>3, CoreNumbers DEF SleepPlaces
  <2>2. \A g \in Hosts : pc'[g] # "asleep"
    BY <1>2
  <2> QED
    BY <1>1, <1>2, <2>1, <2>2, CoreNumbers DEF SleepPlaces
<1>7. LookIsFresh'
  BY <1>1 DEF LookIsFresh
<1> QED
  BY <1>3, <1>4, <1>5, <1>6, <1>7

(***************************************************************************)
(* The end of the scheduler                                                *)
(***************************************************************************)
LEMMA EndBeginsKeeps ==
    ASSUME IdleInvariant, EndBegins
    PROVE  IdleInvariant'
<1> USE DEF IdleInvariant, EndBegins
<1>1. UNCHANGED <<queued, current, count, unnotified, seqMoved, pc, core, ran, spins, ending>>
      /\ active' \in BOOLEAN
  BY DEF queues, loop
<1>2. CountsExact'
  BY <1>1, QueuesKept DEF queues
<1>3. On(core[Main])' = On(core[Main])
  BY <1>1 DEF On
<1> QED
  BY <1>1, <1>2, <1>3 DEF Types, ThreadsInOnePlace, SleepPlaces, LookIsFresh

LEMMA EndIncrementsKeeps ==
    ASSUME IdleInvariant, NEW c \in Cores, EndIncrements(c)
    PROVE  IdleInvariant'
<1> USE DEF IdleInvariant, EndIncrements
<1>1. /\ UNCHANGED <<queued, current, unnotified, seqMoved, active, core, ran, spins>>
      /\ \A d \in Cores : count'[d] = count[d] + IF d = c THEN 1 ELSE 0
      /\ count' \in [Cores -> Nat]
      /\ ending' \in [incremented : SUBSET Cores, notified : BOOLEAN]
      /\ ending'.incremented = ending.incremented \cup {c} /\ c \notin ending.incremented
  BY DEF Increment, Types
<1>2. /\ \A h \in Hosts : \/ pc'[h] = pc[h]
                          \/ pc'[h] = "counter" /\ pc[h] = "counterAsleep"
      /\ \A h \in Hosts : pc[h] = "counterAsleep" /\ h = c => pc'[h] = "counter"
      /\ pc' \in [Hosts -> Places]
  BY DEF WokenByCounter, Types, Places, SleepPlaces
<1>3. \A d : On(d)' = On(d)
  BY <1>1 DEF On
<1>4. CountsExact'
  <2>1. ASSUME NEW d \in Cores
        PROVE  count'[d] = Cardinality(On(d)') + IF d \in ending'.incremented THEN 1 ELSE 0
    <3>1. count[d] = Cardinality(On(d)) + IF d \in ending.incremented THEN 1 ELSE 0
      BY DEF CountsExact
    <3>2. Cardinality(On(d)) \in Nat /\ Cardinality(On(d)') = Cardinality(On(d))
      BY <1>3, OnIsFinite
    <3>3. CASE d = c
      BY <1>1, <3>1, <3>2, <3>3
    <3>4. CASE d # c
      BY <1>1, <3>1, <3>2, <3>4
    <3> QED
      BY <3>3, <3>4
  <2> QED
    BY <2>1 DEF CountsExact
<1>5. Types'
  BY <1>1, <1>2 DEF Types
<1>6. ThreadsInOnePlace'
  <2>1. \A h \in Hosts : pc'[h] = "guest" <=> pc[h] = "guest"
    BY <1>2
  <2> QED
    BY ZenonT(40), <1>1, <2>1 DEF ThreadsInOnePlace
<1>7. SleepPlaces'
  <2>1. ASSUME NEW h \in Hosts, pc'[h] = "counterAsleep" PROVE count'[h] = 0
    <3>1. pc[h] = "counterAsleep" /\ h # c
      BY <1>2, <2>1
    <3>2. count[h] = 0 /\ h \in Cores
      BY <3>1, CoreNumbers DEF SleepPlaces
    <3> QED
      BY <1>1, <3>1, <3>2
  <2>2. \A h \in Hosts : pc'[h] \in {"asleep", "recheck"} => h = Main /\ pc'[h] = pc[h]
    BY <1>2 DEF SleepPlaces
  <2>3. pc'[Main] = "asleep" => ~ seqMoved'
    BY <1>1, <2>2, CoreNumbers DEF SleepPlaces
  <2>4. Multicore => \A h \in Hosts : core'[h] = h
    BY <1>1 DEF SleepPlaces
  <2> QED
    BY <2>1, <2>2, <2>3, <2>4 DEF SleepPlaces
<1>8. LookIsFresh'
  <2>1. pc'[Main] \in {"asleep", "recheck", "decide"} => pc[Main] = pc'[Main]
    BY <1>2, CoreNumbers
  <2> QED
    BY <1>1, <1>3, <2>1 DEF LookIsFresh
<1> QED
  BY <1>4, <1>5, <1>6, <1>7, <1>8

LEMMA EndNotifiesKeeps ==
    ASSUME IdleInvariant, EndNotifies
    PROVE  IdleInvariant'
<1> USE DEF IdleInvariant, EndNotifies
<1>1. /\ UNCHANGED <<queued, current, count, unnotified, active, core, ran, spins>>
      /\ seqMoved' /\ ending' \in [incremented : SUBSET Cores, notified : BOOLEAN]
      /\ ending'.incremented = ending.incremented
      /\ \A h \in Hosts : pc'[h] = IF pc[h] = "asleep" THEN "recheck" ELSE pc[h]
      /\ pc' \in [Hosts -> Places]
  BY DEF WokenByNotify, Types, Places, queues
<1>2. CountsExact'
  BY <1>1, QueuesKept DEF queues
<1>3. Types' /\ ThreadsInOnePlace' /\ SleepPlaces' /\ LookIsFresh'
  BY <1>1, CoreNumbers DEF Types, ThreadsInOnePlace, SleepPlaces, LookIsFresh
<1> QED
  BY <1>2, <1>3

LEMMA RestartKeeps ==
    ASSUME IdleInvariant, EndsAndRestarts
    PROVE  IdleInvariant'
<1> USE DEF IdleInvariant, EndsAndRestarts
<1>1. /\ queued' = {} /\ current' = current /\ UNCHANGED <<unnotified, seqMoved>> /\ active'
      /\ ending' = [incremented |-> {}, notified |-> FALSE]
      /\ ~ ran' /\ spins' = 0
      /\ \A h \in Hosts : pc[h] = "exit" /\ pc'[h] = "sample" /\ core'[h] = h
      /\ count' \in [Cores -> Nat] /\ \A c \in Cores : count'[c] = 0
      /\ pc' \in [Hosts -> Places] /\ core' \in [Hosts -> Cores]
  BY CoreNumbers DEF Joined, Places
<1>2. Types'
  <2>1. 0 \in 0..SpinBudget
    BY BoundAssumption
  <2>2. active' \in BOOLEAN /\ ran' \in BOOLEAN
    OBVIOUS
  <2> QED
    BY <1>1, <2>1, <2>2 DEF Types
<1>3. CountsExact'
  <2>1. \A c : Cardinality(On(c)') = 0
    BY <1>1, FS_EmptySet DEF On
  <2> QED
    BY <1>1, <2>1 DEF CountsExact
<1>4. ThreadsInOnePlace' /\ SleepPlaces' /\ LookIsFresh'
  BY <1>1, CoreNumbers DEF ThreadsInOnePlace, SleepPlaces, LookIsFresh
<1> QED
  BY <1>2, <1>3, <1>4

LEMMA StutterKeeps ==
    ASSUME IdleInvariant, UNCHANGED vars
    PROVE  IdleInvariant'
<1>1. \A c : On(c)' = On(c)
  BY DEF On, vars, queues
<1> QED
  BY <1>1 DEF IdleInvariant, vars, queues, loop, Types, CountsExact, ThreadsInOnePlace, SleepPlaces,
              LookIsFresh

-----------------------------------------------------------------------------
(***************************************************************************)
(* The inductive invariant holds in every behaviour: the counters match    *)
(* the queues, a thread is in one place, and what the main host saw of its *)
(* queue is true or known to be out of date.                               *)
(***************************************************************************)
THEOREM IdleInvariantHolds == Spec => []IdleInvariant
<1>1. Init => IdleInvariant
  BY InitInvariant
<1>2. IdleInvariant /\ [Next]_vars => IdleInvariant'
  <2> SUFFICES ASSUME IdleInvariant, [Next]_vars PROVE IdleInvariant'
    OBVIOUS
  <2>1. CASE \E h \in Hosts : HostNext(h) \/ WaitTimesOut(h)
    <3> PICK h \in Hosts : HostNext(h) \/ WaitTimesOut(h)
      BY <2>1
    <3>1. CASE QuietStep(h)
      BY <3>1, QuietKeeps
    <3>2. CASE SliceBlocks(h)
      BY <3>2, BlocksKeeps
    <3>3. CASE SlicePreempted(h)
      BY <3>3, PreemptedKeeps
    <3>4. CASE \E t \in Threads : LookFinds(h, t)
      BY <3>4, LookFindsKeeps
    <3> QED
      BY <3>1, <3>2, <3>3, <3>4 DEF HostNext, QuietStep
  <2>2. CASE \E t \in Threads : Enqueue(t)
    BY <2>2, EnqueueKeeps
  <2>3. CASE NotifyRunQueueChanged
    BY <2>3, NotifyKeeps
  <2>4. CASE EndBegins
    BY <2>4, EndBeginsKeeps
  <2>5. CASE EndNext
    BY <2>5, EndIncrementsKeeps, EndNotifiesKeeps, RestartKeeps DEF EndNext
  <2>6. CASE UNCHANGED vars
    BY <2>6, StutterKeeps
  <2> QED
    BY <2>1, <2>2, <2>3, <2>4, <2>5, <2>6 DEF Next
<1> QED
  BY <1>1, <1>2, PTL DEF Spec

(***************************************************************************)
(* The counter of a core is the number of threads queued for it plus the   *)
(* increment of OSSchedulerEnd, also in a title that starts later          *)
(* (__OSAddReadyThreadToRunQueue, OSSchedulerEnd).                         *)
(***************************************************************************)
THEOREM CountersAreExact == Spec => []CountsExact
<1>1. IdleInvariant => CountsExact
  BY DEF IdleInvariant
<1> QED
  BY <1>1, IdleInvariantHolds, PTL

(***************************************************************************)
(* Every variable has its type; a counter never passes the number of       *)
(* threads by more than the increment of OSSchedulerEnd.                   *)
(***************************************************************************)
THEOREM TypeCorrect == Spec => []TypeOK
<1>1. IdleInvariant => TypeOK
  <2> SUFFICES ASSUME IdleInvariant PROVE TypeOK
    OBVIOUS
  <2>1. ASSUME NEW c \in Cores PROVE count[c] \in 0..(Cardinality(Threads) + 1)
    <3>1. On(c) \subseteq Threads
      BY DEF On, IdleInvariant, Types
    <3>2. Cardinality(On(c)) <= Cardinality(Threads) /\ Cardinality(Threads) \in Nat
      BY <3>1, ThreadsAssumption, FS_Subset, FS_CardinalityType
    <3>3. Cardinality(On(c)) \in Nat
      BY OnIsFinite DEF IdleInvariant
    <3>4. count[c] = Cardinality(On(c)) + IF c \in ending.incremented THEN 1 ELSE 0
      BY DEF IdleInvariant, CountsExact
    <3> QED
      BY <3>2, <3>3, <3>4
  <2>2. count \in [Cores -> 0..(Cardinality(Threads) + 1)]
    BY <2>1 DEF IdleInvariant, Types
  <2> QED
    BY <2>2 DEF TypeOK, IdleInvariant, Types, Places
<1> QED
  BY <1>1, IdleInvariantHolds, PTL

(***************************************************************************)
(* In multicore mode no host thread sleeps while a thread is queued for    *)
(* its core and the notification is out: neither the main one between its  *)
(* look and its wait (g_idleWakeSeq), nor another on its counter.          *)
(***************************************************************************)
THEOREM NobodySleepsThroughWork ==
    ASSUME Multicore
    PROVE  Spec => []SleepersHaveNothingToRun
<1>1. IdleInvariant => SleepersHaveNothingToRun
  <2> SUFFICES ASSUME IdleInvariant, ~ unnotified, NEW h \in Hosts,
                      pc[h] \in {"asleep", "counterAsleep"}
               PROVE  On(h) = {}
    BY DEF SleepersHaveNothingToRun, Serves
  <2> USE DEF IdleInvariant
  <2>1. CASE pc[h] = "asleep"
    <3>1. h = Main /\ ~ seqMoved /\ core[Main] = Main
      BY <2>1, CoreNumbers DEF SleepPlaces
    <3> QED
      BY <2>1, <3>1 DEF LookIsFresh
  <2>2. CASE pc[h] = "counterAsleep"
    BY <2>2, ZeroMeansEmpty, CoreNumbers DEF SleepPlaces
  <2> QED
    BY <2>1, <2>2
<1> QED
  BY <1>1, IdleInvariantHolds, PTL
=============================================================================

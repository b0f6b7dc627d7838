-------------------------- MODULE RecompilerProofs --------------------------
(***************************************************************************)
(* Proofs about Recompiler: with one translation at a time the jump table   *)
(* never leads to stale code, for every number of cores and every layout of *)
(* the functions.  MCRecompilerStale.cfg shows what a second worker does.   *)
(*                                                                         *)
(* After them: proofs about JITArena, for an arena of any size and any      *)
(* sizes asked for.  No byte is handed out twice, free ranges that touch    *)
(* are merged, the assertions of release hold, and JITArena implements      *)
(* Arena.                                                                   *)
(***************************************************************************)
EXTENDS Recompiler, JITArena, FiniteSetTheorems, WellFoundedInduction, TLAPS

\* At most one translation at a time: the mutex of the synchronous mode, or a
\* pool of one thread.
OneCompiler == FALSE \notin Builds \/ \A v, w \in Workers : v = w

Translating == {t \in Threads : pc[t] \in {"translate", "translated"}}

TranslatorIsAlone ==
    IF sync THEN /\ \A w \in Workers : At(w, "off")
                 /\ \A t \in Translating : single = t
            ELSE /\ \A c \in Cores : pc[c] \in {"run", "notify"}

\* The cores have left their translations when the pool is stopped.
CoresAreJoined == host # "run" => \A c \in Cores : At(c, "run")

OldIsInside == /\ \A f \in store : f.old \subseteq Spans(f)
               /\ \A t \in Threads : job[t].old \subseteq Spans(job[t])

\* What was rewritten under a translation in progress is still to be announced,
\* or is among the ranges that its end looks at.
JobsAreMarked ==
    \A t \in Threads : At(t, "translated") => job[t].old \subseteq Unannounced \cup invalidated

EntriesAreInside == \A a \in DOMAIN code : a \in Spans(code[a])

FreshStore == \A f \in store : f.old \subseteq Unannounced

\* NoStaleCode is not inductive: why a range can be forgotten once a function is
\* active is a matter of the other translations, of which there are none.
RecompilerInvariant ==
    /\ TypeOK /\ TranslatorIsAlone /\ CoresAreJoined
    /\ OldIsInside /\ EntriesAreInside /\ JobsAreMarked /\ FreshStore /\ CodeIsRegistered

LEMMA AgeType ==
    ASSUME NEW f \in Funcs, NEW R \in SUBSET Addrs
    PROVE  /\ Age(f, R) \in Funcs /\ Age(f, R).old = f.old \cup (R \cap RangeOf[f.entry])
           /\ Spans(Age(f, R)) = Spans(f) /\ Age(f, R).entry = f.entry
BY DEF Age, Funcs, Spans

LEMMA NoJobType == NoJob \in Funcs /\ NoJob.old = {}
BY RangesAssumption DEF NoJob, TranslationOf, Funcs

LEMMA InitInvariant == Init => RecompilerInvariant
<1> SUFFICES ASSUME Init PROVE RecompilerInvariant
  OBVIOUS
<1> USE DEF Init
<1>1. TypeOK
  <2>1. code \in [DOMAIN code -> Funcs] /\ DOMAIN code = {}
    OBVIOUS
  <2>2. pc \in [Threads -> {"off", "wait", "drain", "check", "run", "notify", "mutex", "translate", "translated"}]
    OBVIOUS
  <2>3. job \in [Threads -> Funcs] /\ wrote \in [Cores -> SUBSET Addrs]
    BY NoJobType
  <2>4. 0 \in 0 .. ArenaSize /\ 0 \in 0 .. Titles /\ 0 \in 0 .. MaxWrites
    BY BoundsAssumption
  <2>5. queue \in Seq(Addrs)
    OBVIOUS
  <2> QED
    BY <2>1, <2>2, <2>3, <2>4, <2>5 DEF TypeOK
<1>2. TranslatorIsAlone /\ CoresAreJoined
  BY ThreadsAssumption DEF TranslatorIsAlone, CoresAreJoined, Translating, At, Threads
<1>3. OldIsInside /\ EntriesAreInside /\ JobsAreMarked /\ FreshStore /\ CodeIsRegistered
  BY NoJobType DEF OldIsInside, EntriesAreInside, JobsAreMarked, FreshStore, CodeIsRegistered, At, Threads
<1> QED
  BY <1>1, <1>2, <1>3 DEF RecompilerInvariant

LEMMA OnlyOneTranslates ==
    ASSUME OneCompiler, TypeOK, TranslatorIsAlone, NEW t \in Translating, NEW u \in Translating
    PROVE  t = u
BY ThreadsAssumption DEF OneCompiler, TypeOK, TranslatorIsAlone, Translating, Threads

(***************************************************************************)
(* A core                                                                  *)
(***************************************************************************)
LEMMA VisitKeeps ==
    ASSUME RecompilerInvariant, NEW c \in Cores, NEW a \in Addrs, Visit(c, a)
    PROVE  RecompilerInvariant'
<1> USE DEF RecompilerInvariant
<1>0. c \in Threads /\ c \notin Workers /\ TranslationOf(a) \in Funcs /\ TranslationOf(a).old = {}
  BY ThreadsAssumption DEF Threads, TranslationOf, Funcs
<1>1. TypeOK'
  <2>1. queue' \in Seq(Addrs)
    BY SMTT(30) DEF Visit, TypeOK
  <2>2. visited' \subseteq Addrs /\ DOMAIN code' \subseteq Addrs \ visited'
    BY DEF Visit, TypeOK
  <2>3. pc' \in [Threads -> {"off", "wait", "drain", "check", "run", "notify", "mutex", "translate", "translated"}]
    BY DEF Visit, TypeOK, Goto
  <2>4. job' \in [Threads -> Funcs]
    BY <1>0 DEF Visit, TypeOK
  <2> QED
    BY <2>1, <2>2, <2>3, <2>4 DEF Visit, TypeOK, pool
<1>2. Translating' = Translating /\ (\A t \in Threads \ {c} : pc'[t] = pc[t] /\ job'[t] = job[t])
      /\ pc'[c] = (IF sync THEN "mutex" ELSE "notify") /\ job'[c] \in {job[c], TranslationOf(a)}
  BY <1>0 DEF Visit, Translating, Goto, At, TypeOK
<1>3. TranslatorIsAlone' /\ CoresAreJoined'
  BY <1>0, <1>2 DEF TranslatorIsAlone, CoresAreJoined, At, Visit, pool, Threads
<1>4. OldIsInside' /\ EntriesAreInside' /\ JobsAreMarked'
  BY <1>0, <1>2 DEF OldIsInside, EntriesAreInside, JobsAreMarked, At, Visit, Spans, Unannounced
<1>5. FreshStore' /\ CodeIsRegistered'
  BY DEF FreshStore, CodeIsRegistered, Visit, Unannounced
<1> QED
  BY <1>1, <1>3, <1>4, <1>5

LEMMA NotifyKeeps ==
    ASSUME RecompilerInvariant, NEW c \in Cores, Notify(c)
    PROVE  RecompilerInvariant'
<1> USE DEF RecompilerInvariant, Notify
<1>0. c \in Threads
  BY DEF Threads
<1>1. TypeOK'
  BY <1>0 DEF TypeOK, Goto, table
<1>2. Translating' = Translating /\ (\A t \in Threads \ {c} : pc'[t] = pc[t]) /\ pc'[c] = "run"
  BY <1>0 DEF Translating, Goto, At, TypeOK
<1>3. TranslatorIsAlone' /\ CoresAreJoined'
  BY <1>0, <1>2, ThreadsAssumption DEF TranslatorIsAlone, CoresAreJoined, At, Threads
<1>4. OldIsInside' /\ EntriesAreInside' /\ JobsAreMarked' /\ FreshStore' /\ CodeIsRegistered'
  BY <1>2 DEF OldIsInside, EntriesAreInside, JobsAreMarked, FreshStore, CodeIsRegistered, At, Spans, Unannounced, table
<1> QED
  BY <1>1, <1>3, <1>4

LEMMA EnterSingleKeeps ==
    ASSUME RecompilerInvariant, NEW c \in Cores, EnterSingle(c)
    PROVE  RecompilerInvariant'
<1> USE DEF RecompilerInvariant, EnterSingle
<1>1. c \in Threads /\ c \notin Workers
  BY ThreadsAssumption DEF Threads
<1>2. sync
  BY DEF TranslatorIsAlone, At
<1>3. TypeOK'
  BY <1>1, NoJobType DEF TypeOK, Goto, table, pool
<1>4. (\A t \in Threads \ {c} : pc'[t] = pc[t]) /\ pc'[c] \in {"translate", "run"}
      /\ (\A t \in Threads : job'[t] \in {job[t], NoJob})
      /\ (pc'[c] = "translate" => single' = c) /\ (pc'[c] = "run" => single' = single)
      /\ host' = host /\ host = "run" /\ sync' = sync
  BY <1>1, NoJobType DEF TypeOK, Goto, At, pool, CoresAreJoined
<1>5. TranslatorIsAlone'
  <2>1. \A w \in Workers : At(w, "off")'
    BY <1>1, <1>2, <1>4 DEF TranslatorIsAlone, At, Threads
  <2>2. Translating = {}
    <3> SUFFICES ASSUME NEW t \in Translating PROVE FALSE
      OBVIOUS
    <3>1. t = "free"
      BY <1>2 DEF TranslatorIsAlone
    <3>2. t \in Cores
      BY <1>2 DEF TranslatorIsAlone, Translating, Threads, At
    <3> QED
      BY <3>1, <3>2, ThreadsAssumption
  <2>3. \A t \in Translating' : t = c /\ pc'[c] = "translate"
    BY <1>4, <2>2 DEF Translating
  <2>4. \A t \in Translating' : single' = t
    BY <1>4, <2>3
  <2> QED
    BY <1>2, <2>1, <2>4 DEF TranslatorIsAlone
<1>6. CoresAreJoined'
  BY <1>4 DEF CoresAreJoined
<1>7. OldIsInside' /\ EntriesAreInside' /\ JobsAreMarked' /\ FreshStore' /\ CodeIsRegistered'
  BY <1>1, <1>4, NoJobType
  DEF OldIsInside, EntriesAreInside, JobsAreMarked, FreshStore, CodeIsRegistered, At, Spans, Unannounced, table
<1> QED
  BY <1>3, <1>5, <1>6, <1>7

(***************************************************************************)
(* A translation.  Its end forgets the job and, with the mutex, whose turn  *)
(* it was.                                                                 *)
(***************************************************************************)
LEMMA DoneFacts ==
    ASSUME TypeOK, TranslatorIsAlone, CoresAreJoined, NEW t \in Threads, t \in Translating, Done(t),
           host' = host, sync' = sync
    PROVE  /\ pc' \in [Threads -> {"off", "wait", "drain", "check", "run", "notify", "mutex", "translate", "translated"}]
           /\ job' \in [Threads -> Funcs] /\ single' \in Cores \cup {"free"}
           /\ \A u \in Threads \ {t} : pc'[u] = pc[u] /\ job'[u] = job[u]
           /\ pc'[t] \in {"run", "check"} /\ job'[t].old = {}
           /\ TranslatorIsAlone' /\ CoresAreJoined'
<1> USE NoJobType, ThreadsAssumption
<1>1. pc' \in [Threads -> {"off", "wait", "drain", "check", "run", "notify", "mutex", "translate", "translated"}]
      /\ job' \in [Threads -> Funcs] /\ single' \in Cores \cup {"free"}
  BY DEF Done, Goto, TypeOK
<1>2. /\ \A u \in Threads \ {t} : pc'[u] = pc[u] /\ job'[u] = job[u]
      /\ pc'[t] \in {"run", "check"} /\ job'[t].old = {}
      /\ (t \in Cores => pc'[t] = "run") /\ (t \notin Cores => single' = single)
  BY DEF Done, Goto, TypeOK
<1>3. CoresAreJoined'
  BY <1>2 DEF CoresAreJoined, At, Threads
<1>4. TranslatorIsAlone'
  <2>1. CASE sync
    <3>1. t \in Cores
      BY <2>1 DEF TranslatorIsAlone, Translating, At, Threads
    <3>2. \A u \in Translating : u = t
      BY <2>1 DEF TranslatorIsAlone
    <3>3. Translating' = {}
      BY <3>2, <1>2 DEF Translating
    <3>4. \A w \in Workers : At(w, "off")'
      BY <2>1, <3>1, <1>2 DEF TranslatorIsAlone, At, Threads
    <3> QED
      BY <2>1, <3>3, <3>4 DEF TranslatorIsAlone
  <2>2. CASE ~ sync
    <3>1. t \notin Cores
      BY <2>2 DEF TranslatorIsAlone, Translating
    <3> QED
      BY <2>2, <3>1, <1>2 DEF TranslatorIsAlone, Threads
  <2> QED
    BY <2>1, <2>2
<1> QED
  BY <1>1, <1>2, <1>3, <1>4

LEMMA GiveUpKeeps ==
    ASSUME RecompilerInvariant, NEW t \in Threads, TranslationFails(t) \/ NoLongerWanted(t)
    PROVE  RecompilerInvariant'
<1> USE DEF RecompilerInvariant, TranslationFails, NoLongerWanted
<1>1. t \in Translating /\ Done(t) /\ host' = host /\ sync' = sync
  BY DEF Translating, At, pool
<1>2. /\ pc' \in [Threads -> {"off", "wait", "drain", "check", "run", "notify", "mutex", "translate", "translated"}]
      /\ job' \in [Threads -> Funcs] /\ single' \in Cores \cup {"free"}
      /\ \A u \in Threads \ {t} : pc'[u] = pc[u] /\ job'[u] = job[u]
      /\ pc'[t] \in {"run", "check"} /\ job'[t].old = {}
      /\ TranslatorIsAlone' /\ CoresAreJoined'
  BY <1>1, DoneFacts
<1>3. UNCHANGED <<visited, code, queue, invalidated, store, arena, wrote, permits, stopFlag, host, titles, writes, sync>>
  BY DEF table, pool
<1>4. TypeOK'
  BY <1>2, <1>3 DEF TypeOK
<1>5. OldIsInside' /\ EntriesAreInside' /\ JobsAreMarked'
  BY <1>2, <1>3 DEF OldIsInside, EntriesAreInside, JobsAreMarked, At, Spans, Unannounced
<1>6. FreshStore' /\ CodeIsRegistered'
  BY <1>3 DEF FreshStore, CodeIsRegistered, Unannounced
<1> QED
  BY <1>2, <1>4, <1>5, <1>6

LEMMA TranslateKeeps ==
    ASSUME RecompilerInvariant, NEW t \in Threads, Translate(t)
    PROVE  RecompilerInvariant'
<1> USE DEF RecompilerInvariant, Translate
<1>1. UNCHANGED <<visited, code, queue, invalidated, store, wrote, single, permits, stopFlag, host, titles, writes, sync>>
  BY DEF table, pool
<1>2. /\ \A u \in Threads \ {t} : pc'[u] = pc[u] /\ job'[u] = job[u]
      /\ pc[t] = "translate" /\ pc'[t] = "translated"
      /\ job'[t] \in Funcs /\ job'[t].old = {}
  BY DEF TypeOK, At, Goto, Funcs
<1>3. TypeOK'
  BY <1>1, BoundsAssumption DEF TypeOK, Goto, Funcs
<1>4. Translating' = Translating
  BY <1>2 DEF Translating
<1>5. TranslatorIsAlone' /\ CoresAreJoined'
  BY <1>1, <1>2, <1>4 DEF TranslatorIsAlone, CoresAreJoined, At, Threads
<1>6. OldIsInside' /\ EntriesAreInside' /\ JobsAreMarked'
  BY <1>1, <1>2 DEF OldIsInside, EntriesAreInside, JobsAreMarked, At, Spans, Unannounced
<1>7. FreshStore' /\ CodeIsRegistered'
  BY <1>1 DEF FreshStore, CodeIsRegistered, Unannounced
<1> QED
  BY <1>3, <1>5, <1>6, <1>7

LEMMA RejectKeeps ==
    ASSUME RecompilerInvariant, OneCompiler, NEW t \in Threads, Reject(t)
    PROVE  RecompilerInvariant'
<1> USE DEF RecompilerInvariant, Reject
<1>1. t \in Translating /\ Done(t) /\ host' = host /\ sync' = sync
  BY DEF Translating, At, pool
<1>2. /\ pc' \in [Threads -> {"off", "wait", "drain", "check", "run", "notify", "mutex", "translate", "translated"}]
      /\ job' \in [Threads -> Funcs] /\ single' \in Cores \cup {"free"}
      /\ \A u \in Threads \ {t} : pc'[u] = pc[u] /\ job'[u] = job[u]
      /\ pc'[t] \in {"run", "check"} /\ job'[t].old = {}
      /\ TranslatorIsAlone' /\ CoresAreJoined'
  BY <1>1, DoneFacts
<1>3. UNCHANGED <<code, queue, store, arena, wrote, permits, stopFlag, host, titles, writes, sync>>
      /\ invalidated' = {} /\ visited' \subseteq visited
  BY DEF table, pool
<1>4. TypeOK'
  BY <1>2, <1>3 DEF TypeOK
<1>5. OldIsInside' /\ EntriesAreInside'
  BY <1>2, <1>3 DEF OldIsInside, EntriesAreInside, Spans
<1>6. JobsAreMarked'
  <2>1. \A u \in Translating : u = t
    BY <1>1, OnlyOneTranslates
  <2>2. \A u \in Threads : ~ At(u, "translated")'
    BY <1>2, <2>1 DEF Translating, At
  <2> QED
    BY <2>2 DEF JobsAreMarked
<1>7. FreshStore' /\ CodeIsRegistered'
  BY <1>3 DEF FreshStore, CodeIsRegistered, Unannounced
<1> QED
  BY <1>2, <1>4, <1>5, <1>6, <1>7

LEMMA ActivateKeeps ==
    ASSUME RecompilerInvariant, OneCompiler, NEW t \in Threads, Activate(t)
    PROVE  RecompilerInvariant'
<1> USE DEF RecompilerInvariant, Activate
<1> DEFINE entries == EntriesOf[job[t].entry]
<1>1. t \in Translating /\ Done(t) /\ host' = host /\ sync' = sync
  BY DEF Translating, At, pool
<1>2. /\ pc' \in [Threads -> {"off", "wait", "drain", "check", "run", "notify", "mutex", "translate", "translated"}]
      /\ job' \in [Threads -> Funcs] /\ single' \in Cores \cup {"free"}
      /\ \A u \in Threads \ {t} : pc'[u] = pc[u] /\ job'[u] = job[u]
      /\ pc'[t] \in {"run", "check"} /\ job'[t].old = {}
      /\ TranslatorIsAlone' /\ CoresAreJoined'
  BY <1>1, DoneFacts
<1>3. UNCHANGED <<queue, arena, wrote, permits, stopFlag, host, titles, writes, sync>>
      /\ invalidated' = {} /\ visited' = visited \ Spans(job[t]) /\ store' = store \cup {job[t]}
      /\ code' = [a \in DOMAIN code \cup entries |-> IF a \in entries THEN job[t] ELSE code[a]]
  BY DEF pool
<1>4. job[t] \in Funcs /\ job[t].entry \in Addrs /\ job[t].old \subseteq Spans(job[t])
      /\ entries \subseteq Spans(job[t]) /\ Spans(job[t]) \subseteq Addrs
  BY RangesAssumption DEF TypeOK, Funcs, Spans, OldIsInside
<1>5. TypeOK'
  <2>1. DOMAIN code' \subseteq Addrs \ visited' /\ code' \in [DOMAIN code' -> Funcs]
    BY <1>3, <1>4 DEF TypeOK
  <2> QED
    BY <1>2, <1>3, <1>4, <2>1 DEF TypeOK
<1>6. OldIsInside' /\ EntriesAreInside'
  BY <1>2, <1>3, <1>4 DEF OldIsInside, EntriesAreInside, Spans
<1>7. JobsAreMarked'
  <2>1. \A u \in Translating : u = t
    BY <1>1, OnlyOneTranslates
  <2>2. \A u \in Threads : ~ At(u, "translated")'
    BY <1>2, <2>1 DEF Translating, At
  <2> QED
    BY <2>2 DEF JobsAreMarked
<1>8. FreshStore'
  <2>1. job[t].old \subseteq Unannounced \cup invalidated /\ invalidated \cap Spans(job[t]) = {}
    BY DEF JobsAreMarked
  <2>2. job[t].old \subseteq Unannounced
    BY <1>4, <2>1
  <2> QED
    BY <1>3, <2>2 DEF FreshStore, Unannounced
<1>9. CodeIsRegistered'
  BY <1>3 DEF CodeIsRegistered
<1> QED
  BY <1>2, <1>5, <1>6, <1>7, <1>8, <1>9

LEMMA CompileKeeps ==
    ASSUME RecompilerInvariant, OneCompiler, NEW t \in Threads, Compile(t)
    PROVE  RecompilerInvariant'
BY GiveUpKeeps, TranslateKeeps, RejectKeeps, ActivateKeeps DEF Compile

(***************************************************************************)
(* Code that changes                                                       *)
(***************************************************************************)
LEMMA WriteKeeps ==
    ASSUME RecompilerInvariant, NEW c \in Cores, NEW R \in CodeWrites, Write(c, R)
    PROVE  RecompilerInvariant'
<1> USE DEF RecompilerInvariant, Write
<1>0. R \subseteq Addrs /\ c \in Threads
  BY RangesAssumption DEF Threads
<1>1. UNCHANGED <<visited, queue, invalidated, arena, pc, single, permits, stopFlag, host, titles, sync>>
      /\ store' = {Age(f, R) : f \in store} /\ code' = [a \in DOMAIN code |-> Age(code[a], R)]
      /\ \A t \in Threads : job'[t] = IF At(t, "translated") THEN Age(job[t], R) ELSE job[t]
  BY DEF pool
<1>2. Unannounced' = Unannounced \cup R
  BY DEF Unannounced, TypeOK
<1>3. \A f \in Funcs : /\ Age(f, R) \in Funcs /\ Age(f, R).old = f.old \cup (R \cap Spans(f))
                       /\ Spans(Age(f, R)) = Spans(f)
  BY <1>0, AgeType DEF Spans
<1>4. store \subseteq Funcs /\ job \in [Threads -> Funcs] /\ code \in [DOMAIN code -> Funcs]
  BY DEF TypeOK
<1>5. TypeOK'
  <2>1. store' \subseteq Funcs /\ code' \in [DOMAIN code' -> Funcs] /\ DOMAIN code' = DOMAIN code
    BY <1>1, <1>3, <1>4
  <2>2. job' \in [Threads -> Funcs]
    BY <1>3, <1>4
  <2>3. wrote' \in [Cores -> SUBSET Addrs] /\ writes' \in 0 .. MaxWrites
    BY <1>0, BoundsAssumption DEF TypeOK
  <2> QED
    BY <1>1, <2>1, <2>2, <2>3 DEF TypeOK
<1>6. TranslatorIsAlone' /\ CoresAreJoined'
  BY <1>1 DEF TranslatorIsAlone, CoresAreJoined, At, Translating
<1>7. OldIsInside' /\ EntriesAreInside'
  <2>1. \A f \in store' : f.old \subseteq Spans(f)
    BY <1>1, <1>3, <1>4 DEF OldIsInside
  <2>2. \A t \in Threads : job'[t].old \subseteq Spans(job'[t])
    BY <1>1, <1>3, <1>4 DEF OldIsInside
  <2>3. \A a \in DOMAIN code' : a \in Spans(code'[a])
    BY <1>1, <1>3, <1>4 DEF EntriesAreInside
  <2> QED
    BY <2>1, <2>2, <2>3 DEF OldIsInside, EntriesAreInside, Spans
<1>8. JobsAreMarked'
  BY <1>1, <1>2, <1>3, <1>4 DEF JobsAreMarked, At
<1>9. FreshStore'
  BY <1>1, <1>2, <1>3, <1>4 DEF FreshStore
<1>10. CodeIsRegistered'
  BY <1>1 DEF CodeIsRegistered
<1> QED
  BY <1>5, <1>6, <1>7, <1>8, <1>9, <1>10

LEMMA InvalidateKeeps ==
    ASSUME RecompilerInvariant, NEW c \in Cores, PPCRecompiler_invalidateRange(c)
    PROVE  RecompilerInvariant'
<1> USE DEF RecompilerInvariant
<1> DEFINE R == wrote[c]
           hit == {f \in store : Spans(f) \cap R # {}}
           gone == R \cup UNION {Spans(f) : f \in hit}
<1>1. UNCHANGED <<queue, arena, pc, job, single, permits, stopFlag, host, titles, writes, sync>>
      /\ visited' = visited \ gone /\ code' = [a \in DOMAIN code \ gone |-> code[a]]
      /\ store' = store \ hit /\ invalidated' = invalidated \cup R
      /\ wrote' = [wrote EXCEPT ![c] = {}]
  BY DEF PPCRecompiler_invalidateRange, pool, threads, Without
<1>2. R \subseteq Addrs /\ Unannounced \subseteq Unannounced' \cup R
  BY <1>1 DEF Unannounced, TypeOK
<1>3. TypeOK'
  BY <1>1, <1>2 DEF TypeOK
<1>4. TranslatorIsAlone' /\ CoresAreJoined'
  BY <1>1 DEF TranslatorIsAlone, CoresAreJoined, At, Translating
<1>5. OldIsInside' /\ EntriesAreInside'
  BY <1>1 DEF OldIsInside, EntriesAreInside, Spans
<1>6. JobsAreMarked'
  BY <1>1, <1>2 DEF JobsAreMarked, At
<1>7. FreshStore'
  <2> SUFFICES ASSUME NEW f \in store' PROVE f.old \subseteq Unannounced'
    BY DEF FreshStore
  <2>1. f \in store /\ f.old \subseteq Spans(f) /\ Spans(f) \cap R = {}
    BY <1>1 DEF OldIsInside
  <2> QED
    BY <1>2, <2>1 DEF FreshStore
<1>8. CodeIsRegistered'
  <2> SUFFICES ASSUME NEW a \in DOMAIN code' PROVE code'[a] \in store'
    BY DEF CodeIsRegistered
  <2>1. a \in DOMAIN code \ gone /\ code'[a] = code[a] /\ code[a] \in store /\ a \in Spans(code[a])
    BY <1>1 DEF CodeIsRegistered, EntriesAreInside
  <2> QED
    BY <1>1, <2>1
<1> QED
  BY <1>3, <1>4, <1>5, <1>6, <1>7, <1>8

(***************************************************************************)
(* The pool                                                                *)
(***************************************************************************)
LEMMA PoolKeeps ==
    ASSUME RecompilerInvariant, NEW w \in Workers,
           Acquire(w) \/ CheckStop(w) \/ QueueEmpty(w) \/ Drain(w)
    PROVE  RecompilerInvariant'
<1> USE DEF RecompilerInvariant
<1>0. w \in Threads /\ w \notin Cores
  BY ThreadsAssumption DEF Threads
<1>1. /\ UNCHANGED <<visited, code, invalidated, store, arena, wrote, single, stopFlag, host, titles, writes, sync>>
      /\ \A t \in Threads \ {w} : pc'[t] = pc[t] /\ job'[t] = job[t]
      /\ pc'[w] \in {"off", "drain", "wait", "translate", "check"} /\ pc[w] # "off"
      /\ pc' \in [Threads -> {"off", "wait", "drain", "check", "run", "notify", "mutex", "translate", "translated"}]
  BY <1>0 DEF Acquire, CheckStop, QueueEmpty, Drain, Goto, At, TypeOK, table, pool
<1>2. queue' \in Seq(Addrs) /\ permits' \in Nat /\ job' \in [Threads -> Funcs]
      /\ (job'[w] = job[w] \/ job'[w].old = {})
  <2>1. CASE Acquire(w)
    BY <2>1 DEF Acquire, TypeOK
  <2>2. CASE CheckStop(w) \/ QueueEmpty(w)
    BY <2>2 DEF CheckStop, QueueEmpty, TypeOK, pool
  <2>3. CASE Drain(w)
    <3>1. Head(queue) \in Addrs /\ Tail(queue) \in Seq(Addrs)
      BY <2>3 DEF Drain, TypeOK
    <3>2. TranslationOf(Head(queue)) \in Funcs /\ TranslationOf(Head(queue)).old = {}
      BY <3>1 DEF TranslationOf, Funcs
    <3> QED
      BY <1>0, <2>3, <3>1, <3>2 DEF Drain, TypeOK, pool
  <2> QED
    BY <2>1, <2>2, <2>3
<1>3. TypeOK'
  BY <1>1, <1>2 DEF TypeOK
<1>4. TranslatorIsAlone' /\ CoresAreJoined'
  <2>1. ~ sync
    BY <1>1 DEF TranslatorIsAlone, At
  <2> QED
    BY <1>0, <1>1, <2>1, ThreadsAssumption DEF TranslatorIsAlone, CoresAreJoined, At, Threads
<1>5. OldIsInside' /\ EntriesAreInside' /\ JobsAreMarked'
  BY <1>0, <1>1, <1>2 DEF OldIsInside, EntriesAreInside, JobsAreMarked, At, Spans, Unannounced
<1>6. FreshStore' /\ CodeIsRegistered'
  BY <1>1 DEF FreshStore, CodeIsRegistered, Unannounced
<1> QED
  BY <1>3, <1>4, <1>5, <1>6

LEMMA PoolStartKeeps ==
    ASSUME RecompilerInvariant, PPCRecompiler_init
    PROVE  RecompilerInvariant'
<1> USE DEF RecompilerInvariant, PPCRecompiler_init
<1>1. UNCHANGED <<visited, code, queue, invalidated, store, arena, job, wrote, single, permits, writes, sync>>
      /\ host' = "run" /\ host = "off"
      /\ \A t \in Threads : pc'[t] = IF t \in Workers /\ ~sync THEN "wait" ELSE pc[t]
  BY DEF table
<1>2. TypeOK'
  <2>1. titles' \in 0 .. Titles
    BY BoundsAssumption DEF TypeOK
  <2>2. pc' \in [Threads -> {"off", "wait", "drain", "check", "run", "notify", "mutex", "translate", "translated"}]
    BY DEF TypeOK
  <2> QED
    BY <1>1, <2>1, <2>2 DEF TypeOK
<1>3. TranslatorIsAlone' /\ CoresAreJoined'
  BY <1>1, ThreadsAssumption DEF TranslatorIsAlone, CoresAreJoined, At, Threads, Translating
<1>4. OldIsInside' /\ EntriesAreInside' /\ JobsAreMarked' /\ FreshStore' /\ CodeIsRegistered'
  BY <1>1 DEF OldIsInside, EntriesAreInside, JobsAreMarked, FreshStore, CodeIsRegistered, At, Spans, Unannounced
<1> QED
  BY <1>2, <1>3, <1>4

LEMMA PoolStopKeeps ==
    ASSUME RecompilerInvariant, EndScheduler \/ SetStopFlag \/ ReleaseAll
    PROVE  RecompilerInvariant'
<1> USE DEF RecompilerInvariant
<1>1. UNCHANGED <<visited, code, queue, invalidated, store, arena, pc, job, wrote, single, titles, writes, sync>>
      /\ (host = "run" => \A c \in Cores : At(c, "run"))
      /\ host' \in {"flag", "release", "join"} /\ stopFlag' \in BOOLEAN
  BY DEF EndScheduler, SetStopFlag, ReleaseAll, table, threads, TypeOK
<1>2. permits' \in Nat
  BY ThreadsAssumption, FS_CardinalityType DEF EndScheduler, SetStopFlag, ReleaseAll, TypeOK
<1>3. TypeOK'
  BY <1>1, <1>2 DEF TypeOK
<1>4. TranslatorIsAlone' /\ CoresAreJoined'
  BY <1>1 DEF TranslatorIsAlone, CoresAreJoined, At, Translating
<1>5. OldIsInside' /\ EntriesAreInside' /\ JobsAreMarked' /\ FreshStore' /\ CodeIsRegistered'
  BY <1>1 DEF OldIsInside, EntriesAreInside, JobsAreMarked, FreshStore, CodeIsRegistered, At, Spans, Unannounced
<1> QED
  BY <1>3, <1>4, <1>5

LEMMA ClearKeeps ==
    ASSUME RecompilerInvariant, Clear
    PROVE  RecompilerInvariant'
<1> USE DEF RecompilerInvariant
<1>1. /\ UNCHANGED <<pc, job, single, permits, stopFlag, titles, writes, sync>>
      /\ host' = "off" /\ host # "run" /\ \A w \in Workers : At(w, "off")
      /\ queue' = <<>> /\ invalidated' = {} /\ store' = {} /\ visited' = {} /\ arena' = 0
      /\ DOMAIN code' = {} /\ code' \in [DOMAIN code' -> Funcs]
      /\ wrote' = [c \in Cores |-> {}]
  BY DEF Clear, threads
<1>2. \A t \in Threads : pc[t] \in {"run", "off"}
  BY <1>1 DEF CoresAreJoined, At, Threads
<1>3. TypeOK'
  BY <1>1, BoundsAssumption DEF TypeOK
<1>4. TranslatorIsAlone' /\ CoresAreJoined'
  BY <1>1 DEF TranslatorIsAlone, CoresAreJoined, At, Translating
<1>5. JobsAreMarked'
  BY <1>1, <1>2 DEF JobsAreMarked, At
<1>6. OldIsInside' /\ EntriesAreInside' /\ FreshStore' /\ CodeIsRegistered'
  BY <1>1 DEF OldIsInside, EntriesAreInside, FreshStore, CodeIsRegistered, Spans
<1> QED
  BY <1>3, <1>4, <1>5, <1>6

LEMMA StutterKeeps == RecompilerInvariant /\ UNCHANGED vars => RecompilerInvariant'
<1> SUFFICES ASSUME RecompilerInvariant, UNCHANGED vars PROVE RecompilerInvariant'
  OBVIOUS
<1> USE DEF RecompilerInvariant, vars, table, threads, pool
<1>1. TypeOK' /\ TranslatorIsAlone' /\ CoresAreJoined'
  BY DEF TypeOK, TranslatorIsAlone, CoresAreJoined, At, Translating
<1>2. OldIsInside' /\ EntriesAreInside' /\ JobsAreMarked' /\ FreshStore' /\ CodeIsRegistered'
  BY DEF OldIsInside, EntriesAreInside, JobsAreMarked, FreshStore, CodeIsRegistered, At, Spans, Unannounced
<1> QED
  BY <1>1, <1>2

LEMMA NextKeeps == OneCompiler /\ RecompilerInvariant /\ [Next]_vars => RecompilerInvariant'
<1> SUFFICES ASSUME OneCompiler, RecompilerInvariant, [Next]_vars PROVE RecompilerInvariant'
  OBVIOUS
<1>1. ASSUME NEW c \in Cores, NEW a \in Addrs, Visit(c, a) PROVE RecompilerInvariant'
  BY <1>1, VisitKeeps
<1>2. ASSUME NEW c \in Cores, NEW R \in CodeWrites, Write(c, R) PROVE RecompilerInvariant'
  BY <1>2, WriteKeeps
<1>3. ASSUME NEW c \in Cores, PPCRecompiler_invalidateRange(c) PROVE RecompilerInvariant'
  BY <1>3, InvalidateKeeps
<1>4. ASSUME NEW c \in Cores, CoreWorks(c) PROVE RecompilerInvariant'
  BY <1>4, NotifyKeeps, EnterSingleKeeps, CompileKeeps DEF CoreWorks, Threads
<1>5. ASSUME NEW w \in Workers, Worker(w) PROVE RecompilerInvariant'
  BY <1>5, PoolKeeps, CompileKeeps DEF Worker, Threads
<1>6. CASE PPCRecompiler_init \/ EndScheduler \/ Host
  BY <1>6, PoolStartKeeps, PoolStopKeeps, ClearKeeps DEF Host
<1>7. CASE UNCHANGED vars
  BY <1>7, StutterKeeps
<1> QED
  BY <1>1, <1>2, <1>3, <1>4, <1>5, <1>6, <1>7 DEF Next

\* With one translation at a time, the strengthened invariant holds.
THEOREM RecompilerInvariantHolds ==
    ASSUME OneCompiler
    PROVE  Spec => []RecompilerInvariant
<1>1. RecompilerInvariant /\ [Next]_vars => RecompilerInvariant'
  BY NextKeeps
<1> QED
  BY <1>1, InitInvariant, PTL DEF Spec

\* With one translation at a time, an announced rewrite leaves no translation of
\* the old code in the jump table, whatever was being translated meanwhile.
THEOREM CodeIsNeverStale ==
    ASSUME OneCompiler
    PROVE  Spec => []NoStaleCode
<1>1. RecompilerInvariant => NoStaleCode
  BY DEF RecompilerInvariant, FreshStore, CodeIsRegistered, NoStaleCode
<1> QED
  BY <1>1, RecompilerInvariantHolds, PTL

\* With one translation at a time, an invalidation finds every function that the
\* jump table leads to.
THEOREM InvalidationsFindCode ==
    ASSUME OneCompiler
    PROVE  Spec => []CodeIsRegistered
BY RecompilerInvariantHolds, PTL DEF RecompilerInvariant

-----------------------------------------------------------------------------
(***************************************************************************)
(* The JIT arena                                                           *)
(***************************************************************************)
RegionEnd(r) == r.pos + r.size

Inside ==
    /\ \A p \in Free : End(p) <= Size
    /\ \A r \in live : RegionEnd(r) <= Size

FreeIsApart == \A p, q \in Free : p < q => End(p) < q
LiveIsApart == \A r, s \in live : r # s => RegionEnd(r) <= s.pos \/ RegionEnd(s) <= r.pos
FreeIsNotLive == \A p \in Free : \A r \in live : End(p) <= r.pos \/ RegionEnd(r) <= p

InFree(b) == \E p \in Free : p <= b /\ b < End(p)
InLive(b) == \E r \in live : r.pos <= b /\ b < RegionEnd(r)
NothingIsLost == \A b \in 0 .. Size - 1 : InFree(b) \/ InLive(b)

\* NoByteTwice in terms of the ends of ranges, with the merging that makes it
\* possible to find the neighbours of a range.
ArenaInvariant ==
    ArenaTypeOK /\ Inside /\ FreeIsApart /\ LiveIsApart /\ FreeIsNotLive /\ NothingIsLost

LEMMA SizesFacts ==
    ASSUME SizesAssumption
    PROVE  Size \in Nat \ {0} /\ Sizes \subseteq 1 .. Size
BY DEF SizesAssumption

(***************************************************************************)
(* Neighbours                                                              *)
(***************************************************************************)
LEMMA LeastExists ==
    ASSUME NEW S \in SUBSET Nat, S # {}
    PROVE  Least(S) \in S /\ \A q \in S : Least(S) <= q
<1>1. \E p \in S : \A q \in S : ~ (<<q, p>> \in OpToRel(<, Nat))
  BY NatLessThanWellFounded, WFMin
<1>2. PICK p \in S : \A q \in S : ~ (<<q, p>> \in OpToRel(<, Nat))
  BY <1>1
<1>3. ASSUME NEW q \in S PROVE p <= q
  <2>1. p \in Nat /\ q \in Nat
    OBVIOUS
  <2>2. ~ (q < p)
    BY <1>2, <2>1 DEF OpToRel
  <2> QED
    BY <2>1, <2>2
<1> QED
  BY <1>3 DEF Least

LEMMA LeastIs ==
    ASSUME NEW S \in SUBSET Nat, NEW p \in S, \A q \in S : p <= q
    PROVE  Least(S) = p
<1>1. Least(S) \in S /\ \A q \in S : Least(S) <= q
  BY DEF Least
<1>2. Least(S) <= p /\ p <= Least(S) /\ p \in Nat /\ Least(S) \in Nat
  BY <1>1
<1> QED
  BY <1>2

LEMMA GreatestIs ==
    ASSUME NEW S \in SUBSET Nat, NEW p \in S, \A q \in S : p >= q
    PROVE  Greatest(S) = p
<1>1. Greatest(S) \in S /\ \A q \in S : Greatest(S) >= q
  BY DEF Greatest
<1>2. Greatest(S) <= p /\ p <= Greatest(S) /\ p \in Nat /\ Greatest(S) \in Nat
  BY <1>1
<1> QED
  BY <1>2

LEMMA GreatestExists ==
    ASSUME NEW N \in Nat, NEW S \in SUBSET (0 .. N), S # {}
    PROVE  Greatest(S) \in S /\ \A q \in S : Greatest(S) >= q
<1> DEFINE T == {N - q : q \in S}
<1>0. \A q \in S : q \in 0 .. N /\ N - q \in Nat
  OBVIOUS
<1>1. T \in SUBSET Nat /\ T # {}
  BY <1>0
<1>2. Least(T) \in T /\ \A x \in T : Least(T) <= x
  BY <1>1, LeastExists
<1>3. PICK p \in S : Least(T) = N - p
  BY <1>2
<1>4. ASSUME NEW q \in S PROVE p >= q
  <2>1. N - p <= N - q
    BY <1>2, <1>3
  <2> QED
    BY <1>0, <2>1
<1> QED
  BY <1>4 DEF Greatest

\* What the map holds after ps were taken out and n bytes at p put in.
LEMMA InsteadHolds ==
    ASSUME SizesAssumption, ArenaTypeOK, NEW ps \in SUBSET Free, NEW p \in 0 .. Size, NEW n \in 0 .. Size,
           n > 0 => p < Size, freeRanges' = Instead(ps, p, n)
    PROVE  /\ Free' = (Free \ ps) \cup (IF n > 0 THEN {p} ELSE {})
           /\ \A q \in Free' : freeRanges'[q] = IF q = p /\ n > 0 THEN n ELSE freeRanges[q]
           /\ Free' \subseteq 0 .. Size - 1 /\ freeRanges' \in [Free' -> 1 .. Size]
<1> USE SizesFacts
<1>1. /\ Free' = (Free \ ps) \cup (IF n > 0 THEN {p} ELSE {})
      /\ \A q \in Free' : freeRanges'[q] = IF q = p /\ n > 0 THEN n ELSE freeRanges[q]
      /\ freeRanges' = [q \in Free' |-> freeRanges'[q]]
  BY DEF Instead, Free
<1>2. Free' \subseteq 0 .. Size - 1
  BY <1>1 DEF ArenaTypeOK
<1>3. \A q \in Free' : freeRanges'[q] \in 1 .. Size
  BY <1>1 DEF ArenaTypeOK
<1> QED
  BY <1>1, <1>2, <1>3

(***************************************************************************)
(* The operations                                                          *)
(***************************************************************************)
LEMMA ArenaInitInvariant ==
    ASSUME SizesAssumption
    PROVE  ArenaInit => ArenaInvariant
<1> SUFFICES ASSUME ArenaInit PROVE ArenaInvariant
  OBVIOUS
<1> USE SizesFacts DEF ArenaInit
<1>1. Free = {0} /\ freeRanges[0] = Size /\ live = {} /\ freeRanges = [p \in {0} |-> Size]
  BY DEF Free
<1>2. ArenaTypeOK
  BY <1>1 DEF ArenaTypeOK, Nowhere
<1>3. Inside /\ FreeIsApart /\ LiveIsApart /\ FreeIsNotLive /\ NothingIsLost
  BY <1>1 DEF Inside, FreeIsApart, LiveIsApart, FreeIsNotLive, NothingIsLost, InFree, End
<1> QED
  BY <1>2, <1>3 DEF ArenaInvariant

LEMMA ResetKeeps ==
    ASSUME SizesAssumption
    PROVE  reset => ArenaInvariant' \/ granted \notin 0 .. Size - 1 \cup {Nowhere}
<1> SUFFICES ASSUME reset, granted \in 0 .. Size - 1 \cup {Nowhere} PROVE ArenaInvariant'
  OBVIOUS
<1> USE SizesFacts DEF reset
<1>1. Free' = {0} /\ freeRanges'[0] = Size /\ live' = {} /\ freeRanges' = [p \in {0} |-> Size]
  BY DEF Free
<1>2. ArenaTypeOK'
  BY <1>1 DEF ArenaTypeOK
<1>3. Inside' /\ FreeIsApart' /\ LiveIsApart' /\ FreeIsNotLive' /\ NothingIsLost'
  BY <1>1 DEF Inside, FreeIsApart, LiveIsApart, FreeIsNotLive, NothingIsLost, InFree, End
<1> QED
  BY <1>2, <1>3 DEF ArenaInvariant

\* First fit finds a range if there is one.
LEMMA FitFound ==
    ASSUME SizesAssumption, ArenaInvariant, NEW n \in Sizes, Fits(n) # {}
    PROVE  /\ Least(Fits(n)) \in Free /\ freeRanges[Least(Fits(n))] >= n
           /\ Least(Fits(n)) \in 0 .. Size - 1
<1>1. Fits(n) \in SUBSET Nat
  <2>1. Free \subseteq 0 .. Size - 1
    BY DEF ArenaInvariant, ArenaTypeOK
  <2>2. \A p \in Fits(n) : p \in 0 .. Size - 1
    BY <2>1 DEF Fits
  <2> QED
    BY <2>2
<1>2. Least(Fits(n)) \in Fits(n)
  BY <1>1, LeastExists
<1> QED
  BY <1>2 DEF Fits, ArenaInvariant, ArenaTypeOK

LEMMA AllocKeeps ==
    ASSUME SizesAssumption, ArenaInvariant, NEW n \in Sizes, alloc(n)
    PROVE  ArenaInvariant'
<1> USE SizesFacts DEF ArenaInvariant
<1>1. CASE Fits(n) = {}
  <2>1. UNCHANGED <<freeRanges, live>> /\ granted' = Nowhere
    BY <1>1 DEF alloc
  <2> QED
    BY <2>1 DEF ArenaTypeOK, Inside, FreeIsApart, LiveIsApart, FreeIsNotLive, NothingIsLost,
                InFree, InLive, Free, End
<1>2. CASE Fits(n) # {}
  <2> DEFINE p == Least(Fits(n))
             rest == freeRanges[p] - n
             new == [pos |-> p, size |-> n]
  <2>1. p \in Free /\ freeRanges[p] >= n /\ p \in 0 .. Size - 1 /\ n \in 1 .. Size
        /\ freeRanges[p] \in 1 .. Size
    BY <1>2, FitFound DEF ArenaTypeOK
  <2>2. freeRanges' = Instead({p}, p + n, rest) /\ live' = live \cup {new} /\ granted' = p
    BY <1>2 DEF alloc
  <2> HIDE DEF p
  <2>3. End(p) <= Size /\ End(p) = p + freeRanges[p]
    BY <2>1 DEF Inside, End
  <2>4. rest \in 0 .. Size /\ p + n \in 0 .. Size /\ (rest > 0 => p + n < Size)
    BY <2>1, <2>3
  <2>5. /\ Free' = (Free \ {p}) \cup (IF rest > 0 THEN {p + n} ELSE {})
        /\ \A q \in Free' : freeRanges'[q] = IF q = p + n /\ rest > 0 THEN rest ELSE freeRanges[q]
        /\ Free' \subseteq 0 .. Size - 1 /\ freeRanges' \in [Free' -> 1 .. Size]
    BY <2>1, <2>2, <2>4, InsteadHolds
  <2>6. /\ \A q \in Free' : \/ q \in Free /\ q # p /\ freeRanges'[q] = freeRanges[q]
                            \/ q = p + n /\ rest > 0 /\ q + freeRanges'[q] = p + freeRanges[p]
        /\ \A q \in Free : q # p => q \in Free' /\ freeRanges'[q] = freeRanges[q]
    <3>1. ASSUME NEW q \in Free, q # p, q = p + n, rest > 0 PROVE FALSE
      <4>1. End(p) < q
        BY <2>1, <3>1 DEF FreeIsApart, ArenaTypeOK
      <4> QED
        BY <2>1, <2>3, <3>1, <4>1
    <3> QED
      BY <2>1, <2>3, <2>5, <3>1 DEF ArenaTypeOK
  <2>7. new.pos = p /\ new.size = n /\ RegionEnd(new) = p + n /\ new \in Regions
    BY <2>1 DEF RegionEnd, Regions
  <2> HIDE DEF rest, new
  <2>8. ArenaTypeOK'
    BY <2>1, <2>2, <2>5, <2>7 DEF ArenaTypeOK
  <2>9. Inside'
    <3>1. \A q \in Free' : q + freeRanges'[q] <= Size
      BY <2>1, <2>3, <2>6 DEF Inside, End
    <3>2. \A r \in live' : RegionEnd(r) <= Size
      BY <2>1, <2>2, <2>3, <2>7 DEF Inside
    <3> QED
      BY <3>1, <3>2 DEF Inside, End, RegionEnd
  <2>10. \A q \in Free : q \in Nat /\ freeRanges[q] \in Nat \ {0} /\ End(q) = q + freeRanges[q]
    BY DEF ArenaTypeOK, End
  <2>11. \A r \in live : r.pos \in Nat /\ RegionEnd(r) \in Nat /\ RegionEnd(r) > r.pos
    BY DEF ArenaTypeOK, RegionEnd, Regions
  <2>12. FreeIsApart'
    <3> SUFFICES ASSUME NEW a \in Free', NEW b \in Free', a < b PROVE a + freeRanges'[a] < b
      BY DEF FreeIsApart, End
    <3>1. CASE a \in Free /\ a # p /\ freeRanges'[a] = freeRanges[a]
      BY <2>1, <2>4, <2>6, <2>10, <3>1 DEF FreeIsApart
    <3>2. CASE a = p + n /\ rest > 0 /\ a + freeRanges'[a] = p + freeRanges[p]
      BY <2>1, <2>4, <2>6, <2>10, <3>2 DEF FreeIsApart
    <3> QED
      BY <2>6, <3>1, <3>2
  <2>13. \A r \in live : End(p) <= r.pos \/ RegionEnd(r) <= p
    BY <2>1 DEF FreeIsNotLive
  <2>14. LiveIsApart'
    <3> SUFFICES ASSUME NEW r \in live', NEW s \in live', r # s
                 PROVE  RegionEnd(r) <= s.pos \/ RegionEnd(s) <= r.pos
      BY DEF LiveIsApart, RegionEnd
    <3> QED
      BY <2>1, <2>2, <2>3, <2>7, <2>11, <2>13 DEF LiveIsApart
  <2>15. FreeIsNotLive'
    <3> SUFFICES ASSUME NEW a \in Free', NEW r \in live'
                 PROVE  a + freeRanges'[a] <= r.pos \/ RegionEnd(r) <= a
      BY DEF FreeIsNotLive, RegionEnd, End
    <3>1. CASE r \in live
      <4>1. CASE a \in Free /\ a # p /\ freeRanges'[a] = freeRanges[a]
        BY <2>10, <3>1, <4>1 DEF FreeIsNotLive
      <4>2. CASE a = p + n /\ a + freeRanges'[a] = p + freeRanges[p]
        BY <2>1, <2>3, <2>11, <2>13, <3>1, <4>2
      <4> QED
        BY <2>6, <4>1, <4>2
    <3>2. CASE r = new
      <4>1. CASE a = p + n
        BY <2>7, <3>2, <4>1
      <4>2. CASE a # p + n
        <5>1. a \in Free /\ a # p /\ freeRanges'[a] = freeRanges[a]
          BY <2>6, <4>2
        <5>2. a < p => a + freeRanges'[a] < p
          BY <2>1, <2>10, <5>1 DEF FreeIsApart
        <5>3. p < a => p + n <= a
          BY <2>1, <2>3, <2>10, <5>1 DEF FreeIsApart
        <5> QED
          BY <2>1, <2>7, <2>10, <3>2, <5>1, <5>2, <5>3
      <4> QED
        BY <4>1, <4>2
    <3> QED
      BY <2>2, <3>1, <3>2
  <2>16. NothingIsLost'
    <3> SUFFICES ASSUME NEW b \in 0 .. Size - 1 PROVE InFree(b)' \/ InLive(b)'
      BY DEF NothingIsLost
    <3>1. CASE InLive(b)
      BY <2>2, <3>1 DEF InLive, RegionEnd
    <3>2. CASE InFree(b)
      <4>1. PICK q \in Free : q <= b /\ b < End(q)
        BY <3>2 DEF InFree
      <4>2. CASE q # p
        BY <2>6, <4>1, <4>2 DEF InFree, End
      <4>3. CASE q = p /\ b < p + n
        BY <2>1, <2>2, <2>7, <4>1, <4>3 DEF InLive, RegionEnd
      <4>4. CASE q = p /\ b >= p + n
        <5>1. rest > 0
          BY <2>1, <2>3, <4>1, <4>4 DEF rest
        <5>2. p + n \in Free' /\ p + n + freeRanges'[p + n] = End(p)
          BY <2>1, <2>3, <2>5, <5>1 DEF rest
        <5>3. \E a \in Free' : a <= b /\ b < a + freeRanges'[a]
          BY <4>1, <4>4, <5>2
        <5> QED
          BY <5>3 DEF InFree, End
      <4> QED
        BY <2>1, <4>2, <4>3, <4>4
    <3> QED
      BY <3>1, <3>2 DEF NothingIsLost
  <2> QED
    BY <2>8, <2>9, <2>12, <2>14, <2>15, <2>16
<1> QED
  BY <1>1, <1>2

(***************************************************************************)
(* Giving back n bytes at p, which no free range has.                       *)
(***************************************************************************)
Before(p) == {q \in Below(p) : q = Greatest(Below(p)) /\ End(q) = p}
After(p, n) == {q \in Above(p) : q = Least(Above(p)) /\ q = p + n}
Start(p) == IF Before(p) = {} THEN p ELSE Least(Before(p))
Stop(p, n) == IF After(p, n) = {} THEN p + n ELSE End(p + n)

NotFree(p, n) == \A q \in Free : End(q) <= p \/ p + n <= q

LEMMA FreeNumbers ==
    ASSUME SizesAssumption, ArenaTypeOK, NEW q \in Free
    PROVE  q \in 0 .. Size - 1 /\ q \in Nat /\ freeRanges[q] \in Nat \ {0} /\ End(q) = q + freeRanges[q]
BY SizesFacts DEF ArenaTypeOK, End

LEMMA BeforeIs ==
    ASSUME SizesAssumption, ArenaInvariant, NEW p \in Nat, NEW n \in Nat \ {0}, NotFree(p, n)
    PROVE  Before(p) = {q \in Free : End(q) = p}
<1> USE DEF ArenaInvariant
<1>1. ASSUME NEW q \in Free, End(q) = p PROVE q \in Before(p)
  <2>1. Below(p) \in SUBSET Nat /\ q \in Below(p)
    BY <1>1, FreeNumbers DEF Below
  <2>2. ASSUME NEW s \in Below(p) PROVE q >= s
    <3>1. s \in Free /\ s < p
      BY DEF Below
    <3>2. q < s => End(q) < s
      BY <3>1 DEF FreeIsApart
    <3> QED
      BY <1>1, <3>1, <3>2, FreeNumbers
  <2>3. q = Greatest(Below(p))
    BY <2>1, <2>2, GreatestIs
  <2> QED
    BY <1>1, <2>1, <2>3 DEF Before
<1> QED
  BY <1>1 DEF Before, Below

LEMMA AfterIs ==
    ASSUME SizesAssumption, ArenaInvariant, NEW p \in Nat, NEW n \in Nat \ {0}, NotFree(p, n)
    PROVE  After(p, n) = {q \in Free : q = p + n}
<1> USE DEF ArenaInvariant
<1>1. ASSUME p + n \in Free PROVE p + n \in After(p, n)
  <2>1. Above(p) \in SUBSET Nat /\ p + n \in Above(p)
    BY <1>1, FreeNumbers DEF Above
  <2>2. ASSUME NEW s \in Above(p) PROVE p + n <= s
    <3>1. s \in Free /\ s >= p
      BY DEF Above
    <3>2. End(s) <= p \/ p + n <= s
      BY <3>1 DEF NotFree
    <3> QED
      BY <3>1, <3>2, FreeNumbers
  <2>3. p + n = Least(Above(p))
    BY <2>1, <2>2, LeastIs
  <2> QED
    BY <2>1, <2>3 DEF After
<1> QED
  BY <1>1 DEF After, Above

\* The merged range: what it swallows, and that nothing else touches it.
LEMMA MergedRange ==
    ASSUME SizesAssumption, ArenaInvariant, NEW p \in Nat, NEW n \in Nat \ {0}, p + n <= Size, NotFree(p, n)
    PROVE  /\ Start(p) \in 0 .. p /\ Stop(p, n) \in p + n .. Size
           /\ \A q \in Before(p) : q = Start(p) /\ End(q) = p
           /\ \A q \in After(p, n) : q = p + n /\ End(q) = Stop(p, n)
           /\ Start(p) = p \/ Start(p) \in Before(p)
           /\ Stop(p, n) = p + n \/ p + n \in After(p, n)
           /\ Before(p) \subseteq Free /\ After(p, n) \subseteq Free
           /\ \A q \in Free \ (Before(p) \cup After(p, n)) : End(q) < Start(p) \/ Stop(p, n) < q
<1> USE DEF ArenaInvariant
<1>1. Before(p) = {q \in Free : End(q) = p} /\ After(p, n) = {q \in Free : q = p + n}
  BY BeforeIs, AfterIs
<1>2. /\ Start(p) \in 0 .. p /\ \A q \in Before(p) : q = Start(p) /\ End(q) = p
      /\ Start(p) = p \/ Start(p) \in Before(p)
  <2>1. CASE Before(p) = {}
    BY <2>1 DEF Start
  <2>2. CASE Before(p) # {}
    <3>1. PICK q \in Before(p) : TRUE
      BY <2>2
    <3>2. q \in Free /\ End(q) = p
      BY <1>1
    <3>3. \A s \in Before(p) : s = q
      <4> SUFFICES ASSUME NEW s \in Before(p), s # q PROVE FALSE
        OBVIOUS
      <4>1. s \in Free /\ End(s) = p
        BY <1>1
      <4>2. (s < q => End(s) < q) /\ (q < s => End(q) < s)
        BY <3>2, <4>1 DEF FreeIsApart
      <4> QED
        BY <3>2, <4>1, <4>2, FreeNumbers
    <3>4. Before(p) \in SUBSET Nat
      BY <1>1, FreeNumbers
    <3>5. Least(Before(p)) = q
      BY <3>3, <3>4, LeastExists, <2>2
    <3>6. Start(p) = q
      BY <2>2, <3>5 DEF Start
    <3> QED
      BY <3>2, <3>3, <3>6, FreeNumbers
  <2> QED
    BY <2>1, <2>2
<1>3. /\ Stop(p, n) \in p + n .. Size /\ \A q \in After(p, n) : q = p + n /\ End(q) = Stop(p, n)
      /\ Stop(p, n) = p + n \/ p + n \in After(p, n)
  <2>1. CASE After(p, n) = {}
    BY <2>1, SizesFacts DEF Stop
  <2>2. CASE After(p, n) # {}
    <3>1. p + n \in Free /\ Stop(p, n) = End(p + n)
      BY <1>1, <2>2 DEF Stop
    <3>2. End(p + n) <= Size
      BY <3>1 DEF Inside
    <3> QED
      BY <1>1, <3>1, <3>2, FreeNumbers, SizesFacts
  <2> QED
    BY <2>1, <2>2
<1>4. ASSUME NEW q \in Free \ (Before(p) \cup After(p, n)) PROVE End(q) < Start(p) \/ Stop(p, n) < q
  <2>1. q \in Nat /\ freeRanges[q] \in Nat \ {0} /\ End(q) = q + freeRanges[q]
    BY FreeNumbers
  <2>2. CASE End(q) <= p
    <3>1. End(q) < p
      BY <1>1, <2>1, <2>2
    <3>2. CASE Start(p) \in Before(p)
      <4>1. Start(p) \in Free /\ End(Start(p)) = p /\ q # Start(p)
        BY <1>1, <3>2
      <4>2. (q < Start(p) => End(q) < Start(p)) /\ (Start(p) < q => p < q)
        BY <4>1 DEF FreeIsApart
      <4> QED
        BY <1>2, <2>1, <3>1, <4>1, <4>2
    <3> QED
      BY <1>2, <3>1, <3>2
  <2>3. CASE p + n <= q
    <3>1. p + n < q
      BY <1>1, <2>1, <2>3
    <3>2. CASE p + n \in After(p, n)
      <4>1. p + n \in Free /\ End(p + n) = Stop(p, n)
        BY <1>1, <1>3, <3>2
      <4> QED
        BY <3>1, <4>1 DEF FreeIsApart
    <3> QED
      BY <1>3, <3>1, <3>2
  <2> QED
    BY <2>2, <2>3 DEF NotFree
<1> QED
  BY <1>1, <1>2, <1>3, <1>4

LEMMA ReturnHolds ==
    ASSUME SizesAssumption, ArenaInvariant, NEW p \in Nat, NEW n \in Nat \ {0}, p + n <= Size, NotFree(p, n),
           Return(p, n)
    PROVE  /\ Free' \subseteq 0 .. Size - 1 /\ freeRanges' \in [Free' -> 1 .. Size]
           /\ Free' = (Free \ (Before(p) \cup After(p, n))) \cup {Start(p)}
           /\ Start(p) + freeRanges'[Start(p)] = Stop(p, n)
           /\ \A q \in Free \ (Before(p) \cup After(p, n)) : q # Start(p) /\ freeRanges'[q] = freeRanges[q]
<1> USE DEF ArenaInvariant
<1> DEFINE k == Stop(p, n) - Start(p)
<1>1. freeRanges' = Instead(Before(p) \cup After(p, n), Start(p), k)
  BY DEF Return, Before, After, Start, Stop
<1>2. /\ Start(p) \in 0 .. p /\ Stop(p, n) \in p + n .. Size
      /\ Before(p) \subseteq Free /\ After(p, n) \subseteq Free
      /\ \A q \in Free \ (Before(p) \cup After(p, n)) : End(q) < Start(p) \/ Stop(p, n) < q
  BY MergedRange
<1>3. k \in 0 .. Size /\ k > 0 /\ Start(p) \in 0 .. Size /\ Start(p) < Size
  BY <1>2, SizesFacts
<1>4. \A q \in Free \ (Before(p) \cup After(p, n)) : q # Start(p)
  <2> SUFFICES ASSUME NEW q \in Free \ (Before(p) \cup After(p, n)), q = Start(p) PROVE FALSE
    OBVIOUS
  <2>1. End(q) < Start(p) \/ Stop(p, n) < q
    BY <1>2
  <2> QED
    BY <1>2, <1>3, <2>1, FreeNumbers
<1> HIDE DEF k
<1>5. /\ Free' = (Free \ (Before(p) \cup After(p, n))) \cup {Start(p)}
      /\ \A q \in Free' : freeRanges'[q] = IF q = Start(p) THEN k ELSE freeRanges[q]
      /\ Free' \subseteq 0 .. Size - 1 /\ freeRanges' \in [Free' -> 1 .. Size]
  <2> DEFINE ps == Before(p) \cup After(p, n)
  <2>1. ps \in SUBSET Free /\ ArenaTypeOK
    BY <1>2
  <2>2. freeRanges' = Instead(ps, Start(p), k)
    BY <1>1
  <2> HIDE DEF ps
  <2>3. /\ Free' = (Free \ ps) \cup {Start(p)}
        /\ \A q \in Free' : freeRanges'[q] = IF q = Start(p) THEN k ELSE freeRanges[q]
        /\ Free' \subseteq 0 .. Size - 1 /\ freeRanges' \in [Free' -> 1 .. Size]
    BY <1>3, <2>1, <2>2, InsteadHolds
  <2> QED
    BY <2>3 DEF ps
<1>6. Start(p) + k = Stop(p, n)
  BY <1>2 DEF k
<1> QED
  BY <1>4, <1>5, <1>6

\* What is free afterwards: the same and the bytes that were given back.
LEMMA ReturnFrees ==
    ASSUME SizesAssumption, ArenaInvariant, NEW p \in Nat, NEW n \in Nat \ {0}, p + n <= Size, NotFree(p, n),
           Return(p, n)
    PROVE  /\ Free' \subseteq 0 .. Size - 1 /\ freeRanges' \in [Free' -> 1 .. Size]
           /\ \A q \in Free' : q + freeRanges'[q] <= Size
           /\ FreeIsApart'
           /\ \A b \in Nat : InFree(b) \/ (p <= b /\ b < p + n) => InFree(b)'
           /\ \A lo \in Nat, hi \in Nat :
                 /\ lo < hi /\ (p + n <= lo \/ hi <= p)
                 /\ \A q \in Free : End(q) <= lo \/ hi <= q
                 => \A q \in Free' : q + freeRanges'[q] <= lo \/ hi <= q
<1> USE DEF ArenaInvariant
<1> DEFINE old == Free \ (Before(p) \cup After(p, n))
           a == Start(p)
           z == Stop(p, n)
<1>1. /\ a \in 0 .. p /\ z \in p + n .. Size
      /\ \A q \in Before(p) : q = a /\ End(q) = p
      /\ \A q \in After(p, n) : q = p + n /\ End(q) = z
      /\ a = p \/ a \in Before(p)
      /\ z = p + n \/ p + n \in After(p, n)
      /\ Before(p) \subseteq Free /\ After(p, n) \subseteq Free
      /\ \A q \in old : End(q) < a \/ z < q
  BY MergedRange
<1>2. /\ Free' \subseteq 0 .. Size - 1 /\ freeRanges' \in [Free' -> 1 .. Size]
      /\ Free' = old \cup {a} /\ a + freeRanges'[a] = z
      /\ \A q \in old : q # a /\ freeRanges'[q] = freeRanges[q]
  BY ReturnHolds
<1>3. \A q \in old : q \in Nat /\ freeRanges[q] \in Nat \ {0} /\ q + freeRanges'[q] = End(q)
                     /\ End(q) = q + freeRanges[q] /\ q \in Free
  BY <1>2, FreeNumbers
<1> HIDE DEF old, a, z
<1>4. \A q \in Free' : q + freeRanges'[q] <= Size
  BY <1>1, <1>2, <1>3, SizesFacts DEF Inside
<1>5. FreeIsApart'
  <2> SUFFICES ASSUME NEW q \in Free', NEW s \in Free', q < s PROVE q + freeRanges'[q] < s
    BY DEF FreeIsApart, End
  <2>1. CASE q \in old /\ s \in old
    BY <1>3, <2>1 DEF FreeIsApart
  <2>2. CASE q \in old /\ s = a
    BY <1>1, <1>3, <2>2
  <2>3. CASE q = a /\ s \in old
    BY <1>1, <1>2, <1>3, <2>3
  <2> QED
    BY <1>1, <1>2, <2>1, <2>2, <2>3
<1>6. ASSUME NEW b \in Nat, InFree(b) \/ (p <= b /\ b < p + n) PROVE InFree(b)'
  <2>1. CASE p <= b /\ b < p + n
    <3>1. a \in Free' /\ a <= b /\ b < a + freeRanges'[a]
      BY <1>1, <1>2, <2>1, SizesFacts
    <3> QED
      BY <3>1 DEF InFree, End
  <2>2. CASE InFree(b)
    <3>1. PICK q \in Free : q <= b /\ b < End(q)
      BY <2>2 DEF InFree
    <3>2. CASE q \in old
      <4>1. q \in Free' /\ b < q + freeRanges'[q]
        BY <1>2, <1>3, <3>1, <3>2
      <4> QED
        BY <3>1, <4>1 DEF InFree, End
    <3>3. CASE q \in Before(p) \cup After(p, n)
      <4>1. a <= q /\ End(q) <= z
        BY <1>1, <3>3, SizesFacts
      <4>2. a \in Free' /\ a <= b /\ b < a + freeRanges'[a]
        BY <1>1, <1>2, <3>1, <4>1, FreeNumbers, SizesFacts
      <4> QED
        BY <4>2 DEF InFree, End
    <3> QED
      BY <3>2, <3>3 DEF old
  <2> QED
    BY <1>6, <2>1, <2>2
<1>7. ASSUME NEW lo \in Nat, NEW hi \in Nat, lo < hi, p + n <= lo \/ hi <= p,
             \A q \in Free : End(q) <= lo \/ hi <= q,
             NEW q \in Free'
      PROVE  q + freeRanges'[q] <= lo \/ hi <= q
  <2>1. CASE q \in old
    BY <1>3, <1>7, <2>1
  <2>2. CASE q = a
    <3>1. a = p \/ (a \in Free /\ End(a) = p)
      BY <1>1
    <3>2. p <= lo \/ hi <= a
      BY <1>1, <1>7, <3>1
    <3>3. z = p + n \/ (p + n \in Free /\ End(p + n) = z)
      BY <1>1
    <3>4. z <= lo \/ hi <= p + n
      BY <1>1, <1>7, <3>3, SizesFacts
    <3> QED
      BY <1>1, <1>2, <1>7, <2>2, <3>2, <3>4, SizesFacts
  <2> QED
    BY <1>2, <2>1, <2>2
<1> QED
  BY <1>2, <1>4, <1>5, <1>6, <1>7

LEMMA LiveNumbers ==
    ASSUME SizesAssumption, ArenaInvariant, NEW r \in live
    PROVE  /\ r.pos \in Nat /\ r.size \in Nat \ {0} /\ r.pos < Size
           /\ RegionEnd(r) = r.pos + r.size /\ RegionEnd(r) <= Size
           /\ r = [pos |-> r.pos, size |-> r.size]
BY SizesFacts DEF ArenaInvariant, ArenaTypeOK, Inside, RegionEnd, Regions

\* The tail that a holder gives back is free of free ranges.
LEMMA TailIsNotFree ==
    ASSUME SizesAssumption, ArenaInvariant, NEW r \in live, NEW n \in Nat, n < r.size
    PROVE  /\ r.pos + n \in Nat /\ r.size - n \in Nat \ {0}
           /\ r.pos + n + (r.size - n) = RegionEnd(r) /\ RegionEnd(r) <= Size
           /\ NotFree(r.pos + n, r.size - n)
<1>1. /\ r.pos \in Nat /\ r.size \in Nat \ {0} /\ RegionEnd(r) = r.pos + r.size /\ RegionEnd(r) <= Size
  BY LiveNumbers
<1>2. ASSUME NEW q \in Free PROVE End(q) <= r.pos + n \/ r.pos + n + (r.size - n) <= q
  <2>1. End(q) <= r.pos \/ RegionEnd(r) <= q
    BY DEF ArenaInvariant, FreeIsNotLive
  <2>2. q \in Nat /\ End(q) \in Nat
    BY FreeNumbers DEF ArenaInvariant
  <2> QED
    BY <1>1, <2>1, <2>2
<1> QED
  BY <1>1, <1>2 DEF NotFree

LEMMA ShrinkKeeps ==
    ASSUME SizesAssumption, ArenaInvariant, NEW r \in live, NEW n \in Nat, n < r.size,
           Return(r.pos + n, r.size - n), UNCHANGED granted,
           live' = (live \ {r}) \cup (IF n = 0 THEN {} ELSE {[r EXCEPT !.size = n]})
    PROVE  ArenaInvariant'
<1> USE DEF ArenaInvariant
<1> DEFINE p == r.pos + n
           m == r.size - n
           head == [r EXCEPT !.size = n]
<1>1. /\ r.pos \in Nat /\ r.size \in Nat \ {0} /\ RegionEnd(r) = r.pos + r.size /\ RegionEnd(r) <= Size
      /\ r.pos < Size
  BY LiveNumbers
<1>2. p \in Nat /\ m \in Nat \ {0} /\ p + m = RegionEnd(r) /\ NotFree(p, m)
  BY TailIsNotFree
<1>3. head.pos = r.pos /\ head.size = n /\ RegionEnd(head) = p /\ (n > 0 => head \in Regions)
  <2>1. r \in Regions
    BY DEF ArenaTypeOK
  <2> QED
    BY <1>1, <2>1, SizesFacts DEF Regions, RegionEnd
<1>4. /\ Free' \subseteq 0 .. Size - 1 /\ freeRanges' \in [Free' -> 1 .. Size]
      /\ \A q \in Free' : q + freeRanges'[q] <= Size
      /\ FreeIsApart'
      /\ \A b \in Nat : InFree(b) \/ (p <= b /\ b < p + m) => InFree(b)'
      /\ \A lo \in Nat, hi \in Nat :
            /\ lo < hi /\ (p + m <= lo \/ hi <= p)
            /\ \A q \in Free : End(q) <= lo \/ hi <= q
            => \A q \in Free' : q + freeRanges'[q] <= lo \/ hi <= q
  BY <1>1, <1>2, ReturnFrees
<1>5. live' = (live \ {r}) \cup (IF n = 0 THEN {} ELSE {head})
  OBVIOUS
<1> HIDE DEF p, m, head
<1>6. ArenaTypeOK'
  BY <1>3, <1>4, <1>5 DEF ArenaTypeOK
<1>7. Inside'
  <2>1. \A s \in live' : RegionEnd(s) <= Size
    <3>1. \A s \in live : RegionEnd(s) <= Size
      BY DEF Inside
    <3>2. p <= Size
      BY <1>1, <1>2, SizesFacts
    <3> QED
      BY <1>3, <1>5, <3>1, <3>2
  <2> QED
    BY <1>4, <2>1 DEF Inside, End, RegionEnd
<1>8. p = r.pos + n /\ p < RegionEnd(r) /\ r.pos <= p
  BY <1>1 DEF p
<1>9. \A s \in live : s.pos \in Nat /\ RegionEnd(s) \in Nat /\ s.pos < RegionEnd(s)
  BY LiveNumbers
<1>10. \A s \in live \ {r} : RegionEnd(s) <= r.pos \/ RegionEnd(r) <= s.pos
  BY DEF LiveIsApart
<1>11. LiveIsApart'
  <2> SUFFICES ASSUME NEW s \in live', NEW t \in live', s # t
               PROVE  RegionEnd(s) <= t.pos \/ RegionEnd(t) <= s.pos
    BY DEF LiveIsApart, RegionEnd
  <2>1. CASE s \in live \ {r} /\ t \in live \ {r}
    BY <2>1 DEF LiveIsApart
  <2>2. CASE s = head /\ t \in live \ {r}
    BY <1>1, <1>3, <1>8, <1>9, <1>10, <2>2
  <2>3. CASE t = head /\ s \in live \ {r}
    BY <1>1, <1>3, <1>8, <1>9, <1>10, <2>3
  <2> QED
    BY <1>5, <2>1, <2>2, <2>3
<1>12. FreeIsNotLive'
  <2> SUFFICES ASSUME NEW q \in Free', NEW s \in live'
               PROVE  q + freeRanges'[q] <= s.pos \/ RegionEnd(s) <= q
    BY DEF FreeIsNotLive, End, RegionEnd
  <2>1. CASE s \in live \ {r}
    <3>1. s.pos \in Nat /\ RegionEnd(s) \in Nat /\ s.pos < RegionEnd(s)
      BY <1>9, <2>1
    <3>2. p + m <= s.pos \/ RegionEnd(s) <= p
      BY <1>1, <1>2, <1>8, <1>10, <2>1, <3>1
    <3>3. \A u \in Free : End(u) <= s.pos \/ RegionEnd(s) <= u
      BY <2>1 DEF FreeIsNotLive
    <3> QED
      BY <1>4, <3>1, <3>2, <3>3
  <2>2. CASE s = head /\ n > 0
    <3>1. head.pos \in Nat /\ RegionEnd(head) \in Nat /\ head.pos < RegionEnd(head)
      BY <1>1, <1>2, <1>3, <1>8, <2>2
    <3>2. RegionEnd(head) <= p
      BY <1>2, <1>3
    <3>3. ASSUME NEW u \in Free PROVE End(u) <= head.pos \/ RegionEnd(head) <= u
      <4>1. End(u) <= r.pos \/ RegionEnd(r) <= u
        BY DEF FreeIsNotLive
      <4> QED
        BY <1>1, <1>2, <1>3, <1>8, <4>1, FreeNumbers
    <3> QED
      BY <1>4, <2>2, <3>1, <3>2, <3>3
  <2> QED
    BY <1>5, <2>1, <2>2
<1>13. NothingIsLost'
  <2> SUFFICES ASSUME NEW b \in 0 .. Size - 1 PROVE InFree(b)' \/ InLive(b)'
    BY DEF NothingIsLost
  <2>1. b \in Nat
    BY SizesFacts
  <2>2. CASE InFree(b)
    BY <1>4, <2>1, <2>2
  <2>3. CASE InLive(b)
    <3>1. PICK s \in live : s.pos <= b /\ b < RegionEnd(s)
      BY <2>3 DEF InLive
    <3>2. CASE s # r
      BY <1>5, <3>1, <3>2 DEF InLive, RegionEnd
    <3>3. CASE s = r /\ p <= b
      BY <1>2, <1>4, <2>1, <3>1, <3>3
    <3>4. CASE s = r /\ b < p
      <4>1. n # 0
        BY <1>1, <1>8, <3>1, <3>4
      <4>2. head \in live' /\ head.pos <= b /\ b < head.pos + head.size
        BY <1>3, <1>5, <1>8, <3>1, <3>4, <4>1
      <4> QED
        BY <4>2 DEF InLive, RegionEnd
    <3> QED
      BY <1>2, <2>1, <3>2, <3>3, <3>4
  <2> QED
    BY <2>2, <2>3 DEF NothingIsLost
<1> QED
  BY <1>4, <1>6, <1>7, <1>11, <1>12, <1>13

LEMMA ReleaseKeeps ==
    ASSUME SizesAssumption, ArenaInvariant, NEW r \in live, release(r)
    PROVE  ArenaInvariant'
<1>1. r.pos \in Nat /\ r.size \in Nat \ {0}
  BY LiveNumbers
<1>2. r.pos + 0 = r.pos /\ r.size - 0 = r.size /\ 0 < r.size
  BY <1>1
<1>3. Return(r.pos + 0, r.size - 0)
  BY <1>2 DEF release
<1> QED
  BY <1>2, <1>3, ShrinkKeeps DEF release

LEMMA FinalizeKeeps ==
    ASSUME SizesAssumption, ArenaInvariant, NEW r \in live, NEW n \in 1 .. r.size - 1, finalize(r, n)
    PROVE  ArenaInvariant'
<1>1. n \in Nat /\ n # 0 /\ n < r.size
  BY LiveNumbers
<1> QED
  BY <1>1, ShrinkKeeps DEF finalize

LEMMA ArenaNextKeeps ==
    ASSUME SizesAssumption
    PROVE  ArenaInvariant /\ [ArenaNext]_arenaVars => ArenaInvariant'
<1> SUFFICES ASSUME ArenaInvariant, [ArenaNext]_arenaVars PROVE ArenaInvariant'
  OBVIOUS
<1>1. CASE UNCHANGED arenaVars
  BY <1>1 DEF arenaVars, ArenaInvariant, ArenaTypeOK, Inside, FreeIsApart, LiveIsApart, FreeIsNotLive,
              NothingIsLost, InFree, InLive, Free, End
<1>2. CASE reset
  BY <1>2, ResetKeeps DEF ArenaInvariant, ArenaTypeOK
<1> QED
  BY <1>1, <1>2, AllocKeeps, ReleaseKeeps, FinalizeKeeps DEF ArenaNext

\* The strengthened invariant holds for an arena of any size.
THEOREM ArenaInvariantHolds ==
    ASSUME SizesAssumption
    PROVE  ArenaSpec => []ArenaInvariant
<1> QED
  BY ArenaInitInvariant, ArenaNextKeeps, PTL DEF ArenaSpec

\* The variables keep their types.
THEOREM ArenaTypeCorrect ==
    ASSUME SizesAssumption
    PROVE  ArenaSpec => []ArenaTypeOK
BY ArenaInvariantHolds, PTL DEF ArenaInvariant

LEMMA InvariantMerges ==
    ASSUME SizesAssumption
    PROVE  ArenaInvariant => Merged
<1> SUFFICES ASSUME ArenaInvariant, NEW p \in Free, End(p) \in Free PROVE FALSE
  BY DEF Merged
<1>1. p < End(p)
  BY FreeNumbers DEF ArenaInvariant
<1>2. End(p) < End(p)
  BY <1>1 DEF ArenaInvariant, FreeIsApart
<1> QED
  BY <1>2, FreeNumbers DEF ArenaInvariant

\* Free ranges that touch are always merged.
THEOREM FreeIsMerged ==
    ASSUME SizesAssumption
    PROVE  ArenaSpec => []Merged
BY ArenaInvariantHolds, InvariantMerges, PTL

LEMMA BytesOf ==
    ASSUME SizesAssumption, ArenaInvariant
    PROVE  /\ \A b : b \in FreeBytes <=> b \in Nat /\ InFree(b)
           /\ \A b : b \in LiveBytes <=> b \in Nat /\ InLive(b)
<1>1. ASSUME NEW b PROVE b \in FreeBytes <=> b \in Nat /\ InFree(b)
  <2>1. \A p \in Free : b \in Row(p, freeRanges[p]) <=> b \in Nat /\ p <= b /\ b < End(p)
    BY FreeNumbers DEF Row, ArenaInvariant
  <2> QED
    BY <2>1 DEF FreeBytes, InFree
<1>2. ASSUME NEW b PROVE b \in LiveBytes <=> b \in Nat /\ InLive(b)
  <2>1. \A r \in live : b \in Bytes(r) <=> b \in Nat /\ r.pos <= b /\ b < RegionEnd(r)
    BY LiveNumbers DEF Row, Bytes
  <2> QED
    BY <2>1 DEF LiveBytes, InLive
<1> QED
  BY <1>1, <1>2

LEMMA BytesOfNext ==
    ASSUME SizesAssumption
    PROVE  ArenaInvariant' => (\A b : b \in LiveBytes <=> b \in Nat /\ InLive(b))'
<1>1. ArenaInvariant => \A b : b \in LiveBytes <=> b \in Nat /\ InLive(b)
  BY BytesOf
<1> QED
  BY <1>1, PTL

LEMMA NobodyElseHas ==
    ASSUME SizesAssumption, ArenaInvariant
    PROVE  NoByteTwice
<1>1. ASSUME NEW r \in live, NEW s \in live, r # s PROVE Bytes(r) \cap Bytes(s) = {}
  <2>1. RegionEnd(r) <= s.pos \/ RegionEnd(s) <= r.pos
    BY <1>1 DEF ArenaInvariant, LiveIsApart
  <2> QED
    BY <2>1, LiveNumbers DEF Bytes, Row
<1>2. ASSUME NEW p \in Free, NEW q \in Free, p # q
      PROVE  Row(p, freeRanges[p]) \cap Row(q, freeRanges[q]) = {}
  <2>1. (p < q => End(p) < q) /\ (q < p => End(q) < p)
    BY DEF ArenaInvariant, FreeIsApart
  <2> QED
    BY <1>2, <2>1, FreeNumbers DEF Row, ArenaInvariant
<1>3. FreeBytes \cap LiveBytes = {}
  <2> SUFFICES ASSUME NEW b, b \in FreeBytes, b \in LiveBytes PROVE FALSE
    OBVIOUS
  <2>1. b \in Nat /\ InFree(b) /\ InLive(b)
    BY BytesOf
  <2>2. PICK p \in Free : p <= b /\ b < End(p)
    BY <2>1 DEF InFree
  <2>3. PICK r \in live : r.pos <= b /\ b < RegionEnd(r)
    BY <2>1 DEF InLive
  <2>4. End(p) <= r.pos \/ RegionEnd(r) <= p
    BY DEF ArenaInvariant, FreeIsNotLive
  <2> QED
    BY <2>1, <2>2, <2>3, <2>4, FreeNumbers, LiveNumbers DEF ArenaInvariant
<1>4. FreeBytes \cup LiveBytes = Row(0, Size)
  <2>1. ASSUME NEW b \in Nat PROVE InFree(b) \/ InLive(b) <=> b \in 0 .. Size - 1
    <3>1. InFree(b) => b < Size
      BY FreeNumbers, SizesFacts DEF InFree, ArenaInvariant, Inside
    <3>2. InLive(b) => b < Size
      BY LiveNumbers, SizesFacts DEF InLive
    <3> QED
      BY <3>1, <3>2, SizesFacts DEF ArenaInvariant, NothingIsLost
  <2> QED
    BY <2>1, BytesOf, SizesFacts DEF Row
<1> QED
  BY <1>1, <1>2, <1>3, <1>4 DEF NoByteTwice

\* Every byte is in one free range or in one allocation: no function of
\* translated code is ever written over another.
THEOREM NoByteIsHandedOutTwice ==
    ASSUME SizesAssumption
    PROVE  ArenaSpec => []NoByteTwice
BY ArenaInvariantHolds, NobodyElseHas, PTL

\* The assertions of release hold for whatever holders give back.
THEOREM ReturnsAreAlwaysSane ==
    ASSUME SizesAssumption
    PROVE  ArenaSpec => []ReturnsAreSane
<1>1. ArenaInvariant => ReturnsAreSane
  <2> SUFFICES ASSUME ArenaInvariant, NEW r \in live, NEW n \in 0 .. r.size - 1
               PROVE  ReturnIsSane(r.pos + n, r.size - n)
    BY DEF ReturnsAreSane
  <2> DEFINE p == r.pos + n
             m == r.size - n
  <2>1. n \in Nat /\ n < r.size
    BY LiveNumbers
  <2>2. p \in Nat /\ m \in Nat \ {0} /\ p + m <= Size /\ NotFree(p, m)
    BY <2>1, TailIsNotFree
  <2> HIDE DEF p, m
  <2>3. Free \subseteq 0 .. Size - 1 /\ Size - 1 \in Nat
    BY SizesFacts DEF ArenaInvariant, ArenaTypeOK
  <2>4. ASSUME Above(p) # {} PROVE p + m <= Least(Above(p))
    <3>1. Above(p) \in SUBSET Nat
      <4>1. \A q \in Free : q \in Nat
        BY <2>3
      <4> QED
        BY <4>1 DEF Above
    <3>2. Least(Above(p)) \in Above(p)
      BY <2>4, <3>1, LeastExists
    <3>3. Least(Above(p)) \in Free /\ Least(Above(p)) >= p
      BY <3>2 DEF Above
    <3> QED
      BY <2>2, <3>3, FreeNumbers DEF NotFree, ArenaInvariant
  <2>5. ASSUME Below(p) # {} PROVE End(Greatest(Below(p))) <= p
    <3>1. Below(p) \in SUBSET (0 .. Size - 1)
      BY <2>3 DEF Below
    <3>2. Greatest(Below(p)) \in Below(p)
      BY <2>3, <2>5, <3>1, GreatestExists
    <3>3. Greatest(Below(p)) \in Free /\ Greatest(Below(p)) < p
      BY <3>2 DEF Below
    <3> QED
      BY <2>2, <3>3, FreeNumbers DEF NotFree, ArenaInvariant
  <2>6. ReturnIsSane(p, m)
    BY <2>2, <2>4, <2>5 DEF ReturnIsSane
  <2> QED
    BY <2>6 DEF p, m
<1> QED
  BY <1>1, ArenaInvariantHolds, PTL

(***************************************************************************)
(* JITArena implements Arena                                               *)
(***************************************************************************)
LEMMA RowIs ==
    ASSUME NEW p \in Nat, NEW n \in Nat, NEW b
    PROVE  /\ b \in Row(p, n) <=> b \in Nat /\ p <= b /\ b < p + n
           /\ Promise!Row(p, n) = Row(p, n)
BY DEF Row, Promise!Row

\* With all ranges merged, a row of free bytes lies in one free range.
LEMMA FreeRowFits ==
    ASSUME SizesAssumption, ArenaInvariant, NEW p \in Nat, NEW n \in Nat \ {0}, p + n <= Size,
           Row(p, n) \cap LiveBytes = {}
    PROVE  \E q \in Free : freeRanges[q] >= n
<1> USE SizesFacts DEF ArenaInvariant
<1>1. ASSUME NEW b \in Nat, p <= b, b < p + n PROVE InFree(b)
  <2>1. b \notin LiveBytes
    BY <1>1, RowIs
  <2>2. b \in 0 .. Size - 1
    BY <1>1
  <2> QED
    BY <2>1, <2>2, BytesOf DEF NothingIsLost
<1>2. PICK q \in Free : q <= p /\ p < End(q)
  BY <1>1 DEF InFree
<1>3. CASE p + n <= End(q)
  BY <1>2, <1>3, FreeNumbers
<1>4. CASE End(q) < p + n
  <2>1. End(q) \in Nat /\ p <= End(q)
    BY <1>2, FreeNumbers
  <2>2. PICK s \in Free : s <= End(q) /\ End(q) < End(s)
    BY <1>1, <1>4, <2>1 DEF InFree
  <2>3. (q < s => End(q) < s) /\ (s < q => End(s) < q)
    BY DEF FreeIsApart
  <2> QED
    BY <1>2, <2>1, <2>2, <2>3, FreeNumbers
<1> QED
  BY <1>2, <1>3, <1>4, FreeNumbers

LEMMA AllocImplements ==
    ASSUME SizesAssumption, ArenaInvariant, ArenaInvariant', NEW n \in Sizes, alloc(n)
    PROVE  Promise!Alloc(n)
<1> USE SizesFacts
<1>0. n \in Nat \ {0} /\ n <= Size
  OBVIOUS
<1>1. CASE Fits(n) # {}
  <2> DEFINE p == Least(Fits(n))
             new == [pos |-> p, size |-> n]
  <2>1. p \in Free /\ freeRanges[p] >= n /\ p \in Nat /\ End(p) <= Size /\ p + n <= End(p)
    BY <1>0, <1>1, FitFound, FreeNumbers DEF ArenaInvariant, Inside
  <2>2. live' = live \cup {new} /\ granted' = p
    BY <1>1 DEF alloc
  <2> HIDE DEF p
  <2>3. Bytes(new) = Row(p, n)
    BY DEF Bytes
  <2> HIDE DEF new
  <2>4. LiveBytes' = LiveBytes \cup Row(p, n)
    BY <2>2, <2>3 DEF LiveBytes, Bytes
  <2>5. Row(p, n) \cap LiveBytes = {}
    <3> SUFFICES ASSUME NEW b, b \in Row(p, n), b \in LiveBytes PROVE FALSE
      OBVIOUS
    <3>1. b \in FreeBytes
      BY <1>0, <2>1, RowIs, BytesOf, FreeNumbers DEF InFree, ArenaInvariant
    <3> QED
      BY <3>1, NobodyElseHas DEF NoByteTwice
  <2>6. p \in 0 .. Size - n
    BY <1>0, <2>1, FreeNumbers DEF ArenaInvariant
  <2> QED
    BY <1>0, <2>1, <2>2, <2>4, <2>5, <2>6, RowIs DEF Promise!Alloc
<1>2. CASE Fits(n) = {}
  <2>1. granted' = Nowhere /\ LiveBytes' = LiveBytes
    BY <1>2 DEF alloc, LiveBytes, Bytes
  <2>2. ASSUME NEW p \in 0 .. Size - n PROVE Promise!Row(p, n) \cap LiveBytes # {}
    <3>1. p \in Nat /\ p + n <= Size
      BY <1>0
    <3>2. \A q \in Free : ~ (freeRanges[q] >= n)
      BY <1>2 DEF Fits
    <3> QED
      BY <1>0, <3>1, <3>2, FreeRowFits, RowIs
  <2> QED
    BY <2>1, <2>2 DEF Promise!Alloc, Promise!Nowhere, Nowhere
<1> QED
  BY <1>1, <1>2

LEMMA ShrinkImplements ==
    ASSUME SizesAssumption, ArenaInvariant, ArenaInvariant', NEW r \in live, NEW n \in Nat, n < r.size,
           UNCHANGED granted,
           live' = (live \ {r}) \cup (IF n = 0 THEN {} ELSE {[r EXCEPT !.size = n]})
    PROVE  Promise!Next
<1> USE SizesFacts
<1> DEFINE p == r.pos + n
           m == r.size - n
           head == [r EXCEPT !.size = n]
<1>1. /\ r.pos \in Nat /\ r.size \in Nat \ {0} /\ RegionEnd(r) = r.pos + r.size /\ RegionEnd(r) <= Size
      /\ r = [pos |-> r.pos, size |-> r.size]
  BY LiveNumbers
<1>2. p \in Nat /\ m \in Nat \ {0} /\ p + m = RegionEnd(r) /\ p = r.pos + n
  BY TailIsNotFree
<1>3. head.pos = r.pos /\ head.size = n
  BY <1>1
<1>4. live' = (live \ {r}) \cup (IF n = 0 THEN {} ELSE {head})
  OBVIOUS
<1> HIDE DEF p, m, head
<1>5. \A b : b \in Row(p, m) <=> b \in Nat /\ p <= b /\ b < RegionEnd(r)
  BY <1>2, RowIs
<1>6. \A b : b \in LiveBytes <=> b \in Nat /\ InLive(b)
  BY BytesOf
<1>7. \A b : b \in LiveBytes' <=> b \in Nat /\ InLive(b)'
  BY BytesOfNext
<1>8. Row(p, m) \subseteq LiveBytes
  BY <1>1, <1>2, <1>5, <1>6 DEF InLive
<1>9. ASSUME NEW b \in Nat, InLive(b)' PROVE InLive(b) /\ b \notin Row(p, m)
  <2>1. PICK s \in live' : s.pos <= b /\ b < s.pos + s.size
    BY <1>9 DEF InLive, RegionEnd
  <2>2. CASE s \in live \ {r}
    <3>1. RegionEnd(s) <= r.pos \/ RegionEnd(r) <= s.pos
      BY <2>2 DEF ArenaInvariant, LiveIsApart
    <3>2. s.pos \in Nat /\ RegionEnd(s) = s.pos + s.size /\ s.size \in Nat
      BY <2>2, LiveNumbers
    <3>3. InLive(b)
      BY <2>1, <2>2, <3>2 DEF InLive
    <3>4. ~ (p <= b /\ b < RegionEnd(r))
      BY <1>1, <1>2, <2>1, <3>1, <3>2
    <3> QED
      BY <1>5, <3>3, <3>4
  <2>3. CASE s = head
    <3>1. r.pos <= b /\ b < p
      BY <1>2, <1>3, <2>1, <2>3
    <3>2. b < RegionEnd(r)
      BY <1>1, <1>2, <3>1
    <3> QED
      BY <1>2, <1>5, <3>1, <3>2 DEF InLive
  <2> QED
    BY <1>4, <2>2, <2>3
<1>10. ASSUME NEW b \in Nat, InLive(b), b \notin Row(p, m) PROVE InLive(b)'
  <2>1. PICK s \in live : s.pos <= b /\ b < RegionEnd(s)
    BY <1>10 DEF InLive
  <2>2. CASE s # r
    BY <1>4, <2>1, <2>2 DEF InLive, RegionEnd
  <2>3. CASE s = r
    <3>1. r.pos <= b /\ b < p
      BY <1>2, <1>5, <1>10, <2>1, <2>3
    <3>2. n # 0 /\ head.pos <= b /\ b < head.pos + head.size
      BY <1>1, <1>2, <1>3, <3>1
    <3> QED
      BY <1>4, <3>2 DEF InLive, RegionEnd
  <2> QED
    BY <2>2, <2>3
<1>11. LiveBytes' = LiveBytes \ Row(p, m)
  BY <1>6, <1>7, <1>9, <1>10
<1>12. p \in 0 .. Size - 1 /\ m \in 1 .. Size - p
  BY <1>1, <1>2
<1>13. Promise!Release(p, m)
  BY <1>2, <1>8, <1>11, RowIs DEF Promise!Release
<1> QED
  BY <1>12, <1>13 DEF Promise!Next

LEMMA StepImplements ==
    ASSUME SizesAssumption, ArenaInvariant, ArenaInvariant', [ArenaNext]_arenaVars
    PROVE  [Promise!Next]_<<LiveBytes, granted>>
<1>1. ASSUME NEW n \in Sizes, alloc(n) PROVE Promise!Next
  BY <1>1, AllocImplements DEF Promise!Next
<1>2. ASSUME NEW r \in live, release(r) PROVE Promise!Next
  <2>1. 0 < r.size /\ r.size \in Nat
    BY LiveNumbers
  <2> QED
    BY <1>2, <2>1, ShrinkImplements DEF release
<1>3. ASSUME NEW r \in live, NEW n \in 1 .. r.size - 1, finalize(r, n) PROVE Promise!Next
  <2>1. n \in Nat /\ n # 0 /\ n < r.size
    BY LiveNumbers
  <2> QED
    BY <1>3, <2>1, ShrinkImplements DEF finalize
<1>4. CASE reset
  <2>1. LiveBytes' = {} /\ UNCHANGED granted
    BY <1>4 DEF reset, LiveBytes
  <2> QED
    BY <2>1 DEF Promise!Next, Promise!Reset
<1>5. CASE UNCHANGED arenaVars
  BY <1>5 DEF arenaVars, LiveBytes, Bytes
<1> QED
  BY <1>1, <1>2, <1>3, <1>4, <1>5 DEF ArenaNext

\* The arena keeps its promise: a request is turned down only if no row of
\* bytes is long enough, and gets bytes that nobody has.
THEOREM ArenaKeepsItsPromise ==
    ASSUME SizesAssumption
    PROVE  ArenaSpec => ImplementsArena
<1>1. ArenaInit => Promise!Init
  BY DEF ArenaInit, Promise!Init, LiveBytes, Nowhere, Promise!Nowhere
<1> QED
  BY <1>1, StepImplements, ArenaInvariantHolds, PTL DEF ArenaSpec, Promise!Spec, ImplementsArena
===============================================================================

------------------------------ MODULE Recompiler ------------------------------
(***************************************************************************)
(* The recompiler's bookkeeping (PPCRecompiler.cpp): the jump table, the    *)
(* queue of addresses to translate, the ranges of active functions and the  *)
(* ranges that have been invalidated, used by the cores, which find code to *)
(* translate and rewrite code, and by the threads of the pool               *)
(* (PPCRecompilerThreadPool.h).  Where the pool is not compiled in (sync,   *)
(* any host but AArch64) the core that finds an address translates it.      *)
(*                                                                         *)
(* A step is one critical section of recompilerSpinlock, or the work of a   *)
(* thread between two of them.  A core that fails to take the spinlock to   *)
(* queue an address goes on in the interpreter, which is no step.           *)
(***************************************************************************)
EXTENDS Integers, Sequences, FiniteSets

CONSTANTS
    Cores, Workers,
    Builds,         \* values of PPCREC_FORCE_SYNCHRONOUS_COMPILATION
    Addrs,          \* addresses of code
    RangeOf,        \* what the function found from an address spans
    EntriesOf,      \* where it can be entered
    MayFail,        \* addresses whose code the recompiler may give up on
    ArenaSize,      \* functions the JIT arena has room for
    CodeWrites,     \* what a rewrite may touch
    MaxWrites,      \* bound: rewrites
    Titles          \* bound: titles, one after the other

ASSUME RangesAssumption ==
    /\ Addrs # {}
    /\ RangeOf \in [Addrs -> SUBSET Addrs] /\ EntriesOf \in [Addrs -> SUBSET Addrs]
    /\ \A a \in Addrs : a \in EntriesOf[a] /\ EntriesOf[a] \subseteq RangeOf[a]
    /\ MayFail \subseteq Addrs /\ CodeWrites \subseteq SUBSET Addrs
ASSUME ThreadsAssumption ==
    /\ Cores \cap Workers = {} /\ "free" \notin Cores /\ IsFiniteSet(Workers)
    /\ Builds \subseteq BOOLEAN
ASSUME BoundsAssumption == ArenaSize \in Nat /\ MaxWrites \in Nat /\ Titles \in Nat

Threads == Cores \cup Workers

(***************************************************************************)
(* A function, with what has been rewritten since it was read; the latter   *)
(* is there for the properties alone.                                       *)
(***************************************************************************)
Funcs == [entry : Addrs, old : SUBSET Addrs]
TranslationOf(a) == [entry |-> a, old |-> {}]
NoJob == TranslationOf(CHOOSE a \in Addrs : TRUE)
Spans(f) == RangeOf[f.entry]
Age(f, R) == [f EXCEPT !.old = @ \cup (R \cap RangeOf[f.entry])]

VARIABLES
    visited,        \* the jump table: leaveRecompilerCode_visited,
    code,           \*   translated code; the rest is leaveRecompilerCode_unvisited
    queue,          \* targetQueue
    invalidated,    \* invalidationRanges
    store,          \* rangeStore_ppcRanges
    arena,          \* functions' worth of the JIT arena handed out
    pc, job,        \* per thread: where, the function it translates
    wrote,          \* per core: code rewritten and not invalidated yet
    single,         \* who holds s_singleRecompilationMutex
    permits,        \* m_semaphore
    stopFlag,       \* m_stopFlag
    host,           \* PPCRecompiler_Shutdown
    titles, writes,
    sync            \* the pool is not compiled in

table == <<visited, code>>
threads == <<pc, job>>
pool == <<permits, stopFlag, host, titles>>
vars == <<table, queue, invalidated, store, arena, threads, wrote, single, pool, writes, sync>>

TypeOK ==
    /\ visited \subseteq Addrs
    /\ DOMAIN code \subseteq Addrs \ visited /\ code \in [DOMAIN code -> Funcs]
    /\ queue \in Seq(Addrs)
    /\ invalidated \subseteq Addrs
    /\ store \subseteq Funcs
    /\ arena \in 0 .. ArenaSize
    /\ pc \in [Threads -> {"off", "wait", "drain", "check", "run", "notify", "mutex", "translate", "translated"}]
    /\ job \in [Threads -> Funcs]
    /\ wrote \in [Cores -> SUBSET Addrs]
    /\ single \in Cores \cup {"free"}
    /\ permits \in Nat /\ stopFlag \in BOOLEAN
    /\ host \in {"run", "flag", "release", "join", "off"}
    /\ titles \in 0 .. Titles /\ writes \in 0 .. MaxWrites
    /\ sync \in Builds

Init ==
    /\ visited = {} /\ code = <<>> /\ queue = <<>> /\ invalidated = {} /\ store = {} /\ arena = 0
    /\ pc = [t \in Threads |-> IF t \in Cores THEN "run" ELSE "off"]
    /\ job = [t \in Threads |-> NoJob]
    /\ wrote = [c \in Cores |-> {}] /\ single = "free"
    /\ permits = 0 /\ stopFlag = FALSE /\ host = "off" /\ titles = 0 /\ writes = 0
    /\ sync \in Builds

At(t, l) == pc[t] = l
Goto(t, l) == pc' = [pc EXCEPT ![t] = l]

\* the jump table without the code in R
Without(R) == [a \in DOMAIN code \ R |-> code[a]]

-----------------------------------------------------------------------------
(***************************************************************************)
(* PPCRecompiler_visitAddressNoBlock                                       *)
(***************************************************************************)
Visit(c, a) ==
    /\ host = "run" /\ At(c, "run")
    /\ a \notin visited \cup DOMAIN code
    /\ visited' = visited \cup {a}
    /\ IF sync THEN Goto(c, "mutex") /\ job' = [job EXCEPT ![c] = TranslationOf(a)] /\ UNCHANGED queue
               ELSE Goto(c, "notify") /\ queue' = Append(queue, a) /\ UNCHANGED job
    /\ UNCHANGED <<code, invalidated, store, arena, wrote, single, pool, writes, sync>>

Notify(c) ==
    /\ At(c, "notify") /\ Goto(c, "run")
    /\ permits' = permits + 1
    /\ UNCHANGED <<table, queue, invalidated, store, arena, job, wrote, single, stopFlag, host, titles, writes, sync>>

EnterSingle(c) ==
    /\ At(c, "mutex") /\ single = "free"
    /\ IF job[c].entry \in visited
       THEN single' = c /\ Goto(c, "translate") /\ UNCHANGED job
       ELSE Goto(c, "run") /\ job' = [job EXCEPT ![c] = NoJob] /\ UNCHANGED single
    /\ UNCHANGED <<table, queue, invalidated, store, arena, wrote, pool, writes, sync>>

(***************************************************************************)
(* PPCRecompiler_recompileAtAddress                                        *)
(***************************************************************************)
Done(t) == /\ Goto(t, IF t \in Cores THEN "run" ELSE "check")
           /\ job' = [job EXCEPT ![t] = NoJob]
           /\ single' = IF t \in Cores THEN "free" ELSE single

TranslationFails(t) ==
    /\ At(t, "translate") /\ Done(t)
    /\ job[t].entry \in MayFail \/ arena = ArenaSize
    /\ UNCHANGED <<table, queue, invalidated, store, arena, wrote, pool, writes, sync>>

Translate(t) ==
    /\ At(t, "translate") /\ Goto(t, "translated")
    /\ arena < ArenaSize /\ arena' = arena + 1
    /\ job' = [job EXCEPT ![t].old = {}]
    /\ UNCHANGED <<table, queue, invalidated, store, wrote, single, pool, writes, sync>>

(***************************************************************************)
(* PPCRecompiler_makeRecompiledFunctionActive                              *)
(***************************************************************************)
NoLongerWanted(t) ==
    /\ At(t, "translated") /\ Done(t)
    /\ job[t].entry \notin visited
    /\ UNCHANGED <<table, queue, invalidated, store, arena, wrote, pool, writes, sync>>

RejectKeepsMarks(t) ==                                           \* mutant
    /\ At(t, "translated") /\ Done(t)
    /\ job[t].entry \in visited /\ invalidated \cap Spans(job[t]) # {}
    /\ invalidated' = {}
    /\ UNCHANGED <<table, queue, store, arena, wrote, pool, writes, sync>>

Reject(t) ==
    /\ At(t, "translated") /\ Done(t)
    /\ job[t].entry \in visited /\ invalidated \cap Spans(job[t]) # {}
    /\ invalidated' = {}
    /\ visited' = visited \ Spans(job[t])
    /\ UNCHANGED <<code, queue, store, arena, wrote, pool, writes, sync>>

ActivateUnregistered(t) ==                                       \* mutant
    /\ At(t, "translated") /\ Done(t)
    /\ job[t].entry \in visited /\ invalidated \cap Spans(job[t]) = {}
    /\ invalidated' = {}
    /\ LET entries == EntriesOf[job[t].entry] IN
       code' = [a \in DOMAIN code \cup entries |-> IF a \in entries THEN job[t] ELSE code[a]]
    /\ visited' = visited \ Spans(job[t])
    /\ UNCHANGED <<queue, store, arena, wrote, pool, writes, sync>>

Activate(t) ==
    /\ At(t, "translated") /\ Done(t)
    /\ job[t].entry \in visited /\ invalidated \cap Spans(job[t]) = {}
    /\ invalidated' = {}
    /\ LET entries == EntriesOf[job[t].entry] IN
       code' = [a \in DOMAIN code \cup entries |-> IF a \in entries THEN job[t] ELSE code[a]]
    /\ visited' = visited \ Spans(job[t])
    /\ store' = store \cup {job[t]}
    /\ UNCHANGED <<queue, arena, wrote, pool, writes, sync>>

Compile(t) == Translate(t) \/ TranslationFails(t) \/ NoLongerWanted(t) \/ Reject(t) \/ Activate(t)

-----------------------------------------------------------------------------
(***************************************************************************)
(* Code that changes: the guest's, a loaded module's, a patch's.            *)
(***************************************************************************)
Write(c, R) ==
    /\ host = "run" /\ At(c, "run") /\ wrote[c] = {} /\ R # {}
    /\ writes < MaxWrites /\ writes' = writes + 1
    /\ wrote' = [wrote EXCEPT ![c] = R]
    /\ code' = [a \in DOMAIN code |-> Age(code[a], R)]
    /\ store' = {Age(f, R) : f \in store}
    /\ job' = [t \in Threads |-> IF At(t, "translated") THEN Age(job[t], R) ELSE job[t]]
    /\ UNCHANGED <<visited, queue, invalidated, arena, pc, single, pool, sync>>

InvalidateActive(c) ==                                           \* mutant
    LET R == wrote[c]
        hit == {f \in store : Spans(f) \cap R # {}}
    IN /\ host = "run" /\ At(c, "run") /\ R # {}
       /\ wrote' = [wrote EXCEPT ![c] = {}]
       /\ visited' = visited \ (R \cup UNION {Spans(f) : f \in hit})
       /\ code' = Without(R \cup UNION {Spans(f) : f \in hit})
       /\ store' = store \ hit
       /\ UNCHANGED <<queue, invalidated, arena, threads, single, pool, writes, sync>>

PPCRecompiler_invalidateRange(c) ==
    LET R == wrote[c]
        hit == {f \in store : Spans(f) \cap R # {}}
    IN /\ host = "run" /\ At(c, "run") /\ R # {}
       /\ wrote' = [wrote EXCEPT ![c] = {}]
       /\ visited' = visited \ (R \cup UNION {Spans(f) : f \in hit})
       /\ code' = Without(R \cup UNION {Spans(f) : f \in hit})
       /\ store' = store \ hit
       /\ invalidated' = invalidated \cup R
       /\ UNCHANGED <<queue, arena, threads, single, pool, writes, sync>>

-----------------------------------------------------------------------------
(***************************************************************************)
(* WorkerLoop                                                              *)
(***************************************************************************)
Acquire(w) ==
    /\ At(w, "wait") /\ permits > 0
    /\ permits' = permits - 1
    /\ Goto(w, IF stopFlag THEN "off" ELSE "drain")
    /\ UNCHANGED <<table, queue, invalidated, store, arena, job, wrote, single, stopFlag, host, titles, writes, sync>>

CheckStop(w) ==
    /\ At(w, "check")
    /\ Goto(w, IF stopFlag THEN "off" ELSE "drain")
    /\ UNCHANGED <<table, queue, invalidated, store, arena, job, wrote, single, pool, writes, sync>>

QueueEmpty(w) ==
    /\ At(w, "drain") /\ queue = <<>>
    /\ Goto(w, "wait")
    /\ UNCHANGED <<table, queue, invalidated, store, arena, job, wrote, single, pool, writes, sync>>

Drain(w) ==
    /\ At(w, "drain") /\ queue # <<>>
    /\ queue' = Tail(queue)
    /\ job' = [job EXCEPT ![w] = TranslationOf(Head(queue))]
    /\ Goto(w, IF Head(queue) \in visited THEN "translate" ELSE "check")
    /\ UNCHANGED <<table, invalidated, store, arena, wrote, single, pool, writes, sync>>

Worker(w) == Acquire(w) \/ CheckStop(w) \/ QueueEmpty(w) \/ Drain(w) \/ Compile(w)

-----------------------------------------------------------------------------
(***************************************************************************)
(* Titles: the cores have been joined when the pool is stopped.             *)
(***************************************************************************)
PPCRecompiler_init ==
    /\ host = "off" /\ host' = "run"
    /\ titles < Titles /\ titles' = titles + 1
    /\ stopFlag' = FALSE
    /\ pc' = [t \in Threads |-> IF t \in Workers /\ ~sync THEN "wait" ELSE pc[t]]
    /\ UNCHANGED <<table, queue, invalidated, store, arena, job, wrote, single, permits, writes, sync>>

EndScheduler ==
    /\ host = "run" /\ host' = (IF sync THEN "join" ELSE "flag")
    /\ \A c \in Cores : At(c, "run")
    /\ UNCHANGED <<table, queue, invalidated, store, arena, threads, wrote, single, permits, stopFlag, titles, writes, sync>>

SetStopFlag ==
    /\ host = "flag" /\ host' = "release" /\ stopFlag' = TRUE
    /\ UNCHANGED <<table, queue, invalidated, store, arena, threads, wrote, single, permits, titles, writes, sync>>

ReleaseAll ==
    /\ host = "release" /\ host' = "join"
    /\ permits' = permits + Cardinality(Workers)
    /\ UNCHANGED <<table, queue, invalidated, store, arena, threads, wrote, single, stopFlag, titles, writes, sync>>

Clear ==
    /\ host = "join" /\ host' = "off"
    /\ \A w \in Workers : At(w, "off")
    /\ queue' = <<>> /\ invalidated' = {} /\ store' = {}
    /\ visited' = {} /\ code' = <<>> /\ arena' = 0
    /\ wrote' = [c \in Cores |-> {}]
    /\ UNCHANGED <<threads, single, permits, stopFlag, titles, writes, sync>>

Host == SetStopFlag \/ ReleaseAll \/ Clear

-----------------------------------------------------------------------------
CoreWorks(c) == Notify(c) \/ EnterSingle(c) \/ Compile(c)

Next ==
    \/ \E c \in Cores : \/ \E a \in Addrs : Visit(c, a)
                        \/ \E R \in CodeWrites : Write(c, R)
                        \/ PPCRecompiler_invalidateRange(c) \/ CoreWorks(c)
    \/ \E w \in Workers : Worker(w)
    \/ PPCRecompiler_init \/ EndScheduler \/ Host

Spec == Init /\ [][Next]_vars

\* Threads run on; a core need not visit or rewrite anything, no title has to end.
FairSpec == /\ Spec /\ WF_vars(Host)
            /\ \A c \in Cores : WF_vars(Notify(c)) /\ WF_vars(Compile(c)) /\ SF_vars(EnterSingle(c))
            /\ \A w \in Workers : WF_vars(Worker(w))

-----------------------------------------------------------------------------
\* written and not invalidated yet: until then either code may run
Unannounced == UNION {wrote[c] : c \in Cores}

\* "check if the current range got invalidated during the time it took to
\* recompile it" (PPCRecompiler.cpp:911): the jump table never leads to a
\* translation of code that was rewritten since, once the rewrite has been
\* announced.
NoStaleCode == \A a \in DOMAIN code : code[a].old \subseteq Unannounced

\* An invalidation finds every function the jump table leads to.
CodeIsRegistered == \A a \in DOMAIN code : code[a] \in store

\* An address marked as visited, which no core will queue again, is queued or
\* being translated, unless the translation has failed.
AtWork(t) == pc[t] \in {"mutex", "translate", "translated"}
NoForgottenEntry ==
    \A a \in visited \ MayFail :
        \/ \E i \in 1 .. Len(queue) : queue[i] = a
        \/ \E t \in Threads : AtWork(t) /\ job[t].entry = a
        \/ arena = ArenaSize

\* Work in the queue has a thread that is awake, or a wake-up on its way.
WorkIsNoticed ==
    queue # <<>> /\ ~stopFlag => \/ permits > 0
                                 \/ \E w \in Workers : pc[w] \notin {"off", "wait"}
                                 \/ \E c \in Cores : At(c, "notify")

\* "Blocks are recycled more often than with a full arena"
\* (PPCRecompiler.cpp:1355): the arena takes back what nobody uses.
ArenaIsRecycled == store = {} /\ (\A t \in Threads : ~AtWork(t)) => arena = 0

\* An address that has been visited is decided on, as long as there is room for
\* its code.
VisitedIsDecided == \A a \in Addrs \ MayFail : a \in visited ~> a \notin visited \/ arena = ArenaSize

\* The pool stops, whatever is queued.
StopReturns == host = "flag" ~> host = "off"
=============================================================================

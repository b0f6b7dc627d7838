# MuffinEMU: TLA+ specifications

MuffinEMU (a port of the Cemu Wii U emulator) runs guest programs whose
operating system calls it implements itself ("high level emulation").  The part
of it that is hard to get right by testing is not rendering or instruction
decoding but what runs concurrently: a preemptive scheduler that multiplexes
guest threads over three host threads, the synchronisation primitives on top of
it, the IPC path to a second emulated processor, a recompiler whose code is
translated by some threads while others run and rewrite it, and an app that
pauses all of that to save it to a file.  That is specified here.

Paths below are relative to `src/src/Cafe/OS/libs/coreinit/` unless they start
with `src/`.

## 1. Inventory

| Component | State it keeps | Operations | Talks to | What makes it correct | Here |
|---|---|---|---|---|---|
| thread queues (`coreinit_ThreadQueue.cpp`) | lists of threads, sorted by priority (wait queues) or in order of arrival (run queues) | add, add by priority, remove, wait, wake one, wake all | scheduler | an insertion or removal changes exactly one element | `ThreadQueue` |
| message queues (`coreinit_MessageQueue.cpp`) | ring of messages, `firstIndex`, `usedCount`, two wait queues | send (normal, high priority, blocking or not), receive, peek | thread queues, IPC | it is a bounded deque; no wakeup is lost | `MessageQueue`, `MessageDeque` |
| scheduler and threads (`coreinit_Thread.cpp`) | states, suspend counters, affinity masks, priorities, one run queue and counter per core, list of active threads | create, run, exit, detach, join, suspend, resume, continue, sleep, wake, set affinity or priority, timeslice, idle loop | everything | a runnable thread is queued where it may run, one core runs it, none is forgotten | `Scheduler` |
| idle wait (`coreinit_Thread.cpp`, `src/src/util/helpers/Semaphore.h`) | sequence number, host condition variable, a counter per core | notify, wait with timeout, start, stop | scheduler, alarms | a core does not sleep through a runnable thread; stopping ends | `IdleWake` |
| mutexes, condition variables (`coreinit_Synchronization.cpp`) | owner, lock count, wait queue; list of held mutexes of each thread | lock, try, unlock, wait, signal; release on exit | scheduler | mutual exclusion, depth restored after a wait, no lost wakeup | `Mutex` |
| fast mutexes, fast condition variables (same file) | owner field changed by compare-and-exchange, a host spinlock, small wait queue | the same | scheduler lock taken inside of the spinlock | the same, with two locks | `FastMutex` |
| events (same file) | signaled state, wait queue, host alarms of timed waits | wait, timed wait, signal, signal all, reset | alarms, IPC | every signal counts once, even against a timeout | `Event` |
| rendezvous (same file) | flags of the cores; one event for all rendezvous | init, wait | events | nobody passes early, nobody oversleeps | `Rendezvous` |
| semaphores (same file), alarms, spinlocks, MP task queues, callbacks (`coreinit_{Alarm,Spinlock,MPQueue,Callbacks}.cpp`) | counts, ordered host alarms, owner and boost, task counts, a queue and a thread | wait/signal, set/cancel/fire, acquire/release, enqueue/run/stop, queue/call | scheduler | conservation, due alarms called, balanced boosts, each task once | not modelled |
| IPC driver (`coreinit_IPC.cpp`), file system API (`coreinit_FS.cpp`) | FIFOs of command descriptors, queue of commands per client | submit, wait, answer | message queues, events, IOSU kernel | a buffer is in one place, a reply reaches its caller | not modelled |
| IOSU kernel and `/dev/fsa` (`src/src/Cafe/IOSU/kernel/iosu_kernel.cpp`, `src/src/Cafe/IOSU/fsa/iosu_fsa.cpp`) | pool of commands, device handles, message queue of the device, its client slots | open, ioctl, close, reply, reset of a title's clients | guest threads, host's launch code | handles name what they were opened for, no command is lost, nothing survives a title | `IOSKernel` |
| recompiler (`src/src/Cafe/HW/Espresso/Recompiler/`) | jump table, queue of addresses, ranges of active functions, list of invalidated ranges, thread pool | visit, translate, activate, reject, invalidate, start and stop | cores, guest code | the jump table never leads to stale code; what is queued is decided | `Recompiler` |
| memory of translated code (`PPCRecompiler.cpp`, `DualMapArena`) | map of free ranges | alloc, return the tail, reset | recompiler | no byte twice; a request fails only without room | `JITArena`, `Arena` |
| pausing a title (`src/src/ios/Bridge/Core/IOSTitlePause.cpp`, `IOSSaveState.cpp`) | paused flag, suspend counters, busy flags of the cores | pause, resume, wait for quiet cores | scheduler | a pause takes effect and stays; a save returns | `TitlePause` |
| save slots (`IOSSaveState.cpp`) | slot, temporary file, guest memory | save, load | host file system, a title that may run meanwhile | a slot is one whole save, whatever fails; what is wrong with a file is found before memory is touched | `SaveFile` |
| GPU commands, pipeline caches, cache files | command pool, ring, cache tables | reserve, submit, retire; load, compile, store | GPU thread | no overwrite, files survive a crash | not modelled |
| heaps, services, audio, sockets, host file systems, input, GUI, vendored code | | | | | not modelled |

`PROJECT.json` gives the reason for each part that is left out or partly
modelled.

### How the parts interact

Guest code runs on fibers.  Each of three host threads stands for a core and
switches between the fibers of guest threads and its own idle loop.  One lock,
the *scheduler lock*, protects threads, queues and primitives.  It stays held
across a fiber switch: the fiber that is switched to releases it.  A blocking
call therefore consists of two stretches under the lock (before the switch and
after the next dispatch), and anything may happen between them.  That is
the source of most hazards.  A woken thread is only READY: until a core picks
it up any other thread may call the same primitive first ("barging").

The exceptions have finer steps: the owner field and spinlock of fast mutexes,
the idle loop's unlocked look at the counters and the sequence number, the host
mutexes of the IOSU kernel, the recompiler's spinlock with translation outside
of it, and the unlocked flags and counters through which the app pauses a
title.

### Hard behaviours

Preemption at any instruction boundary; wakeups that race suspensions, affinity
changes and thread ends; timeouts that race signals; two locks around one wait
queue; ring indices that move in both directions; a sleep decided on a queue
that has changed since; code that is rewritten while it is translated; replies
that arrive when the title is gone; crashes and failing calls in the middle of
a save.  `PROJECT.json` lists each under `hazards` at its line, with the
properties that would notice it going wrong.

## 2. The specifications

Definitions carry the name of the function they translate where there is one.

**`ThreadQueue`**: wait queues and run queues as sequences, with the insertion
and removal operators.  No state of its own; `MessageQueue`, `Scheduler` and
`Synchronization` extend it.

**`Synchronization`**: what `Mutex`, `FastMutex` and `Event` share, the guest
threads and the priorities that order their wait queues.  These modules and
`Rendezvous` are proved about in one module, and so are `SaveFile` with
`TitlePause` and `Recompiler` with `JITArena`; therefore their specifications
have names of their own (`EventSpec`, `MutexInit`, `pauseVars`, ...) where the
others say `Spec`, `Init` and `vars`.

**`MessageQueue`**: one queue, any threads.  An action is one stretch under the
scheduler lock: `OSReceiveMessage`/`OSSendMessage` from the call to its return
or to the switch, `ResumeReceive`/`ResumeSend` from the dispatch of a woken
thread on, which runs the `while` loop of the code again.  `op` and `arg` say
which call a thread is blocked in; `last` is a history variable, the last
message handed out and to whom.  `MessageDeque` is the abstract
specification: a sequence of at most `MsgCount` messages, put in at either end,
taken from the front.

**`Scheduler`**: threads, cores, run queues, in multi-core mode.  `rq` bundles
the three things that the code keeps in step (queues, back pointers
`currentRunQueue`, counters).  The calls are actions of a core `c` on a thread
`t`; `SwitchToNext` is `__OSThreadSwitchToNext`, with the way over the idle loop
on the main core.  `lock` is normally free between actions; two stretches are
cut, with the lock held: the loop of `wakeupEntireWaitQueue` (`WakeNext`, one
iteration a step) with the end of its callers (`WakeReturn`, `ExitReturn`), and
the second half of `OSJoinThread` (`JoinReturn`).  The guest contract is a
constant: `JoinContract = TRUE` means that while a thread is being joined nobody
else joins, detaches or restarts it.

**`IdleWake`**: the idle loops of the host threads between their look at a run
queue and their sleep, at the grain of single loads and stores: the sample of
the sequence number, the look, the decision, the check under the condition
variable's mutex, the wait with its timeout; `waitUntilNonZero` on the counters
of the other cores; and `OSSchedulerEnd`, which increments counters, notifies
and joins, after which the scheduler starts again.  `Multicore` chooses between
one host per core and a single host whose core index rotates.  Of `Scheduler`
it keeps which threads are queued, and on which cores.

**`Mutex`**: mutexes with the list of mutexes that a thread holds, one condition
variable, and the release of held mutexes by `OSExitThread`, whose unlocks are
separate steps because each may give up the core.

**`FastMutex`**: one mutex and one condition variable, threads on different
cores, a step for each lock operation and each access to `owner`.  `contention`
and `sched` are the two locks; `pc` is where in the code each thread is;
`useCond` is whether the guest uses the condition variable.

**`Event`**: one event, AUTO or MANUAL (`mode`), timed and untimed waits, the
host alarm of a timed wait with the record on the waiter's stack
(`hasTimeout`).  `credit` is a history variable that counts signals not yet
consumed.

**`Rendezvous`**: several rendezvous over the one AUTO event they share.
`arrived` is a history variable, the threads that called since the rendezvous
was initialised.

**`IOSKernel`**: guest threads (`Callers`), the thread of a device, the host
that ends a title.  A call copies its command into a pool entry
(`IPCSubmitFromCOS`), creates or checks a handle, and puts the entry on the
device's queue; the steps are the critical sections of `sInternalMutex`.  The
device's thread receives, assigns the dispatch target, and answers; for a close
it answers first, then gives the pool entry back, then destroys the handle,
three separate steps.  `ResetClientState` and `IOS_CloseAllHandlesForQueue`
follow the end of a title.  `failed` is an assertion that stopped the program,
or the use of a pool entry that the empty pool did not give: the code does not
look at the result of the allocation.
`MultiCore = FALSE` keeps two guest threads from being inside
`IPCSubmitFromCOS` at once, since in that mode one host thread runs them all.

**`Recompiler`**: the jump table (`visited`, `code`), the queue, the ranges of
active functions (`store`), the invalidated ranges, the thread pool with its
permits and its stop, over several titles.  `sync` is the build without the
pool, in which a core that finds an address translates it itself.  `Write` is
guest code that is rewritten and, some steps later, announced.  `old` in a
function is history: what was rewritten since it was read.

**`JITArena`** and **`Arena`**: the map of free ranges with its merging, and the
abstract arena it implements: a request gets bytes in a row that nobody has and
is turned down only if there are none.

**`TitlePause`**: two host threads, the app that pauses and resumes and the
saver, against guest threads that are dispatched, block, wake, suspend each
other and create new ones.  `phase` is where in `__OSFiberThreadEntry`'s loop a
thread is, `busy` the flag of each core, `polled` the flags
`__OSAllCoresIdle` has read so far.  Of the scheduler that much is kept: the run
queues as one set (`queued`), without priorities and masks, and who enters and
leaves it.  `AddReady` is the test of `__OSAddReadyThreadToRunQueue`, `Dequeue`
the removal in `__OSSuspendThreadInternal`; a dispatch takes anybody from the set
to any idle core and looks at no counter, like the code.  Threads that end
without being detached stay in the list that a pause goes through (`ended`).

**`SaveFile`**: guest memory as the ranges that are mapped, the slot, the
temporary file and what a crash would bring back as either.  Every call of a
save (open, write, sync, close, rename) can fail, and so can every read of a
load; a crash may come at any step and undo what was not synced.  A load asks
that the threads be the same and that each range of the *file* be mapped, no
more: a range that the title has mapped since the save (the overlay arena) is
left as it is.  `TitleRuns` may come at any step of a save or load, since
the wait for quiet cores does not keep it out (see Observations).  `mixed` is a
history variable: memory is, or will be after the restore under way, of several
moments; a file carries it from the memory it was taken of.

Definitions marked `mutant` are wrong on purpose, the way a small slip in the
code would be.  No specification uses them; put in place of the definition they
stand next to, each makes TLC report the property that `PROJECT.json` names.

## 3. What is checked

| Run | Instance | Distinct states | Shows |
|---|---|---|---|
| `message_queue` | 3 threads of two priorities, 2 messages, 2 slots | 42,738 | the ring refines the deque (`ImplementsDeque`); `NoLostReceiver`, `NoLostSender`: nobody sleeps on a message or a slot unless enough woken threads are on their way; `WaitQueuesConsistent`; `SleepersDrain` |
| `scheduler` | 2 threads, 2 cores, every guest call, every mask, 2 priorities | 46,048 | `RunQueuesExact`, `RunningIsCurrent`, `NoForgottenJoiner`, `JoinFindsMoribund`, `SwitchRespectsSuspendAndAffinity`; `NoStarvation` once the guest stops moving threads between cores |
| `mutex` | 3 threads, 2 mutexes, depth 2 | 97,533 | `HoldersAgree`, `NoSleeperOnFreeMutex`, `ExitReleasesAll`; `FreeMutexIsTaken` |
| `fast_mutex` | 3 threads of priorities 15, 15 and 16, depth 2, with and without condition waits | 6,180 | `QueuesConsistent` in both; without condition waits `UnlockLeavesNoSleeper`, and `SleepersWoken`: no sleeper waits for ever unless others of a better priority keep outranking it |
| `event` | 4 threads of two priorities, AUTO and MANUAL | 10,302 | `SignalsConserved`, `NoWaiterOnSignaledEvent`, `AlarmsEndWithTheirCall`; `TimedWaitsEnd` |
| `idle_wake` | 3 cores, a thread bound to one core and one that runs anywhere | 63,660 | `CountsExact`, also after the scheduler was started again; `SleepersHaveNothingToRun`; `EndTerminates`, `QueueIsServed` |
| `recompiler` | 2 cores, 1 worker or none, 2 overlapping functions, 2 rewrites, an arena of 3 functions | 280,008 | `NoStaleCode`, `CodeIsRegistered`; `VisitedIsDecided` |
| `save_file` | 1 range of memory and 1 mapped later, 2 versions, 2 sets of threads, damaged slot, one crash | 2,808,376 | `SlotIsWhole`, `MemoryIsWhole`, `SlotChangesOnSuccess` |
| `title_pause` | 2 threads (one created later), 2 cores, app and saver | 509,339 | `StaysQuiet`; `PauseStops`, `SaveEnds` |
| `ios_kernel` | 2 callers, 3 pool entries, 2 handles, 1 client slot, 3 opens, 2 titles, the second of which ends with a late device | 219,121 | `AssertionsHold`, `HeldHandlesWork`, `CommandsConserved`, `ReleasedAtUnmount`; `CallsReturn` |
| `fast_cond_lost` | `fast_mutex` with condition waits | | *violation* of `NoSleeperOnFreeFastMutex`, see Findings |
| `recompiler_stale` | 2 cores, 2 workers, 3 addresses | | *violation* of `NoStaleCode`, see Findings |

The type invariants (`TypeOK` of each module) hold in the same instances, and so
do `SlotsFilled`, `WaitingIsQueued`, `ActiveIffStarted`, `WaitersAreQueuedOnce`,
`ExitCompletes`, `FreeMeansZero`, `NoForgottenEntry`, `WorkIsNoticed` and
`StopReturns`, none of which is part of a run.  `MCRendezvous.cfg` (3,309
states) and `MCJITArena.cfg` (31,938 states) check the instances of the two
modules that have proofs and no regular run.

**Bounds.**  Two cores show every interaction of cores in `Scheduler`, since the
code treats the main core specially and all others alike; `IdleWake` takes three
so that the single-host mode has a core to skip.  Two threads are enough for
a waker and a woken thread, three for one that barges in, four where two
sleepers must be told apart from the two that compete.  Two slots are the
smallest ring whose index both wraps and has a middle.  `MaxSuspend = 1` in
`Scheduler` is enough because only 0 or not 0 matters to the queues; in
`TitlePause` it is 2, a suspension by the guest and one by a pause.
`MaxLockCount = 2` tells a nested lock from a single one.  `MaxSignals` exceeds
what any behaviour reaches and keeps the state space finite by construction.  In
`Recompiler` one function spans the entry of the other, which is what makes an
activation take marks that are not its own; two rewrites let one come before
and one during a translation; an arena of three functions fills up.  In
`IOSKernel` one client slot for two callers makes the device refuse opens, two
handle slots and three opens make slots be used again, and two titles show that
the second one finds nothing of the first.  Three pool entries are one more than
there are callers, the least with which no call meets an empty pool; with two
`AssertionsHold` fails.  In `SaveFile` two ranges tell a whole file from a
beginning of one, and one of them being mapped later tells a load that restores
all of memory from one that restores a part; two versions tell memory of one
moment from a mixture.  In `FastMutex` two threads of the better priority can
pass the mutex to and fro before the third, and one of them can sleep behind
the other with nobody outranking it.  `CHECK_DEADLOCK FALSE` is set where the system may simply
stop: all threads asleep is a legal end, and so is the end of the last title.

**Fairness.**  Only what the emulator does on its own is fair; no guest call is
ever obliged to happen, with the exception named last.

- A READY thread is dispatched (`ResumeReceive`, `ResumeLock`, `Return`, ...):
  weak fairness in the modules of the primitives.  It is what `NoStarvation`
  states of the scheduler; a thread that is outranked for ever by busy ones does
  starve, in the code as on the console.
- `Scheduler`: timeslices end because every fiber runs with an instruction
  budget, idle loops look at their run queue again.  Both are strongly fair
  because a core has to win the host lock, which any other core may hold at
  times.  The thread inside of a stretch under the lock runs on (weak).
- `IdleWake`: host threads are strongly fair for the same reason; waits with a
  timeout time out, and `OSSchedulerEnd` goes on once called (weak).
- `Event`: the main core's idle loop keeps calling `alarm_update` (weak).
- `TitlePause`: timeslices end (strong, as above); the saver's next step is
  taken, be it only that its wait for cores or GPU runs out, and so is the app's
  inside of a call (weak).  No dispatch, wakeup or guest call has to happen.
- `Recompiler`: threads of the pool and translations run on (weak); a core that
  waits for `s_singleRecompilationMutex` gets it in the end (strong).
- `IOSKernel`: the device's thread and callers inside of the kernel run on
  (weak).  No title has to end.
- `FastMutex`: strong fairness of each thread inside of the functions, since it
  spins for the contention lock, and the guest is assumed to unlock what it
  locked.  An unlock wakes the sleeper of the best priority and does not hand the
  mutex over, so even so two threads can keep a third of a worse priority asleep
  for ever, in the code as in the model; `SleepersWoken` exempts a thread that is
  outranked (`Outranked`) again and again.

## 4. Findings

**A lost wakeup in `OSFastCond_Wait`** (`coreinit_Synchronization.cpp:607`, run
`fast_cond_lost`).  A thread in `OSFastMutex_LockInternal` fails its
compare-and-exchange, holds the contention spinlock and waits for the scheduler
lock to queue itself.  The owner, inside of `OSFastCond_Wait`, holds the
scheduler lock, clears the owner, finds the wait queue empty and goes to sleep.
Now the first thread is queued and sleeps on a free mutex.  It stays there until
some later unlock of the mutex wakes it; if there is none (for instance because
it is the thread that should signal the condition), for ever.  Run `fast_mutex`
shows that the protocol is right otherwise.

**Stale code with two translating threads**
(`src/src/Cafe/HW/Espresso/Recompiler/PPCRecompiler.cpp:926`, run
`recompiler_stale`).  A thread that has translated a function looks whether its
range was invalidated meanwhile, and then clears the list of invalidated ranges,
which is one list for all threads of the pool.  A second thread that is still
translating code that was rewritten under it finds the list empty and activates
the old code, unless the entry point itself was in the range (then the mark in
the jump table is gone and the translation is dropped).  With one thread, or in
a build without the pool, this cannot happen: `RecompilerProofs`.

### Observations

Each of these is a state the models reach when a constant is changed, or a
property added, in the `.cfg` named; none is part of a run, and what the source
expects is less certain than for the two findings.

- `MCScheduler.cfg` with `JoinContract = FALSE`: `JoinFindsMoribund` fails.
  Detaching a thread while it is being joined lets the joiner deactivate it a
  second time; `OSJoinThread`'s assertions (`coreinit_Thread.cpp:790`) rest on
  the guest.
- `MCIdleWake.cfg` with `Multicore = FALSE`: `SleepersHaveNothingToRun` fails,
  while the other properties hold.  The single host samples the sequence number
  before each core it looks at, so that a thread queued for a core it looked at
  before waits for one timeout.
- `MCIOSKernel.cfg` with `MultiCore = TRUE` and `NumClients = 2`:
  `AssertionsHold` fails.  `_IPCCreateResourceHandle` gives its lock up between
  choosing a slot and claiming it (`src/src/Cafe/IOSU/kernel/iosu_kernel.cpp:466`).
- `MCIOSKernel.cfg` with `PoolSize = 2`: `AssertionsHold` fails.  A call that has
  been answered still has its entry for a moment, so a pool with as many entries
  as callers can be empty when one is needed, and `IPCSubmitFromCOS` does not look
  whether it got one (`src/src/Cafe/IOSU/kernel/iosu_kernel.cpp:682`).  The
  program has 96 entries.
- `MCIOSKernel.cfg` with `LateResets = {1}`: `AssertionsHold` fails.  The late
  reset of one title sets the flag that the next title's reset waits for
  (`src/src/Cafe/IOSU/fsa/iosu_fsa.cpp:866-890`).
- `MCTitlePause.cfg` with `QuietWhileSaving`, `ResumeRestores`,
  `BusyCoversExecution` or `ParkedIsIdle`: each fails.  A thread that was
  dispatched before the pause starts its timeslice after its core's flag was
  read; a resume between a save's exchange of the flag and its lock resumes
  nothing, and threads created during a pause are resumed without having been
  suspended; a thread that blocks inside of a call comes back on a core whose
  flag is clear, and leaves one set behind.
- `MCSaveFile.cfg` with `MismatchIsRefused`: fails.  "Thread and memory-range
  layout are checked against the live session before any memory is touched, and a
  mismatch refuses the load" (`src/src/ios/Bridge/Core/IOSSaveState.cpp:17-18`),
  but the loop at 301-315 only asks whether each range of the file is mapped.  A
  range that the title has mapped since the save, such as the overlay arena
  (`coreinit_OverlayArena.cpp:17-22`), passes unnoticed: the load restores the
  other ranges, reports success, and leaves memory of two moments, which the next
  save puts into a slot.
- `MCSaveFile.cfg` with `LoadsOwnInstance` or `SlotIsTrustworthy`: each fails.
  After a restart with the same threads and ranges a save of the previous run
  passes every check; after a read error in the middle of a restore, or a restore
  of a part of memory, the next save replaces a good slot with mixed memory, and a
  title that runs during a save mixes the file itself.
- `MCRecompiler.cfg` with `ArenaIsRecycled`: fails.  Functions that are rejected
  or invalidated keep their part of the arena until the title ends.
- `PPCREC_FORCE_SYNCHRONOUS_COMPILATION` has two opposite defaults, in
  `PPCRecompilerThreadPool.h:19-25` and `PPCRecompiler.cpp:52-58`.  The header is
  included first and decides (a pool on AArch64 only), so `Recompiler` follows it.

## 5. What is proved

Eight modules of proofs are checked by TLAPS.  What the runs show on small
instances holds for every value of the constants.

- *Lemmas about queues* (`ThreadQueueProofs`): what the insertions and the
  removals do to the set of members, to the length and to freedom from
  duplicates; that the search for the best priority finds a thread.
- *`MessageQueueProofs`*, from the assumptions on the constants (finite
  `Threads`, `MsgCount` a positive natural number, integer priorities).  The
  inductive invariant is type correctness, together with `WaitQueuesConsistent`
  (without it a wakeup could be counted twice), the two no-lost-wakeup
  properties (only inductive together with it, because they compare the ring
  with *cardinalities* of sets of woken threads) and the statement that the used
  part of the ring holds messages.  `RingImplementsDeque` then shows that every
  step of the ring is a step of `MessageDeque` or stutters; its heart is
  arithmetic modulo `MsgCount`: moving `firstIndex` by one in either direction
  shifts the window that `Contents` looks through, and the slot written by a
  send is the one just outside of the old window.
- *`SchedulerProofs`*, from the assumptions on the constants and `JoinContract`.
  Cores, threads and masks need not even be finite.  The inductive invariant has
  five parts besides the types.  `QueuedExactly`: each thread is on the run
  queues it belongs on.  `CoresExact`: who is RUNNING where.  `WaitsExact`: who
  waits on which queue; a thread that has ended has an empty one.  `JoinsExact`:
  whoever a call of `OSJoinThread` waits for is attached and has no other
  joiner, and the joiner is queued, or the thread has ended, or it is in the
  middle of `OSExitThread`.  `LockExact`: what holds while the lock is held
  between two steps.  None is inductive alone: `OSCreateThread` resets the back
  pointers of a thread without taking it off queues, which is right only because
  an inactive thread is NONE and so on no queue; a wakeup makes a thread READY
  without looking at its state, which is right only because queued threads are
  WAITING; and `OSJoinThread` deactivates without looking for waiters.  Most
  calls end in `__OSThreadSwitchToNext`, in the middle of which nobody is
  current on the core.  The parts of the invariant are therefore operators of
  the *values* they speak about, so that they can be stated there: each call is
  shown to establish them at that point, and one lemma (`RunsNext`) takes them
  from there to the next state.
- *`IdleWakeProofs`*: `CountersAreExact` in both modes and
  `NobodySleepsThroughWork` in multi-core mode.  The second is about hosts that
  sleep, but the look that sent them to sleep came steps before; the invariant
  carries it across in `LookIsFresh`: what the main host saw of its queue still
  holds, or somebody has moved the sequence number since it was sampled, or
  holds the lock and is about to.
- *`RecompilerProofs`*: `CodeIsNeverStale` and `InvalidationsFindCode` under
  `OneCompiler`: no pool, or a pool of one thread.  `JobsAreMarked` is what
  makes it inductive: whatever was rewritten under a translation in progress is
  still to be announced, or is in the list its end looks at.  Clearing the list
  keeps that only if nobody else is translating, which is where two threads fail.
  In the same module, about `JITArena`: `NoByteIsHandedOutTwice`,
  `FreeIsMerged`, `ReturnsAreAlwaysSane`, and `ArenaKeepsItsPromise`: the map of
  free ranges implements `Arena`, for any size.  A request that fails for want
  of a range that is large enough fails for want of room only because free
  ranges never touch.
- *`SynchronizationProofs`*, one invariant for each primitive, for any threads,
  priorities, mutexes and bounds.
  - Events: `SignaledEventHasNoWaiter`, `SignalsAreConserved`,
    `AlarmsNeverOutliveTheirCall`.  `SignalsConserved` counts the threads that a
    signal has woken and that have not run since.  A signal or a timeout keeps
    the count right only because whoever it takes off the queue was not counted
    yet (a queued thread has no alarm that has fired, and is queued once), and
    because the counted threads are finitely many even if all threads are not,
    which is a part of the invariant too.
  - Mutexes: `HoldersAlwaysAgree`, `FreeMutexHasNoSleeper`,
    `ExitAlwaysReleasesAll`.  The second needs `WaitersAreQueuedOnce`: an unlock
    wakes the head of the queue, and only if that thread really sleeps for this
    mutex is it on its way to it; and `CallsAreAbout`: what each blocked call is
    about, and that a thread which has ended has given up its list.
  - Fast mutexes: `FastQueuesAreConsistent`, `FreeFastMutexIsZero`, and
    `FastUnlockLeavesNoSleeper` for guests that do not use the condition
    variable (with it, see Findings).  The invariant adds `PlacesExact`, what
    is known of the owner at each place in the code: a thread that goes on to
    queue itself has seen an owner, and that owner is still there.
  - Rendezvous: `NobodyOversleeps`, `KeptSignalHasNoWaiter`, `NobodyIsEarly`, for
    any cores and masks.  An arrival that finds the event signaled wakes nobody,
    which is harmless only because then nobody waits.
- *`IOSKernelProofs`*: `AssertionsAlwaysHold`, `HeldHandlesAlwaysWork`,
  `CommandsAreConserved`, `AllIsReleasedAtUnmount`, for any number of callers,
  handles, clients, pool entries, messages and titles, under these hypotheses:
  `OneHostThread`, the callers share one host thread, as in a single-core title;
  `LateOnlyAtTheEnd`, the host's wait for the device runs out at most for the
  last title; and, for the first two, `PoolIsLargeEnough`, there are more pool
  entries than callers.  Without any of them the assertions fail (see
  Observations).  That the pool is not empty when a call needs an entry is a
  pigeonhole argument (`PoolNotEmpty`): each entry is on the way for another
  caller, or is the one whose call has been answered.  The invariant has two layers.  `PoolInvariant`, inductive alone, says that every
  entry of the pool is in one place and whose it is, and that a reset is the last
  message of its title (`ResetExact`): that is why a queue without a reset in it
  means a device that is done.  The second layer follows a handle from the slot
  its caller found to the slot the device empties.  `HandlesOnTheWay`: each entry
  between the kernel and the answer names a handle that is still owned, with the
  dispatch target its state calls for.  `HandlesApart`: no two entries or hands
  name the same one.  `HeldOwned` and `TargetsExact`: a client stands behind each
  held handle, no client behind two, and one whose client is released is the one
  about to be destroyed, which is the only window in which a handle has a target
  the device has freed.
- *`BridgeProofs`*, about `SaveFile`: `SlotIsAlwaysWhole`,
  `MemoryIsAlwaysWhole`, `FailedSavesChangeNothing`, for any number of ranges.
  The invariant says what the temporary file holds at each step of a save: a copy
  of the beginning of memory, unless the title ran since it was opened.  And of a
  restore, that memory is a copy of the beginning of the slot so far and will be
  of one moment at the end, unless one of the four things listed at
  `MemoryIsWhole` has come in between.  About `TitlePause`, for any threads and
  cores: `OnlyReadyThreadsAreQueued`, whose invariant adds to the types who is
  where (`Placed`: nobody on two cores, nobody WAITING or ended on one) and that
  only READY threads with a counter of 0 are on the run queues (`QueuedMayRun`);
  from it `QuietUntilResumed`, since a dispatch takes whoever is queued; and
  `PausesAreUndone`, that a title that is not paused has just the suspensions
  its guest made, for titles that only saves pause (`~ AppActs`) and that create
  no thread meanwhile (`~ LateCreation`).  Its invariant, `CountsTaken`, counts
  the pause by where the saver is.  With the app's own pauses or late threads
  the statement is false (see Observations).

In `Rendezvous` and `JITArena` what the constants must satisfy is a definition
(`MasksAssumption`, `SizesAssumption` of `JITArena`) and a hypothesis of each
theorem.  Elsewhere it is an `ASSUME` that TLC evaluates in every run.

Every invariant and every action property that a passing run checks is proved.
Only model-checked are the liveness properties (`SleepersDrain`, `NoStarvation`,
`FreeMutexIsTaken`, `SleepersWoken`, `TimedWaitsEnd`, `EndTerminates`,
`QueueIsServed`, `VisitedIsDecided`, `PauseStops`, `SaveEnds`, `CallsReturn`):
what follows from fairness is out of the prover's reach.

## 6. Not modelled, and why

- Single-core scheduling in `Scheduler`: the same code with a rotating core
  index; `IdleWake` has both modes where they differ.
- Thread cancellation, deallocator threads, deletion of fibers, `OSSleepTicks`.
- Semaphores, alarms, spinlocks, MP task queues, callbacks, the IPC driver, the
  file system's command queue, heaps, GPU command pool and ring, pipeline and
  file caches: in the plan below.
- Timers, waiting senders and registration of several managers in the IOSU
  kernel; the services' requests, which are I/O and network calls.
- Instruction semantics and code generation, rendering, audio mixing, sockets,
  host file systems, input and configuration, the user interface, vendored code:
  large data and little protocol, or other people's code.  By volume they are
  nearly all of the repository.
- Guest memory, the links of the queues, formatting and logging.
- Weak memory orders of the host: steps are sequentially consistent.  Where the
  code uses plain stores that matter (`coreinit_Synchronization.cpp:606`),
  `FastMutex` says so.

## 7. Plan

Done: the guest's threads, queues, mutexes and events; the idle wait; the
rendezvous; the IOSU kernel with its file system device; the recompiler and its
arena; pausing and saving; and proofs of the safety side of all of these.

Left, in this order:

1. The IPC driver (`coreinit_IPC.cpp`) between the guest's calls and
   `IOSKernel`, and the file system's command queue on top of it: each buffer in
   one place, each request answered once.
2. Alarms with their thread, composed with `Event` and `IdleWake`; semaphores.
3. MP task queues and spinlocks with their boosts, on `Scheduler`'s run queues.
4. The command pool and the ring between GX2 and the GPU thread, as an
   implementation of a channel.
5. The file cache under crashes, the pipeline cache's threads across titles.
6. Extensions of `Scheduler`: cancellation, deallocator threads,
   `OSCreateThread` in two steps (the lock is given up between the test and the
   initialisation).
7. Proofs: that the grain of a model loses nothing, as refinements: `FastMutex`
   and `Mutex` of one abstract lock, `IOSKernel` of a table of open clients;
   `PausesAreUndone` for the app's pauses alone.

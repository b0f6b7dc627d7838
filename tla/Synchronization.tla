--------------------------- MODULE Synchronization ---------------------------
(***************************************************************************)
(* What Event, Mutex and FastMutex have in common: the guest threads that  *)
(* call them, and the priorities by which their wait queues are ordered.   *)
(***************************************************************************)
EXTENDS ThreadQueue, FiniteSets

CONSTANTS
    Threads,
    Priority        \* effectivePriority of each thread

ASSUME PriorityAssumption == Priority \in [Threads -> Int]
=============================================================================

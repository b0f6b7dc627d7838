----------------------------- MODULE MCScheduler -----------------------------
(***************************************************************************)
(* An instance of Scheduler for TLC: two threads on two cores, c1 is the   *)
(* main core; every guest call, every affinity mask, two priorities, and   *)
(* at most one suspension at a time.  With JoinContract = FALSE the guests *)
(* may also join, detach and restart the same thread.                      *)
(***************************************************************************)
EXTENDS Scheduler

CONSTANTS t1, t2, c0, c1

AllMasks == {{c0}, {c1}, {c0, c1}}
=============================================================================

----------------------------- MODULE MCFastMutex -----------------------------
(***************************************************************************)
(* Instances of FastMutex for TLC.                                         *)
(*                                                                         *)
(*   MCFastMutex.cfg      with and without OSFastCond_Wait, what holds     *)
(*   MCFastCondLost.cfg   with it, the lost wakeup                         *)
(*                                                                         *)
(* Two threads of one priority, and a third that they outrank.             *)
(***************************************************************************)
EXTENDS FastMutex

CONSTANTS t1, t2, t3, t4

MCPriority == [t \in Threads |-> IF t = t3 THEN 16 ELSE 15]
=============================================================================

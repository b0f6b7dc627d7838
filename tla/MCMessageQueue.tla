--------------------------- MODULE MCMessageQueue ---------------------------
(***************************************************************************)
(* Instance of MessageQueue for TLC: more threads than slots, two          *)
(* priorities and two threads that share one.                              *)
(***************************************************************************)
EXTENDS MessageQueue

CONSTANTS t1, t2, t3, m1, m2

MCPriority == [t \in Threads |-> IF t = t1 THEN 15 ELSE 16]
=============================================================================

------------------------------- MODULE MCMutex -------------------------------
(***************************************************************************)
(* Instance of Mutex for TLC: three threads of two priorities.             *)
(***************************************************************************)
EXTENDS Mutex

CONSTANTS t1, t2, t3, m1, m2

MCPriority == [t \in Threads |-> IF t = t3 THEN 15 ELSE 16]
=============================================================================

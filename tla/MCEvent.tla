------------------------------- MODULE MCEvent -------------------------------
(***************************************************************************)
(* An instance of Event for TLC: four threads of two priorities and an     *)
(* event of either kind.                                                   *)
(***************************************************************************)
EXTENDS Event

CONSTANTS t1, t2, t3, t4

MCPriority == [t \in Threads |-> IF t \in {t1, t2} THEN 15 ELSE 16]
=============================================================================

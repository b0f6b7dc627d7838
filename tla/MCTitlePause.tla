---------------------------- MODULE MCTitlePause ----------------------------
(***************************************************************************)
(* An instance of TitlePause for TLC: two threads on two cores, the second  *)
(* created while the title runs or is being paused.                         *)
(***************************************************************************)
EXTENDS TitlePause

CONSTANTS t1, t2, c0, c1
=============================================================================

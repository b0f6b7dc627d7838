----------------------------- MODULE MCSaveFile -----------------------------
(***************************************************************************)
(* An instance of SaveFile for TLC: one range of memory and a second that  *)
(* the title maps later, two versions of the guest state, two sets of      *)
(* threads, one crash.                                                     *)
(***************************************************************************)
EXTENDS SaveFile

CONSTANTS l1, l2
=============================================================================

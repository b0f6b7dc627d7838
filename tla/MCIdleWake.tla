----------------------------- MODULE MCIdleWake -----------------------------
(***************************************************************************)
(* An instance of IdleWake for TLC: three cores, one thread bound to one   *)
(* core and one that runs anywhere.                                        *)
(***************************************************************************)
EXTENDS IdleWake, TLC

CONSTANTS t1, t2

MCAffinity == (t1 :> {0}) @@ (t2 :> Cores)
=============================================================================

---------------------------- MODULE MCRendezvous ----------------------------
(* Instances of Rendezvous for TLC: two rendezvous of two and three cores,  *)
(* and two threads on one of the cores.                                     *)
EXTENDS Rendezvous, TLC

CONSTANTS t1, t2, t3, t4, r1, r2

MCThreads == {t1, t2, t3, t4}
MCCores == 0 .. 2
MCRendezvouses == {r1, r2}
MCCoreOf == (t1 :> 0) @@ (t2 :> 1) @@ (t3 :> 2) @@ (t4 :> 1)
MCMasks == (r1 :> {0, 1}) @@ (r2 :> {0, 1, 2})
=============================================================================

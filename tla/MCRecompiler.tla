----------------------------- MODULE MCRecompiler -----------------------------
(* Instances of Recompiler for TLC.  The function found from address 1 spans *)
(* address 2 too, which is an entry of its own, and in the end both overlap.  *)
EXTENDS Recompiler, TLC

CONSTANTS c1, c2, w1, w2

MCAddrs == 1 .. 3
MCRangeOf == 1 :> {1, 2} @@ 2 :> {2} @@ 3 :> {3}
MCEntriesOf == 1 :> {1} @@ 2 :> {2} @@ 3 :> {3}
MCWrites == {{1}, {2}, {2, 3}}
TwoAddrs == 1 .. 2
None == {}
TwoRangeOf == 1 :> {1, 2} @@ 2 :> {2}
TwoEntriesOf == 1 :> {1} @@ 2 :> {2}
TwoWrites == {{1}, {2}}
=============================================================================

-------------------------------- MODULE Arena --------------------------------
(***************************************************************************)
(* What an arena promises: a request gets bytes in a row that nobody has,   *)
(* and is turned down only if there is no such row; bytes that are given    *)
(* back can be had again.                                                   *)
(***************************************************************************)
EXTENDS Integers

CONSTANTS Size, Sizes       \* of the arena; what may be asked for

Nowhere == -1

VARIABLES used, granted     \* bytes somebody has; the answer to the last request

Row(p, n) == p .. p + n - 1

Init == used = {} /\ granted = Nowhere

Alloc(n) ==
    \/ \E p \in 0 .. Size - n : /\ Row(p, n) \cap used = {}
                                /\ used' = used \cup Row(p, n) /\ granted' = p
    \/ /\ \A p \in 0 .. Size - n : Row(p, n) \cap used # {}
       /\ granted' = Nowhere /\ UNCHANGED used

Release(p, n) ==
    /\ Row(p, n) \subseteq used
    /\ used' = used \ Row(p, n) /\ UNCHANGED granted

Reset == used' = {} /\ UNCHANGED granted

Next == \/ \E n \in Sizes : Alloc(n)
        \/ \E p \in 0 .. Size - 1 : \E n \in 1 .. Size - p : Release(p, n)
        \/ Reset

Spec == Init /\ [][Next]_<<used, granted>>
=============================================================================

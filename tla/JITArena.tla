------------------------------ MODULE JITArena ------------------------------
(***************************************************************************)
(* DualMapArena (PPCRecompiler.cpp): the memory for translated code, kept   *)
(* as free ranges in a map from position to size, and the use that          *)
(* AArch64Allocator makes of it: a function asks for more than it needs and *)
(* gives the tail back when its code is complete.  Positions and sizes are  *)
(* in units of the 16 bytes every size is rounded up to.  A step is a       *)
(* critical section of the arena's mutex.                                   *)
(***************************************************************************)
EXTENDS Integers, FiniteSets

CONSTANTS Size, Sizes

SizesAssumption == Size \in Nat \ {0} /\ Sizes \subseteq 1 .. Size

Nowhere == -1

VARIABLES
    freeRanges,     \* position -> size
    live,           \* allocations somebody holds
    granted         \* the answer to the last request

arenaVars == <<freeRanges, live, granted>>

Regions == [pos : 0 .. Size - 1, size : 1 .. Size]
Free == DOMAIN freeRanges
End(p) == p + freeRanges[p]
Row(p, n) == p .. p + n - 1

ArenaTypeOK ==
    /\ Free \subseteq 0 .. Size - 1 /\ freeRanges \in [Free -> 1 .. Size]
    /\ live \subseteq Regions
    /\ granted \in 0 .. Size - 1 \cup {Nowhere}

ArenaInit ==
    /\ freeRanges = [p \in {0} |-> Size]
    /\ live = {} /\ granted = Nowhere

Least(S) == CHOOSE p \in S : \A q \in S : p <= q
Greatest(S) == CHOOSE p \in S : \A q \in S : p >= q

\* the map with the ranges in ps gone, and n bytes free at p if there are any
Instead(ps, p, n) ==
    [q \in (Free \ ps) \cup (IF n > 0 THEN {p} ELSE {}) |-> IF q = p /\ n > 0 THEN n ELSE freeRanges[q]]

-----------------------------------------------------------------------------
Fits(n) == {p \in Free : freeRanges[p] >= n}

\* the first range that is large enough, from its start
alloc(n) ==
    IF Fits(n) = {}
    THEN granted' = Nowhere /\ UNCHANGED <<freeRanges, live>>
    ELSE LET p == Least(Fits(n)) IN
         /\ freeRanges' = Instead({p}, p + n, freeRanges[p] - n)
         /\ live' = live \cup {[pos |-> p, size |-> n]}
         /\ granted' = p

Above(p) == {q \in Free : q >= p}            \* lower_bound
Below(p) == {q \in Free : q < p}

Return(p, n) ==
    LET before == {q \in Below(p) : q = Greatest(Below(p)) /\ End(q) = p}
        after == {q \in Above(p) : q = Least(Above(p)) /\ q = p + n}
        start == IF before = {} THEN p ELSE Least(before)
        end == IF after = {} THEN p + n ELSE End(p + n)
    IN freeRanges' = Instead(before \cup after, start, end - start)

\* a free range that the code gives back must lie between its neighbours
ReturnIsSane(p, n) ==
    /\ p + n <= Size
    /\ Above(p) # {} => p + n <= Least(Above(p))
    /\ Below(p) # {} => End(Greatest(Below(p))) <= p

release(r) ==
    /\ Return(r.pos, r.size) /\ live' = live \ {r} /\ UNCHANGED granted

finalize(r, n) ==
    /\ n < r.size
    /\ Return(r.pos + n, r.size - n)
    /\ live' = (live \ {r}) \cup {[r EXCEPT !.size = n]}
    /\ UNCHANGED granted

reset ==
    /\ freeRanges' = [p \in {0} |-> Size]
    /\ live' = {} /\ UNCHANGED granted

ArenaNext ==
    \/ \E n \in Sizes : alloc(n)
    \/ \E r \in live : release(r) \/ (\E n \in 1 .. r.size - 1 : finalize(r, n))
    \/ reset

ArenaSpec == ArenaInit /\ [][ArenaNext]_arenaVars

-----------------------------------------------------------------------------
Bytes(r) == Row(r.pos, r.size)
FreeBytes == UNION {Row(p, freeRanges[p]) : p \in Free}
LiveBytes == UNION {Bytes(r) : r \in live}

\* Every byte is in one free range or in one allocation, never in two, so that
\* no function is written over another.
NoByteTwice ==
    /\ \A r, s \in live : r # s => Bytes(r) \cap Bytes(s) = {}
    /\ \A p, q \in Free : p # q => Row(p, freeRanges[p]) \cap Row(q, freeRanges[q]) = {}
    /\ FreeBytes \cap LiveBytes = {}
    /\ FreeBytes \cup LiveBytes = Row(0, Size)

\* Free ranges that touch have been merged: a request fails only for want of
\* room in a row.
Merged == \A p \in Free : End(p) \notin Free

\* The assertions of release hold for whatever is given back.
ReturnsAreSane == \A r \in live : \A n \in 0 .. r.size - 1 : ReturnIsSane(r.pos + n, r.size - n)

Promise == INSTANCE Arena WITH used <- LiveBytes
\* The arena keeps the promise.
ImplementsArena == Promise!Spec
=============================================================================

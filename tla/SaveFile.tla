------------------------------ MODULE SaveFile ------------------------------
(***************************************************************************)
(* Writing and reading of a save state slot (WriteSaveFile, ReadSaveFile   *)
(* of IOSSaveState.cpp) against a file system that fails, and crashes of   *)
(* the app at any moment.                                                  *)
(*                                                                         *)
(* Guest memory is the ranges that are mapped, in the order in which they  *)
(* were, each with the version of the guest state it belongs to.  A title  *)
(* starts with InitialRanges of them and may map more later, such as the   *)
(* overlay arena; none is unmapped before it ends.  A file holds what its  *)
(* header says of the session it was taken from (threads, ranges) and the  *)
(* ranges written so far.  The part of a file that fsync has not covered   *)
(* may be lost by a crash, and so may a rename.                            *)
(*                                                                         *)
(* Saves and loads come from one serial queue and first wait until the     *)
(* title is quiescent.  That wait can be passed too early (TitlePause),    *)
(* so a guest thread may run at any step of either.                        *)
(***************************************************************************)
EXTENDS Naturals, Sequences

CONSTANTS
    Ranges, InitialRanges,  \* mapped at most, and when a title starts
    MaxVersion,
    ThreadSets,             \* the sets of active threads there are
    Damaged,                \* whether the slot may hold a damaged file at first
    None

ASSUME RangesAssumption == Ranges \in Nat /\ InitialRanges \in 1..Ranges /\ MaxVersion \in Nat
ASSUME DamagedAssumption == Damaged \in BOOLEAN

VARIABLES
    memory,     \* version of each mapped range
    threads,    \* the active threads of the running title
    session,    \* which run of the title this is
    mixed,      \* history: memory is not of one moment, see below
    tmp, slot,  \* the two files
    stored,     \* what a crash would bring back as the slot: the state before a rename
    pc,
    ok,         \* WriteSaveFile's ok, TRUE outside of it
    position    \* ranges restored so far, 0 outside of a restore

title == <<memory, threads, session, mixed>>
files == <<tmp, slot, stored>>
vars == <<title, files, pc, ok, position>>

Versions == 0..MaxVersion
Sessions == 0..1
Contents == UNION {[1..n -> Versions] : n \in 0..Ranges}
File == [threads : ThreadSets, ranges : InitialRanges..Ranges, session : Sessions,
         mixed : BOOLEAN, data : Contents, synced : 0..Ranges]

ASSUME NoneAssumption == None \notin File

TypeOK ==
    /\ memory \in Contents /\ Len(memory) >= InitialRanges
    /\ threads \in ThreadSets /\ session \in Sessions /\ mixed \in BOOLEAN
    /\ {tmp, slot, stored} \subseteq File \cup {None}
    /\ pc \in {"idle", "write", "sync", "rename", "cleanup", "check", "restore"}
    /\ ok \in BOOLEAN
    /\ position \in 0..Ranges /\ (pc # "restore" => position = 0)

Complete(f) == Len(f.data) = f.ranges
Uniform(f) == \A i, j \in DOMAIN f : f[i] = f[j]
Fresh == [i \in 1..InitialRanges |-> 0]

Init ==
    /\ memory = Fresh /\ mixed = FALSE
    /\ threads \in ThreadSets /\ session = 0
    /\ tmp = None
    /\ slot \in {None} \cup
           IF Damaged THEN {[threads |-> threads, ranges |-> Ranges, session |-> 0,
                             mixed |-> FALSE, data |-> <<0>>, synced |-> 1]} ELSE {}
    /\ stored = slot
    /\ pc = "idle" /\ ok = TRUE /\ position = 0

-----------------------------------------------------------------------------
(***************************************************************************)
(* The title runs: its memory moves on, threads come and go, ranges are    *)
(* mapped.  Memory that is not of one moment never becomes so again by the *)
(* title's own doing.  A save that is writing meanwhile gets a file of     *)
(* several moments, a restore leaves such memory.                          *)
(***************************************************************************)
MemoryMovesOn == \E n \in Len(memory)..Ranges, v \in Versions : memory' = [i \in 1..n |-> v]

MemoryIsScribbledOn == \E v \in Versions :
    \/ \E i \in DOMAIN memory : memory' = [memory EXCEPT ![i] = v]
    \/ Len(memory) < Ranges /\ memory' = Append(memory, v)

TitleRuns ==
    /\ IF mixed \/ pc = "restore" THEN MemoryIsScribbledOn ELSE MemoryMovesOn
    /\ threads' \in ThreadSets
    /\ mixed' = (mixed \/ pc = "restore")
    /\ tmp' = IF pc = "write" THEN [tmp EXCEPT !.mixed = TRUE] ELSE tmp
    /\ UNCHANGED <<session, slot, stored, pc, ok, position>>

-----------------------------------------------------------------------------
(***************************************************************************)
(* WriteSaveFile.                                                          *)
(***************************************************************************)
SaveOpen ==
    /\ pc = "idle"
    /\ \/ /\ tmp' = [threads |-> threads, ranges |-> Len(memory), session |-> session,
                    mixed |-> mixed, data |-> <<>>, synced |-> 0]
          /\ pc' = "write"
       \/ tmp' = tmp /\ pc' = "idle"    \* fopen fails
    /\ ok' = TRUE
    /\ UNCHANGED <<title, slot, stored, position>>

WriteMemoryRange ==
    /\ pc = "write" /\ ok /\ ~ Complete(tmp)
    /\ \/ /\ tmp' = [tmp EXCEPT !.data = Append(@, memory[Len(@) + 1])]
          /\ ok' = TRUE
       \/ tmp' = tmp /\ ok' = FALSE     \* the disk is full
    /\ UNCHANGED <<title, slot, stored, pc, position>>

WritesEnd ==
    /\ pc = "write"
    /\ ~ ok \/ Complete(tmp)
    /\ pc' = "sync"
    /\ UNCHANGED <<title, files, ok, position>>

\* fflush and fsync, each only after success so far, and fclose in any case
SyncForgotten ==                                                 \* mutant
    /\ pc = "sync"
    /\ ok' \in {ok, FALSE}
    /\ tmp' = tmp
    /\ pc' = IF ok' THEN "rename" ELSE "cleanup"
    /\ UNCHANGED <<title, slot, stored, position>>

RenameAnyway ==                                                  \* mutant
    /\ pc = "sync"
    /\ ok' \in {ok, FALSE}
    /\ tmp' = IF ok THEN [tmp EXCEPT !.synced = Len(tmp.data)] ELSE tmp
    /\ pc' = "rename"
    /\ UNCHANGED <<title, slot, stored, position>>

SyncAndClose ==
    /\ pc = "sync"
    /\ ok' \in {ok, FALSE}
    /\ tmp' = IF ok THEN [tmp EXCEPT !.synced = Len(tmp.data)] ELSE tmp
    /\ pc' = IF ok' THEN "rename" ELSE "cleanup"
    /\ UNCHANGED <<title, slot, stored, position>>

Rename ==
    /\ pc = "rename"
    /\ \/ /\ stored' \in {stored, slot}
          /\ slot' = tmp /\ tmp' = None
          /\ pc' = "idle" /\ ok' = ok
       \/ UNCHANGED <<tmp, slot, stored>> /\ pc' = "cleanup" /\ ok' = FALSE
    /\ UNCHANGED <<title, position>>

Cleanup ==
    /\ pc = "cleanup"
    /\ tmp' \in {None, tmp}             \* std::remove may fail
    /\ pc' = "idle" /\ ok' = TRUE
    /\ UNCHANGED <<title, slot, stored, position>>

-----------------------------------------------------------------------------
(***************************************************************************)
(* ReadSaveFile.  The threads have to be the same, and every range of the  *)
(* file has to be mapped; a mapped range that is not in the file is not    *)
(* noticed.  Then the file has to be as long as its header announces.      *)
(***************************************************************************)
LoadOpen ==
    /\ pc = "idle"
    /\ pc' = IF slot = None THEN "idle" ELSE "check"
    /\ UNCHANGED <<title, files, ok, position>>

AcceptableAnyLength(f) == f.threads = threads /\ f.ranges <= Len(memory)   \* mutant

Acceptable(f) == f.threads = threads /\ f.ranges <= Len(memory) /\ Complete(f)

\* From here on mixed says what memory will be if the restore gets to its end.  A
\* header that cannot be read is refused as well.
Check ==
    /\ pc = "check"
    /\ \/ /\ Acceptable(slot)
          /\ pc' = "restore"
          /\ mixed' = (slot.mixed \/ slot.ranges < Len(memory))
       \/ pc' = "idle" /\ mixed' = mixed
    /\ UNCHANGED <<memory, threads, session, files, ok, position>>

\* a read past the end fails, any other may
ReadMemoryRange ==
    /\ pc = "restore" /\ position < slot.ranges
    /\ position < Len(slot.data)
    /\ position' = position + 1
    /\ memory' = [memory EXCEPT ![position + 1] = slot.data[position + 1]]
    /\ UNCHANGED <<threads, session, mixed, files, pc, ok>>

ReadFails(ioError) ==
    /\ pc = "restore" /\ position < slot.ranges
    /\ ioError \/ position >= Len(slot.data)
    /\ mixed' = (mixed \/ ioError)
    /\ pc' = "idle" /\ position' = 0
    /\ UNCHANGED <<memory, threads, session, files, ok>>

RestoreEnds ==
    /\ pc = "restore" /\ position = slot.ranges
    /\ pc' = "idle" /\ position' = 0
    /\ UNCHANGED <<title, files, ok>>

-----------------------------------------------------------------------------
(***************************************************************************)
(* The app dies and the title is started again.  Of a file at least what   *)
(* was synced survives; a rename may not have reached the disk.            *)
(***************************************************************************)
AfterCrash(f) ==
    IF f = None THEN {None}
    ELSE {[f EXCEPT !.data = SubSeq(@, 1, n), !.synced = n] : n \in f.synced..Len(f.data)}

Crash ==
    /\ session = 0
    /\ slot' \in AfterCrash(slot) \cup AfterCrash(stored)
    /\ stored' = slot'
    /\ tmp' \in AfterCrash(tmp)
    /\ session' = 1
    /\ threads' \in ThreadSets
    /\ memory' = Fresh /\ mixed' = FALSE
    /\ pc' = "idle" /\ ok' = TRUE /\ position' = 0

WriteNext == SaveOpen \/ WriteMemoryRange \/ WritesEnd \/ SyncAndClose \/ Rename \/ Cleanup
ReadNext == LoadOpen \/ Check \/ ReadMemoryRange \/ RestoreEnds \/ \E e \in BOOLEAN : ReadFails(e)

Next == TitleRuns \/ WriteNext \/ ReadNext \/ Crash

Spec == Init /\ [][Next]_vars

-----------------------------------------------------------------------------
(***************************************************************************)
(* The slot always holds a complete save, on disk as well as in the page   *)
(* cache, unless it was damaged from the start: a failed or interrupted    *)
(* save leaves the previous one ("leaves the slot's previous save          *)
(* untouched").  It is of one moment unless the title's memory was not     *)
(* when it was taken, or the title ran while it was written.               *)
(***************************************************************************)
WholeSave(f) == Complete(f) /\ (Uniform(f.data) \/ f.mixed)
DamagedFile(f) == Damaged /\ f.data = <<0>>

SlotIsWhole ==
    \A f \in AfterCrash(slot) \cup AfterCrash(stored) :
        f # None => WholeSave(f) \/ DamagedFile(f)

(***************************************************************************)
(* The slot only changes to a save that was written completely, or back by *)
(* a crash that takes the last rename back: never by a save that fails.    *)
(***************************************************************************)
SlotChangesOnSuccess ==
    [][slot' # slot => \/ session' # session
                       \/ tmp # None /\ ok /\ Complete(tmp) /\ slot' = tmp]_vars

(***************************************************************************)
(* When no load is under way guest memory is of one moment, but for four   *)
(* ways to spoil it: an I/O error in the middle of a restore, a restore of *)
(* fewer ranges than are mapped, a title that runs during a restore, and a *)
(* save that was not of one moment itself.  A file cut short is not one of *)
(* them: it is refused before a byte is touched.                           *)
(***************************************************************************)
MemoryIsWhole == pc # "restore" /\ ~ mixed => Uniform(memory)

(***************************************************************************)
(* What comments of IOSSaveState.cpp say and no run checks, because each   *)
(* of the three fails: a layout that does not match the save's refuses the *)
(* load; a save is only loaded into the instance it was taken from; memory *)
(* that must be "treated as no longer trustworthy" does not replace a good *)
(* save.                                                                   *)
(***************************************************************************)
MismatchIsRefused ==
    [][pc = "check" /\ pc' = "restore" => slot.ranges = Len(memory)]_vars
LoadsOwnInstance == pc = "restore" => slot.session = session
SlotIsTrustworthy == slot # None => ~ slot.mixed
=============================================================================

---------------------------- MODULE BridgeProofs ----------------------------
(***************************************************************************)
(* Proofs about the bridge between the app and a running title: SaveFile,  *)
(* for memory of any size, any number of versions and sets of threads, and *)
(* TitlePause, for any threads and cores.  Whatever fails and whenever the *)
(* app dies, the slot holds a complete save; a title that has come to rest *)
(* under a pause stays at rest until it is resumed; and if only saves and  *)
(* loads pause the title, every pause is taken back.                       *)
(***************************************************************************)
EXTENDS SaveFile, TitlePause, SequenceTheorems, TLAPS

\* Nothing of a settled file is lost by a crash.
Settled(f) == f # None => f.synced = Len(f.data) /\ (WholeSave(f) \/ DamagedFile(f))

\* A save writes ranges that stay mapped.  Unless the title runs meanwhile, the
\* temporary file is a copy of the beginning of memory that is of one moment.
Saving ==
    pc \in {"write", "sync", "rename"} =>
        /\ tmp # None
        /\ tmp.mixed \/ Uniform(tmp.data)
        /\ pc = "write" =>
            /\ Len(tmp.data) <= tmp.ranges /\ tmp.ranges <= Len(memory)
            /\ tmp.mixed \/ (~ mixed /\ \A i \in 1..Len(tmp.data) : tmp.data[i] = memory[i])
        /\ pc = "sync" /\ ok => Complete(tmp)
        /\ pc = "rename" => ok /\ Complete(tmp) /\ tmp.synced = Len(tmp.data)

\* A load that passed the checks has restored the beginning of the slot, and if
\* nothing spoils it until its end, that will be all of memory.
Loading ==
    /\ pc \in {"check", "restore"} => slot # None
    /\ pc = "restore" =>
        /\ Complete(slot) /\ slot.ranges <= Len(memory)
        /\ mixed \/ /\ ~ slot.mixed /\ slot.ranges = Len(memory)
                    /\ \A i \in 1..position : memory[i] = slot.data[i]

\* SlotIsWhole is about what a crash would leave.  It needs to know that the
\* file that is renamed was synced, and that it is a copy of memory, which in
\* turn has to be of one moment.
SaveInvariant ==
    /\ TypeOK /\ MemoryIsWhole
    /\ Settled(slot) /\ Settled(stored)
    /\ Saving /\ Loading

(***************************************************************************)
(* Files                                                                   *)
(***************************************************************************)
LEMMA ContentsData ==
    ASSUME NEW c \in Contents
    PROVE  /\ c \in Seq(Versions) /\ Len(c) \in 0..Ranges /\ DOMAIN c = 1..Len(c)
           /\ \A i \in 1..Len(c) : c[i] \in Versions
<1>1. PICK n \in 0..Ranges : c \in [1..n -> Versions]
  BY DEF Contents
<1>2. n \in Nat
  BY RangesAssumption
<1>3. c \in Seq(Versions)
  BY <1>1, <1>2, SeqDef
<1>4. Len(c) = n
  BY <1>1, <1>2, <1>3, LenProperties
<1> QED
  BY <1>1, <1>3, <1>4

LEMMA FileData ==
    ASSUME NEW f \in File
    PROVE  /\ f.data \in Seq(Versions) /\ Len(f.data) \in 0..Ranges /\ DOMAIN f.data = 1..Len(f.data)
           /\ \A i \in 1..Len(f.data) : f.data[i] \in Versions
           /\ f.mixed \in BOOLEAN /\ f.synced \in 0..Ranges /\ f.ranges \in 1..Ranges
<1>1. /\ f.data \in Contents /\ f.mixed \in BOOLEAN /\ f.synced \in 0..Ranges
      /\ f.ranges \in InitialRanges..Ranges
  BY DEF File
<1>2. f.ranges \in 1..Ranges
  BY <1>1, RangesAssumption
<1> QED
  BY <1>1, <1>2, ContentsData

LEMMA DataOfFile ==
    ASSUME NEW s \in Seq(Versions), Len(s) <= Ranges
    PROVE  s \in Contents
<1>1. Len(s) \in 0..Ranges /\ s \in [1..Len(s) -> Versions]
  BY RangesAssumption, LenProperties
<1> QED
  BY <1>1 DEF Contents

LEMMA EqualRanges ==
    ASSUME NEW n \in Nat, n <= Ranges, NEW v \in Versions
    PROVE  LET c == [i \in 1..n |-> v] IN c \in Contents /\ Len(c) = n /\ Uniform(c)
<1> DEFINE c == [i \in 1..n |-> v]
<1>1. n \in 0..Ranges /\ c \in [1..n -> Versions]
  BY RangesAssumption
<1>2. c \in Contents
  BY <1>1 DEF Contents
<1>3. c \in Seq(Versions)
  BY <1>1, SeqDef
<1>4. Len(c) = n
  BY <1>1, <1>3, LenProperties
<1> QED
  BY <1>2, <1>4 DEF Uniform

LEMMA SettledStays ==
    ASSUME NEW f \in File \cup {None}, Settled(f)
    PROVE  AfterCrash(f) = {f}
<1>1. CASE f = None
  BY <1>1 DEF AfterCrash
<1>2. CASE f # None
  <2>1. f \in File /\ f.synced = Len(f.data)
    BY <1>2 DEF Settled
  <2>2. f.data \in Seq(Versions) /\ Len(f.data) \in Nat
    BY <2>1, FileData, LenProperties
  <2>3. f.synced .. Len(f.data) = {f.synced}
    BY <2>1, <2>2
  <2>4. SubSeq(f.data, 1, f.synced) = f.data
    BY <2>1, <2>2, SubSeqFull
  <2>5. [f EXCEPT !.data = SubSeq(f.data, 1, f.synced), !.synced = f.synced] = f
    BY <2>1, <2>4 DEF File
  <2> DEFINE Kept(n) == [f EXCEPT !.data = SubSeq(f.data, 1, n), !.synced = n]
  <2>6. AfterCrash(f) = {Kept(n) : n \in f.synced .. Len(f.data)}
    BY <1>2 DEF AfterCrash
  <2>7. Kept(f.synced) = f
    BY <2>5
  <2> HIDE DEF Kept
  <2> QED
    BY <2>3, <2>6, <2>7
<1> QED
  BY <1>1, <1>2

LEMMA CrashedIsFile ==
    ASSUME NEW f \in File \cup {None}, NEW g \in AfterCrash(f)
    PROVE  g \in File \cup {None}
<1>1. CASE f = None
  BY <1>1 DEF AfterCrash
<1>2. CASE f # None
  <2>1. f \in File
    BY <1>2
  <2>2. f.data \in Seq(Versions) /\ Len(f.data) \in 0..Ranges /\ f.synced \in 0..Ranges
    BY <2>1, FileData
  <2>3. PICK n \in f.synced .. Len(f.data) :
            g = [f EXCEPT !.data = SubSeq(f.data, 1, n), !.synced = n]
    BY <1>2 DEF AfterCrash
  <2>4. n \in 0..Ranges /\ n <= Len(f.data) /\ n \in Int /\ 1 \in Int
    BY <2>2, <2>3, RangesAssumption
  <2>5. \A i \in 1..n : f.data[i] \in Versions
    BY <2>1, <2>2, <2>4, FileData
  <2>6. SubSeq(f.data, 1, n) \in Seq(Versions) /\ Len(SubSeq(f.data, 1, n)) <= Ranges
    <3>1. /\ SubSeq(f.data, 1, n) \in Seq(Versions)
          /\ Len(SubSeq(f.data, 1, n)) = IF 1 <= n THEN n - 1 + 1 ELSE 0
      BY <2>4, <2>5, SubSeqProperties
    <3> QED
      BY <2>4, <3>1, RangesAssumption
  <2>7. SubSeq(f.data, 1, n) \in Contents
    BY <2>6, DataOfFile
  <2> QED
    BY <2>1, <2>3, <2>4, <2>7 DEF File
<1> QED
  BY <1>1, <1>2

(***************************************************************************)
(* One step of each part                                                   *)
(***************************************************************************)
LEMMA InitInvariant == Init => SaveInvariant
<1> SUFFICES ASSUME Init PROVE SaveInvariant
  OBVIOUS
<1> USE DEF Init
<1>1. /\ 0 \in Versions /\ 0 \in Sessions /\ 1 \in 0..Ranges /\ 0 \in 0..Ranges
      /\ InitialRanges \in Nat /\ InitialRanges <= Ranges /\ Ranges \in InitialRanges..Ranges
  BY RangesAssumption DEF Versions, Sessions
<1> DEFINE damaged == [threads |-> threads, ranges |-> Ranges, session |-> 0,
                       mixed |-> FALSE, data |-> <<0>>, synced |-> 1]
<1>2. slot = None \/ (Damaged /\ slot = damaged)
  BY DamagedAssumption
<1>3. <<0>> \in Contents
  <2>1. <<0>> \in Seq(Versions) /\ Len(<<0>>) <= Ranges
    BY <1>1, RangesAssumption
  <2> QED
    BY <2>1, DataOfFile, Zenon
<1>4. damaged \in File
  BY <1>1, <1>3 DEF File
<1>5. slot \in File \cup {None} /\ Settled(slot)
  <2>1. CASE slot = damaged
    <3>1. Len(slot.data) = 1 /\ slot.synced = 1 /\ slot.data = <<0>>
      BY <2>1
    <3> QED
      BY <1>2, <1>4, <2>1, <3>1 DEF Settled, DamagedFile
  <2>2. CASE slot = None
    BY <2>2 DEF Settled
  <2> QED
    BY <1>2, <2>1, <2>2
<1>6. memory \in Contents /\ Len(memory) >= InitialRanges /\ Uniform(memory)
  <2>1. Fresh \in Contents /\ Len(Fresh) = InitialRanges /\ Uniform(Fresh)
    BY <1>1, EqualRanges, Zenon DEF Fresh
  <2> QED
    BY <1>1, <2>1
<1>7. TypeOK
  BY <1>1, <1>5, <1>6 DEF TypeOK
<1>8. MemoryIsWhole /\ Saving /\ Loading
  BY <1>6 DEF MemoryIsWhole, Saving, Loading
<1> QED
  BY <1>5, <1>7, <1>8 DEF SaveInvariant

\* what a save does not touch
SavesKeep ==
    /\ UNCHANGED <<memory, threads, session, mixed, position>>
    /\ pc \notin {"check", "restore"} /\ pc' \notin {"check", "restore"}

LEMMA SavesKeepMemory ==
    ASSUME SaveInvariant, SavesKeep
    PROVE  MemoryIsWhole' /\ Loading'
BY DEF SavesKeep, SaveInvariant, MemoryIsWhole, Uniform, Loading

LEMMA SaveOpenKeeps ==
    ASSUME SaveInvariant, SaveOpen
    PROVE  SaveInvariant'
<1> USE DEF SaveInvariant, SaveOpen, title
<1>1. SavesKeep /\ UNCHANGED <<slot, stored>>
  BY DEF SavesKeep
<1> DEFINE opened == [threads |-> threads, ranges |-> Len(memory), session |-> session,
                      mixed |-> mixed, data |-> <<>>, synced |-> 0]
<1>2. Len(<<>>) = 0 /\ <<>> \in Seq(Versions)
  OBVIOUS
<1>3. opened \in File
  <2>1. 0 \in 0..Ranges /\ Len(<<>>) <= Ranges
    BY <1>2, RangesAssumption
  <2>3. <<>> \in Contents
    BY <1>2, <2>1, DataOfFile, Zenon
  <2>2. Len(memory) \in InitialRanges..Ranges
    BY ContentsData, RangesAssumption DEF TypeOK
  <2> QED
    BY <2>1, <2>2, <2>3 DEF File, TypeOK
<1>4. TypeOK'
  BY <1>1, <1>3 DEF TypeOK, SavesKeep
<1>5. Saving'
  <2>1. CASE tmp' = opened
    <3>1. /\ opened.data = <<>> /\ opened.mixed = mixed /\ opened # None
          /\ opened.ranges = Len(memory) /\ Len(memory) <= Len(memory)
      BY <1>3, NoneAssumption, ContentsData DEF TypeOK
    <3>2. 1..Len(opened.data) = {} /\ Uniform(opened.data)
      BY <1>2, <3>1 DEF Uniform
    <3> HIDE DEF opened
    <3>3. pc' \notin {"sync", "rename"} /\ mixed \in BOOLEAN
      BY DEF TypeOK
    <3> QED
      BY <1>1, <2>1, <3>1, <3>2, <3>3 DEF Saving, SavesKeep, Uniform
  <2>2. CASE pc' = "idle"
    BY <2>2 DEF Saving
  <2> QED
    BY <2>1, <2>2
<1> QED
  BY <1>1, <1>4, <1>5, SavesKeepMemory DEF Settled

LEMMA WriteKeeps ==
    ASSUME SaveInvariant, WriteMemoryRange
    PROVE  SaveInvariant'
<1> USE DEF SaveInvariant, WriteMemoryRange, title
<1>1. SavesKeep /\ UNCHANGED <<slot, stored>> /\ pc' = "write" /\ pc = "write"
  BY DEF SavesKeep
<1>2. /\ tmp \in File /\ tmp.data \in Seq(Versions) /\ Len(tmp.data) \in 0..Ranges
      /\ tmp.ranges \in 1..Ranges
  BY FileData DEF Saving, TypeOK
<1>3. CASE tmp' = tmp /\ ok' = FALSE
  <2>1. Saving'
    BY <1>1, <1>3 DEF Saving, SavesKeep, Uniform
  <2> QED
    BY <1>1, <1>3, <2>1, SavesKeepMemory DEF TypeOK, Settled, SavesKeep
<1>4. CASE tmp' = [tmp EXCEPT !.data = Append(@, memory[Len(@) + 1])] /\ ok' = TRUE
  <2> DEFINE n == Len(tmp.data)
             data == Append(tmp.data, memory[n + 1])
  <2>1. n \in Nat /\ n + 1 \in 1..Len(memory) /\ n + 1 <= tmp.ranges
    <3>1. tmp.ranges <= Len(memory) /\ n # tmp.ranges /\ Len(memory) \in 0..Ranges
      BY <1>1, ContentsData DEF Saving, Complete, TypeOK
    <3>2. n \in 0..Ranges /\ n # tmp.ranges /\ n <= tmp.ranges
      BY <1>1, <1>2, <3>1 DEF Saving
    <3> QED
      BY <1>2, <3>1, <3>2, RangesAssumption
  <2>2. memory[n + 1] \in Versions
    BY <2>1, ContentsData DEF TypeOK
  <2>3. /\ data \in Seq(Versions) /\ Len(data) = n + 1
        /\ \A i \in 1..n : data[i] = tmp.data[i]
        /\ data[n + 1] = memory[n + 1]
    BY <1>2, <2>2, AppendProperties
  <2>4. data \in Contents
    <3>1. Len(data) <= Ranges
      BY <2>1, <2>3, ContentsData, RangesAssumption DEF TypeOK
    <3> HIDE DEF data
    <3> QED
      BY <2>3, <3>1, DataOfFile
  <2>5. tmp'.data = data /\ tmp'.mixed = tmp.mixed /\ tmp'.ranges = tmp.ranges
    BY <1>2, <1>4 DEF File
  <2>6. tmp' \in File
    BY <1>2, <1>4, <2>4 DEF File
  <2> HIDE DEF data
  <2>7. tmp.mixed \/ (~ mixed /\ \A i \in 1..n + 1 : data[i] = memory[i])
    <3>1. tmp.mixed \/ (~ mixed /\ \A i \in 1..n : tmp.data[i] = memory[i])
      BY <1>1 DEF Saving
    <3>2. \A i \in 1..n + 1 : i \in 1..n \/ i = n + 1
      BY <2>1
    <3> QED
      BY <2>3, <3>1, <3>2
  <2>8. tmp.mixed \/ Uniform(data)
    <3>1. DOMAIN data = 1..n + 1
      BY <2>3, LenProperties
    <3>2. DOMAIN memory = 1..Len(memory) /\ Len(memory) \in Nat
      BY ContentsData, RangesAssumption DEF TypeOK
    <3>3. \A i \in 1..n + 1 : i \in DOMAIN memory
      BY <2>1, <3>2
    <3>4. mixed \/ Uniform(memory)
      BY <1>1 DEF MemoryIsWhole
    <3> QED
      BY <2>7, <3>1, <3>3, <3>4 DEF Uniform
  <2>9. tmp' # None
    BY <2>6, NoneAssumption
  <2>10. Saving'
    <3>1. UNCHANGED <<memory, mixed>>
      BY <1>1 DEF SavesKeep
    <3>2. tmp'.mixed \/ Uniform(tmp.data)'
      BY <2>5, <2>8 DEF Uniform
    <3>3. Len(tmp'.data) <= tmp'.ranges /\ tmp'.ranges <= Len(memory)
      BY <1>1, <2>1, <2>3, <2>5 DEF Saving
    <3>4. tmp'.mixed \/ (~ mixed /\ \A i \in 1..Len(tmp'.data) : tmp'.data[i] = memory[i])
      BY <2>3, <2>5, <2>7
    <3> QED
      BY <1>1, <2>9, <3>1, <3>2, <3>3, <3>4 DEF Saving
  <2> QED
    BY <1>1, <1>4, <2>6, <2>10, SavesKeepMemory DEF TypeOK, Settled, SavesKeep
<1> QED
  BY <1>3, <1>4

LEMMA WritesEndKeeps ==
    ASSUME SaveInvariant, WritesEnd
    PROVE  SaveInvariant'
<1> USE DEF SaveInvariant, WritesEnd, title, files
<1>1. SavesKeep /\ UNCHANGED <<tmp, slot, stored, ok>> /\ pc' = "sync"
  BY DEF SavesKeep
<1> QED
  BY <1>1, SavesKeepMemory DEF TypeOK, Settled, Saving, SavesKeep, Complete, Uniform

LEMMA SyncKeeps ==
    ASSUME SaveInvariant, SyncAndClose
    PROVE  SaveInvariant'
<1> USE DEF SaveInvariant, SyncAndClose, title
<1>1. SavesKeep /\ UNCHANGED <<slot, stored>> /\ pc' \in {"rename", "cleanup"} /\ pc = "sync"
  BY DEF SavesKeep
<1>2. tmp \in File /\ tmp.data \in Seq(Versions) /\ Len(tmp.data) \in 0..Ranges
  BY FileData DEF Saving, TypeOK
<1>3. /\ tmp' \in File /\ tmp' # None /\ tmp'.ranges = tmp.ranges
      /\ tmp'.data = tmp.data /\ tmp'.mixed = tmp.mixed
      /\ ok => tmp'.synced = Len(tmp.data)
  BY <1>2, NoneAssumption DEF File
<1>4. ok' \in BOOLEAN /\ (pc' = "rename" => ok /\ ok')
  <2>1. ok' = ok \/ ok' = FALSE
    OBVIOUS
  <2>2. ok \in BOOLEAN
    BY DEF TypeOK
  <2>3. pc' = IF ok' THEN "rename" ELSE "cleanup"
    OBVIOUS
  <2> HIDE DEF SyncAndClose
  <2>4. CASE ok' = FALSE
    BY <2>3, <2>4
  <2>5. CASE ok' = ok
    BY <2>2, <2>3, <2>5
  <2> QED
    BY <2>1, <2>4, <2>5
<1>5. TypeOK'
  BY <1>1, <1>3, <1>4 DEF TypeOK, SavesKeep
<1>6. Saving'
  <2>1. tmp.mixed \/ Uniform(tmp.data)
    BY <1>1 DEF Saving
  <2>2. pc' = "rename" => Complete(tmp)
    BY <1>1, <1>4 DEF Saving
  <2> QED
    BY <1>1, <1>3, <1>4, <2>1, <2>2 DEF Saving, Complete, Uniform
<1> QED
  BY <1>1, <1>5, <1>6, SavesKeepMemory DEF Settled

LEMMA RenameKeeps ==
    ASSUME SaveInvariant, Rename
    PROVE  SaveInvariant'
<1> USE DEF SaveInvariant, Rename, title
<1>1. SavesKeep /\ pc' \in {"idle", "cleanup"}
  BY DEF SavesKeep
<1>2. tmp \in File /\ ok /\ Settled(tmp)
  BY DEF Saving, TypeOK, Settled, WholeSave
<1>3. slot' \in {slot, tmp} /\ stored' \in {stored, slot} /\ tmp' \in {tmp, None} /\ ok' \in BOOLEAN
  BY <1>2
<1>4. Settled(slot') /\ Settled(stored')
  BY <1>2, <1>3
<1>5. TypeOK'
  BY <1>1, <1>2, <1>3 DEF TypeOK, SavesKeep
<1>6. Saving'
  BY <1>1 DEF Saving
<1>7. Settled(slot)' /\ Settled(stored)'
  BY <1>4 DEF Settled, WholeSave, Complete, DamagedFile, Uniform
<1> QED
  BY <1>1, <1>5, <1>6, <1>7, SavesKeepMemory

LEMMA CleanupKeeps ==
    ASSUME SaveInvariant, Cleanup
    PROVE  SaveInvariant'
<1> USE DEF SaveInvariant, Cleanup, title
<1>1. SavesKeep /\ UNCHANGED <<slot, stored>> /\ ok' = TRUE /\ pc' = "idle" /\ tmp' \in {None, tmp}
  BY DEF SavesKeep
<1> QED
  BY <1>1, SavesKeepMemory DEF TypeOK, Settled, Saving, SavesKeep

-----------------------------------------------------------------------------
LEMMA MovesOn ==
    ASSUME TypeOK, MemoryMovesOn
    PROVE  memory' \in Contents /\ Len(memory') >= Len(memory) /\ Uniform(memory')
<1>1. PICK n \in Len(memory)..Ranges, v \in Versions : memory' = [i \in 1..n |-> v]
  BY DEF MemoryMovesOn
<1>2. Len(memory) \in Nat
  BY ContentsData, RangesAssumption DEF TypeOK
<1>3. n \in Nat /\ n <= Ranges /\ n >= Len(memory)
  BY <1>2, RangesAssumption
<1> QED
  BY <1>1, <1>3, EqualRanges

LEMMA Scribbled ==
    ASSUME TypeOK, MemoryIsScribbledOn
    PROVE  memory' \in Contents /\ Len(memory') >= Len(memory)
<1>1. memory \in Seq(Versions) /\ Len(memory) \in Nat /\ DOMAIN memory = 1..Len(memory)
  BY ContentsData, RangesAssumption DEF TypeOK
<1>2. PICK v \in Versions :
          \/ \E i \in DOMAIN memory : memory' = [memory EXCEPT ![i] = v]
          \/ Len(memory) < Ranges /\ memory' = Append(memory, v)
  BY DEF MemoryIsScribbledOn
<1>3. CASE \E i \in DOMAIN memory : memory' = [memory EXCEPT ![i] = v]
  <2>1. memory' \in Seq(Versions) /\ Len(memory') = Len(memory)
    BY <1>1, <1>3, ExceptSeq
  <2>2. Len(memory) <= Ranges
    BY ContentsData DEF TypeOK
  <2> QED
    BY <1>1, <2>1, <2>2, DataOfFile
<1>4. CASE Len(memory) < Ranges /\ memory' = Append(memory, v)
  <2>1. memory' \in Seq(Versions) /\ Len(memory') = Len(memory) + 1
    BY <1>1, <1>4, AppendProperties
  <2>2. Len(memory') <= Ranges /\ Len(memory') >= Len(memory)
    BY <1>1, <1>4, <2>1, RangesAssumption
  <2> QED
    BY <2>1, <2>2, DataOfFile, Zenon
<1> QED
  BY <1>2, <1>3, <1>4

LEMMA TitleKeeps ==
    ASSUME SaveInvariant, TitleRuns
    PROVE  SaveInvariant'
<1> USE DEF SaveInvariant, TitleRuns
<1>1. memory' \in Contents /\ Len(memory') >= Len(memory)
      /\ (mixed \/ pc = "restore" \/ Uniform(memory'))
  BY MovesOn, Scribbled
<1>2. Len(memory') >= InitialRanges /\ Len(memory) \in Nat /\ Len(memory') \in Nat
  BY <1>1, ContentsData, RangesAssumption DEF TypeOK
<1>3. /\ mixed' \in BOOLEAN /\ (mixed' <=> mixed \/ pc = "restore")
      /\ UNCHANGED <<session, slot, stored, pc, ok, position>>
  BY DEF TypeOK
<1>4. CASE pc = "write"
  <2>1. tmp \in File /\ tmp.ranges \in 1..Ranges /\ tmp.ranges <= Len(memory)
    BY <1>4, FileData DEF Saving, TypeOK
  <2>2. /\ tmp' \in File /\ tmp' # None /\ tmp'.mixed = TRUE
        /\ tmp'.ranges = tmp.ranges
    BY <1>4, <2>1, NoneAssumption DEF File
  <2>3. tmp.ranges <= Len(memory')
    BY <1>1, <1>2, <2>1, RangesAssumption
  <2>4. TypeOK'
    BY <1>1, <1>2, <1>3, <2>2 DEF TypeOK
  <2>5. Saving'
    BY <1>3, <1>4, <2>2, <2>3 DEF Saving
  <2> QED
    BY <1>1, <1>3, <1>4, <2>4, <2>5 DEF MemoryIsWhole, Uniform, Settled, Loading
<1>5. CASE pc # "write"
  <2>1. tmp' = tmp
    BY <1>5
  <2>2. TypeOK'
    BY <1>1, <1>2, <1>3, <2>1 DEF TypeOK
  <2>3. Saving'
    BY <1>3, <1>5, <2>1 DEF Saving, Uniform, Complete
  <2>4. Loading'
    <3>1. CASE pc = "restore"
      <4>1. slot \in File /\ slot.ranges \in 1..Ranges /\ slot.ranges <= Len(memory) /\ Complete(slot)
        BY <3>1, FileData DEF Loading, TypeOK
      <4>2. slot.ranges <= Len(memory')
        BY <1>1, <1>2, <4>1, RangesAssumption
      <4> QED
        BY <1>3, <3>1, <4>1, <4>2 DEF Loading, Complete
    <3>2. CASE pc # "restore"
      BY <1>3, <3>2 DEF Loading
    <3> QED
      BY <3>1, <3>2
  <2> QED
    BY <1>1, <1>3, <2>2, <2>3, <2>4 DEF MemoryIsWhole, Uniform, Settled
<1> QED
  BY <1>4, <1>5

LEMMA LoadOpenKeeps ==
    ASSUME SaveInvariant, LoadOpen
    PROVE  SaveInvariant'
<1> USE DEF SaveInvariant, LoadOpen, title, files
<1>1. UNCHANGED <<memory, threads, session, mixed, tmp, slot, stored, ok, position>>
      /\ pc' \in {"idle", "check"} /\ pc = "idle" /\ (pc' = "check" => slot # None)
  OBVIOUS
<1> QED
  BY <1>1 DEF TypeOK, MemoryIsWhole, Uniform, Settled, Saving, Loading

LEMMA CheckKeeps ==
    ASSUME SaveInvariant, Check
    PROVE  SaveInvariant'
<1> USE DEF SaveInvariant, Check, files
<1>1. UNCHANGED <<memory, threads, session, tmp, slot, stored, ok, position>>
      /\ pc' \in {"idle", "restore"} /\ pc = "check" /\ position = 0 /\ slot # None
  BY DEF TypeOK, Loading
<1>2. slot \in File /\ slot.mixed \in BOOLEAN /\ slot.ranges \in 1..Ranges /\ Len(memory) \in Nat
  BY <1>1, FileData, ContentsData, RangesAssumption DEF TypeOK
<1>3. mixed' \in BOOLEAN
  BY <1>2 DEF TypeOK
<1>4. Loading'
  <2>1. CASE pc' = "restore"
    <3>1. Acceptable(slot) /\ (mixed' <=> slot.mixed \/ slot.ranges < Len(memory))
      BY <1>2, <2>1
    <3>2. Complete(slot) /\ slot.ranges <= Len(memory)
      BY <3>1 DEF Acceptable
    <3>3. mixed' \/ (~ slot.mixed /\ slot.ranges = Len(memory))
      BY <1>2, <3>1, <3>2, RangesAssumption
    <3> QED
      BY <1>1, <2>1, <3>2, <3>3 DEF Loading, Complete
  <2>2. CASE pc' = "idle"
    BY <2>2 DEF Loading
  <2> QED
    BY <1>1, <2>1, <2>2
<1>5. MemoryIsWhole'
  BY <1>1 DEF MemoryIsWhole, Uniform
<1>6. TypeOK'
  BY <1>1, <1>3 DEF TypeOK
<1> QED
  BY <1>1, <1>4, <1>5, <1>6 DEF Settled, Saving

LEMMA ReadKeeps ==
    ASSUME SaveInvariant, ReadMemoryRange
    PROVE  SaveInvariant'
<1> USE DEF SaveInvariant, ReadMemoryRange, files
<1>1. /\ UNCHANGED <<threads, session, mixed, tmp, slot, stored, pc, ok>>
      /\ pc = "restore" /\ position' = position + 1
  OBVIOUS
<1>2. /\ slot \in File /\ slot.ranges \in 1..Ranges /\ slot.ranges <= Len(memory)
      /\ memory \in Seq(Versions) /\ Len(memory) \in 0..Ranges
      /\ DOMAIN memory = 1..Len(memory)
  BY <1>1, FileData, ContentsData DEF Loading, TypeOK
<1>3. /\ position + 1 \in 1..Len(memory) /\ position + 1 \in 0..Ranges
      /\ position + 1 \in 1..Len(slot.data) /\ position \in Nat
  <2>1. position < slot.ranges /\ position < Len(slot.data) /\ Len(slot.data) \in 0..Ranges
        /\ position \in 0..Ranges
    BY <1>2, FileData DEF TypeOK
  <2> QED
    BY <1>2, <2>1, RangesAssumption
<1> DEFINE version == slot.data[position + 1]
<1>4. version \in Versions /\ memory' = [memory EXCEPT ![position + 1] = version]
  BY <1>2, <1>3, FileData
<1>5. memory' \in Seq(Versions) /\ Len(memory') = Len(memory) /\ memory' \in Contents
  <2>1. memory' \in Seq(Versions) /\ Len(memory') = Len(memory)
    BY <1>2, <1>3, <1>4, ExceptSeq
  <2>2. Len(memory') <= Ranges
    BY <1>2, <2>1, RangesAssumption
  <2> QED
    BY <2>1, <2>2, DataOfFile, Zenon
<1>6. TypeOK'
  BY <1>1, <1>3, <1>5 DEF TypeOK
<1>7. Loading'
  <2>1. \A i \in 1..position + 1 : i \in 1..position \/ i = position + 1
    BY <1>3
  <2>2. ASSUME ~ mixed PROVE \A i \in 1..position + 1 : memory'[i] = slot.data[i]
    <3>1. \A i \in 1..position : memory[i] = slot.data[i] /\ i \in DOMAIN memory /\ i # position + 1
      BY <1>1, <1>2, <1>3, <2>2 DEF Loading
    <3>2. \A i \in 1..position : memory'[i] = slot.data[i]
      BY <1>4, <3>1
    <3>3. memory'[position + 1] = slot.data[position + 1]
      BY <1>2, <1>3, <1>4
    <3> QED
      BY <2>1, <3>2, <3>3
  <2>3. /\ slot # None /\ Complete(slot) /\ slot.ranges <= Len(memory)
        /\ mixed \/ (~ slot.mixed /\ slot.ranges = Len(memory))
    BY <1>1 DEF Loading
  <2> QED
    BY <1>1, <1>5, <2>2, <2>3 DEF Loading, Complete
<1> QED
  BY <1>1, <1>6, <1>7 DEF MemoryIsWhole, Settled, Saving

LEMMA RestoreStops ==
    ASSUME SaveInvariant, RestoreEnds \/ \E e \in BOOLEAN : ReadFails(e)
    PROVE  SaveInvariant'
<1> USE DEF SaveInvariant, title, files
<1>1. /\ UNCHANGED <<memory, threads, session, tmp, slot, stored, ok>>
      /\ pc' = "idle" /\ pc = "restore" /\ position' = 0
  BY DEF RestoreEnds, ReadFails
<1>2. /\ slot \in File /\ Complete(slot) /\ slot.ranges \in 1..Ranges
      /\ DOMAIN slot.data = 1..Len(slot.data) /\ DOMAIN memory = 1..Len(memory)
      /\ position \in Nat
  BY <1>1, FileData, ContentsData, RangesAssumption DEF Loading, TypeOK
<1>3. mixed' \/ (position = slot.ranges /\ mixed' = mixed)
  <2>1. CASE RestoreEnds
    BY <2>1 DEF RestoreEnds
  <2>2. CASE \E e \in BOOLEAN : ReadFails(e)
    BY <1>2, <2>2, RangesAssumption DEF ReadFails, Complete
  <2> QED
    BY <2>1, <2>2
<1>4. mixed' \in BOOLEAN
  BY DEF RestoreEnds, ReadFails, TypeOK
<1>5. MemoryIsWhole'
  <2>1. CASE position = slot.ranges /\ mixed' = mixed /\ ~ mixed
    <3>1. ~ slot.mixed /\ slot.ranges = Len(memory) /\ \A i \in 1..position : memory[i] = slot.data[i]
      BY <1>1, <2>1 DEF Loading
    <3>2. Uniform(slot.data)
      <4>1. CASE Uniform(slot.data)
        BY <4>1
      <4>2. CASE slot.data = <<0>>
        BY <4>2 DEF Uniform
      <4> QED
        BY <1>2, <3>1, <4>1, <4>2, NoneAssumption DEF Settled, WholeSave, DamagedFile
    <3>3. Uniform(memory)
      BY <1>2, <2>1, <3>1, <3>2 DEF Uniform, Complete
    <3> QED
      BY <1>1, <3>3 DEF MemoryIsWhole, Uniform
  <2> QED
    BY <1>3, <2>1 DEF MemoryIsWhole
<1>6. TypeOK'
  BY <1>1, <1>4, RangesAssumption DEF TypeOK
<1> QED
  BY <1>1, <1>5, <1>6 DEF Settled, Saving, Loading

LEMMA CrashKeeps ==
    ASSUME SaveInvariant, Crash
    PROVE  SaveInvariant'
<1> USE DEF SaveInvariant, Crash
<1>1. slot' \in {slot, stored} /\ stored' = slot'
  BY SettledStays DEF TypeOK
<1>2. tmp' \in File \cup {None}
  BY CrashedIsFile DEF TypeOK
<1>3. memory' \in Contents /\ Len(memory') >= InitialRanges /\ Uniform(memory')
  <2>1. 0 \in Versions /\ InitialRanges \in Nat /\ InitialRanges <= Ranges
    BY RangesAssumption DEF Versions
  <2>2. Fresh \in Contents /\ Len(Fresh) = InitialRanges /\ Uniform(Fresh)
    BY <2>1, EqualRanges, Zenon DEF Fresh
  <2> QED
    BY <2>1, <2>2 DEF Uniform
<1>4. TypeOK'
  <2>1. 0 \in 0..Ranges /\ 1 \in Sessions
    BY RangesAssumption DEF Sessions
  <2> QED
    BY <1>1, <1>2, <1>3, <2>1 DEF TypeOK
<1>5. Settled(slot)' /\ Settled(stored)'
  <2>1. Settled(slot') /\ Settled(stored')
    BY <1>1
  <2> QED
    BY <2>1 DEF Settled, WholeSave, Complete, DamagedFile, Uniform
<1>6. MemoryIsWhole' /\ Saving' /\ Loading'
  BY <1>3 DEF MemoryIsWhole, Uniform, Saving, Loading
<1> QED
  BY <1>4, <1>5, <1>6

LEMMA NextKeeps ==
    ASSUME SaveInvariant, [Next]_vars
    PROVE  SaveInvariant'
<1>1. CASE WriteNext
  BY <1>1, SaveOpenKeeps, WriteKeeps, WritesEndKeeps, SyncKeeps, RenameKeeps, CleanupKeeps
  DEF WriteNext
<1>2. CASE ReadNext
  BY <1>2, LoadOpenKeeps, CheckKeeps, ReadKeeps, RestoreStops DEF ReadNext
<1>3. CASE TitleRuns
  BY <1>3, TitleKeeps
<1>4. CASE Crash
  BY <1>4, CrashKeeps
<1>5. CASE UNCHANGED vars
  BY <1>5 DEF vars, title, files, SaveInvariant, TypeOK, MemoryIsWhole, Uniform, Settled, WholeSave,
              Complete, DamagedFile, Saving, Loading
<1> QED
  BY <1>1, <1>2, <1>3, <1>4, <1>5 DEF Next

-----------------------------------------------------------------------------
(***************************************************************************)
(* The inductive invariant: files under their final name are settled, the  *)
(* temporary one is a copy of the beginning of memory, and memory is of    *)
(* one moment, each unless the title ran meanwhile, a read failed, or what *)
(* was loaded was not all of memory or not of one moment itself.           *)
(***************************************************************************)
THEOREM SaveInvariantHolds == Spec => []SaveInvariant
BY InitInvariant, NextKeeps, PTL DEF Spec

(***************************************************************************)
(* Every variable of WriteSaveFile and ReadSaveFile has its type; a load   *)
(* starts from the beginning.                                              *)
(***************************************************************************)
THEOREM SaveTypeCorrect == Spec => []TypeOK
<1>1. SaveInvariant => TypeOK
  BY DEF SaveInvariant
<1> QED
  BY <1>1, SaveInvariantHolds, PTL

(***************************************************************************)
(* Whatever call of a save fails and whenever the app dies, the slot holds *)
(* a complete save, on disk too: "leaves the slot's previous save          *)
(* untouched" (WriteSaveFile).  It is of one moment, unless the title ran  *)
(* while it was written or its memory was not of one moment before.        *)
(***************************************************************************)
THEOREM SlotIsAlwaysWhole == Spec => []SlotIsWhole
<1>1. SaveInvariant => SlotIsWhole
  <2> SUFFICES ASSUME SaveInvariant PROVE SlotIsWhole
    OBVIOUS
  <2>1. AfterCrash(slot) = {slot} /\ AfterCrash(stored) = {stored}
    BY SettledStays DEF SaveInvariant, TypeOK
  <2> QED
    BY <2>1 DEF SlotIsWhole, SaveInvariant, Settled
<1> QED
  BY <1>1, SaveInvariantHolds, PTL

(***************************************************************************)
(* Outside of a restore guest memory is of one moment, unless a read       *)
(* failed in the middle of one, it was of fewer ranges than are mapped, it *)
(* was of a file that is not of one moment, or the title ran during it: a  *)
(* file that is cut short is refused before memory is touched              *)
(* (ReadSaveFile).                                                         *)
(***************************************************************************)
THEOREM MemoryIsAlwaysWhole == Spec => []MemoryIsWhole
<1>1. SaveInvariant => MemoryIsWhole
  BY DEF SaveInvariant
<1> QED
  BY <1>1, SaveInvariantHolds, PTL

(***************************************************************************)
(* Only a save that was written completely replaces the slot, or a crash   *)
(* that takes the last rename back.                                        *)
(***************************************************************************)
THEOREM FailedSavesChangeNothing == Spec => SlotChangesOnSuccess
<1> DEFINE Allowed == slot' # slot => \/ session' # session
                                      \/ tmp # None /\ ok /\ Complete(tmp) /\ slot' = tmp
<1>1. ASSUME SaveInvariant, [Next]_vars PROVE Allowed
  <2>1. CASE Rename
    BY <1>1, <2>1 DEF Rename, SaveInvariant, Saving
  <2>2. CASE Crash
    BY <2>2 DEF Crash
  <2>3. CASE slot' = slot
    BY <2>3
  <2> QED
    BY <1>1, <2>1, <2>2, <2>3
    DEF Next, WriteNext, ReadNext, TitleRuns, SaveOpen, WriteMemoryRange, WritesEnd, SyncAndClose,
        Cleanup, LoadOpen, Check, ReadMemoryRange, RestoreEnds, ReadFails, vars, files
<1>2. SaveInvariant /\ [Next]_vars => [Allowed]_vars
  BY <1>1
<1> QED
  BY <1>2, SaveInvariantHolds, PTL DEF Spec, SlotChangesOnSuccess

-----------------------------------------------------------------------------
(***************************************************************************)
(* Pausing a title.                                                        *)
(***************************************************************************)
LEMMA BumpedCounters ==
    ASSUME PauseTypeOK, NEW t \in Threads
    PROVE  /\ suspendCounter[t] \in 0 .. MaxSuspend /\ LessOne(suspendCounter[t]) \in 0 .. MaxSuspend
           /\ suspendCounter[t] < MaxSuspend => suspendCounter[t] + 1 \in 1 .. MaxSuspend
           /\ 0 \in 0 .. MaxSuspend /\ 1 \in 0 .. MaxSuspend
BY MaxSuspendAssumption DEF PauseTypeOK, LessOne

LEMMA GuestTypes == PauseTypeOK /\ GuestNext => PauseTypeOK'
<1> SUFFICES ASSUME PauseTypeOK, GuestNext PROVE PauseTypeOK'
  OBVIOUS
<1> USE DEF PauseTypeOK, guest, activeList, counters, bridge
<1>1. ASSUME NEW c \in Cores, EnterGuest(c) \/ LeaveGuest(c) \/ Reschedule(c) PROVE PauseTypeOK'
  <2>1. CASE EnterGuest(c) \/ LeaveGuest(c)
    BY <2>1 DEF EnterGuest, LeaveGuest
  <2>2. CASE Reschedule(c)
    <3>1. queued' \subseteq Threads
      BY <2>2 DEF Reschedule, AddReady
    <3> QED
      BY <2>2, <3>1 DEF Reschedule
  <2> QED
    BY <1>1, <2>1, <2>2
<1>2. ASSUME NEW c \in Cores, SwitchInCall(c) PROVE PauseTypeOK'
  BY <1>2 DEF SwitchInCall, Executing, AddReady
<1>3. ASSUME NEW c \in Cores, GuestExits(c) \/ \E t \in Threads : GuestJoins(c, t) PROVE PauseTypeOK'
  <2>1. 0 \in 0 .. MaxSuspend /\ 0 \in 0 .. 1
    BY MaxSuspendAssumption
  <2>2. CASE \E t \in Threads : GuestJoins(c, t)
    BY <2>1, <2>2 DEF GuestJoins, Forget
  <2>3. CASE GuestExits(c)
    <3>1. current[c] \in Threads
      BY <2>3 DEF GuestExits, Executing
    <3>2. CASE Forget(current[c])
      BY <2>1, <2>3, <3>1, <3>2 DEF GuestExits, Forget
    <3>3. CASE ended' = ended \cup {current[c]} /\ UNCHANGED <<active, counters>>
      BY <2>3, <3>1, <3>3 DEF GuestExits
    <3> QED
      BY <2>3, <3>2, <3>3 DEF GuestExits
  <2> QED
    BY <1>3, <2>2, <2>3
<1>4. ASSUME NEW c \in Cores, NEW t \in Threads, Dispatch(c, t) PROVE PauseTypeOK'
  BY <1>4 DEF Dispatch
<1>5. ASSUME NEW c \in Cores, NEW t \in Threads, GuestCreates(c, t) PROVE PauseTypeOK'
  BY <1>5, MaxSuspendAssumption DEF GuestCreates
<1>6. ASSUME NEW c \in Cores, NEW t \in Threads, GuestSuspends(c, t) PROVE PauseTypeOK'
  <2>1. suspendCounter[t] + 1 \in 0 .. MaxSuspend
    BY <1>6, MaxSuspendAssumption DEF GuestSuspends
  <2> QED
    BY <1>6, <2>1 DEF GuestSuspends, Dequeue
<1>7. ASSUME NEW c \in Cores, NEW t \in Threads, GuestResumes(c, t) PROVE PauseTypeOK'
  <2>1. LessOne(suspendCounter[t]) \in 0 .. MaxSuspend
    BY BumpedCounters
  <2>2. queued' \subseteq Threads
    BY <1>7 DEF GuestResumes, Requeue, AddReady
  <2>3. /\ suspendCounter' \in [Threads -> 0 .. MaxSuspend]
        /\ guestSuspends' \in [Threads -> 0 .. 1]
    BY <1>7, <2>1 DEF GuestResumes
  <2>4. UNCHANGED <<guest, activeList, bridge>>
    BY <1>7 DEF GuestResumes
  <2> QED
    BY <2>2, <2>3, <2>4
<1>8. ASSUME NEW t \in Threads, Wake(t) PROVE PauseTypeOK'
  BY <1>8 DEF Wake, AddReady
<1> QED
  BY <1>1, <1>2, <1>3, <1>4, <1>5, <1>6, <1>7, <1>8 DEF GuestNext

LEMMA BridgeTypes ==
    ASSUME PauseTypeOK,
           \/ SaverNext \/ AppPauses \/ AppResumes
           \/ \E a \in Agents : SuspendAll(a) \/ ResumeAll(a)
    PROVE  PauseTypeOK'
<1> USE DEF PauseTypeOK, guest, activeList, counters, Agents
<1>1. ASSUME SaverNext PROVE PauseTypeOK'
  <2>1. ASSUME NEW c \in Cores, PollCore(c) PROVE PauseTypeOK'
    BY <2>1 DEF PollCore
  <2>2. CASE SaveBegins \/ SavePauses \/ SaveResumes
    BY ZenonT(40), <2>2 DEF SaveBegins, SavePauses, PauseFlag, SaveResumes, ResumeFlag
  <2>3. CASE PollEnds \/ DrainEnds \/ WaitTimesOut \/ AccessEnds
    BY ZenonT(40), <2>3 DEF PollEnds, DrainEnds, WaitTimesOut, AccessEnds, AfterAccess
  <2> QED
    BY <1>1, <2>1, <2>2, <2>3 DEF SaverNext
<1>2. ASSUME AppPauses \/ AppResumes PROVE PauseTypeOK'
  BY ZenonT(40), <1>2 DEF AppPauses, PauseFlag, AppResumes, ResumeFlag
<1>3. ASSUME NEW a \in Agents, SuspendAll(a) PROVE PauseTypeOK'
  <2>1. \A t \in Threads : (suspendCounter[t] + IF t \in active THEN 1 ELSE 0) \in 0 .. MaxSuspend
    BY <1>3, MaxSuspendAssumption DEF SuspendAll
  <2> QED
    BY <1>3, <2>1 DEF SuspendAll, Dequeue
<1>4. ASSUME NEW a \in Agents, ResumeAll(a) PROVE PauseTypeOK'
  <2>1. \A t \in Threads : LessOne(suspendCounter[t]) \in 0 .. MaxSuspend
    BY BumpedCounters
  <2>2. queued' \subseteq Threads
    BY <1>4 DEF ResumeAll, Requeue, AddReady
  <2> QED
    BY <1>4, <2>1, <2>2 DEF ResumeAll
<1> QED
  BY <1>1, <1>2, <1>3, <1>4

LEMMA PauseTypesKeep == PauseTypeOK /\ [PauseNext]_pauseVars => PauseTypeOK'
<1>1. PauseTypeOK /\ UNCHANGED pauseVars => PauseTypeOK'
  BY DEF PauseTypeOK, pauseVars, guest, activeList, counters, bridge
<1> QED
  BY <1>1, GuestTypes, BridgeTypes DEF PauseNext

\* Type correctness: no counter leaves its range.
THEOREM PauseTypeCorrect == PauseSpec => []PauseTypeOK
<1>1. PauseInit => PauseTypeOK
  <2>1. 0 \in 0 .. MaxSuspend /\ 0 \in 0 .. 1
    BY MaxSuspendAssumption
  <2> QED
    BY <2>1, InitialAssumption DEF PauseInit, PauseTypeOK
<1> QED
  BY <1>1, PauseTypesKeep, PTL DEF PauseSpec

(***************************************************************************)
(* The dispatcher takes whoever is on a run queue.  Only threads that are  *)
(* READY and not suspended are there: a suspended thread was taken off, or *)
(* was not put there when it left its core, was woken or was resumed by    *)
(* one of two.  For a thread that leaves a core to be READY, no other core *)
(* may have it.                                                            *)
(***************************************************************************)
Placed ==
    /\ ended \subseteq active /\ waiting \subseteq active \ ended
    /\ \A c \in Cores : current[c] # NoThread => current[c] \in active \ (waiting \cup ended)
    /\ \A c, d \in Cores : current[c] # NoThread /\ current[c] = current[d] => c = d

QueuedMayRun == \A t \in queued : Ready(t) /\ suspendCounter[t] = 0

PauseInvariant == PauseTypeOK /\ Placed /\ QueuedMayRun

LEMMA SameGuest ==
    ASSUME PauseInvariant, PauseTypeOK',
           UNCHANGED <<current, waiting, queued, active, ended, suspendCounter>>
    PROVE  PauseInvariant'
BY DEF PauseInvariant, Placed, QueuedMayRun, Ready, OnCore

\* a thread is dispatched
LEMMA DispatchKeeps ==
    ASSUME PauseInvariant, PauseTypeOK', NEW c \in Cores, NEW t \in Threads, Dispatch(c, t)
    PROVE  PauseInvariant'
<1> USE DEF PauseInvariant
<1>1. /\ UNCHANGED <<waiting, active, ended, suspendCounter>> /\ queued' = queued \ {t}
      /\ current' = [current EXCEPT ![c] = t] /\ current[c] = NoThread /\ t \in queued
  BY DEF Dispatch, activeList, counters
<1>2. t \in active \ (waiting \cup ended) /\ \A d \in Cores : current[d] # t
  BY <1>1 DEF QueuedMayRun, Ready, OnCore
<1>3. current'[c] = t /\ \A d \in Cores \ {c} : current'[d] = current[d]
  BY <1>1 DEF PauseTypeOK
<1>4. Placed'
  BY <1>1, <1>2, <1>3 DEF Placed
<1>5. QueuedMayRun'
  <2> SUFFICES ASSUME NEW u \in queued' PROVE Ready(u)' /\ suspendCounter'[u] = 0
    BY DEF QueuedMayRun
  <2>1. u \in queued /\ u # t /\ Ready(u) /\ suspendCounter[u] = 0
    BY <1>1 DEF QueuedMayRun
  <2>2. \A d \in Cores : current'[d] # u
    BY <1>3, <2>1 DEF Ready, OnCore
  <2> QED
    BY <1>1, <2>1, <2>2 DEF Ready, OnCore
<1> QED
  BY <1>4, <1>5

\* a thread leaves its core: to wait, to run again, or for good
LEMMA LeavesCore ==
    ASSUME PauseInvariant, NEW c \in Cores, current[c] # NoThread,
           current' = [current EXCEPT ![c] = NoThread]
    PROVE  /\ \A d \in Cores : current'[d] # current[c]
           /\ \A d \in Cores : current'[d] \in {current[d], NoThread}
           /\ \A u \in queued : u # current[c] /\ u \in active \ (waiting \cup ended)
                                 /\ suspendCounter[u] = 0 /\ \A d \in Cores : current'[d] # u
<1>1. current'[c] = NoThread /\ \A d \in Cores \ {c} : current'[d] = current[d]
  BY DEF PauseInvariant, PauseTypeOK
<1>2. \A d \in Cores \ {c} : current[d] # current[c]
  BY DEF PauseInvariant, Placed
<1>3. \A u \in queued : u \in Threads /\ Ready(u) /\ suspendCounter[u] = 0
  BY DEF PauseInvariant, PauseTypeOK, QueuedMayRun
<1>4. \A u \in queued : \A d \in Cores : current[d] # u
  BY <1>3 DEF Ready, OnCore
<1> QED
  BY <1>1, <1>2, <1>3, <1>4, NothingAssumption DEF Ready

LEMMA LeavingKeeps ==
    ASSUME PauseInvariant, PauseTypeOK', NEW c \in Cores, Reschedule(c) \/ SwitchInCall(c)
    PROVE  PauseInvariant'
<1> USE DEF PauseInvariant
<1> DEFINE t == current[c]
<1>1. /\ t # NoThread /\ UNCHANGED <<active, ended, suspendCounter>>
      /\ current' = [current EXCEPT ![c] = NoThread]
      /\ \/ waiting' = waiting \cup {t} /\ queued' = queued
         \/ waiting' = waiting /\ queued' = queued \cup {u \in {t} : suspendCounter[u] = 0}
  BY DEF Reschedule, SwitchInCall, Executing, AddReady, activeList, counters
<1>2. t \in active \ (waiting \cup ended)
  BY <1>1 DEF Placed
<1>3. /\ \A d \in Cores : current'[d] # t /\ current'[d] \in {current[d], NoThread}
      /\ \A u \in queued : u # t /\ u \in active \ (waiting \cup ended)
                            /\ suspendCounter[u] = 0 /\ \A d \in Cores : current'[d] # u
  BY <1>1, LeavesCore
<1> HIDE DEF t
<1>4. Placed'
  BY <1>1, <1>2, <1>3 DEF Placed
<1>5. QueuedMayRun'
  <2> SUFFICES ASSUME NEW u \in queued' PROVE Ready(u)' /\ suspendCounter'[u] = 0
    BY DEF QueuedMayRun
  <2>1. CASE u \in queued
    BY <1>1, <1>3, <2>1 DEF Ready, OnCore
  <2>2. CASE u \notin queued
    <3>1. u = t /\ suspendCounter[t] = 0 /\ waiting' = waiting
      BY <1>1, <2>2
    <3> QED
      BY <1>1, <1>2, <1>3, <3>1 DEF Ready, OnCore
  <2> QED
    BY <2>1, <2>2
<1> QED
  BY <1>4, <1>5

LEMMA ExitKeeps ==
    ASSUME PauseInvariant, PauseTypeOK', NEW c \in Cores, GuestExits(c)
    PROVE  PauseInvariant'
<1> USE DEF PauseInvariant
<1> DEFINE t == current[c]
<1>1. /\ t # NoThread /\ t \in Threads /\ UNCHANGED <<waiting, queued>>
      /\ current' = [current EXCEPT ![c] = NoThread]
      /\ \/ active' = active \ {t} /\ ended' = ended \ {t} /\ suspendCounter' = [suspendCounter EXCEPT ![t] = 0]
         \/ active' = active /\ ended' = ended \cup {t} /\ suspendCounter' = suspendCounter
  BY DEF GuestExits, Executing, Forget, counters, PauseTypeOK
<1>2. t \in active \ (waiting \cup ended)
  BY <1>1 DEF Placed
<1>3. /\ \A d \in Cores : current'[d] # t /\ current'[d] \in {current[d], NoThread}
      /\ \A u \in queued : u # t /\ u \in active \ (waiting \cup ended)
                            /\ suspendCounter[u] = 0 /\ \A d \in Cores : current'[d] # u
  BY <1>1, LeavesCore
<1> HIDE DEF t
<1>4. Placed'
  BY <1>1, <1>2, <1>3 DEF Placed
<1>5. \A u \in queued : suspendCounter'[u] = 0 /\ u \in Threads
  BY <1>1, <1>3 DEF PauseTypeOK
<1>6. QueuedMayRun'
  BY <1>1, <1>3, <1>5 DEF QueuedMayRun, Ready, OnCore
<1> QED
  BY <1>4, <1>6

\* calls about another thread that change the list of active threads
LEMMA ListKeeps ==
    ASSUME PauseInvariant, PauseTypeOK', NEW c \in Cores, NEW t \in Threads,
           GuestJoins(c, t) \/ GuestCreates(c, t)
    PROVE  PauseInvariant'
<1> USE DEF PauseInvariant
<1>1. /\ UNCHANGED <<current, waiting, queued>>
      /\ t \in ended \/ t \notin active
      /\ active' \in {active \ {t}, active \cup {t}} /\ ended' = ended \ {t}
      /\ \A u \in Threads \ {t} : suspendCounter'[u] = suspendCounter[u]
  BY DEF GuestJoins, GuestCreates, Forget, guest, Placed, PauseTypeOK
<1>2. t \notin waiting /\ t \notin queued /\ \A d \in Cores : current[d] # t
  BY <1>1, NothingAssumption DEF Placed, QueuedMayRun, Ready
<1>3. \A u \in queued : u \in Threads \ {t} /\ Ready(u) /\ suspendCounter[u] = 0
  BY <1>2 DEF PauseTypeOK, QueuedMayRun
<1>4. \A u \in queued : Ready(u)' /\ suspendCounter'[u] = 0
  BY <1>1, <1>3 DEF Ready, OnCore
<1>5. \A d \in Cores : current[d] # NoThread => current[d] \in active' \ (waiting \cup ended')
  BY <1>1, <1>2 DEF Placed
<1>6. Placed'
  BY <1>1, <1>2, <1>5 DEF Placed
<1> QED
  BY <1>1, <1>4, <1>6 DEF QueuedMayRun

LEMMA WakeKeeps ==
    ASSUME PauseInvariant, PauseTypeOK', NEW t \in Threads, Wake(t)
    PROVE  PauseInvariant'
<1> USE DEF PauseInvariant
<1>1. /\ UNCHANGED <<current, active, ended, suspendCounter>> /\ t \in waiting
      /\ waiting' = waiting \ {t} /\ queued' = queued \cup {u \in {t} : suspendCounter[u] = 0}
  BY DEF Wake, AddReady, activeList, counters
<1>2. t \in active \ ended /\ \A d \in Cores : current[d] # t
  BY <1>1, NothingAssumption DEF Placed
<1>3. Placed'
  BY <1>1 DEF Placed
<1>4. QueuedMayRun'
  BY <1>1, <1>2 DEF QueuedMayRun, Ready, OnCore
<1> QED
  BY <1>3, <1>4

\* counters go up
LEMMA SuspendingKeeps ==
    ASSUME PauseInvariant, PauseTypeOK', NEW ts \in SUBSET active,
           UNCHANGED <<current, waiting, active, ended>>,
           queued' = Dequeue(queued, suspendCounter, ts),
           \A u \in Threads \ ts : suspendCounter'[u] = suspendCounter[u]
    PROVE  PauseInvariant'
<1>1. \A u \in queued' : u \in queued /\ u \in Threads \ ts
  BY DEF PauseInvariant, PauseTypeOK, QueuedMayRun, Dequeue
<1>2. \A u \in queued' : Ready(u)' /\ suspendCounter'[u] = 0
  BY <1>1 DEF PauseInvariant, QueuedMayRun, Ready, OnCore
<1> QED
  BY <1>2 DEF PauseInvariant, Placed, QueuedMayRun

\* counters go down
LEMMA ResumingKeeps ==
    ASSUME PauseInvariant, PauseTypeOK', NEW ts \in SUBSET active,
           UNCHANGED <<current, waiting, active, ended>>,
           queued' = Requeue(ts),
           \A u \in Threads : suspendCounter'[u] \in {suspendCounter[u], LessOne(suspendCounter[u])}
    PROVE  PauseInvariant'
<1>1. \A u \in queued : u \in Threads /\ suspendCounter[u] = 0 /\ Ready(u)
  BY DEF PauseInvariant, PauseTypeOK, QueuedMayRun
<1>2. \A u \in queued : suspendCounter'[u] = 0
  BY <1>1 DEF LessOne
<1>3. \A u \in queued' : Ready(u) /\ suspendCounter'[u] = 0
  BY <1>1, <1>2 DEF Requeue, AddReady
<1>4. \A u \in queued' : Ready(u)'
  BY <1>3 DEF Ready, OnCore
<1> QED
  BY <1>3, <1>4 DEF PauseInvariant, Placed, QueuedMayRun

LEMMA PauseInvariantKeeps == PauseInvariant /\ [PauseNext]_pauseVars => PauseInvariant'
<1> SUFFICES ASSUME PauseInvariant, [PauseNext]_pauseVars PROVE PauseInvariant'
  OBVIOUS
<1>1. PauseTypeOK' /\ PauseTypeOK
  BY PauseTypesKeep DEF PauseInvariant
<1>2. CASE GuestNext
  <2>1. ASSUME NEW c \in Cores, EnterGuest(c) \/ LeaveGuest(c) PROVE PauseInvariant'
    BY <1>1, <2>1, SameGuest DEF EnterGuest, LeaveGuest, activeList, counters
  <2>2. ASSUME NEW c \in Cores, NEW t \in Threads, GuestSuspends(c, t) PROVE PauseInvariant'
    <3>1. /\ {t} \in SUBSET active /\ UNCHANGED <<current, waiting, active, ended>>
          /\ queued' = Dequeue(queued, suspendCounter, {t})
          /\ \A u \in Threads \ {t} : suspendCounter'[u] = suspendCounter[u]
      BY <1>1, <2>2 DEF GuestSuspends, activeList, guest, PauseTypeOK
    <3> QED
      BY <1>1, <3>1, SuspendingKeeps
  <2>3. ASSUME NEW c \in Cores, NEW t \in Threads, GuestResumes(c, t) PROVE PauseInvariant'
    <3>1. /\ {t} \in SUBSET active /\ UNCHANGED <<current, waiting, active, ended>>
          /\ queued' = Requeue({t})
          /\ \A u \in Threads : suspendCounter'[u] \in {suspendCounter[u], LessOne(suspendCounter[u])}
      BY <1>1, <2>3 DEF GuestResumes, activeList, guest, PauseTypeOK
    <3> QED
      BY <1>1, <3>1, ResumingKeeps
  <2> QED
    BY <1>1, <1>2, <2>1, <2>2, <2>3, DispatchKeeps, LeavingKeeps, ExitKeeps, ListKeeps, WakeKeeps
    DEF GuestNext
<1>3. CASE SaverNext \/ AppPauses \/ AppResumes \/ UNCHANGED pauseVars
  <2>1. UNCHANGED <<current, waiting, queued, active, ended, suspendCounter>>
    BY <1>3 DEF SaverNext, SaveBegins, SavePauses, PauseFlag, PollCore, PollEnds, DrainEnds, WaitTimesOut,
                AccessEnds, SaveResumes, ResumeFlag, AppPauses, AppResumes, pauseVars, guest, activeList, counters
  <2> QED
    BY <1>1, <2>1, SameGuest
<1>4. ASSUME NEW a \in Agents, SuspendAll(a) PROVE PauseInvariant'
  <2>1. /\ active \in SUBSET active /\ UNCHANGED <<current, waiting, active, ended>>
        /\ queued' = Dequeue(queued, suspendCounter, active)
    BY <1>4 DEF SuspendAll, activeList, guest
  <2>2. \A u \in Threads \ active : suspendCounter'[u] = suspendCounter[u]
    BY <1>1, <1>4 DEF SuspendAll, PauseTypeOK
  <2> QED
    BY <1>1, <2>1, <2>2, SuspendingKeeps
<1>5. ASSUME NEW a \in Agents, ResumeAll(a) PROVE PauseInvariant'
  <2>1. /\ active \in SUBSET active /\ UNCHANGED <<current, waiting, active, ended>>
        /\ queued' = Requeue(active)
        /\ \A u \in Threads : suspendCounter'[u] \in {suspendCounter[u], LessOne(suspendCounter[u])}
    BY <1>5 DEF ResumeAll, activeList, guest
  <2> QED
    BY <1>1, <2>1, ResumingKeeps
<1> QED
  BY <1>2, <1>3, <1>4, <1>5 DEF PauseNext

\* The run queues only hold threads that are READY and not suspended, and no
\* thread is on two cores.
THEOREM OnlyReadyThreadsAreQueued == PauseSpec => []PauseInvariant
<1>1. PauseInit => PauseTypeOK
  <2>1. 0 \in 0 .. MaxSuspend /\ 0 \in 0 .. 1
    BY MaxSuspendAssumption
  <2> QED
    BY <2>1, InitialAssumption DEF PauseInit, PauseTypeOK
<1>2. PauseInit => Placed /\ QueuedMayRun
  BY InitialAssumption, NothingAssumption DEF PauseInit, Placed, QueuedMayRun, Ready, OnCore
<1> QED
  BY <1>1, <1>2, PauseInvariantKeeps, PTL DEF PauseSpec, PauseInvariant

\* Once no thread is on a core and all are suspended, that stays so until the
\* title is resumed, whatever is woken meanwhile: then nobody is left on a run
\* queue whom the dispatcher could take.
THEOREM QuietUntilResumed == PauseSpec => StaysQuiet
<1>1. ASSUME PauseInvariant, Parked, AllSuspended, [PauseNext]_pauseVars, ~ \E a \in Agents : ResumeAll(a)
      PROVE  Parked' /\ AllSuspended'
  <2>1. \A c \in Cores : current[c] = NoThread /\ ~ Executing(c)
    BY <1>1 DEF Parked, Executing
  <2>2. CASE GuestNext
    <3>1. queued = {}
      BY <1>1 DEF PauseInvariant, PauseTypeOK, QueuedMayRun, Ready, AllSuspended
    <3>2. PICK t \in Threads : Wake(t)
      BY <2>1, <2>2, <3>1
      DEF GuestNext, EnterGuest, LeaveGuest, Reschedule, SwitchInCall, GuestExits, GuestCreates,
          GuestJoins, GuestSuspends, GuestResumes, Dispatch
    <3> QED
      BY <1>1, <3>2 DEF Wake, Parked, AllSuspended, activeList, counters
  <2>3. CASE SaverNext \/ AppPauses \/ AppResumes \/ UNCHANGED pauseVars
    <3>1. UNCHANGED <<guest, activeList, counters>>
      BY <2>3 DEF SaverNext, SaveBegins, SavePauses, PauseFlag, PollCore, PollEnds, DrainEnds, WaitTimesOut,
                  AccessEnds, SaveResumes, ResumeFlag, AppPauses, AppResumes, pauseVars
    <3> QED
      BY <1>1, <3>1 DEF guest, activeList, counters, Parked, AllSuspended
  <2>4. ASSUME NEW a \in Agents, SuspendAll(a) PROVE Parked' /\ AllSuspended'
    <3>1. \A t \in active : t \in Threads /\ suspendCounter'[t] = suspendCounter[t] + 1
      BY <1>1, <2>4 DEF SuspendAll, PauseInvariant, PauseTypeOK
    <3>2. \A t \in active : suspendCounter'[t] > 0
      BY <1>1, <3>1, MaxSuspendAssumption DEF PauseInvariant, PauseTypeOK, AllSuspended
    <3> QED
      BY <1>1, <2>4, <3>2 DEF SuspendAll, guest, activeList, Parked, AllSuspended
  <2> QED
    BY <1>1, <2>2, <2>3, <2>4 DEF PauseNext
<1> QED
  BY <1>1, OnlyReadyThreadsAreQueued, PTL DEF PauseSpec, StaysQuiet

(***************************************************************************)
(* A pause gives back what it took if nobody else pauses the title and no  *)
(* thread is created under the pause.  (With either, ResumeRestores fails: *)
(* see the README.)  What counts for it is where the saver is: from its    *)
(* SuspendAll to its ResumeAll every counter is one too high.              *)
(***************************************************************************)
OnlySaves == ~ AppActs /\ ~ LateCreation

Taken == IF hostPc["saver"] \in {"poll", "drain", "access", "resumeFlag", "resume"} THEN 1 ELSE 0

CountsTaken ==
    /\ PauseTypeOK
    /\ hostPc["app"] = "idle"
    /\ paused <=> hostPc["saver"] \in {"suspend", "poll", "drain", "access", "resumeFlag"}
    /\ hostPc["saver"] # "idle" => ~ wasPaused
    /\ \A t \in active : suspendCounter[t] = guestSuspends[t] + Taken

LEMMA GuestKeepsTaken ==
    ASSUME OnlySaves, CountsTaken, GuestNext
    PROVE  CountsTaken'
<1>1. PauseTypeOK'
  BY GuestTypes DEF CountsTaken
<1>2. UNCHANGED bridge
  BY DEF GuestNext, EnterGuest, LeaveGuest, Reschedule, SwitchInCall, GuestExits, Dispatch, GuestCreates,
         GuestJoins, GuestSuspends, GuestResumes, Wake
<1>3. Taken' = Taken /\ Taken \in {0, 1}
  BY <1>2 DEF Taken, bridge
<1>4. /\ \A t \in Threads : suspendCounter[t] \in Nat /\ guestSuspends[t] \in 0 .. 1
      /\ suspendCounter \in [Threads -> 0 .. MaxSuspend] /\ guestSuspends \in [Threads -> 0 .. 1]
      /\ active \subseteq Threads /\ \A t \in active : suspendCounter[t] = guestSuspends[t] + Taken
  BY DEF CountsTaken, PauseTypeOK
<1>5. \A t \in active' : suspendCounter'[t] = guestSuspends'[t] + Taken
  <2>1. CASE UNCHANGED <<active, counters>>
    BY <1>4, <2>1 DEF counters
  <2>2. ASSUME NEW c \in Cores, NEW t \in Threads \cup {NoThread}, Forget(t)
        PROVE  \A u \in active' : suspendCounter'[u] = guestSuspends'[u] + Taken
    BY <1>4, <2>2 DEF Forget
  <2>3. ASSUME NEW c \in Cores, NEW t \in Threads, GuestCreates(c, t)
        PROVE  \A u \in active' : suspendCounter'[u] = guestSuspends'[u] + Taken
    <3>1. Taken = 0
      BY <2>3 DEF GuestCreates, OnlySaves, NoPause, CountsTaken, Taken, Agents
    <3>2. /\ suspendCounter'[t] = 1 /\ guestSuspends'[t] = 1
          /\ \A u \in active' \ {t} : u \in active /\ suspendCounter'[u] = suspendCounter[u]
                                       /\ guestSuspends'[u] = guestSuspends[u]
      BY <1>4, <2>3 DEF GuestCreates
    <3> QED
      BY <1>4, <3>1, <3>2
  <2>4. ASSUME NEW c \in Cores, NEW t \in Threads, GuestSuspends(c, t)
        PROVE  \A u \in active' : suspendCounter'[u] = guestSuspends'[u] + Taken
    <3>1. /\ suspendCounter'[t] = suspendCounter[t] + 1 /\ guestSuspends'[t] = 1 /\ guestSuspends[t] = 0
          /\ active' = active /\ t \in active
          /\ \A u \in active \ {t} : suspendCounter'[u] = suspendCounter[u]
                                      /\ guestSuspends'[u] = guestSuspends[u]
      BY <1>4, <2>4 DEF GuestSuspends, activeList
    <3> QED
      BY <1>3, <1>4, <3>1
  <2>5. ASSUME NEW c \in Cores, NEW t \in Threads, GuestResumes(c, t)
        PROVE  \A u \in active' : suspendCounter'[u] = guestSuspends'[u] + Taken
    <3>1. /\ suspendCounter'[t] = LessOne(suspendCounter[t]) /\ guestSuspends'[t] = 0 /\ guestSuspends[t] = 1
          /\ active' = active /\ t \in active
          /\ \A u \in active \ {t} : suspendCounter'[u] = suspendCounter[u]
                                      /\ guestSuspends'[u] = guestSuspends[u]
      BY <1>4, <2>5 DEF GuestResumes, activeList
    <3>2. LessOne(suspendCounter[t]) = suspendCounter[t] - 1
      BY <1>3, <1>4, <3>1 DEF LessOne
    <3> QED
      BY <1>3, <1>4, <3>1, <3>2
  <2>6. ASSUME NEW c \in Cores,
               EnterGuest(c) \/ LeaveGuest(c) \/ Reschedule(c) \/ SwitchInCall(c) \/ \E t \in Threads : Dispatch(c, t)
        PROVE  UNCHANGED <<active, counters>>
    BY <2>6 DEF EnterGuest, LeaveGuest, Reschedule, SwitchInCall, Dispatch, activeList
  <2>7. ASSUME NEW t \in Threads, Wake(t) PROVE UNCHANGED <<active, counters>>
    BY <2>7 DEF Wake, activeList
  <2>8. ASSUME NEW c \in Cores, GuestExits(c) \/ \E t \in Threads : GuestJoins(c, t)
        PROVE  UNCHANGED <<active, counters>> \/ \E t \in Threads \cup {NoThread} : Forget(t)
    BY <2>8 DEF GuestExits, GuestJoins, CountsTaken, PauseTypeOK
  <2> QED
    BY <2>1, <2>2, <2>3, <2>4, <2>5, <2>6, <2>7, <2>8 DEF GuestNext
<1> QED
  BY <1>1, <1>2, <1>3, <1>5 DEF CountsTaken, bridge

LEMMA BridgeKeepsTaken ==
    ASSUME OnlySaves, CountsTaken,
           \/ SaverNext \/ AppPauses \/ AppResumes
           \/ \E a \in Agents : SuspendAll(a) \/ ResumeAll(a)
    PROVE  CountsTaken'
<1>1. PauseTypeOK'
  BY BridgeTypes DEF CountsTaken
<1>2. /\ hostPc \in [Agents -> {"idle", "pause", "suspend", "poll", "drain", "access", "resumeFlag", "resume"}]
      /\ paused \in BOOLEAN /\ "saver" \in Agents /\ "app" \in Agents
      /\ active \subseteq Threads /\ \A t \in Threads : suspendCounter[t] \in Nat /\ guestSuspends[t] \in Nat
      /\ \A t \in active : suspendCounter[t] = guestSuspends[t] + Taken
  BY DEF CountsTaken, PauseTypeOK, Agents
<1>3. ~ AppPauses /\ ~ AppResumes
  BY DEF OnlySaves, AppPauses, AppResumes
<1>4. CASE SaverNext
  <2>1. UNCHANGED <<active, counters>>
    BY <1>4 DEF SaverNext, SaveBegins, SavePauses, PauseFlag, PollCore, PollEnds, DrainEnds, WaitTimesOut,
                AccessEnds, SaveResumes, ResumeFlag, activeList
  <2>2. /\ hostPc'["app"] = hostPc["app"] /\ Taken' = Taken
        /\ paused' <=> hostPc'["saver"] \in {"suspend", "poll", "drain", "access", "resumeFlag"}
        /\ hostPc'["saver"] # "idle" => ~ wasPaused'
    <3>1. CASE SaveBegins \/ SavePauses \/ SaveResumes
      BY <1>2, <3>1 DEF SaveBegins, SavePauses, PauseFlag, SaveResumes, ResumeFlag, CountsTaken, Taken
    <3>2. CASE PollEnds \/ DrainEnds \/ \E c \in Cores : PollCore(c)
      BY <1>2, <3>2 DEF PollEnds, DrainEnds, PollCore, CountsTaken, Taken
    <3>3. CASE WaitTimesOut \/ AccessEnds
      BY <1>2, <3>3 DEF WaitTimesOut, AccessEnds, AfterAccess, CountsTaken, Taken
    <3> QED
      BY <1>4, <3>1, <3>2, <3>3 DEF SaverNext
  <2> QED
    BY <1>1, <1>2, <2>1, <2>2 DEF CountsTaken, counters
<1>5. ASSUME NEW a \in Agents, SuspendAll(a) PROVE CountsTaken'
  <2>1. a = "saver" /\ hostPc["saver"] = "suspend"
    BY <1>5 DEF SuspendAll, CountsTaken, Agents
  <2>2. hostPc' = [hostPc EXCEPT !["saver"] = "poll"] /\ Taken = 0
    BY <1>5, <2>1 DEF SuspendAll, Taken
  <2>3. Taken' = 1
    BY <1>2, <2>2 DEF Taken
  <2>4. \A t \in active : suspendCounter'[t] = guestSuspends[t] + 1
    BY <1>2, <1>5, <2>2 DEF SuspendAll
  <2> QED
    BY <1>1, <1>2, <1>5, <2>1, <2>2, <2>3, <2>4 DEF SuspendAll, CountsTaken, activeList
<1>6. ASSUME NEW a \in Agents, ResumeAll(a) PROVE CountsTaken'
  <2>1. a = "saver" /\ hostPc["saver"] = "resume"
    BY <1>6 DEF ResumeAll, CountsTaken, Agents
  <2>2. hostPc' = [hostPc EXCEPT !["saver"] = "idle"] /\ Taken = 1
    BY <1>6, <2>1 DEF ResumeAll, Taken
  <2>3. Taken' = 0
    BY <1>2, <2>2 DEF Taken
  <2>4. \A t \in active : suspendCounter'[t] = guestSuspends[t]
    <3>1. \A t \in active : suspendCounter[t] = guestSuspends[t] + 1 /\ suspendCounter'[t] = LessOne(suspendCounter[t])
      BY <1>2, <1>6, <2>2 DEF ResumeAll
    <3> QED
      BY <1>2, <3>1 DEF LessOne
  <2> QED
    BY <1>1, <1>2, <1>6, <2>1, <2>2, <2>3, <2>4 DEF ResumeAll, CountsTaken, activeList
<1> QED
  BY <1>3, <1>4, <1>5, <1>6

\* When the title is not paused and no call is under way, every thread is
\* suspended exactly as the guest left it.
THEOREM PausesAreUndone ==
    ASSUME OnlySaves
    PROVE  PauseSpec => []ResumeRestores
<1>1. PauseInit => CountsTaken
  <2>1. PauseInit => PauseTypeOK
    <3>1. 0 \in 0 .. MaxSuspend /\ 0 \in 0 .. 1
      BY MaxSuspendAssumption
    <3> QED
      BY <3>1, InitialAssumption DEF PauseInit, PauseTypeOK
  <2> QED
    BY <2>1, InitialAssumption DEF PauseInit, CountsTaken, Taken, Agents
<1>2. CountsTaken /\ [PauseNext]_pauseVars => CountsTaken'
  <2>1. CountsTaken /\ UNCHANGED pauseVars => CountsTaken'
    BY DEF CountsTaken, PauseTypeOK, Taken, pauseVars, guest, activeList, counters, bridge
  <2> QED
    BY <2>1, GuestKeepsTaken, BridgeKeepsTaken DEF PauseNext
<1>3. CountsTaken => ResumeRestores
  BY DEF CountsTaken, PauseTypeOK, Taken, ResumeRestores, BetweenCalls, Agents
<1> QED
  BY <1>1, <1>2, <1>3, PTL DEF PauseSpec
=============================================================================

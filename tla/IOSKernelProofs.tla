--------------------------- MODULE IOSKernelProofs ---------------------------
(***************************************************************************)
(* Proofs about IOSKernel, for any number of guest threads, handles,       *)
(* client slots, pool entries, messages and titles: the assertions of the  *)
(* kernel and of the device hold, a held handle works and is nobody        *)
(* else's, no pool entry is lost or answered twice, and nothing is left of *)
(* a title when it is unmounted.                                           *)
(*                                                                         *)
(* They are about a title whose threads share one host thread, as those of *)
(* a single-core title do: with more, two callers may claim the same slot. *)
(* And the host's wait for the device may only run out when no other title *)
(* follows: a reset that is still on its way then ends the wait of the     *)
(* next title too early.  For the assertions and the handles the pool must *)
(* have more entries than there are callers, since no call asks whether it *)
(* has got one.                                                            *)
(***************************************************************************)
EXTENDS IOSKernel, ThreadQueueProofs, FiniteSetTheorems

OneHostThread == ~ MultiCore
LateOnlyAtTheEnd == LateResets \subseteq {Titles}
PoolIsLargeEnough == IsFiniteSet(Callers) /\ Cardinality(Callers) < PoolSize

(***************************************************************************)
(* The inductive invariant, in two layers.  The first is about the entries *)
(* of the pool: where they are and whose.                                  *)
(***************************************************************************)
PoolExact ==
    /\ NoDuplicates(free) /\ NoDuplicates(queue)
    /\ \A i \in ToSet(free) : i \notin ToSet(queue) /\ ~ AtDevice(i)
    /\ \A i \in ToSet(queue) : ~ AtDevice(i)
    /\ \A c \in Callers : Inside(c) =>
        cmd[c] \notin ToSet(free) /\ cmd[c] \notin ToSet(queue) /\ ~ AtDevice(cmd[c])
    /\ \A i \in Cmds : \/ i \in ToSet(free) \/ i \in ToSet(queue) \/ AtDevice(i)
                       \/ \E c \in Callers : Inside(c) /\ cmd[c] = i

\* The entries the device still has to answer.
WithDevice(i) == i \in ToSet(queue) \/ (dev.cmd = i /\ dev.pc \in {"assign", "reply"})

CallersExact ==
    /\ \A c, d \in Callers : Inside(c) /\ Inside(d) => c = d
    /\ \A c \in Callers :
        /\ pc[c] = "gone" <=> host # "run"
        /\ pc[c] = "gone" => ~ HasHandle(c)
        /\ pc[c] \in {"create", "claim"} => body[cmd[c]].op = "open" /\ counter <= MaxOpens
        /\ pc[c] = "wait" => WithDevice(cmd[c])
        /\ pc[c] \notin {"idle", "gone"} =>
            /\ body[cmd[c]].caller = c /\ body[cmd[c]].title = title
            /\ HasHandle(c) <=> body[cmd[c]].op # "open"
            /\ HasHandle(c) => held[c] = body[cmd[c]].replyHandle
    /\ \A i \in Cmds : WithDevice(i) =>
        /\ body[i].title = title
        /\ host = "run" => pc[body[i].caller] = "wait" /\ cmd[body[i].caller] = i
    /\ dev.pc = "assign" => Current.op = "open"

\* The reset of a title is the last message it has; the handles are closed and
\* the next title starts when the device has seen it.
ResetExact ==
    /\ host \in {"run", "ended", "done"} => resetDone
    /\ resetDone => RESET \notin ToSet(queue)
    /\ ~ resetDone => queue # <<>> /\ queue[Len(queue)] = RESET
    /\ resetDone /\ host \notin {"run", "ended"} => queue = <<>> /\ dev.pc = "receive" /\ clients = {}
    /\ host = "unmount" /\ title \notin LateResets => resetDone /\ \A s \in Slots : ~ handles[s].set

PoolInvariant == TypeOK /\ PoolExact /\ CallersExact /\ ResetExact

(***************************************************************************)
(* The second layer is about handles and clients.                          *)
(***************************************************************************)
Target(h) == handles[h.slot].target
Served(i) == dev.cmd = i /\ dev.pc = "reply"

\* The entries that stand for a handle of the kernel.
OnTheWay(i) ==
    \/ \E c \in Callers : cmd[c] = i /\ pc[c] \in {"dispatch", "send"}
    \/ i \in ToSet(queue)
    \/ dev.cmd = i /\ dev.pc = "assign"
    \/ Served(i) /\ ~ (body[i].op = "open" /\ dev.client = 0)

HandlesOnTheWay ==
    \A i \in Cmds : OnTheWay(i) =>
        /\ Owns(body[i].replyHandle)
        /\ body[i].op = "open" /\ ~ Served(i) => Target(body[i].replyHandle) = 0
        /\ body[i].op = "open" /\ Served(i) =>
            Target(body[i].replyHandle) = dev.client /\ dev.client \in clients
        /\ body[i].op # "open" => Target(body[i].replyHandle) # 0
        /\ body[i].op # "open" /\ ~ Served(i) => Target(body[i].replyHandle) \in clients
        /\ body[i].op # "open" /\ (\A c \in Callers : cmd[c] = i => pc[c] # "dispatch") =>
            body[i].target = Target(body[i].replyHandle)

HandlesApart ==
    /\ \A i, j \in Cmds : OnTheWay(i) /\ OnTheWay(j) /\ i # j => body[i].replyHandle # body[j].replyHandle
    /\ \A c, d \in Callers : HasHandle(c) /\ HasHandle(d) /\ c # d => held[c] # held[d]
    /\ \A c \in Callers, i \in Cmds : HasHandle(c) /\ OnTheWay(i) /\ held[c] = body[i].replyHandle =>
            cmd[c] = i /\ pc[c] \in {"dispatch", "send", "wait"}

\* From the release of its client to the answer, a handle is still held.
CloseServed(c) == pc[c] = "wait" /\ Served(cmd[c]) /\ body[cmd[c]].op = "close"

HeldOwned ==
    \A c \in Callers : HasHandle(c) =>
        /\ Owns(held[c])
        /\ CloseServed(c) \/ Target(held[c]) \in clients

\* From the release of its client on, a handle is the one the device destroys.
Closing(h) ==
    \/ dev.pc \in {"reply", "release"} /\ Current.op = "close" /\ h = Current.replyHandle
    \/ dev.pc = "destroy" /\ h = dev.handle

TargetsExact ==
    /\ \A r, s \in Slots : handles[r].set /\ handles[s].set /\ handles[r].target # 0
                           /\ handles[r].target = handles[s].target => r = s
    /\ \A h \in Handles : Closing(h) => Owns(h) /\ Target(h) \notin clients /\ Target(h) # 0
    /\ \A s \in Slots : handles[s].set /\ handles[s].target # 0 /\ (host \in {"run", "ended"} \/ ~ resetDone) =>
            handles[s].target \in clients \/ \E h \in Handles : Closing(h) /\ h.slot = s
    /\ dev.pc = "assign" /\ dev.client # 0 =>
            /\ dev.client \in clients
            /\ \A s \in Slots : handles[s].set => handles[s].target # dev.client
    /\ \A c \in Callers : pc[c] = "claim" =>
            found[c].slot \in Slots /\ found[c].gen = counter /\ ~ handles[found[c].slot].set

HandleInvariant ==
    ~ failed /\ HandlesOnTheWay /\ HandlesApart /\ HeldOwned /\ TargetsExact

KernelInvariant == PoolInvariant /\ HandleInvariant

-----------------------------------------------------------------------------
LEMMA Sizes ==
    /\ NumHandles \in Nat \ {0} /\ NumClients \in Nat \ {0} /\ PoolSize \in Nat \ {0}
    /\ QueueSize \in Nat \ {0} /\ MaxOpens \in Nat \ {0} /\ Titles \in Nat \ {0}
    /\ 0 \in Slots /\ 1 \in Cmds /\ RESET \notin Cmds /\ Slots \subseteq Nat
    /\ Clients \subseteq Nat /\ 0 \notin Clients
    /\ NoHandle \in Handles
<1>1. /\ NumHandles \in Nat \ {0} /\ NumClients \in Nat \ {0} /\ PoolSize \in Nat \ {0}
      /\ QueueSize \in Nat \ {0} /\ MaxOpens \in Nat \ {0} /\ Titles \in Nat \ {0}
  BY SizesAssumption
<1>2. /\ 0 \in Slots /\ 1 \in Cmds /\ RESET \notin Cmds /\ Slots \subseteq Nat
      /\ Clients \subseteq Nat /\ 0 \notin Clients
  BY <1>1 DEF Slots, Cmds, RESET, Clients
<1> QED
  BY <1>1, <1>2 DEF Handles

LEMMA HandleParts ==
    ASSUME NEW h \in Handles
    PROVE  h.slot \in Slots /\ (h = NoHandle \/ h.gen \in 1 .. MaxOpens)
BY Sizes DEF Handles, NoHandle

LEMMA LeastIsMember ==
    ASSUME NEW S \in SUBSET Nat, S # {}
    PROVE  Min(S) \in S
<1>1. PICK p \in S : \A q \in S : ~ (<<q, p>> \in OpToRel(<, Nat))
  BY NatLessThanWellFounded, WFMin
<1>2. ASSUME NEW q \in S PROVE p <= q
  <2>1. p \in Nat /\ q \in Nat
    OBVIOUS
  <2>2. ~ (q < p)
    BY <1>1, <2>1 DEF OpToRel
  <2> QED
    BY <2>1, <2>2
<1> QED
  BY <1>2 DEF Min

LEMMA FreeEntry ==
    ASSUME TypeOK, free # <<>>
    PROVE  /\ Head(free) \in Cmds /\ Head(free) \in ToSet(free) /\ Tail(free) \in Seq(Cmds)
<1>1. free \in Seq(Cmds) /\ Len(free) \in Nat /\ Len(free) > 0 /\ Head(free) = free[1]
  BY LenProperties, EmptySeq DEF TypeOK
<1>2. free[1] \in Cmds /\ free[1] \in ToSet(free) /\ Tail(free) \in Seq(Cmds)
  BY <1>1, HeadTailProperties, ElementOfSeq, LenProperties DEF ToSet
<1> QED
  BY <1>1, <1>2

LEMMA Message ==
    ASSUME TypeOK, queue # <<>>
    PROVE  /\ Head(queue) \in Cmds \cup {RESET} /\ Head(queue) \in ToSet(queue)
           /\ Tail(queue) \in Seq(Cmds \cup {RESET}) /\ Len(Tail(queue)) <= QueueSize
<1>1. queue \in Seq(Cmds \cup {RESET}) /\ Len(queue) <= QueueSize
  BY DEF TypeOK
<1>2. Len(queue) \in Nat /\ Len(queue) > 0 /\ Len(Tail(queue)) = Len(queue) - 1 /\ Head(queue) = queue[1]
      /\ Tail(queue) \in Seq(Cmds \cup {RESET})
  BY <1>1, HeadTailProperties, LenProperties, EmptySeq
<1>3. queue[1] \in Cmds \cup {RESET} /\ queue[1] \in ToSet(queue)
  BY <1>1, <1>2, ElementOfSeq, LenProperties DEF ToSet
<1> QED
  BY <1>1, <1>2, <1>3, Sizes

LEMMA AppendMessage ==
    ASSUME TypeOK, Len(queue) # QueueSize, NEW i \in Cmds \cup {RESET}
    PROVE  Append(queue, i) \in Seq(Cmds \cup {RESET}) /\ Len(Append(queue, i)) <= QueueSize
<1>1. queue \in Seq(Cmds \cup {RESET}) /\ Len(queue) <= QueueSize /\ Len(queue) \in Nat
  BY LenProperties DEF TypeOK
<1> QED
  BY <1>1, AppendProperties, Sizes

Entries == [caller : Callers, title : 1 .. Titles, op : {"open", "ioctl", "close"},
            replyHandle : Handles, target : 0 .. NumClients]
Places == {"idle", "create", "claim", "dispatch", "send", "error", "wait", "gone"}
DevStates == [pc : {"receive", "assign", "reply", "release", "destroy"},
              cmd : Cmds, client : 0 .. NumClients, handle : Handles]
SlotStates == [set : BOOLEAN, check : Handles, target : 0 .. NumClients]

LEMMA EntryTypes ==
    ASSUME TypeOK, NEW i \in Cmds
    PROVE  /\ body \in [Cmds -> Entries]
           /\ \A h \in Handles : [body EXCEPT ![i].replyHandle = h] \in [Cmds -> Entries]
           /\ \A n \in 0 .. NumClients : [body EXCEPT ![i].target = n] \in [Cmds -> Entries]
<1>1. body \in [Cmds -> Entries]
  BY DEF TypeOK, Entries
<1>2. ASSUME NEW h \in Handles PROVE [body EXCEPT ![i].replyHandle = h] \in [Cmds -> Entries]
  <2>1. [body[i] EXCEPT !.replyHandle = h] \in Entries
    BY <1>1 DEF Entries
  <2> QED
    BY <1>1, <2>1
<1>3. ASSUME NEW n \in 0 .. NumClients PROVE [body EXCEPT ![i].target = n] \in [Cmds -> Entries]
  <2>1. [body[i] EXCEPT !.target = n] \in Entries
    BY <1>1 DEF Entries
  <2> QED
    BY <1>1, <2>1
<1> QED
  BY <1>1, <1>2, <1>3

LEMMA SlotTypes ==
    ASSUME TypeOK, NEW s \in Slots
    PROVE  /\ handles \in [Slots -> SlotStates] /\ Empty \in SlotStates
           /\ \A e \in SlotStates : [handles EXCEPT ![s] = e] \in [Slots -> SlotStates]
           /\ \A n \in 0 .. NumClients : [handles EXCEPT ![s].target = n] \in [Slots -> SlotStates]
<1>1. handles \in [Slots -> SlotStates] /\ Empty \in SlotStates
  BY Sizes DEF TypeOK, SlotStates, Empty
<1>2. ASSUME NEW n \in 0 .. NumClients PROVE [handles EXCEPT ![s].target = n] \in [Slots -> SlotStates]
  <2>1. [handles[s] EXCEPT !.target = n] \in SlotStates
    BY <1>1 DEF SlotStates
  <2> QED
    BY <1>1, <2>1
<1> QED
  BY <1>1, <1>2

\* TypeOK with these names.
Typed ==
    /\ handles \in [Slots -> SlotStates] /\ counter \in 1 .. MaxOpens + 1
    /\ free \in Seq(Cmds) /\ queue \in Seq(Cmds \cup {RESET}) /\ Len(queue) <= QueueSize
    /\ body \in [Cmds -> Entries] /\ clients \subseteq Clients
    /\ pc \in [Callers -> Places] /\ cmd \in [Callers -> Cmds]
    /\ held \in [Callers -> Handles] /\ found \in [Callers -> Handles]
    /\ dev \in DevStates
    /\ host \in {"run", "ended", "sent", "done", "unmount"}
    /\ resetDone \in BOOLEAN /\ title \in 1 .. Titles /\ failed \in BOOLEAN

LEMMA TypesByName == TypeOK => Typed
BY DEF TypeOK, Typed, SlotStates, Entries, Places, DevStates

LEMMA TypedNext == Typed' => TypeOK'
BY DEF TypeOK, Typed, SlotStates, Entries, Places, DevStates

LEMMA InitType == Init => TypeOK
<1> SUFFICES ASSUME Init PROVE TypeOK
  OBVIOUS
<1> USE DEF Init
<1>1. free \in Seq(Cmds)
  <2>1. PoolSize \in Nat /\ Cmds = 1 .. PoolSize
    BY Sizes DEF Cmds
  <2>2. [i \in 1 .. PoolSize |-> i] \in Seq(Cmds)
    BY <2>1, IsASeq
  <2> QED
    BY <2>1, <2>2
<1>2. body \in [Cmds -> [caller : Callers, title : 1 .. Titles, op : {"open", "ioctl", "close"},
                         replyHandle : Handles, target : 0 .. NumClients]]
  <2>1. (CHOOSE c \in Callers : TRUE) \in Callers
    BY CallersAssumption
  <2> QED
    BY <2>1, Sizes
<1>3. handles \in [Slots -> [set : BOOLEAN, check : Handles, target : 0 .. NumClients]]
  BY Sizes DEF Empty
<1>4. queue \in Seq(Cmds \cup {RESET}) /\ Len(queue) <= QueueSize
  BY Sizes
<1>5. dev \in [pc : {"receive", "assign", "reply", "release", "destroy"},
               cmd : Cmds, client : 0 .. NumClients, handle : Handles]
  BY Sizes
<1>6. counter \in 1 .. MaxOpens + 1 /\ clients \subseteq Clients /\ title \in 1 .. Titles
  BY Sizes
<1>7. /\ pc \in [Callers -> {"idle", "create", "claim", "dispatch", "send", "error", "wait", "gone"}]
      /\ cmd \in [Callers -> Cmds] /\ held \in [Callers -> Handles] /\ found \in [Callers -> Handles]
  BY Sizes
<1>8. host \in {"run", "ended", "sent", "done", "unmount"} /\ resetDone \in BOOLEAN /\ failed \in BOOLEAN
  OBVIOUS
<1> HIDE DEF Init
<1> QED
  BY <1>1, <1>2, <1>3, <1>4, <1>5, <1>6, <1>7, <1>8 DEF TypeOK

-----------------------------------------------------------------------------
(***************************************************************************)
(* Types.                                                                  *)
(***************************************************************************)
LEMMA SubmitType ==
    ASSUME PoolInvariant, NEW c \in Callers, NEW op \in {"open", "ioctl", "close"}, IPCSubmitFromCOS(c, op)
    PROVE  TypeOK'
<1> USE TypesByName DEF PoolInvariant, Typed
<1>0. CASE free = <<>>
  <2>1. UNCHANGED <<handles, counter, free, body, queue, clients, callers, dev, stop>> /\ failed' \in BOOLEAN
    BY <1>0 DEF IPCSubmitFromCOS, AssertThat, callers
  <2> QED
    BY <2>1, TypedNext DEF callers, stop
<1> SUFFICES ASSUME free # <<>> PROVE TypeOK'
  BY <1>0
<1>1. Head(free) \in Cmds /\ Tail(free) \in Seq(Cmds)
  BY FreeEntry DEF IPCSubmitFromCOS
<1>2. cmd' \in [Callers -> Cmds] /\ free' \in Seq(Cmds)
  BY <1>1 DEF IPCSubmitFromCOS
<1>3. body' \in [Cmds -> Entries]
  <2>1. [caller |-> c, title |-> title, op |-> op, replyHandle |-> held[c], target |-> 0] \in Entries
    BY Sizes DEF Entries
  <2> QED
    BY <1>1, <2>1 DEF IPCSubmitFromCOS
<1>4. pc' \in [Callers -> Places]
  BY DEF IPCSubmitFromCOS, Goto, Places
<1> QED
  BY <1>2, <1>3, <1>4, TypedNext DEF IPCSubmitFromCOS, AssertThat, stop

LEMMA FindSlotType ==
    ASSUME PoolInvariant, NEW c \in Callers, FindSlot(c)
    PROVE  TypeOK'
<1> DEFINE unset == {s \in Slots : ~ handles[s].set}
<1>1. /\ pc[c] = "create"
      /\ \/ unset = {} /\ pc' = [pc EXCEPT ![c] = "error"] /\ found' = found
         \/ /\ unset # {} /\ pc' = [pc EXCEPT ![c] = "claim"]
            /\ found' = [found EXCEPT ![c] = [slot |-> Min(unset), gen |-> counter]]
      /\ UNCHANGED <<handles, counter, free, body, queue, clients, cmd, held, dev, stop, failed>>
  BY DEF FindSlot, Goto
<1>2. unset \in SUBSET Nat /\ unset \subseteq Slots
  BY Sizes
<1> HIDE DEF unset
<1>3. counter \in 1 .. MaxOpens
  <2>1. counter <= MaxOpens
    BY <1>1 DEF PoolInvariant, CallersExact
  <2>2. counter \in 1 .. MaxOpens + 1
    BY DEF PoolInvariant, TypeOK
  <2> QED
    BY <2>1, <2>2, Sizes
<1>4. unset # {} => [slot |-> Min(unset), gen |-> counter] \in Handles
  BY <1>2, <1>3, LeastIsMember DEF Handles
<1>5. found' \in [Callers -> Handles] /\ pc' \in [Callers -> Places]
  BY <1>1, <1>4, TypesByName DEF Places, PoolInvariant, Typed
<1> QED
  BY <1>1, <1>5, TypesByName, TypedNext DEF PoolInvariant, Typed, stop

LEMMA ClaimSlotType ==
    ASSUME PoolInvariant, NEW c \in Callers, ClaimSlot(c)
    PROVE  TypeOK'
<1> USE TypesByName DEF PoolInvariant, Typed
<1>1. counter' \in 1 .. MaxOpens + 1
  <2>1. counter <= MaxOpens /\ counter' = counter + 1
    BY DEF ClaimSlot, CallersExact
  <2>2. counter \in 1 .. MaxOpens + 1
    OBVIOUS
  <2> HIDE TypesByName DEF PoolInvariant, Typed
  <2> QED
    BY <2>1, <2>2, Sizes
<1>2. body' \in [Cmds -> Entries]
  BY EntryTypes DEF ClaimSlot
<1>3. handles' \in [Slots -> SlotStates]
  <2>1. [set |-> TRUE, check |-> found[c], target |-> 0] \in SlotStates /\ found[c].slot \in Slots
    BY Sizes, HandleParts DEF SlotStates
  <2> QED
    BY <2>1, SlotTypes DEF ClaimSlot
<1>4. pc' \in [Callers -> Places]
  BY DEF ClaimSlot, Goto, Places
<1> QED
  BY <1>1, <1>2, <1>3, <1>4, TypedNext DEF ClaimSlot, stop

LEMMA CheckHandleType ==
    ASSUME PoolInvariant, NEW c \in Callers, CheckHandle(c)
    PROVE  TypeOK'
<1> USE TypesByName DEF PoolInvariant, Typed
<1> DEFINE n == handles[body[cmd[c]].replyHandle.slot].target
<1>1. n \in 0 .. NumClients
  BY HandleParts DEF Entries, SlotStates
<1>2. /\ body' \in {body, [body EXCEPT ![cmd[c]].target = n]}
      /\ \E l \in {"error", "send"} : pc' = [pc EXCEPT ![c] = l]
      /\ UNCHANGED <<handles, counter, free, queue, clients, cmd, found, held, dev, stop>>
  BY DEF CheckHandle, Goto
<1>3. failed' \in BOOLEAN
  BY DEF CheckHandle, AssertThat
<1> HIDE DEF n
<1>4. body' \in [Cmds -> Entries]
  BY <1>1, <1>2, EntryTypes
<1>5. pc' \in [Callers -> Places]
  BY <1>2 DEF Places
<1> QED
  BY <1>2, <1>3, <1>4, <1>5, TypedNext DEF stop

LEMMA CallerType ==
    ASSUME PoolInvariant, NEW c \in Callers, Caller(c)
    PROVE  TypeOK'
<1> USE TypesByName DEF PoolInvariant, Typed
<1>1. CASE SendToDevice(c)
  <2>1. queue' \in Seq(Cmds \cup {RESET}) /\ Len(queue') <= QueueSize
    BY <1>1, AppendMessage DEF SendToDevice
  <2>2. pc' \in [Callers -> Places]
    BY <1>1 DEF SendToDevice, Goto, Places
  <2> QED
    BY <1>1, <2>1, <2>2, TypedNext DEF SendToDevice, stop
<1>2. CASE ReplyWithError(c)
  <2>1. free' \in Seq(Cmds) /\ pc' \in [Callers -> Places]
    BY <1>2, AppendProperties DEF ReplyWithError, Goto, Places
  <2> QED
    BY <1>2, <2>1, TypedNext DEF ReplyWithError, stop
<1> QED
  BY <1>1, <1>2, FindSlotType, ClaimSlotType, CheckHandleType DEF Caller

LEMMA ReceiveOpenType ==
    ASSUME PoolInvariant, ReceiveOpen
    PROVE  TypeOK'
<1> DEFINE unused == Clients \ clients
           new == IF unused = {} THEN 0 ELSE Min(unused)
<1>1. /\ queue # <<>> /\ Head(queue) # RESET /\ queue' = Tail(queue)
      /\ dev' = [dev EXCEPT !.pc = "assign", !.cmd = Head(queue), !.client = new]
      /\ clients' = clients \cup ({new} \ {0})
      /\ UNCHANGED <<handles, counter, free, body, callers, stop, failed>>
  BY DEF ReceiveOpen
<1>2. new \in {0} \cup Clients
  <2>1. CASE unused # {}
    <3>1. unused \in SUBSET Nat
      BY Sizes
    <3> HIDE DEF unused
    <3>2. Min(unused) \in unused
      BY <2>1, <3>1, LeastIsMember
    <3> QED
      BY <2>1, <3>2 DEF unused
  <2> QED
    BY <2>1
<1> HIDE DEF new
<1>3. new \in 0 .. NumClients
  BY <1>2, Sizes DEF Clients
<1>4. clients' \subseteq Clients
  BY <1>1, <1>2, TypesByName DEF PoolInvariant, Typed
<1>5. dev' \in DevStates /\ queue' \in Seq(Cmds \cup {RESET}) /\ Len(queue') <= QueueSize
  BY <1>1, <1>3, Message, TypesByName DEF DevStates, PoolInvariant, Typed
<1> QED
  BY <1>1, <1>4, <1>5, TypesByName, TypedNext DEF PoolInvariant, Typed, callers, stop

LEMMA AssignType ==
    ASSUME PoolInvariant, AssignDispatchTarget
    PROVE  TypeOK'
<1> USE TypesByName DEF PoolInvariant, Typed
<1> DEFINE s == Current.replyHandle.slot
<1>1. s \in Slots /\ dev.client \in 0 .. NumClients
  BY HandleParts DEF Current, Entries, DevStates
<1>2. /\ handles' \in {handles, [handles EXCEPT ![s] = Empty], [handles EXCEPT ![s].target = dev.client]}
      /\ dev' = [dev EXCEPT !.pc = "reply"]
      /\ UNCHANGED <<counter, free, body, queue, clients, callers, stop>>
  BY DEF AssignDispatchTarget
<1>3. failed' \in BOOLEAN
  BY DEF AssignDispatchTarget, AssertThat
<1> HIDE DEF s
<1>4. handles' \in [Slots -> SlotStates]
  <2>1. TypeOK
    OBVIOUS
  <2> QED
    BY ONLY <1>1, <1>2, <2>1, SlotTypes
<1>5. dev' \in DevStates
  BY <1>2 DEF DevStates
<1> QED
  BY <1>2, <1>3, <1>4, <1>5, TypedNext DEF callers, stop

LEMMA DeviceType ==
    ASSUME PoolInvariant, Device
    PROVE  TypeOK'
<1> USE TypesByName DEF PoolInvariant, Typed
<1>1. CASE ReceiveReset
  <2>1. queue' \in Seq(Cmds \cup {RESET}) /\ Len(queue') <= QueueSize
    BY <1>1, Message DEF ReceiveReset
  <2> QED
    BY <1>1, <2>1, TypedNext DEF ReceiveReset, callers
<1>2. CASE ReceiveClose
  <2>1. /\ queue' \in Seq(Cmds \cup {RESET}) /\ Len(queue') <= QueueSize
        /\ Head(queue) \in Cmds /\ body[Head(queue)].target \in 0 .. NumClients
    BY <1>2, Message DEF ReceiveClose, Entries
  <2>2. dev' \in DevStates /\ clients' \subseteq Clients
    BY <1>2, <2>1 DEF ReceiveClose, DevStates
  <2> QED
    BY <1>2, <2>1, <2>2, TypedNext DEF ReceiveClose, callers, stop
<1>3. CASE ReceiveIoctl
  <2>1. /\ queue' \in Seq(Cmds \cup {RESET}) /\ Len(queue') <= QueueSize
        /\ Head(queue) \in Cmds /\ body[Head(queue)].target \in 0 .. NumClients
    BY <1>3, Message DEF ReceiveIoctl, Entries
  <2>2. dev' \in DevStates
    BY <1>3, <2>1 DEF ReceiveIoctl, DevStates
  <2>3. failed' \in BOOLEAN
    BY <1>3 DEF ReceiveIoctl, AssertThat
  <2> QED
    BY <1>3, <2>1, <2>2, <2>3, TypedNext DEF ReceiveIoctl, callers, stop
<1>4. CASE Answer
  <2>1. HeldAfter \in Handles
    BY Sizes DEF HeldAfter, Current, Entries, DevStates
  <2>2. held' \in [Callers -> Handles] /\ pc' \in [Callers -> Places]
    BY <1>4, <2>1 DEF Answer, Goto, Places
  <2>3. dev' \in DevStates
    BY <1>4 DEF Answer, DevStates
  <2> QED
    BY <1>4, <2>2, <2>3, TypedNext DEF Answer, stop
<1>5. CASE ReleaseCommand
  <2>1. free' \in Seq(Cmds)
    BY <1>5, AppendProperties DEF ReleaseCommand, DevStates
  <2>2. dev' \in DevStates
    BY <1>5 DEF ReleaseCommand, Current, DevStates, Entries
  <2> QED
    BY <1>5, <2>1, <2>2, TypedNext DEF ReleaseCommand, callers, stop
<1>6. CASE DestroyHandle
  <2>1. handles' \in [Slots -> SlotStates]
    BY <1>6, SlotTypes, HandleParts DEF DestroyHandle, DevStates
  <2>2. dev' \in DevStates
    BY <1>6 DEF DestroyHandle, DevStates
  <2> QED
    BY <1>6, <2>1, <2>2, TypedNext DEF DestroyHandle, callers, stop
<1> QED
  BY <1>1, <1>2, <1>3, <1>4, <1>5, <1>6, ReceiveOpenType, AssignType DEF Device

LEMMA HostType ==
    ASSUME PoolInvariant, Host
    PROVE  TypeOK'
<1> USE TypesByName DEF PoolInvariant, Typed
<1>1. CASE EndTitle
  BY <1>1, Sizes, TypedNext DEF EndTitle, Places
<1>2. CASE SendReset
  <2>1. queue' \in Seq(Cmds \cup {RESET}) /\ Len(queue') <= QueueSize
    BY <1>2, AppendMessage, LenProperties, Sizes DEF SendReset
  <2> QED
    BY <1>2, <2>1, TypedNext DEF SendReset, callers
<1>3. CASE ResetSeen \/ ResetRunsOut
  <2>1. /\ host' \in {"done", "unmount"}
        /\ UNCHANGED <<handles, counter, free, body, queue, clients, callers, dev, resetDone, title, failed>>
    BY <1>3 DEF ResetSeen, ResetRunsOut
  <2> QED
    BY <2>1, TypedNext DEF callers
<1>4. CASE IOS_CloseAllHandlesForQueue
  <2>1. handles' \in [Slots -> SlotStates]
    BY <1>4, SlotTypes, Sizes DEF IOS_CloseAllHandlesForQueue
  <2> QED
    BY <1>4, <2>1, TypedNext DEF IOS_CloseAllHandlesForQueue, callers
<1>5. CASE StartTitle
  <2>1. title' \in 1 .. Titles
    BY <1>5, Sizes DEF StartTitle
  <2>2. pc' \in [Callers -> Places]
    BY <1>5 DEF StartTitle, Places
  <2> QED
    BY <1>5, <2>1, <2>2, TypedNext DEF StartTitle
<1> QED
  BY <1>1, <1>2, <1>3, <1>4, <1>5 DEF Host

LEMMA TypeKeeps == PoolInvariant /\ [Next]_vars => TypeOK'
<1>1. PoolInvariant /\ UNCHANGED vars => TypeOK'
  BY DEF PoolInvariant, TypeOK, vars, callers, stop
<1> QED
  BY <1>1, SubmitType, CallerType, DeviceType, HostType DEF Next, Finished

-----------------------------------------------------------------------------
(***************************************************************************)
(* The first layer.                                                        *)
(***************************************************************************)
LEMMA Appended ==
    ASSUME NEW T, NEW q \in Seq(T), NEW x \in T, NoDuplicates(q), x \notin ToSet(q)
    PROVE  /\ ToSet(Append(q, x)) = ToSet(q) \cup {x} /\ NoDuplicates(Append(q, x))
           /\ Append(q, x) # <<>> /\ Append(q, x)[Len(Append(q, x))] = x
<1>1. ToSet(Append(q, x)) = ToSet(q) \cup {x} /\ NoDuplicates(Append(q, x))
  BY AddThreadProperties DEF AddThread
<1>2. Append(q, x) # <<>> /\ Append(q, x)[Len(Append(q, x))] = x
  BY AppendProperties
<1> QED
  BY <1>1, <1>2

LEMMA HeadTaken ==
    ASSUME NEW T, NEW q \in Seq(T), q # <<>>, NoDuplicates(q)
    PROVE  /\ Head(q) \in ToSet(q) /\ ToSet(Tail(q)) = ToSet(q) \ {Head(q)} /\ NoDuplicates(Tail(q))
           /\ Tail(q) # <<>> => Tail(q)[Len(Tail(q))] = q[Len(q)]
           /\ Tail(q) # <<>> => Head(q) # q[Len(q)]
           /\ Tail(q) = <<>> => Head(q) = q[Len(q)]
<1>1. /\ Head(q) \in ToSet(q) /\ ToSet(Tail(q)) = ToSet(q) \ {Head(q)} /\ NoDuplicates(Tail(q))
      /\ Head(q) = q[1]
  BY TailProperties
<1>2. /\ Len(q) \in Nat /\ Len(q) > 0 /\ Len(Tail(q)) = Len(q) - 1 /\ DOMAIN q = 1 .. Len(q)
      /\ \A i \in 1 .. Len(Tail(q)) : Tail(q)[i] = q[i + 1]
  BY HeadTailProperties, LenProperties, EmptySeq
<1>3. ASSUME Tail(q) # <<>> PROVE Tail(q)[Len(Tail(q))] = q[Len(q)] /\ Head(q) # q[Len(q)]
  <2>1. Len(Tail(q)) > 0
    BY <1>2, <1>3, HeadTailProperties, EmptySeq, LenProperties
  <2> DEFINE m == Len(Tail(q))
             n == Len(q)
  <2>4. m > 0 /\ n \in Nat /\ m = n - 1
    BY <1>2, <2>1
  <2>2. Len(Tail(q)) \in 1 .. Len(Tail(q)) /\ Len(Tail(q)) + 1 = Len(q) /\ 1 # Len(q)
    <3> HIDE DEF m, n
    <3>1. m \in 1 .. m /\ m + 1 = n /\ 1 # n
      BY <2>4
    <3> QED
      BY <3>1 DEF m, n
  <2>3. q[1] # q[Len(q)]
    BY <1>2, <2>2 DEF NoDuplicates
  <2> QED
    BY <1>1, <1>2, <2>2, <2>3
<1>4. ASSUME Tail(q) = <<>> PROVE Head(q) = q[Len(q)]
  <2>1. Len(Tail(q)) = 0
    <3>1. Len(<<>>) = 0
      OBVIOUS
    <3> QED
      BY <1>4, <3>1
  <2>2. Len(q) = 1
    <3> DEFINE n == Len(q)
    <3>1. n \in Nat /\ 0 = n - 1
      BY <1>2, <2>1
    <3> HIDE DEF n
    <3>2. n = 1
      BY <3>1
    <3> QED
      BY <3>2 DEF n
  <2> QED
    BY <1>1, <2>2
<1> QED
  BY <1>1, <1>3, <1>4

LEMMA MembersOf ==
    ASSUME NEW T, NEW q \in Seq(T)
    PROVE  ToSet(q) \subseteq T
BY ElementOfSeq DEF ToSet

LEMMA InitPool == Init => PoolInvariant
<1> SUFFICES ASSUME Init PROVE PoolInvariant
  OBVIOUS
<1>1. ToSet(free) = Cmds /\ NoDuplicates(free)
  BY DEF Init, ToSet, NoDuplicates
<1>2. ToSet(queue) = {} /\ NoDuplicates(queue)
  BY DEF Init, ToSet, NoDuplicates
<1>3. PoolExact
  BY <1>1, <1>2 DEF Init, PoolExact, AtDevice, Inside
<1>4. CallersExact
  BY <1>2 DEF Init, CallersExact, Inside, HasHandle, WithDevice
<1>5. ResetExact
  BY <1>2, Sizes DEF Init, ResetExact
<1> QED
  BY <1>3, <1>4, <1>5, InitType DEF PoolInvariant

\* A step that moves no entry.
LEMMA NoEntryMoves ==
    ASSUME PoolExact, UNCHANGED <<free, queue, cmd>>,
           \A c \in Callers : Inside(c)' <=> Inside(c),
           \A i : AtDevice(i)' <=> AtDevice(i)
    PROVE  PoolExact'
BY DEF PoolExact

LEMMA SubmitPool ==
    ASSUME PoolInvariant, OneHostThread, NEW c \in Callers, NEW op \in {"open", "ioctl", "close"},
           IPCSubmitFromCOS(c, op)
    PROVE  PoolExact' /\ CallersExact' /\ ResetExact'
<1> USE TypesByName DEF PoolInvariant, Typed
<1> DEFINE i == Head(free)
<1>0. CASE free = <<>>
  <2>1. UNCHANGED <<handles, counter, free, body, queue, clients, callers, dev, stop>>
    BY <1>0 DEF IPCSubmitFromCOS, callers
  <2>2. PoolExact'
    BY <2>1, NoEntryMoves DEF Inside, AtDevice, callers
  <2>3. CallersExact' /\ ResetExact'
    BY <2>1 DEF CallersExact, ResetExact, Inside, HasHandle, WithDevice, Current, callers, stop
  <2> QED
    BY <2>2, <2>3
<1> SUFFICES ASSUME free # <<>> PROVE PoolExact' /\ CallersExact' /\ ResetExact'
  BY <1>0
<1>1. /\ host = "run" /\ pc[c] = "idle" /\ free # <<>> /\ (op = "open" <=> ~ HasHandle(c))
      /\ \A d \in Callers : ~ Inside(d)
      /\ cmd' = [cmd EXCEPT ![c] = i] /\ free' = Tail(free)
      /\ body' = [body EXCEPT ![i] =
                     [caller |-> c, title |-> title, op |-> op, replyHandle |-> held[c], target |-> 0]]
      /\ \E l \in {"create", "dispatch"} : pc' = [pc EXCEPT ![c] = l] /\ (l = "create" <=> op = "open")
      /\ UNCHANGED <<handles, counter, queue, clients, found, held, dev, stop>>
  BY DEF IPCSubmitFromCOS, OneHostThread, Goto
<1>2. i \in Cmds /\ i \in ToSet(free) /\ ToSet(free') = ToSet(free) \ {i} /\ NoDuplicates(free')
  BY <1>1, FreeEntry, HeadTaken DEF PoolExact
<1>3. i \notin ToSet(queue) /\ ~ AtDevice(i)
  BY <1>2 DEF PoolExact
<1>4. op = "open" => counter <= MaxOpens
  <2>1. {d \in Callers : pc[d] \in {"create", "claim"}} = {}
    BY <1>1 DEF Inside
  <2>2. Cardinality({d \in Callers : pc[d] \in {"create", "claim"}}) = 0
    BY <2>1, FS_EmptySet
  <2>3. counter \in 1 .. MaxOpens + 1
    OBVIOUS
  <2>4. op = "open" => counter + 0 <= MaxOpens
    BY <2>2 DEF IPCSubmitFromCOS
  <2> QED
    BY <2>3, <2>4, Sizes
<1> HIDE DEF i
<1>5. PoolExact'
  <2>1. Inside(c)' /\ \A d \in Callers \ {c} : ~ Inside(d)'
    BY <1>1 DEF Inside
  <2> QED
    BY <1>1, <1>2, <1>3, <2>1 DEF PoolExact, AtDevice
<1>6. CallersExact'
  <2>1. \A j \in Cmds : WithDevice(j)' => WithDevice(j) /\ j # i
    BY <1>1, <1>3 DEF WithDevice, AtDevice
  <2>2. \A d \in Callers \ {c} : pc[d] = "wait" => WithDevice(cmd[d]) /\ cmd[d] # i /\ WithDevice(cmd[d])'
    BY <1>1, <1>3 DEF WithDevice, AtDevice, CallersExact
  <2>3. \A d \in Callers \ {c} : pc[d] \notin {"idle", "gone"} => pc[d] = "wait"
    BY <1>1 DEF Inside, Places
  <2>4. dev.pc = "assign" => dev.cmd # i
    BY <1>3 DEF AtDevice
  <2>5. c \in Callers /\ pc'[c] \in {"create", "dispatch"} /\ (pc'[c] = "create" <=> op = "open")
        /\ body'[i].caller = c /\ body'[i].title = title' /\ body'[i].op = op /\ body'[i].replyHandle = held'[c]
        /\ cmd'[c] = i
    BY <1>1, <1>2 DEF stop
  <2>6. \A j \in Cmds \ {i} : body'[j] = body[j]
    BY <1>1
  <2>7. \A d \in Callers \ {c} : pc'[d] = pc[d] /\ cmd'[d] = cmd[d]
    BY <1>1
  <2> QED
    BY <1>1, <1>2, <1>4, <2>1, <2>2, <2>3, <2>4, <2>5, <2>6, <2>7 DEF CallersExact, Inside, HasHandle, Current, stop
<1>7. ResetExact'
  BY <1>1 DEF ResetExact, stop
<1> QED
  BY <1>5, <1>6, <1>7

LEMMA FindSlotPool ==
    ASSUME PoolInvariant, NEW c \in Callers, FindSlot(c)
    PROVE  PoolExact' /\ CallersExact' /\ ResetExact'
<1> USE TypesByName DEF PoolInvariant, Typed
<1>1. /\ pc[c] = "create" /\ \E l \in {"error", "claim"} : pc' = [pc EXCEPT ![c] = l]
      /\ UNCHANGED <<handles, counter, free, body, queue, clients, cmd, held, dev, stop, failed>>
  BY DEF FindSlot, Goto
<1>2. PoolExact'
  BY <1>1, NoEntryMoves DEF Inside, AtDevice
<1>3. CallersExact'
  BY <1>1 DEF CallersExact, Inside, HasHandle, WithDevice, Current, stop
<1>4. ResetExact'
  BY <1>1 DEF ResetExact, stop
<1> QED
  BY <1>2, <1>3, <1>4

LEMMA ClaimSlotPool ==
    ASSUME PoolInvariant, NEW c \in Callers, ClaimSlot(c)
    PROVE  PoolExact' /\ CallersExact' /\ ResetExact'
<1> USE TypesByName DEF PoolInvariant, Typed
<1>1. /\ pc[c] = "claim" /\ pc' = [pc EXCEPT ![c] = "dispatch"]
      /\ body' = [body EXCEPT ![cmd[c]].replyHandle = found[c]]
      /\ UNCHANGED <<free, queue, clients, cmd, held, dev, stop, failed>>
  BY DEF ClaimSlot, Goto
<1>2. PoolExact'
  BY <1>1, NoEntryMoves DEF Inside, AtDevice
<1>3. CallersExact'
  <2>1. \A j \in Cmds : body'[j].caller = body[j].caller /\ body'[j].title = body[j].title /\ body'[j].op = body[j].op
    BY <1>1 DEF Entries
  <2>2. \A d \in Callers \ {c} : pc[d] \notin {"idle", "gone"} => body'[cmd[d]] = body[cmd[d]]
    BY <1>1 DEF CallersExact
  <2>3. ~ HasHandle(c) /\ body[cmd[c]].op = "open"
    BY <1>1 DEF CallersExact
  <2>4. \A d \in Callers \ {c} : pc[d] \notin {"create", "claim"}
    BY <1>1 DEF CallersExact, Inside
  <2> QED
    BY <1>1, <2>1, <2>2, <2>3, <2>4 DEF CallersExact, Inside, HasHandle, WithDevice, Current, stop, DevStates
<1>4. ResetExact'
  <2>1. host = "run"
    BY <1>1 DEF CallersExact
  <2> QED
    BY <1>1, <2>1 DEF ResetExact, stop
<1> QED
  BY <1>2, <1>3, <1>4

LEMMA CheckHandlePool ==
    ASSUME PoolInvariant, NEW c \in Callers, CheckHandle(c)
    PROVE  PoolExact' /\ CallersExact' /\ ResetExact'
<1> USE TypesByName DEF PoolInvariant, Typed
<1> DEFINE n == handles[body[cmd[c]].replyHandle.slot].target
<1>1. /\ pc[c] = "dispatch" /\ \E l \in {"error", "send"} : pc' = [pc EXCEPT ![c] = l]
      /\ body' \in {body, [body EXCEPT ![cmd[c]].target = n]}
      /\ UNCHANGED <<handles, counter, free, queue, clients, cmd, found, held, dev, stop>>
  BY DEF CheckHandle, Goto
<1> HIDE DEF n
<1>2. PoolExact'
  BY <1>1, NoEntryMoves DEF Inside, AtDevice
<1>3. CallersExact'
  <2>1. \A j \in Cmds : /\ body'[j].caller = body[j].caller /\ body'[j].title = body[j].title
                        /\ body'[j].op = body[j].op /\ body'[j].replyHandle = body[j].replyHandle
    <3>1. CASE body' = body
      BY <3>1
    <3>2. CASE body' = [body EXCEPT ![cmd[c]].target = n]
      BY <3>2 DEF Entries
    <3> QED
      BY <1>1, <3>1, <3>2
  <2> QED
    BY <1>1, <2>1 DEF CallersExact, Inside, HasHandle, WithDevice, Current, stop, DevStates
<1>4. ResetExact'
  BY <1>1 DEF ResetExact, stop
<1> QED
  BY <1>2, <1>3, <1>4

LEMMA SendPool ==
    ASSUME PoolInvariant, NEW c \in Callers, SendToDevice(c)
    PROVE  PoolExact' /\ CallersExact' /\ ResetExact'
<1> USE TypesByName DEF PoolInvariant, Typed
<1>1. /\ pc[c] = "send"
      /\ UNCHANGED <<handles, counter, free, body, clients, cmd, found, held, dev, stop, failed>>
  BY DEF SendToDevice
<1>2. CASE UNCHANGED queue /\ pc' = [pc EXCEPT ![c] = "error"]
  <2>1. PoolExact'
    BY <1>1, <1>2, NoEntryMoves DEF Inside, AtDevice
  <2>2. CallersExact'
    BY <1>1, <1>2 DEF CallersExact, Inside, HasHandle, WithDevice, Current, stop
  <2>3. ResetExact'
    BY <1>1, <1>2 DEF ResetExact, stop
  <2> QED
    BY <2>1, <2>2, <2>3
<1>3. CASE queue' = Append(queue, cmd[c]) /\ pc' = [pc EXCEPT ![c] = "wait"]
  <2> DEFINE i == cmd[c]
  <2>1. /\ i \in Cmds /\ i \notin ToSet(free) /\ i \notin ToSet(queue) /\ ~ AtDevice(i)
        /\ body[i].caller = c /\ body[i].title = title /\ host = "run"
    BY <1>1 DEF PoolExact, CallersExact, Inside
  <2>2. queue \in Seq(Cmds \cup {RESET}) /\ i \in Cmds \cup {RESET} /\ NoDuplicates(queue)
    BY <2>1 DEF PoolExact
  <2>3. ToSet(queue') = ToSet(queue) \cup {i} /\ NoDuplicates(queue')
    BY <1>3, <2>1, <2>2, Appended
  <2>4. PoolExact'
    <3>1. \A d \in Callers : Inside(d)' <=> Inside(d) /\ d # c
      BY <1>1, <1>3 DEF Inside
    <3>2. \A d \in Callers : Inside(d)' => cmd[d] # i
      BY <1>1, <3>1 DEF CallersExact, Inside
    <3>3. \A j : AtDevice(j)' <=> AtDevice(j)
      BY <1>1 DEF AtDevice
    <3>4. \A d \in Callers : Inside(d) /\ cmd[d] # i => d # c
      OBVIOUS
    <3> QED
      BY <1>1, <2>1, <2>3, <3>1, <3>2, <3>3, <3>4 DEF PoolExact
  <2>5. CallersExact'
    <3>1. \A j \in Cmds : WithDevice(j)' <=> WithDevice(j) \/ j = i
      BY <1>1, <2>3 DEF WithDevice
    <3> QED
      BY <1>1, <1>3, <2>1, <3>1 DEF CallersExact, Inside, HasHandle, Current, stop
  <2>6. ResetExact'
    <3>1. host = "run" /\ resetDone
      BY <2>1 DEF ResetExact
    <3> QED
      BY <1>1, <2>1, <2>3, <3>1, Sizes DEF ResetExact, stop
  <2> QED
    BY <2>4, <2>5, <2>6
<1> QED
  BY <1>2, <1>3 DEF SendToDevice, Goto

LEMMA ErrorPool ==
    ASSUME PoolInvariant, NEW c \in Callers, ReplyWithError(c)
    PROVE  PoolExact' /\ CallersExact' /\ ResetExact'
<1> USE TypesByName DEF PoolInvariant, Typed
<1> DEFINE i == cmd[c]
<1>1. /\ pc[c] = "error" /\ pc' = [pc EXCEPT ![c] = "idle"] /\ free' = Append(free, i)
      /\ UNCHANGED <<handles, counter, body, queue, clients, cmd, found, held, dev, stop, failed>>
  BY DEF ReplyWithError, Goto
<1>2. i \in Cmds /\ i \notin ToSet(free) /\ i \notin ToSet(queue) /\ ~ AtDevice(i)
  BY <1>1 DEF PoolExact, Inside
<1>3. ToSet(free') = ToSet(free) \cup {i} /\ NoDuplicates(free')
  BY <1>1, <1>2, Appended DEF PoolExact
<1>4. PoolExact'
  <2>1. \A d \in Callers : Inside(d)' <=> Inside(d) /\ d # c
    BY <1>1 DEF Inside
  <2>2. \A d \in Callers : ~ Inside(d)'
    BY <1>1, <2>1 DEF CallersExact, Inside
  <2>3. \A j : AtDevice(j)' <=> AtDevice(j)
    BY <1>1 DEF AtDevice
  <2>4. \A d \in Callers : Inside(d) => cmd[d] = i
    BY <2>1, <2>2
  <2> QED
    BY <1>1, <1>2, <1>3, <2>2, <2>3, <2>4 DEF PoolExact
<1>5. CallersExact'
  BY <1>1 DEF CallersExact, Inside, HasHandle, WithDevice, Current, stop
<1>6. ResetExact'
  BY <1>1 DEF ResetExact, stop
<1> QED
  BY <1>4, <1>5, <1>6

-----------------------------------------------------------------------------
LEMMA ReceiveResetPool ==
    ASSUME PoolInvariant, ReceiveReset
    PROVE  PoolExact' /\ CallersExact' /\ ResetExact'
<1> USE TypesByName DEF PoolInvariant, Typed
<1>1. /\ dev.pc = "receive" /\ queue # <<>> /\ Head(queue) = RESET /\ queue' = Tail(queue)
      /\ clients' = {} /\ resetDone'
      /\ UNCHANGED <<handles, counter, free, body, callers, dev, host, title, failed>>
  BY DEF ReceiveReset
<1>2. /\ Head(queue) \in ToSet(queue) /\ ToSet(queue') = ToSet(queue) \ {RESET} /\ NoDuplicates(queue')
      /\ queue' # <<>> => Head(queue) # queue[Len(queue)]
  BY <1>1, HeadTaken DEF PoolExact
<1>3. ~ resetDone /\ queue' = <<>>
  BY <1>1, <1>2 DEF ResetExact
<1>4. host # "run" /\ \A c \in Callers : pc[c] = "gone"
  BY <1>3 DEF ResetExact, CallersExact
<1>5. PoolExact'
  <2>1. \A i \in Cmds : i \in ToSet(queue') <=> i \in ToSet(queue)
    BY <1>2, Sizes
  <2>2. ToSet(queue') \subseteq ToSet(queue) /\ ToSet(free) \subseteq Cmds
    BY <1>2, MembersOf
  <2>3. \A c \in Callers : ~ Inside(c) /\ ~ Inside(c)'
    BY <1>1, <1>4 DEF Inside, callers
  <2>4. \A j : AtDevice(j)' <=> AtDevice(j)
    BY <1>1 DEF AtDevice
  <2> QED
    BY <1>1, <1>2, <2>1, <2>2, <2>3, <2>4 DEF PoolExact
<1>6. CallersExact'
  <2>1. \A i \in Cmds : ~ WithDevice(i)'
    BY <1>1, <1>3 DEF WithDevice, ToSet
  <2> QED
    BY <1>1, <1>4, <2>1 DEF CallersExact, Inside, HasHandle, Current, callers
<1>7. ResetExact'
  <2>1. RESET \notin ToSet(queue')
    BY <1>2
  <2> QED
    BY <1>1, <1>3, <2>1 DEF ResetExact
<1> QED
  BY <1>5, <1>6, <1>7

\* Any other message.
LEMMA ReceiveCommandPool ==
    ASSUME PoolInvariant, ReceiveOpen \/ ReceiveClose \/ ReceiveIoctl
    PROVE  PoolExact' /\ CallersExact' /\ ResetExact'
<1> USE TypesByName DEF PoolInvariant, Typed
<1> DEFINE i == Head(queue)
<1>1. /\ dev.pc = "receive" /\ queue # <<>> /\ i # RESET /\ queue' = Tail(queue)
      /\ dev'.cmd = i /\ dev'.pc \in {"assign", "reply"} /\ (dev'.pc = "assign" => body[i].op = "open")
      /\ UNCHANGED <<handles, counter, free, body, callers, stop>>
  BY DEF ReceiveOpen, ReceiveClose, ReceiveIoctl, DevStates
<1>2. /\ i \in ToSet(queue) /\ ToSet(queue') = ToSet(queue) \ {i} /\ NoDuplicates(queue')
      /\ queue' # <<>> => queue'[Len(queue')] = queue[Len(queue)]
      /\ queue' = <<>> => i = queue[Len(queue)]
  BY <1>1, HeadTaken DEF PoolExact
<1>3. i \in Cmds
  BY <1>1, Message
<1> HIDE DEF i
<1>4. \A j : ~ AtDevice(j) /\ (AtDevice(j)' <=> j = i)
  BY <1>1 DEF AtDevice
<1>5. \A j : WithDevice(j)' <=> WithDevice(j)
  BY <1>1, <1>2 DEF WithDevice
<1>6. PoolExact'
  <2>1. \A c \in Callers : (Inside(c)' <=> Inside(c)) /\ cmd'[c] = cmd[c]
    BY <1>1 DEF Inside, callers
  <2> QED
    BY SMTT(30), <1>1, <1>2, <1>3, <1>4, <2>1 DEF PoolExact
<1>7. CallersExact'
  BY <1>1, <1>5 DEF CallersExact, Inside, HasHandle, Current, callers, stop
<1>8. ResetExact'
  <2>1. ~ (resetDone /\ host \notin {"run", "ended"})
    BY <1>1 DEF ResetExact
  <2> QED
    BY <1>1, <1>2, <2>1 DEF ResetExact, stop
<1> QED
  BY <1>6, <1>7, <1>8

LEMMA BusyDevice ==
    ASSUME PoolInvariant, dev.pc # "receive"
    PROVE  ~ (resetDone /\ host \notin {"run", "ended"}) /\ ~ (host = "unmount" /\ title \notin LateResets)
BY DEF PoolInvariant, ResetExact

LEMMA AssignPool ==
    ASSUME PoolInvariant, AssignDispatchTarget
    PROVE  PoolExact' /\ CallersExact' /\ ResetExact'
<1> USE TypesByName DEF PoolInvariant, Typed
<1>1. /\ dev.pc = "assign" /\ dev'.cmd = dev.cmd /\ dev'.pc = "reply"
      /\ UNCHANGED <<counter, free, body, queue, clients, callers, stop>>
  BY DEF AssignDispatchTarget, DevStates
<1>2. PoolExact'
  BY <1>1, NoEntryMoves DEF Inside, AtDevice, callers
<1>3. CallersExact'
  <2>1. \A j : WithDevice(j)' <=> WithDevice(j)
    BY <1>1 DEF WithDevice
  <2> QED
    BY <1>1, <2>1 DEF CallersExact, Inside, HasHandle, callers, stop
<1>4. ResetExact'
  BY <1>1, BusyDevice DEF ResetExact, stop
<1> QED
  BY <1>2, <1>3, <1>4

LEMMA AnswerPool ==
    ASSUME PoolInvariant, Answer
    PROVE  PoolExact' /\ CallersExact' /\ ResetExact'
<1> USE TypesByName DEF PoolInvariant, Typed
<1> DEFINE i == dev.cmd
           c == body[i].caller
<1>1. /\ dev.pc = "reply" /\ dev'.cmd = i /\ dev'.pc = "release"
      /\ \/ /\ pc[c] = "wait" /\ body[i].title = title /\ pc' = [pc EXCEPT ![c] = "idle"]
            /\ \E h : held' = [held EXCEPT ![c] = h]
         \/ ~ (pc[c] = "wait" /\ body[i].title = title) /\ UNCHANGED <<pc, held>>
      /\ UNCHANGED <<handles, counter, free, body, queue, clients, cmd, found, stop, failed>>
  BY DEF Answer, DevStates, Goto, IsWaiting, Current
<1>2. i \in Cmds /\ c \in Callers
  BY DEF DevStates, Entries
<1>3. i \notin ToSet(queue)
  BY <1>1 DEF PoolExact, AtDevice
<1>4. \A j : WithDevice(j)' <=> WithDevice(j) /\ j # i
  BY <1>1, <1>3 DEF WithDevice
<1>5. \A d \in Callers : pc[d] = "wait" /\ cmd[d] = i => d = c /\ body[i].title = title
  BY DEF CallersExact
<1> HIDE DEF i, c
<1>6. PoolExact'
  <2>1. \A d \in Callers : Inside(d)' <=> Inside(d)
    BY <1>1, <1>2 DEF Inside
  <2>2. \A j : AtDevice(j)' <=> AtDevice(j)
    BY <1>1 DEF AtDevice, i
  <2> QED
    BY <1>1, <2>1, <2>2, NoEntryMoves
<1>7. CallersExact'
  <2>1. \A j \in Cmds : WithDevice(j)' /\ host = "run" => body[j].caller # c
    <3>1. WithDevice(i) /\ c = body[i].caller
      BY <1>1 DEF WithDevice, i, c
    <3> QED
      BY <1>2, <1>4, <3>1 DEF CallersExact
  <2>2. \A d \in Callers : pc'[d] # pc[d] => d = c /\ pc[d] = "wait" /\ pc'[d] = "idle"
    BY <1>1, <1>2
  <2>3. \A d \in Callers : pc'[d] = "wait" => cmd[d] # i
    BY <1>1, <1>2, <1>5
  <2>4. \A d \in Callers : pc'[d] = pc[d] => held'[d] = held[d] \/ pc[d] = "idle"
    BY <1>1, <1>2
  <2>5. \A d \in Callers : d # c => held'[d] = held[d] /\ pc'[d] = pc[d]
    BY <1>1, <1>2
  <2>6. \A d, e \in Callers : Inside(d)' /\ Inside(e)' => d = e
    BY <2>2 DEF CallersExact, Inside
  <2>7. ASSUME NEW d \in Callers
        PROVE  /\ pc'[d] = "gone" <=> host # "run"
               /\ pc'[d] = "gone" => ~ HasHandle(d)'
               /\ pc'[d] \in {"create", "claim"} => body[cmd[d]].op = "open" /\ counter <= MaxOpens
               /\ pc'[d] = "wait" => WithDevice(cmd[d])'
               /\ pc'[d] \notin {"idle", "gone"} =>
                    /\ body[cmd[d]].caller = d /\ body[cmd[d]].title = title
                    /\ HasHandle(d)' <=> body[cmd[d]].op # "open"
                    /\ HasHandle(d)' => held'[d] = body[cmd[d]].replyHandle
    <3>1. CASE pc'[d] = pc[d]
      <4>1. pc'[d] = "wait" => WithDevice(cmd[d])'
        <5>1. pc'[d] = "wait" => WithDevice(cmd[d]) /\ cmd[d] # i /\ cmd'[d] = cmd[d]
          BY <1>1, <2>3, <3>1 DEF CallersExact
        <5> QED
          BY <1>1, <1>4, <5>1
      <4>2. CASE pc[d] = "idle"
        BY <3>1, <4>1, <4>2 DEF CallersExact
      <4>3. CASE pc[d] # "idle"
        <5>1. held'[d] = held[d]
          BY <2>4, <3>1, <4>3
        <5> QED
          BY <3>1, <4>1, <5>1 DEF CallersExact, HasHandle
      <4> QED
        BY <4>2, <4>3
    <3>2. CASE pc'[d] # pc[d]
      BY <2>2, <3>2 DEF CallersExact
    <3> QED
      BY <3>1, <3>2
  <2>8. \A j \in Cmds : WithDevice(j)' =>
          /\ body[j].title = title
          /\ host = "run" => pc'[body[j].caller] = "wait" /\ cmd[body[j].caller] = j
    <3>1. \A j \in Cmds : body[j].caller \in Callers
      BY DEF Entries
    <3> QED
      BY <1>4, <2>1, <2>5, <3>1 DEF CallersExact
  <2> QED
    BY <1>1, <2>6, <2>7, <2>8 DEF CallersExact, stop
<1>8. ResetExact'
  BY <1>1, BusyDevice DEF ResetExact, stop
<1> QED
  BY <1>6, <1>7, <1>8

LEMMA ReleasePool ==
    ASSUME PoolInvariant, ReleaseCommand
    PROVE  PoolExact' /\ CallersExact' /\ ResetExact'
<1> USE TypesByName DEF PoolInvariant, Typed
<1>1. /\ dev.pc = "release" /\ dev'.cmd = dev.cmd /\ dev'.pc \in {"destroy", "receive"}
      /\ free' = Append(free, dev.cmd)
      /\ UNCHANGED <<handles, counter, body, queue, clients, callers, stop, failed>>
  BY DEF ReleaseCommand, DevStates
<1>2. dev.cmd \in Cmds /\ AtDevice(dev.cmd)
  BY <1>1 DEF DevStates, AtDevice
<1>3. dev.cmd \notin ToSet(free) /\ dev.cmd \notin ToSet(queue) /\ NoDuplicates(free)
  BY <1>2 DEF PoolExact
<1>4. ToSet(free') = ToSet(free) \cup {dev.cmd} /\ NoDuplicates(free')
  BY <1>1, <1>2, <1>3, Appended
<1>5. PoolExact'
  <2>1. \A d \in Callers : (Inside(d)' <=> Inside(d)) /\ cmd'[d] = cmd[d]
    BY <1>1 DEF Inside, callers
  <2>2. \A j : ~ AtDevice(j)' /\ (AtDevice(j) <=> j = dev.cmd)
    BY <1>1 DEF AtDevice
  <2> QED
    BY <1>1, <1>3, <1>4, <2>1, <2>2 DEF PoolExact
<1>6. CallersExact'
  <2>1. \A j : WithDevice(j)' <=> WithDevice(j)
    BY <1>1 DEF WithDevice
  <2> QED
    BY <1>1, <2>1 DEF CallersExact, Inside, HasHandle, callers, stop
<1>7. ResetExact'
  BY <1>1, BusyDevice DEF ResetExact, stop
<1> QED
  BY <1>5, <1>6, <1>7

LEMMA DestroyPool ==
    ASSUME PoolInvariant, DestroyHandle
    PROVE  PoolExact' /\ CallersExact' /\ ResetExact'
<1> USE TypesByName DEF PoolInvariant, Typed
<1>1. /\ dev.pc = "destroy" /\ dev'.cmd = dev.cmd /\ dev'.pc = "receive"
      /\ UNCHANGED <<counter, free, body, queue, clients, callers, stop, failed>>
  BY DEF DestroyHandle, DevStates
<1>2. PoolExact'
  BY <1>1, NoEntryMoves DEF Inside, AtDevice, callers
<1>3. CallersExact'
  <2>1. \A j : WithDevice(j)' <=> WithDevice(j)
    BY <1>1 DEF WithDevice
  <2> QED
    BY <1>1, <2>1 DEF CallersExact, Inside, HasHandle, callers, stop
<1>4. ResetExact'
  BY <1>1, BusyDevice DEF ResetExact, stop
<1> QED
  BY <1>2, <1>3, <1>4

-----------------------------------------------------------------------------
LEMMA EndTitlePool ==
    ASSUME PoolInvariant, EndTitle
    PROVE  PoolExact' /\ CallersExact' /\ ResetExact'
<1> USE TypesByName DEF PoolInvariant, Typed
<1>1. /\ host = "run" /\ host' = "ended" /\ \A c \in Callers : ~ Inside(c)
      /\ \A c \in Callers : pc'[c] = "gone" /\ held'[c] = NoHandle
      /\ UNCHANGED <<handles, counter, free, body, queue, clients, cmd, found, dev, resetDone, title, failed>>
  BY DEF EndTitle
<1>2. PoolExact'
  BY <1>1, NoEntryMoves DEF Inside, AtDevice
<1>3. CallersExact'
  BY <1>1 DEF CallersExact, Inside, HasHandle, WithDevice, Current
<1>4. ResetExact'
  <2>1. resetDone
    BY <1>1 DEF ResetExact
  <2> QED
    BY <1>1, <2>1 DEF ResetExact
<1> QED
  BY <1>2, <1>3, <1>4

LEMMA SendResetPool ==
    ASSUME PoolInvariant, SendReset
    PROVE  PoolExact' /\ CallersExact' /\ ResetExact'
<1> USE TypesByName DEF PoolInvariant, Typed
<1>1. /\ host = "ended" /\ host' = "sent" /\ ~ resetDone' /\ queue' = Append(queue, RESET)
      /\ UNCHANGED <<handles, counter, free, body, clients, callers, dev, title, failed>>
  BY DEF SendReset
<1>2. RESET \notin ToSet(queue) /\ NoDuplicates(queue)
  BY <1>1 DEF ResetExact, PoolExact
<1>3. /\ ToSet(queue') = ToSet(queue) \cup {RESET} /\ NoDuplicates(queue')
      /\ queue' # <<>> /\ queue'[Len(queue')] = RESET
  BY <1>1, <1>2, Appended
<1>4. PoolExact'
  <2>1. \A c \in Callers : (Inside(c)' <=> Inside(c)) /\ cmd'[c] = cmd[c] /\ cmd[c] \in Cmds
    BY <1>1 DEF Inside, callers
  <2>2. \A j : AtDevice(j)' <=> AtDevice(j)
    BY <1>1 DEF AtDevice
  <2>3. ~ AtDevice(RESET) /\ RESET \notin ToSet(free) /\ RESET \notin Cmds
    BY Sizes, ElementOfSeq DEF AtDevice, DevStates, ToSet
  <2> QED
    BY <1>1, <1>2, <1>3, <2>1, <2>2, <2>3 DEF PoolExact
<1>5. CallersExact'
  <2>1. \A j \in Cmds : WithDevice(j)' <=> WithDevice(j)
    BY <1>1, <1>3, Sizes DEF WithDevice
  <2> QED
    BY <1>1, <2>1 DEF CallersExact, Inside, HasHandle, Current, callers
<1>6. ResetExact'
  BY <1>1, <1>3 DEF ResetExact
<1> QED
  BY <1>4, <1>5, <1>6

LEMMA WaitEndsPool ==
    ASSUME PoolInvariant, ResetSeen \/ ResetRunsOut \/ IOS_CloseAllHandlesForQueue
    PROVE  PoolExact' /\ CallersExact' /\ ResetExact'
<1> USE TypesByName DEF PoolInvariant, Typed
<1>1. /\ host \in {"sent", "done"} /\ host' \in {"done", "unmount"}
      /\ UNCHANGED <<counter, free, body, queue, clients, callers, dev, resetDone, title, failed>>
  BY DEF ResetSeen, ResetRunsOut, IOS_CloseAllHandlesForQueue
<1>2. PoolExact'
  BY <1>1, NoEntryMoves DEF Inside, AtDevice, callers
<1>3. CallersExact'
  BY <1>1 DEF CallersExact, Inside, HasHandle, WithDevice, Current, callers
<1>4. ResetExact'
  <2>1. CASE ResetSeen
    BY <1>1, <2>1 DEF ResetSeen, ResetExact
  <2>2. CASE ResetRunsOut
    BY <1>1, <2>2 DEF ResetRunsOut, ResetExact
  <2>3. CASE IOS_CloseAllHandlesForQueue
    <3>1. host = "done" /\ resetDone /\ \A s \in Slots : ~ handles'[s].set
      BY <2>3 DEF IOS_CloseAllHandlesForQueue, ResetExact, Empty
    <3> QED
      BY <1>1, <3>1 DEF ResetExact
  <2> QED
    BY <2>1, <2>2, <2>3
<1> QED
  BY <1>2, <1>3, <1>4

LEMMA StartTitlePool ==
    ASSUME PoolInvariant, LateOnlyAtTheEnd, StartTitle
    PROVE  PoolExact' /\ CallersExact' /\ ResetExact'
<1> USE TypesByName DEF PoolInvariant, Typed
<1>1. /\ host = "unmount" /\ title < Titles /\ host' = "run"
      /\ \A c \in Callers : pc'[c] = "idle"
      /\ UNCHANGED <<handles, counter, free, body, queue, clients, cmd, found, held, dev, resetDone, failed>>
  BY DEF StartTitle
<1>2. resetDone /\ queue = <<>> /\ dev.pc = "receive" /\ clients = {}
  <2>1. title # Titles
    BY <1>1, Sizes
  <2>2. title \notin LateResets
    BY <2>1 DEF LateOnlyAtTheEnd
  <2> QED
    BY <1>1, <2>2 DEF ResetExact
<1>3. ToSet(queue) = {}
  BY <1>2 DEF ToSet
<1>4. PoolExact'
  <2>1. \A c \in Callers : ~ Inside(c)
    BY <1>1 DEF CallersExact, Inside
  <2> QED
    BY <1>1, <2>1, NoEntryMoves DEF Inside, AtDevice
<1>5. CallersExact'
  <2>1. \A j : ~ WithDevice(j)'
    BY <1>1, <1>2, <1>3 DEF WithDevice
  <2> QED
    BY <1>1, <1>2, <2>1 DEF CallersExact, Inside, HasHandle
<1>6. ResetExact'
  BY <1>1, <1>2, <1>3 DEF ResetExact
<1> QED
  BY <1>4, <1>5, <1>6

LEMMA NothingMovesPool ==
    ASSUME PoolInvariant, UNCHANGED vars
    PROVE  PoolExact' /\ CallersExact' /\ ResetExact'
BY DEF PoolInvariant, PoolExact, CallersExact, ResetExact, vars, callers, stop, Inside, AtDevice, WithDevice,
       HasHandle, Current, NoDuplicates

LEMMA PoolKeeps ==
    ASSUME OneHostThread, LateOnlyAtTheEnd, PoolInvariant, [Next]_vars
    PROVE  PoolInvariant'
<1>1. TypeOK'
  BY TypeKeeps
<1>2. PoolExact' /\ CallersExact' /\ ResetExact'
  <2>1. CASE Device
    BY <2>1, ReceiveResetPool, ReceiveCommandPool, AssignPool, AnswerPool, ReleasePool, DestroyPool DEF Device
  <2>2. CASE Host
    BY <2>2, EndTitlePool, SendResetPool, WaitEndsPool, StartTitlePool DEF Host
  <2>3. ASSUME NEW c \in Callers, Caller(c) PROVE PoolExact' /\ CallersExact' /\ ResetExact'
    BY <2>3, FindSlotPool, ClaimSlotPool, CheckHandlePool, SendPool, ErrorPool DEF Caller
  <2> QED
    BY <2>1, <2>2, <2>3, SubmitPool, NothingMovesPool DEF Next, Finished
<1> QED
  BY <1>1, <1>2 DEF PoolInvariant

-----------------------------------------------------------------------------
(***************************************************************************)
(* The second layer.                                                       *)
(***************************************************************************)
LEMMA InitHandles == Init => HandleInvariant
<1> SUFFICES ASSUME Init PROVE HandleInvariant
  OBVIOUS
<1>1. ToSet(queue) = {}
  BY DEF Init, ToSet
<1>2. \A i : ~ OnTheWay(i)
  BY <1>1 DEF Init, OnTheWay, Served
<1>3. \A h : ~ Closing(h)
  BY DEF Init, Closing
<1>4. \A c \in Callers : ~ HasHandle(c) /\ pc[c] # "claim"
  BY DEF Init, HasHandle
<1>5. ~ failed /\ dev.pc = "receive" /\ \A s \in Slots : ~ handles[s].set
  BY DEF Init, Empty
<1> QED
  BY <1>2, <1>3, <1>4, <1>5 DEF HandleInvariant, HandlesOnTheWay, HandlesApart, HeldOwned, TargetsExact

LEMMA HandleFacts ==
    ASSUME TypeOK
    PROVE  /\ \A i \in Cmds : /\ body[i].replyHandle \in Handles /\ body[i].replyHandle.slot \in Slots
                              /\ body[i].caller \in Callers /\ body[i].op \in {"open", "ioctl", "close"}
           /\ \A c \in Callers : /\ held[c] \in Handles /\ held[c].slot \in Slots /\ cmd[c] \in Cmds
                                 /\ found[c] \in Handles /\ found[c].slot \in Slots
           /\ dev.cmd \in Cmds /\ dev.handle \in Handles /\ dev.handle.slot \in Slots
           /\ 0 \notin clients
BY TypesByName, HandleParts, Sizes DEF Typed, Entries, DevStates

\* A step that changes no handle, client, message in hand or assertion, and
\* takes nothing new on its way.
LEMMA HandlesUntouched ==
    ASSUME HandleInvariant, UNCHANGED <<handles, clients, dev, body, failed>>,
           \A i \in Cmds : OnTheWay(i)' => OnTheWay(i),
           \A i \in Cmds : OnTheWay(i)' /\ (\A c \in Callers : cmd'[c] = i => pc'[c] # "dispatch")
                            => \A c \in Callers : cmd[c] = i => pc[c] # "dispatch",
           \A c \in Callers : held'[c] \in {held[c], NoHandle},
           \A c \in Callers : HasHandle(c)' /\ CloseServed(c) => CloseServed(c)',
           \A c \in Callers, i \in Cmds :
                HasHandle(c)' /\ OnTheWay(i)' /\ cmd[c] = i /\ pc[c] \in {"dispatch", "send", "wait"}
                => cmd'[c] = i /\ pc'[c] \in {"dispatch", "send", "wait"},
           host' \in {"run", "ended"} \/ ~ resetDone' => host \in {"run", "ended"} \/ ~ resetDone,
           \A c \in Callers : pc'[c] = "claim" =>
                found'[c].slot \in Slots /\ found'[c].gen = counter' /\ ~ handles[found'[c].slot].set
    PROVE  HandleInvariant'
<1> USE DEF HandleInvariant
<1>1. \A h : /\ Owns(h)' <=> Owns(h)
             /\ Target(h)' = Target(h)
             /\ Closing(h)' <=> Closing(h)
  BY DEF Owns, Target, Closing, Current
<1>2. \A i : Served(i)' <=> Served(i)
  BY DEF Served
<1>3. \A c \in Callers : HasHandle(c)' => HasHandle(c) /\ held'[c] = held[c]
  BY DEF HasHandle
<1>4. HandlesOnTheWay'
  BY <1>1, <1>2 DEF HandlesOnTheWay
<1>5. HandlesApart'
  BY <1>3 DEF HandlesApart
<1>6. HeldOwned'
  BY <1>1, <1>3 DEF HeldOwned
<1>7. TargetsExact'
  BY <1>1 DEF TargetsExact
<1> QED
  BY <1>4, <1>5, <1>6, <1>7

\* A caller that is not in the kernel finds an entry in the pool: each of the
\* others has at most one on the way, and one is answered and not free yet.
LEMMA PoolNotEmpty ==
    ASSUME PoolInvariant, OneHostThread, PoolIsLargeEnough,
           NEW c \in Callers, NEW op \in {"open", "ioctl", "close"}, IPCSubmitFromCOS(c, op)
    PROVE  free # <<>>
<1> SUFFICES ASSUME free = <<>> PROVE FALSE
  OBVIOUS
<1>1. Typed /\ PoolExact /\ CallersExact
  BY TypesByName DEF PoolInvariant
<1>2. host = "run" /\ pc[c] = "idle" /\ \A d \in Callers : ~ Inside(d)
  BY DEF IPCSubmitFromCOS, OneHostThread
<1>3. ToSet(free) = {}
  BY DEF ToSet
<1>4. \A i \in Cmds : WithDevice(i) \/ i = dev.cmd
  BY <1>1, <1>2, <1>3 DEF PoolExact, WithDevice, AtDevice
<1>5. \A i \in Cmds : WithDevice(i) => /\ body[i].caller \in Callers /\ body[i].caller # c
                                      /\ cmd[body[i].caller] = i
  BY <1>1, <1>2 DEF Typed, Entries, CallersExact
<1> DEFINE f == [i \in Cmds |-> IF WithDevice(i) THEN body[i].caller ELSE c]
<1>6. f \in [Cmds -> Callers]
  BY <1>5
<1>7. IsFiniteSet(Cmds) /\ Cardinality(Cmds) = PoolSize
  BY Sizes, FS_Interval DEF Cmds
<1>8. PICK i, j \in Cmds : i # j /\ f[i] = f[j]
  <2> HIDE DEF f
  <2> QED
    BY <1>6, <1>7, FS_PigeonHole DEF PoolIsLargeEnough
<1> QED
  BY <1>4, <1>5, <1>8

LEMMA SubmitHandles ==
    ASSUME KernelInvariant, OneHostThread, PoolIsLargeEnough, NEW c \in Callers, NEW op \in {"open", "ioctl", "close"},
           IPCSubmitFromCOS(c, op)
    PROVE  HandleInvariant'
<1>1. PoolInvariant /\ HandlesOnTheWay /\ HandlesApart /\ HeldOwned /\ TargetsExact /\ ~ failed
  BY DEF KernelInvariant, HandleInvariant
<1>2. TypeOK /\ Typed /\ PoolExact /\ CallersExact
  BY <1>1, TypesByName DEF PoolInvariant
<1>3. free # <<>> /\ Head(free) \in Cmds /\ Head(free) \in ToSet(free)
  BY <1>1, <1>2, FreeEntry, PoolNotEmpty
<1> PICK i \in Cmds : i = Head(free)
  BY <1>3
<1>4. /\ host = "run" /\ pc[c] = "idle" /\ (op = "open" <=> ~ HasHandle(c))
      /\ \A d \in Callers : ~ Inside(d)
      /\ \E l \in {"create", "dispatch"} : pc' = [pc EXCEPT ![c] = l] /\ (l = "create" <=> op = "open")
      /\ cmd' = [cmd EXCEPT ![c] = i]
      /\ body' = [body EXCEPT ![i] =
                     [caller |-> c, title |-> title, op |-> op, replyHandle |-> held[c], target |-> 0]]
      /\ UNCHANGED <<handles, counter, queue, clients, found, held, dev, stop, failed>>
  <2>1. failed' = failed
    <3>1. failed = FALSE
      BY <1>1, <1>2 DEF Typed
    <3>2. failed' = FALSE
      BY <1>3 DEF IPCSubmitFromCOS, AssertThat
    <3> QED
      BY <3>1, <3>2
  <2> QED
    BY <1>3, <2>1 DEF IPCSubmitFromCOS, OneHostThread, Goto
<1>5. i \notin ToSet(queue) /\ ~ AtDevice(i)
  BY <1>2, <1>3 DEF PoolExact
<1>6. \A h : (Owns(h)' <=> Owns(h)) /\ Target(h)' = Target(h)
  BY <1>4 DEF Owns, Target
<1>7. /\ body'[i].op = op /\ body'[i].replyHandle = held[c] /\ \A j \in Cmds \ {i} : body'[j] = body[j]
      /\ cmd'[c] = i /\ (op # "open" => pc'[c] = "dispatch") /\ (op = "open" => pc'[c] = "create")
      /\ \A d \in Callers \ {c} : pc'[d] = pc[d] /\ cmd'[d] = cmd[d]
  BY <1>2, <1>4 DEF Typed
<1>8. \A d \in Callers : pc[d] \notin {"create", "claim", "dispatch", "send"}
  BY <1>4 DEF Inside
<1>9. ~ OnTheWay(i) /\ ~ Served(i) /\ \A j : Served(j)' <=> Served(j)
  BY <1>4, <1>5, <1>8 DEF Served, OnTheWay, AtDevice
<1>10. \A j \in Cmds : OnTheWay(j)' => (j = i /\ op # "open") \/ (j # i /\ OnTheWay(j))
  <2>1. ASSUME NEW j \in Cmds, OnTheWay(j)', j # i PROVE OnTheWay(j)
    <3>1. \A d \in Callers : ~ (cmd'[d] = j /\ pc'[d] \in {"dispatch", "send"})
      BY <1>7, <1>8, <2>1
    <3> QED
      BY <1>4, <1>7, <1>9, <2>1, <3>1 DEF OnTheWay
  <2>2. ASSUME OnTheWay(i)' PROVE op # "open"
    <3>1. \E d \in Callers : cmd'[d] = i /\ pc'[d] \in {"dispatch", "send"}
      BY <1>4, <1>5, <2>2 DEF OnTheWay, Served, AtDevice
    <3> QED
      BY <1>7, <1>8, <3>1
  <2> QED
    BY <2>1, <2>2
<1>11. \A h : Closing(h)' <=> Closing(h)
  <2>1. dev.pc \in {"reply", "release"} => body'[dev.cmd] = body[dev.cmd]
    BY <1>2, <1>5, <1>7, HandleFacts DEF AtDevice
  <2> QED
    BY <1>4, <2>1 DEF Closing, Current
<1>12. op # "open" => HasHandle(c) /\ Owns(held[c]) /\ Target(held[c]) \in clients /\ Target(held[c]) # 0
  BY <1>1, <1>2, <1>4, HandleFacts DEF HeldOwned, CloseServed
<1>13. HandlesOnTheWay'
  <2>1. ASSUME NEW j \in Cmds, OnTheWay(j)'
        PROVE  /\ Owns(body'[j].replyHandle)
               /\ body'[j].op = "open" /\ ~ Served(j) => Target(body'[j].replyHandle) = 0
               /\ body'[j].op = "open" /\ Served(j) =>
                   Target(body'[j].replyHandle) = dev.client /\ dev.client \in clients
               /\ body'[j].op # "open" => Target(body'[j].replyHandle) # 0
               /\ body'[j].op # "open" /\ ~ Served(j) => Target(body'[j].replyHandle) \in clients
               /\ body'[j].op # "open" /\ (\A d \in Callers : cmd'[d] = j => pc'[d] # "dispatch") =>
                   body'[j].target = Target(body'[j].replyHandle)
    <3>1. CASE j = i
      BY <1>7, <1>9, <1>10, <1>12, <2>1, <3>1
    <3>2. CASE j # i
      <4>1. OnTheWay(j) /\ body'[j] = body[j] /\ \A d \in Callers : pc[d] # "dispatch"
        BY <1>7, <1>8, <1>10, <2>1, <3>2
      <4> QED
        BY <1>1, <4>1 DEF HandlesOnTheWay
    <3> QED
      BY <3>1, <3>2
  <2> QED
    BY <1>4, <1>6, <1>9, <2>1 DEF HandlesOnTheWay
<1>14. HandlesApart'
  <2>1. \A j \in Cmds : OnTheWay(j) /\ HasHandle(c) => body[j].replyHandle # held[c]
    BY <1>1, <1>4 DEF HandlesApart
  <2>2. \A d \in Callers : (HasHandle(d)' <=> HasHandle(d)) /\ held'[d] = held[d]
    BY <1>4 DEF HasHandle
  <2>3. \A j, k \in Cmds : OnTheWay(j)' /\ OnTheWay(k)' /\ j # k => body'[j].replyHandle # body'[k].replyHandle
    BY <1>1, <1>7, <1>10, <1>12, <2>1 DEF HandlesApart
  <2>4. ASSUME NEW d \in Callers, NEW j \in Cmds, HasHandle(d), OnTheWay(j)', held[d] = body'[j].replyHandle
        PROVE  cmd'[d] = j /\ pc'[d] \in {"dispatch", "send", "wait"}
    <3>1. CASE j = i
      <4>1. d = c
        BY <1>1, <1>7, <1>10, <1>12, <2>4, <3>1 DEF HandlesApart
      <4> QED
        BY <1>7, <1>10, <2>4, <3>1, <4>1
    <3>2. CASE j # i
      <4>1. cmd[d] = j /\ pc[d] \in {"dispatch", "send", "wait"}
        BY <1>1, <1>7, <1>10, <2>4, <3>2 DEF HandlesApart
      <4> QED
        BY <1>4, <1>7, <4>1
    <3> QED
      BY <3>1, <3>2
  <2> QED
    BY <1>1, <2>2, <2>3, <2>4 DEF HandlesApart
<1>15. HeldOwned'
  <2>1. \A d \in Callers : CloseServed(d) => CloseServed(d)'
    BY <1>4, <1>7, <1>9, <1>2, HandleFacts DEF CloseServed, Served
  <2> QED
    BY <1>1, <1>4, <1>6, <2>1 DEF HeldOwned, HasHandle
<1>16. TargetsExact'
  <2>1. \A d \in Callers : pc'[d] # "claim"
    BY <1>7, <1>8
  <2> QED
    BY <1>1, <1>4, <1>6, <1>11, <2>1 DEF TargetsExact, stop
<1> QED
  BY <1>1, <1>4, <1>13, <1>14, <1>15, <1>16 DEF HandleInvariant

LEMMA FindSlotHandles ==
    ASSUME KernelInvariant, NEW c \in Callers, FindSlot(c)
    PROVE  HandleInvariant'
<1> USE TypesByName DEF KernelInvariant, PoolInvariant, Typed
<1> DEFINE unset == {s \in Slots : ~ handles[s].set}
<1>1. /\ pc[c] = "create"
      /\ \/ pc' = [pc EXCEPT ![c] = "error"] /\ found' = found
         \/ /\ unset # {} /\ pc' = [pc EXCEPT ![c] = "claim"]
            /\ found' = [found EXCEPT ![c] = [slot |-> Min(unset), gen |-> counter]]
      /\ UNCHANGED <<handles, counter, free, body, queue, clients, cmd, held, dev, stop, failed>>
  BY DEF FindSlot, Goto
<1>2. unset # {} => Min(unset) \in unset
  <2>1. unset \in SUBSET Nat
    BY Sizes
  <2> HIDE DEF unset
  <2> QED
    BY <2>1, LeastIsMember
<1>3. unset # {} => Min(unset) \in Slots /\ ~ handles[Min(unset)].set
  BY <1>2
<1> HIDE DEF unset
<1>4. \A i \in Cmds : OnTheWay(i)' <=> OnTheWay(i)
  BY <1>1 DEF OnTheWay, Served
<1>5. \A d \in Callers : pc'[d] = "claim" =>
        found'[d].slot \in Slots /\ found'[d].gen = counter' /\ ~ handles[found'[d].slot].set
  <2>1. \A d \in Callers : pc'[d] = "claim" => d = c
    BY <1>1 DEF CallersExact, Inside
  <2> QED
    BY <1>1, <1>3, <2>1
<1>6. \A d \in Callers : CloseServed(d)' <=> CloseServed(d)
  BY <1>1 DEF CloseServed, Served
<1> QED
  BY <1>1, <1>4, <1>5, <1>6, HandlesUntouched DEF stop, HandleInvariant

LEMMA ClaimSlotHandles ==
    ASSUME KernelInvariant, NEW c \in Callers, ClaimSlot(c)
    PROVE  HandleInvariant'
<1>1. PoolInvariant /\ HandlesOnTheWay /\ HandlesApart /\ HeldOwned /\ TargetsExact /\ ~ failed
  BY DEF KernelInvariant, HandleInvariant
<1>2. TypeOK /\ Typed /\ PoolExact /\ CallersExact
  BY <1>1, TypesByName DEF PoolInvariant
<1> PICK i \in Cmds : i = cmd[c]
  BY <1>2, HandleFacts
<1> PICK h \in Handles : h = found[c]
  BY <1>2, HandleFacts
<1>3. /\ pc[c] = "claim" /\ pc' = [pc EXCEPT ![c] = "dispatch"]
      /\ handles' = [handles EXCEPT ![h.slot] = [set |-> TRUE, check |-> h, target |-> 0]]
      /\ body' = [body EXCEPT ![i].replyHandle = h]
      /\ UNCHANGED <<free, queue, clients, cmd, found, held, dev, stop, failed>>
  BY DEF ClaimSlot, Goto
<1>4. h.slot \in Slots /\ ~ handles[h.slot].set /\ body[i].op = "open"
  BY <1>1, <1>2, <1>3 DEF TargetsExact, CallersExact
<1>5. i \notin ToSet(queue) /\ ~ AtDevice(i) /\ \A d \in Callers \ {c} : ~ Inside(d)
  BY <1>2, <1>3 DEF PoolExact, CallersExact, Inside
<1>6. /\ Owns(h)' /\ Target(h)' = 0 /\ ~ Owns(h)
      /\ \A g \in Handles : Owns(g) => Owns(g)' /\ Target(g)' = Target(g)
  BY <1>2, <1>3, <1>4, HandleParts DEF Owns, Target, Typed
<1>7. /\ body'[i].replyHandle = h /\ body'[i].op = "open" /\ \A j \in Cmds \ {i} : body'[j] = body[j]
      /\ pc'[c] = "dispatch" /\ \A d \in Callers \ {c} : pc'[d] = pc[d]
      /\ \A d \in Callers \ {c} : pc[d] \notin {"create", "claim", "dispatch", "send"}
  BY <1>2, <1>3, <1>4, <1>5 DEF Typed, Entries, Inside
<1>8. ~ OnTheWay(i) /\ ~ Served(i) /\ \A j : Served(j)' <=> Served(j)
  BY <1>3, <1>5, <1>7 DEF Served, OnTheWay, AtDevice
<1>9. \A j \in Cmds : OnTheWay(j)' => j = i \/ OnTheWay(j)
  <2>1. ASSUME NEW j \in Cmds, OnTheWay(j)', j # i PROVE OnTheWay(j)
    <3>1. \A d \in Callers : ~ (cmd'[d] = j /\ pc'[d] \in {"dispatch", "send"})
      BY <1>3, <1>7, <2>1
    <3> QED
      BY <1>3, <1>7, <1>8, <2>1, <3>1 DEF OnTheWay
  <2> QED
    BY <2>1
<1>10. \A g : Closing(g)' <=> Closing(g)
  <2>1. dev.pc \in {"reply", "release"} => body'[dev.cmd] = body[dev.cmd]
    BY <1>2, <1>5, <1>7, HandleFacts DEF AtDevice
  <2> QED
    BY <1>3, <2>1 DEF Closing, Current
<1>11. \A d \in Callers : (HasHandle(d)' <=> HasHandle(d)) /\ held'[d] = held[d]
                           /\ (HasHandle(d) => Owns(held[d]) /\ held[d] \in Handles /\ held[d] # h)
  BY <1>1, <1>2, <1>3, <1>6, HandleFacts DEF HasHandle, HeldOwned
<1>12. \A j \in Cmds : OnTheWay(j) => Owns(body[j].replyHandle) /\ body[j].replyHandle \in Handles
                                      /\ body[j].replyHandle # h
  BY <1>1, <1>2, <1>6, HandleFacts DEF HandlesOnTheWay
<1>13. HandlesOnTheWay'
  <2>1. ASSUME NEW j \in Cmds, OnTheWay(j)'
        PROVE  /\ Owns(body[j].replyHandle)'
               /\ body'[j].op = "open" /\ ~ Served(j) => Target(body[j].replyHandle)' = 0
               /\ body'[j].op = "open" /\ Served(j) =>
                   Target(body[j].replyHandle)' = dev.client /\ dev.client \in clients
               /\ body'[j].op # "open" => Target(body[j].replyHandle)' # 0
               /\ body'[j].op # "open" /\ ~ Served(j) => Target(body[j].replyHandle)' \in clients
               /\ body'[j].op # "open" /\ (\A d \in Callers : cmd'[d] = j => pc'[d] # "dispatch") =>
                   body'[j].target = Target(body[j].replyHandle)'
    <3>1. CASE j = i
      BY <1>6, <1>7, <1>8, <3>1
    <3>2. CASE j # i
      <4>1. OnTheWay(j) /\ body'[j] = body[j] /\ \A d \in Callers : cmd[d] = j => pc[d] # "dispatch"
        BY <1>7, <1>9, <2>1, <3>2
      <4>2. Owns(body[j].replyHandle)' /\ Target(body[j].replyHandle)' = Target(body[j].replyHandle)
        BY <1>3, <1>6, <1>7, <1>12, <3>2, <4>1 DEF Owns, Target
      <4> QED
        BY <1>1, <1>7, <3>2, <4>1, <4>2 DEF HandlesOnTheWay, Owns, Target
    <3> QED
      BY <3>1, <3>2
  <2> QED
    BY ZenonT(40), <1>3, <1>8, <2>1 DEF HandlesOnTheWay, Owns, Target
<1>14. HandlesApart'
  <2>1. \A j, k \in Cmds : OnTheWay(j)' /\ OnTheWay(k)' /\ j # k => body'[j].replyHandle # body'[k].replyHandle
    BY <1>1, <1>7, <1>9, <1>12 DEF HandlesApart
  <2>2. ASSUME NEW d \in Callers, NEW j \in Cmds, HasHandle(d), OnTheWay(j)', held[d] = body'[j].replyHandle
        PROVE  cmd'[d] = j /\ pc'[d] \in {"dispatch", "send", "wait"}
    BY <1>1, <1>3, <1>7, <1>9, <1>11, <2>2 DEF HandlesApart
  <2> QED
    BY <1>1, <1>11, <2>1, <2>2 DEF HandlesApart
<1>15. HeldOwned'
  <2>1. \A d \in Callers : HasHandle(d) /\ CloseServed(d) => CloseServed(d)'
    BY <1>2, <1>3, <1>7, <1>8, HandleFacts DEF CloseServed
  <2>2. \A d \in Callers : HasHandle(d) => Owns(held[d])' /\ Target(held[d])' = Target(held[d])
    BY <1>3, <1>6, <1>11 DEF Owns, Target
  <2> QED
    BY <1>1, <1>3, <1>11, <2>1, <2>2 DEF HeldOwned
<1>16. TargetsExact'
  <2>1. \A d \in Callers : pc'[d] # "claim"
    BY <1>7
  <2>2. \A r \in Slots : handles'[r].set /\ handles'[r].target # 0 =>
          r # h.slot /\ handles'[r] = handles[r]
    BY <1>2, <1>3, <1>4 DEF Typed
  <2>3. \A g \in Handles : Closing(g) => Owns(g)' /\ Target(g)' \notin clients /\ Target(g)' # 0
    BY <1>1, <1>6 DEF TargetsExact
  <2>4. dev.pc = "assign" /\ dev.client # 0 => \A r \in Slots : handles'[r].set => handles'[r].target # dev.client
    BY <1>1, <2>2 DEF TargetsExact
  <2> QED
    BY <1>1, <1>3, <1>10, <2>1, <2>2, <2>3, <2>4 DEF TargetsExact, stop
<1> QED
  BY <1>1, <1>3, <1>13, <1>14, <1>15, <1>16 DEF HandleInvariant

LEMMA CheckHandleHandles ==
    ASSUME KernelInvariant, NEW c \in Callers, CheckHandle(c)
    PROVE  HandleInvariant'
<1>1. PoolInvariant /\ HandlesOnTheWay /\ HandlesApart /\ HeldOwned /\ TargetsExact /\ ~ failed
  BY DEF KernelInvariant, HandleInvariant
<1>2. TypeOK /\ Typed /\ PoolExact /\ CallersExact
  BY <1>1, TypesByName DEF PoolInvariant
<1> PICK i \in Cmds : i = cmd[c]
  BY <1>2, HandleFacts
<1> PICK h \in Handles : h = body[i].replyHandle
  BY <1>2, HandleFacts
<1>3. pc[c] = "dispatch"
  BY DEF CheckHandle
<1>4. i \notin ToSet(queue) /\ ~ AtDevice(i) /\ ~ Served(i) /\ \A d \in Callers \ {c} : ~ Inside(d)
  BY <1>2, <1>3 DEF PoolExact, CallersExact, Inside, Served, AtDevice
<1>5. OnTheWay(i)
  BY <1>3 DEF OnTheWay
<1>6. Owns(h) /\ (body[i].op = "open" <=> Target(h) = 0)
  BY <1>1, <1>4, <1>5 DEF HandlesOnTheWay
<1>7. /\ pc' = [pc EXCEPT ![c] = "send"] /\ body' = [body EXCEPT ![i].target = Target(h)] /\ ~ failed'
      /\ UNCHANGED <<handles, counter, free, queue, clients, cmd, found, held, dev, stop>>
  BY <1>6 DEF CheckHandle, Goto, AssertThat, Owns, Target
<1>8. /\ body'[i].target = Target(h) /\ \A j \in Cmds \ {i} : body'[j] = body[j]
      /\ \A j \in Cmds : body'[j].op = body[j].op /\ body'[j].replyHandle = body[j].replyHandle
      /\ pc'[c] = "send" /\ \A d \in Callers \ {c} : pc'[d] = pc[d]
      /\ \A d \in Callers \ {c} : pc[d] \notin {"create", "claim", "dispatch", "send"}
  BY <1>2, <1>4, <1>7 DEF Typed, Entries, Inside
<1>9. \A j \in Cmds : (Served(j)' <=> Served(j)) /\ (OnTheWay(j)' => OnTheWay(j))
  <2>1. \A j : Served(j)' <=> Served(j)
    BY <1>7 DEF Served
  <2>2. \A d \in Callers : pc'[d] \in {"dispatch", "send"} => pc[d] \in {"dispatch", "send"} /\ cmd'[d] = cmd[d]
    BY <1>3, <1>7, <1>8
  <2> QED
    BY <1>7, <1>8, <2>1, <2>2 DEF OnTheWay
<1>10. \A g : (Owns(g)' <=> Owns(g)) /\ Target(g)' = Target(g)
  BY <1>7 DEF Owns, Target
<1>11. \A g : Closing(g)' <=> Closing(g)
  <2>1. body'[dev.cmd].op = body[dev.cmd].op /\ body'[dev.cmd].replyHandle = body[dev.cmd].replyHandle
    BY <1>2, <1>8, HandleFacts
  <2> QED
    BY <1>7, <2>1 DEF Closing, Current
<1>12. HandlesOnTheWay'
  <2>1. ASSUME NEW j \in Cmds, OnTheWay(j)', body[j].op # "open", \A d \in Callers : cmd'[d] = j => pc'[d] # "dispatch"
        PROVE  body'[j].target = Target(body[j].replyHandle)
    <3>1. CASE j = i
      BY <1>8, <3>1
    <3>2. CASE j # i
      <4>1. \A d \in Callers : cmd[d] = j => pc[d] # "dispatch"
        BY <1>8, <3>2
      <4> QED
        BY <1>1, <1>8, <1>9, <2>1, <3>2, <4>1 DEF HandlesOnTheWay
    <3> QED
      BY <3>1, <3>2
  <2> QED
    BY <1>1, <1>7, <1>8, <1>9, <1>10, <2>1 DEF HandlesOnTheWay
<1>13. HandlesApart'
  BY <1>1, <1>7, <1>8, <1>9 DEF HandlesApart, HasHandle
<1>14. HeldOwned'
  <2>1. \A d \in Callers : CloseServed(d) => CloseServed(d)'
    BY <1>2, <1>3, <1>7, <1>8, <1>9, HandleFacts DEF CloseServed
  <2> QED
    BY <1>1, <1>7, <1>10, <2>1 DEF HeldOwned, HasHandle
<1>15. TargetsExact'
  <2>1. \A d \in Callers : pc'[d] # "claim"
    BY <1>8
  <2> QED
    BY <1>1, <1>7, <1>10, <1>11, <2>1 DEF TargetsExact, stop
<1> QED
  BY <1>7, <1>12, <1>13, <1>14, <1>15 DEF HandleInvariant

LEMMA SendHandles ==
    ASSUME KernelInvariant, NEW c \in Callers, SendToDevice(c)
    PROVE  HandleInvariant'
<1>1. PoolInvariant /\ HandleInvariant /\ TargetsExact
  BY DEF KernelInvariant, HandleInvariant
<1>2. TypeOK /\ Typed /\ PoolExact /\ CallersExact
  BY <1>1, TypesByName DEF PoolInvariant
<1> PICK i \in Cmds : i = cmd[c]
  BY <1>2, HandleFacts
<1>3. /\ pc[c] = "send"
      /\ \/ pc' = [pc EXCEPT ![c] = "error"] /\ queue' = queue
         \/ /\ pc' = [pc EXCEPT ![c] = "wait"] /\ queue' = Append(queue, i)
      /\ UNCHANGED <<handles, counter, free, body, clients, cmd, found, held, dev, stop, failed>>
  BY DEF SendToDevice, Goto
<1>4. i \notin ToSet(queue) /\ ~ AtDevice(i) /\ \A d \in Callers \ {c} : ~ Inside(d)
  BY <1>2, <1>3 DEF PoolExact, CallersExact, Inside
<1>5. ToSet(queue') = ToSet(queue) \/ (ToSet(queue') = ToSet(queue) \cup {i} /\ pc' = [pc EXCEPT ![c] = "wait"])
  <2>1. queue \in Seq(Cmds \cup {RESET}) /\ NoDuplicates(queue)
    BY <1>2 DEF Typed, PoolExact
  <2>2. ToSet(Append(queue, i)) = ToSet(queue) \cup {i}
    BY <1>4, <2>1, Appended
  <2> QED
    BY <1>3, <2>2
<1>6. /\ pc'[c] \in {"error", "wait"} /\ \A d \in Callers \ {c} : pc'[d] = pc[d] /\ pc[d] # "claim"
      /\ \A d \in Callers \ {c} : pc[d] \notin {"dispatch", "send"}
  BY <1>2, <1>3, <1>4 DEF Typed, Inside
<1>7. OnTheWay(i) /\ \A j : Served(j)' <=> Served(j)
  BY <1>3 DEF OnTheWay, Served
<1>8. \A j \in Cmds : OnTheWay(j)' => OnTheWay(j) /\ (j = i => pc'[c] = "wait")
  <2>1. ASSUME NEW j \in Cmds, OnTheWay(j)' PROVE OnTheWay(j) /\ (j = i => pc'[c] = "wait")
    <3>1. ~ \E d \in Callers : cmd'[d] = j /\ pc'[d] \in {"dispatch", "send"}
      BY <1>6
    <3>2. \/ j \in ToSet(queue') \/ (dev.cmd = j /\ dev.pc = "assign")
          \/ (Served(j) /\ ~ (body[j].op = "open" /\ dev.client = 0))
      BY <1>3, <1>7, <2>1, <3>1 DEF OnTheWay
    <3>3. CASE j = i
      <4>1. i \in ToSet(queue')
        BY <1>4, <3>2, <3>3 DEF AtDevice, Served
      <4> QED
        BY <1>2, <1>4, <1>5, <1>7, <3>3, <4>1 DEF Typed
    <3>4. CASE j # i
      BY <1>5, <3>2, <3>4 DEF OnTheWay
    <3> QED
      BY <3>3, <3>4
  <2> QED
    BY <2>1
<1>9. \A d \in Callers : CloseServed(d) => CloseServed(d)'
  BY <1>3, <1>6, <1>7 DEF CloseServed
<1>10. \A d \in Callers : cmd[d] = cmd'[d] /\ held'[d] = held[d] /\ pc'[d] # "claim"
                          /\ (pc[d] = "dispatch" => pc'[d] = "dispatch")
  BY <1>3, <1>6
<1>11. ASSUME NEW d \in Callers, NEW j \in Cmds, OnTheWay(j)', cmd[d] = j, pc[d] \in {"dispatch", "send", "wait"}
       PROVE  pc'[d] \in {"dispatch", "send", "wait"}
  BY <1>6, <1>8, <1>11
<1> QED
  BY <1>1, <1>3, <1>8, <1>9, <1>10, <1>11, HandlesUntouched DEF stop

LEMMA ErrorHandles ==
    ASSUME KernelInvariant, NEW c \in Callers, ReplyWithError(c)
    PROVE  HandleInvariant'
<1>1. PoolInvariant /\ HandleInvariant /\ TargetsExact
  BY DEF KernelInvariant, HandleInvariant
<1>2. TypeOK /\ Typed /\ CallersExact
  BY <1>1, TypesByName DEF PoolInvariant
<1>3. /\ pc[c] = "error" /\ pc' = [pc EXCEPT ![c] = "idle"]
      /\ UNCHANGED <<handles, counter, body, queue, clients, cmd, found, held, dev, stop, failed>>
  BY DEF ReplyWithError, Goto
<1>4. \A d \in Callers : pc'[d] = pc[d] \/ (pc[d] = "error" /\ pc'[d] = "idle")
  BY <1>2, <1>3 DEF Typed
<1>5. \A j : (OnTheWay(j)' <=> OnTheWay(j)) /\ (Served(j)' <=> Served(j))
  BY <1>3, <1>4 DEF OnTheWay, Served
<1>6. \A d \in Callers : CloseServed(d)' <=> CloseServed(d)
  BY <1>3, <1>4, <1>5 DEF CloseServed
<1>7. \A d \in Callers : pc'[d] = "claim" =>
        found'[d].slot \in Slots /\ found'[d].gen = counter' /\ ~ handles[found'[d].slot].set
  BY <1>1, <1>3, <1>4 DEF TargetsExact
<1> QED
  BY <1>1, <1>3, <1>4, <1>5, <1>6, <1>7, HandlesUntouched DEF stop

LEMMA ReceiveResetHandles ==
    ASSUME KernelInvariant, ReceiveReset
    PROVE  HandleInvariant'
<1>1. PoolInvariant /\ HandleInvariant /\ TargetsExact /\ ~ failed
  BY DEF KernelInvariant, HandleInvariant
<1>2. TypeOK /\ Typed /\ PoolExact /\ CallersExact /\ ResetExact
  BY <1>1, TypesByName DEF PoolInvariant
<1>3. /\ dev.pc = "receive" /\ queue # <<>> /\ Head(queue) = RESET /\ queue' = Tail(queue)
      /\ resetDone'
      /\ UNCHANGED <<handles, counter, free, body, callers, dev, host, title, failed>>
  BY DEF ReceiveReset
<1>4. queue \in Seq(Cmds \cup {RESET}) /\ NoDuplicates(queue) /\ Head(queue) \in ToSet(queue)
  BY <1>2, <1>3, Message DEF Typed, PoolExact
<1>5. ~ resetDone /\ queue[Len(queue)] = RESET
  BY <1>2, <1>3, <1>4 DEF ResetExact
<1>6. queue' = <<>>
  <2>1. Tail(queue) # <<>> => Head(queue) # queue[Len(queue)]
    BY <1>3, <1>4, HeadTaken
  <2> QED
    BY <1>3, <1>5, <2>1
<1>7. host \notin {"run", "ended"}
  BY <1>2, <1>5 DEF ResetExact
<1>8. \A c \in Callers : pc'[c] = "gone" /\ ~ HasHandle(c)'
  BY <1>2, <1>3, <1>7 DEF CallersExact, HasHandle, callers
<1>9. \A j : ~ OnTheWay(j)'
  <2>1. ToSet(queue') = {}
    BY <1>6 DEF ToSet
  <2> QED
    BY <1>3, <1>8, <2>1 DEF OnTheWay, Served
<1>10. \A h : ~ Closing(h)'
  BY <1>3 DEF Closing
<1>11. TargetsExact'
  BY <1>1, <1>3, <1>7, <1>8, <1>10 DEF TargetsExact
<1> QED
  BY <1>1, <1>3, <1>8, <1>9, <1>11 DEF HandleInvariant, HandlesOnTheWay, HandlesApart, HeldOwned

\* What the device takes from its queue, a reset aside.
LEMMA TakesCommand ==
    ASSUME KernelInvariant, dev.pc = "receive", queue # <<>>, Head(queue) # RESET,
           queue' = Tail(queue), dev'.cmd = Head(queue), dev'.pc \in {"assign", "reply"},
           UNCHANGED <<handles, body, callers>>
    PROVE  \E i \in Cmds :
             /\ i = Head(queue)
             /\ OnTheWay(i) /\ Owns(body[i].replyHandle)
             /\ body[i].op # "open" =>
                 /\ body[i].target = Target(body[i].replyHandle)
                 /\ Target(body[i].replyHandle) \in clients /\ Target(body[i].replyHandle) # 0
             /\ \A j \in Cmds : OnTheWay(j)' => OnTheWay(j)
             /\ \A j : ~ Served(j) /\ (Served(j)' <=> j = i /\ dev'.pc = "reply")
             /\ \A h : ~ Closing(h)
             /\ \A c \in Callers : ~ CloseServed(c) /\ (cmd[c] = i => pc[c] \notin {"dispatch", "send"})
             /\ host \in {"run", "ended"} \/ ~ resetDone
<1>1. PoolInvariant /\ HandlesOnTheWay
  BY DEF KernelInvariant, HandleInvariant
<1>2. TypeOK /\ Typed /\ PoolExact /\ CallersExact /\ ResetExact
  BY <1>1, TypesByName DEF PoolInvariant
<1>3. Head(queue) \in Cmds /\ Head(queue) \in ToSet(queue)
  BY <1>2, Message
<1> PICK i \in Cmds : i = Head(queue)
  BY <1>3
<1>4. ToSet(queue') = ToSet(queue) \ {i}
  <2>1. queue \in Seq(Cmds \cup {RESET}) /\ NoDuplicates(queue)
    BY <1>2 DEF Typed, PoolExact
  <2> QED
    BY <2>1, HeadTaken
<1>5. \A j : ~ Served(j) /\ (Served(j)' <=> j = i /\ dev'.pc = "reply")
  BY DEF Served
<1>6. OnTheWay(i)
  BY <1>3 DEF OnTheWay
<1>7. \A c \in Callers : cmd[c] = i => pc[c] \notin {"dispatch", "send"}
  BY <1>2, <1>3 DEF PoolExact, Inside
<1>8. \A j \in Cmds : OnTheWay(j)' => OnTheWay(j)
  <2>1. ASSUME NEW j \in Cmds, OnTheWay(j)', j # i PROVE OnTheWay(j)
    BY <1>4, <1>5, <2>1 DEF OnTheWay, callers
  <2> QED
    BY <1>6, <2>1
<1>9. \A h : ~ Closing(h)
  BY DEF Closing
<1>10. \A c \in Callers : ~ CloseServed(c)
  BY <1>5 DEF CloseServed
<1>11. host \in {"run", "ended"} \/ ~ resetDone
  BY <1>2 DEF ResetExact
<1>12. Owns(body[i].replyHandle)
  BY <1>1, <1>6 DEF HandlesOnTheWay
<1>13. body[i].op # "open" => /\ body[i].target = Target(body[i].replyHandle)
                              /\ Target(body[i].replyHandle) \in clients /\ Target(body[i].replyHandle) # 0
  BY <1>1, <1>5, <1>6, <1>7 DEF HandlesOnTheWay
<1> QED
  BY <1>5, <1>6, <1>7, <1>8, <1>9, <1>10, <1>11, <1>12, <1>13

LEMMA ReceiveOpenHandles ==
    ASSUME KernelInvariant, ReceiveOpen
    PROVE  HandleInvariant'
<1>1. PoolInvariant /\ HandlesOnTheWay /\ HandlesApart /\ HeldOwned /\ TargetsExact /\ ~ failed
  BY DEF KernelInvariant, HandleInvariant
<1>2. TypeOK /\ Typed
  BY <1>1, TypesByName DEF PoolInvariant
<1> DEFINE unused == Clients \ clients
           new == IF unused = {} THEN 0 ELSE Min(unused)
<1>3. /\ dev.pc = "receive" /\ queue # <<>> /\ Head(queue) # RESET /\ queue' = Tail(queue)
      /\ dev' = [dev EXCEPT !.pc = "assign", !.cmd = Head(queue), !.client = new]
      /\ clients' = clients \cup ({new} \ {0})
      /\ UNCHANGED <<handles, counter, free, body, callers, stop, failed>>
  BY DEF ReceiveOpen
<1>4. new = 0 \/ (new \notin clients /\ new # 0)
  <2>1. unused \in SUBSET Nat /\ 0 \notin unused
    BY Sizes
  <2>2. unused # {} => Min(unused) \in unused
    <3> HIDE DEF unused
    <3> QED
      BY <2>1, LeastIsMember
  <2> QED
    BY <2>1, <2>2
<1> HIDE DEF new, unused
<1> PICK n : n = new
  OBVIOUS
<1>5. dev'.pc = "assign" /\ dev'.cmd = Head(queue) /\ dev'.client = n /\ clients' = clients \cup ({n} \ {0})
  BY <1>2, <1>3 DEF Typed, DevStates
<1> PICK i \in Cmds :
      /\ i = Head(queue) /\ OnTheWay(i)
      /\ \A j \in Cmds : OnTheWay(j)' => OnTheWay(j)
      /\ \A j : ~ Served(j) /\ (Served(j)' <=> j = i /\ dev'.pc = "reply")
      /\ \A h : ~ Closing(h)
      /\ \A c \in Callers : ~ CloseServed(c)
      /\ host \in {"run", "ended"} \/ ~ resetDone
  BY <1>3, <1>5, TakesCommand
<1>6. \A h : (Owns(h)' <=> Owns(h)) /\ Target(h)' = Target(h) /\ ~ Closing(h)'
  BY <1>3, <1>5 DEF Owns, Target, Closing
<1>7. HandlesOnTheWay'
  BY <1>1, <1>3, <1>5, <1>6 DEF HandlesOnTheWay, callers
<1>8. HandlesApart'
  BY <1>1, <1>3 DEF HandlesApart, HasHandle, callers
<1>9. HeldOwned'
  BY <1>1, <1>3, <1>5, <1>6 DEF HeldOwned, HasHandle, callers
<1>10. TargetsExact'
  <2>1. n # 0 => \A s \in Slots : handles[s].set => handles[s].target # n
    BY <1>1, <1>4 DEF TargetsExact
  <2>2. n # 0 => n \in clients'
    BY <1>5
  <2> QED
    BY <1>1, <1>3, <1>5, <1>6, <2>1, <2>2 DEF TargetsExact, callers, stop
<1> QED
  BY <1>1, <1>3, <1>7, <1>8, <1>9, <1>10 DEF HandleInvariant

LEMMA ReceiveIoctlHandles ==
    ASSUME KernelInvariant, ReceiveIoctl
    PROVE  HandleInvariant'
<1>1. PoolInvariant /\ HandlesOnTheWay /\ HandlesApart /\ HeldOwned /\ TargetsExact
  BY DEF KernelInvariant, HandleInvariant
<1>2. TypeOK /\ Typed
  BY <1>1, TypesByName DEF PoolInvariant
<1>3. /\ dev.pc = "receive" /\ queue # <<>> /\ Head(queue) # RESET /\ queue' = Tail(queue)
      /\ body[Head(queue)].op = "ioctl"
      /\ dev'.pc = "reply" /\ dev'.cmd = Head(queue)
      /\ failed' = ~ (body[Head(queue)].target \in clients)
      /\ UNCHANGED <<handles, counter, free, body, clients, callers, stop>>
  BY <1>2 DEF ReceiveIoctl, Typed, DevStates, AssertThat
<1> PICK i \in Cmds :
      /\ i = Head(queue) /\ OnTheWay(i)
      /\ body[i].op # "open" =>
          /\ body[i].target = Target(body[i].replyHandle) /\ Target(body[i].replyHandle) \in clients
      /\ \A j \in Cmds : OnTheWay(j)' => OnTheWay(j)
      /\ \A j : ~ Served(j) /\ (Served(j)' <=> j = i /\ dev'.pc = "reply")
      /\ \A h : ~ Closing(h)
      /\ \A c \in Callers : ~ CloseServed(c)
      /\ host \in {"run", "ended"} \/ ~ resetDone
  BY <1>3, TakesCommand
<1>4. ~ failed' /\ body[i].op = "ioctl"
  BY <1>3
<1>5. \A h : (Owns(h)' <=> Owns(h)) /\ Target(h)' = Target(h) /\ ~ Closing(h)'
  BY <1>3, <1>4 DEF Owns, Target, Closing, Current
<1>6. HandlesOnTheWay'
  <2>1. \A j \in Cmds : (OnTheWay(j)' => OnTheWay(j)) /\ ~ Served(j) /\ (Served(j)' => body[j].op # "open")
    BY <1>4
  <2> QED
    BY <1>1, <1>3, <1>5, <2>1 DEF HandlesOnTheWay, callers
<1>7. HandlesApart'
  BY <1>1, <1>3 DEF HandlesApart, HasHandle, callers
<1>8. HeldOwned'
  BY <1>1, <1>3, <1>5 DEF HeldOwned, HasHandle, callers
<1>9. TargetsExact'
  BY <1>1, <1>3, <1>5 DEF TargetsExact, callers, stop
<1> QED
  BY <1>4, <1>6, <1>7, <1>8, <1>9 DEF HandleInvariant

LEMMA ReceiveCloseHandles ==
    ASSUME KernelInvariant, ReceiveClose
    PROVE  HandleInvariant'
<1>1. PoolInvariant /\ HandlesOnTheWay /\ HandlesApart /\ HeldOwned /\ TargetsExact /\ ~ failed
  BY DEF KernelInvariant, HandleInvariant
<1>2. TypeOK /\ Typed
  BY <1>1, TypesByName DEF PoolInvariant
<1>3. /\ dev.pc = "receive" /\ queue # <<>> /\ Head(queue) # RESET /\ queue' = Tail(queue)
      /\ body[Head(queue)].op = "close"
      /\ dev'.pc = "reply" /\ dev'.cmd = Head(queue)
      /\ clients' = clients \ {body[Head(queue)].target}
      /\ UNCHANGED <<handles, counter, free, body, callers, stop, failed>>
  BY <1>2 DEF ReceiveClose, Typed, DevStates
<1> PICK i \in Cmds :
      /\ i = Head(queue) /\ OnTheWay(i) /\ Owns(body[i].replyHandle)
      /\ body[i].op # "open" =>
          /\ body[i].target = Target(body[i].replyHandle)
          /\ Target(body[i].replyHandle) \in clients /\ Target(body[i].replyHandle) # 0
      /\ \A j \in Cmds : OnTheWay(j)' => OnTheWay(j)
      /\ \A j : ~ Served(j) /\ (Served(j)' <=> j = i /\ dev'.pc = "reply")
      /\ \A h : ~ Closing(h)
      /\ \A c \in Callers : ~ CloseServed(c) /\ (cmd[c] = i => pc[c] \notin {"dispatch", "send"})
      /\ host \in {"run", "ended"} \/ ~ resetDone
  BY <1>3, TakesCommand
<1> PICK h \in Handles : h = body[i].replyHandle
  BY <1>2, HandleFacts
<1> PICK t : t = Target(h)
  OBVIOUS
<1>4. /\ body[i].op = "close" /\ Owns(h) /\ t \in clients /\ t # 0 /\ clients' = clients \ {t}
      /\ h.slot \in Slots
  BY <1>3, HandleParts
<1>5. \A g : (Owns(g)' <=> Owns(g)) /\ Target(g)' = Target(g) /\ (Closing(g)' <=> g = h)
  BY <1>3, <1>4 DEF Owns, Target, Closing, Current
<1>6. \A g \in Handles : Owns(g) /\ g # h => Target(g) # t
  <2>1. \A g \in Handles : Owns(g) /\ Target(g) = t => g.slot = h.slot
    BY <1>1, <1>4, HandleParts DEF TargetsExact, Owns, Target
  <2> QED
    BY <1>4, <2>1 DEF Owns
<1>7. HandlesOnTheWay'
  <2>1. ASSUME NEW j \in Cmds, OnTheWay(j)', ~ Served(j)', body[j].op # "open"
        PROVE  Target(body[j].replyHandle) \in clients'
    <3>1. j # i /\ OnTheWay(j)
      BY <1>3, <2>1
    <3>2. body[j].replyHandle # h /\ body[j].replyHandle \in Handles
      BY <1>1, <1>2, <3>1, HandleFacts DEF HandlesApart
    <3>3. Owns(body[j].replyHandle) /\ Target(body[j].replyHandle) \in clients
      BY <1>1, <2>1, <3>1 DEF HandlesOnTheWay
    <3> QED
      BY <1>4, <1>6, <3>2, <3>3
  <2>2. \A j \in Cmds : (OnTheWay(j)' => OnTheWay(j)) /\ ~ Served(j) /\ (Served(j)' => body[j].op # "open")
    BY <1>4
  <2> QED
    BY <1>1, <1>3, <1>5, <2>1, <2>2 DEF HandlesOnTheWay, callers
<1>8. HandlesApart'
  BY <1>1, <1>3 DEF HandlesApart, HasHandle, callers
<1>9. HeldOwned'
  <2>1. ASSUME NEW c \in Callers, HasHandle(c)
        PROVE  Owns(held[c]) /\ (CloseServed(c)' \/ Target(held[c]) \in clients')
    <3>1. Owns(held[c]) /\ Target(held[c]) \in clients /\ held[c] \in Handles
      BY <1>1, <1>2, <2>1, HandleFacts DEF HeldOwned
    <3>2. CASE held[c] = h
      <4>1. cmd[c] = i /\ pc[c] = "wait"
        BY <1>1, <2>1, <3>2 DEF HandlesApart
      <4> QED
        BY <1>3, <1>4, <3>1, <4>1 DEF CloseServed, callers
    <3>3. CASE held[c] # h
      BY <1>4, <1>6, <3>1, <3>3
    <3> QED
      BY <3>2, <3>3
  <2> QED
    BY <1>3, <1>5, <2>1 DEF HeldOwned, HasHandle, callers
<1>10. TargetsExact'
  <2>1. ASSUME NEW s \in Slots, handles[s].set, handles[s].target # 0
        PROVE  handles[s].target \in clients' \/ s = h.slot
    <3>1. handles[s].target \in clients
      BY <1>1, <2>1 DEF TargetsExact
    <3>2. handles[s].target = t => s = h.slot
      BY <1>1, <1>4, <2>1 DEF TargetsExact, Owns, Target
    <3> QED
      BY <1>4, <3>1, <3>2
  <2>2. t \notin clients' /\ Target(h) = t
    BY <1>4
  <2> QED
    BY <1>1, <1>3, <1>4, <1>5, <2>1, <2>2 DEF TargetsExact, callers, stop
<1> QED
  BY <1>1, <1>3, <1>7, <1>8, <1>9, <1>10 DEF HandleInvariant

LEMMA AssignHandles ==
    ASSUME KernelInvariant, AssignDispatchTarget
    PROVE  HandleInvariant'
<1>1. PoolInvariant /\ HandlesOnTheWay /\ HandlesApart /\ HeldOwned /\ TargetsExact
  BY DEF KernelInvariant, HandleInvariant
<1>2. TypeOK /\ Typed /\ PoolExact /\ CallersExact
  BY <1>1, TypesByName DEF PoolInvariant
<1> PICK i \in Cmds : i = dev.cmd
  BY <1>2, HandleFacts
<1> PICK h \in Handles : h = body[i].replyHandle
  BY <1>2, HandleFacts
<1> PICK n : n = dev.client
  OBVIOUS
<1>3. dev.pc = "assign" /\ body[i].op = "open" /\ AtDevice(i) /\ h.slot \in Slots
  BY <1>2, HandleParts DEF AssignDispatchTarget, CallersExact, Current, AtDevice
<1>4. /\ OnTheWay(i) /\ \A j : ~ Served(j)
      /\ i \notin ToSet(queue) /\ \A c \in Callers : cmd[c] = i => pc[c] \notin {"dispatch", "send"}
  BY <1>2, <1>3 DEF OnTheWay, Served, PoolExact, Inside
<1>5. Owns(h) /\ Target(h) = 0
  BY <1>1, <1>3, <1>4 DEF HandlesOnTheWay
<1>6. /\ handles' = [handles EXCEPT ![h.slot] =
                        IF n = 0 THEN Empty ELSE [handles[h.slot] EXCEPT !.target = n]]
      /\ ~ failed' /\ dev' = [dev EXCEPT !.pc = "reply"]
      /\ UNCHANGED <<counter, free, body, queue, clients, callers, stop>>
  BY <1>5 DEF AssignDispatchTarget, AssertThat, Current
<1>7. dev'.pc = "reply" /\ dev'.cmd = i /\ dev'.client = n
  BY <1>2, <1>6 DEF Typed, DevStates
<1>8. \A j : Served(j)' <=> j = i
  BY <1>7 DEF Served
<1>9. \A j \in Cmds : OnTheWay(j)' => OnTheWay(j) /\ (j = i => n # 0)
  BY <1>3, <1>4, <1>6, <1>7, <1>8 DEF OnTheWay, callers
<1>10. \A s \in Slots \ {h.slot} : handles'[s] = handles[s]
  BY <1>2, <1>6 DEF Typed
<1>11. n = 0 => ~ handles'[h.slot].set
  BY <1>2, <1>3, <1>6 DEF Typed, Empty
<1>12. n # 0 => handles'[h.slot].set /\ handles'[h.slot].check = h /\ handles'[h.slot].target = n
  BY <1>2, <1>3, <1>5, <1>6 DEF Typed, SlotStates, Owns
<1>13. n # 0 => Owns(h)' /\ Target(h)' = n /\ n \in clients /\ \A s \in Slots : handles[s].set => handles[s].target # n
  BY <1>1, <1>3, <1>12 DEF Owns, Target, TargetsExact
<1>14. \A g \in Handles : Owns(g) /\ g # h => Owns(g)' /\ Target(g)' = Target(g)
  <2>1. \A g \in Handles : Owns(g) /\ g # h => g.slot \in Slots \ {h.slot}
    BY <1>5, HandleParts DEF Owns
  <2> QED
    BY <1>10, <2>1 DEF Owns, Target
<1>15. \A g : ~ Closing(g) /\ ~ Closing(g)'
  BY <1>3, <1>6, <1>7 DEF Closing, Current
<1>16. \A c \in Callers : ~ CloseServed(c)
  BY <1>4 DEF CloseServed
<1>17. HandlesOnTheWay'
  <2>1. ASSUME NEW j \in Cmds, OnTheWay(j)'
        PROVE  /\ Owns(body[j].replyHandle)'
               /\ body[j].op = "open" /\ ~ Served(j)' => Target(body[j].replyHandle)' = 0
               /\ body[j].op = "open" /\ Served(j)' =>
                   Target(body[j].replyHandle)' = n /\ n \in clients
               /\ body[j].op # "open" => Target(body[j].replyHandle)' # 0
               /\ body[j].op # "open" /\ ~ Served(j)' => Target(body[j].replyHandle)' \in clients
               /\ body[j].op # "open" /\ (\A d \in Callers : cmd[d] = j => pc[d] # "dispatch") =>
                   body[j].target = Target(body[j].replyHandle)'
    <3>1. CASE j = i
      <4>1. body'[j].replyHandle = h
        BY <1>6, <3>1
      <4>2. Owns(body[j].replyHandle)' /\ Target(body[j].replyHandle)' = n /\ n \in clients
        BY <1>9, <1>13, <2>1, <3>1, <4>1 DEF Owns, Target
      <4> QED
        BY <1>3, <1>8, <3>1, <4>2
    <3>2. CASE j # i
      <4>1. OnTheWay(j) /\ ~ Served(j)
        BY <1>4, <1>9, <2>1
      <4>2. Owns(body[j].replyHandle) /\ body[j].replyHandle \in Handles /\ body[j].replyHandle # h
        BY <1>1, <1>2, <1>4, <3>2, <4>1, HandleFacts DEF HandlesOnTheWay, HandlesApart
      <4>3. Owns(body[j].replyHandle)' /\ Target(body[j].replyHandle)' = Target(body[j].replyHandle)
        BY <1>6, <1>14, <4>2 DEF Owns, Target
      <4> QED
        BY <1>1, <1>8, <3>2, <4>1, <4>3 DEF HandlesOnTheWay
    <3> QED
      BY <3>1, <3>2
  <2> QED
    BY <1>6, <1>7, <2>1 DEF HandlesOnTheWay, callers
<1>18. HandlesApart'
  BY <1>1, <1>6, <1>9 DEF HandlesApart, HasHandle, callers
<1>19. HeldOwned'
  <2>1. ASSUME NEW c \in Callers, HasHandle(c)
        PROVE  Owns(held[c])' /\ Target(held[c])' \in clients
    <3>1. Owns(held[c]) /\ Target(held[c]) \in clients /\ held[c] \in Handles
      BY <1>1, <1>2, <1>16, <2>1, HandleFacts DEF HeldOwned
    <3>2. held[c] # h
      BY <1>2, <1>5, <3>1, HandleFacts
    <3> QED
      BY <1>6, <1>14, <3>1, <3>2 DEF Owns, Target, callers
  <2> QED
    BY <1>6, <2>1 DEF HeldOwned, HasHandle, callers
<1>20. TargetsExact'
  <2>1. ASSUME NEW r \in Slots, NEW s \in Slots, handles'[r].set, handles'[s].set,
               handles'[r].target # 0, handles'[r].target = handles'[s].target
        PROVE  r = s
    <3>1. CASE r # h.slot /\ s # h.slot
      BY <1>1, <1>10, <2>1, <3>1 DEF TargetsExact
    <3>2. CASE r = h.slot \/ s = h.slot
      BY <1>10, <1>11, <1>12, <1>13, <2>1, <3>2
    <3> QED
      BY <3>1, <3>2
  <2>2. ASSUME NEW s \in Slots, handles'[s].set, handles'[s].target # 0, host \in {"run", "ended"} \/ ~ resetDone
        PROVE  handles'[s].target \in clients
    <3>1. CASE s = h.slot
      BY <1>11, <1>12, <1>13, <2>2, <3>1
    <3>2. CASE s # h.slot
      <4>1. handles'[s] = handles[s]
        BY <1>10, <3>2
      <4> QED
        BY <1>1, <1>15, <2>2, <4>1 DEF TargetsExact
    <3> QED
      BY <3>1, <3>2
  <2>3. ASSUME NEW c \in Callers, pc[c] = "claim"
        PROVE  found[c].slot \in Slots /\ found[c].gen = counter /\ ~ handles'[found[c].slot].set
    <3>1. found[c].slot \in Slots /\ found[c].gen = counter /\ ~ handles[found[c].slot].set
      BY <1>1, <2>3 DEF TargetsExact
    <3>2. found[c].slot # h.slot
      BY <1>5, <3>1 DEF Owns
    <3> QED
      BY <1>10, <3>1, <3>2
  <2> QED
    BY <1>6, <1>7, <1>15, <2>1, <2>2, <2>3 DEF TargetsExact, callers, stop
<1> QED
  BY <1>6, <1>17, <1>18, <1>19, <1>20 DEF HandleInvariant

LEMMA AnswerHandles ==
    ASSUME KernelInvariant, Answer
    PROVE  HandleInvariant'
<1>1. PoolInvariant /\ HandlesOnTheWay /\ HandlesApart /\ HeldOwned /\ TargetsExact /\ ~ failed
  BY DEF KernelInvariant, HandleInvariant
<1>2. TypeOK /\ Typed /\ PoolExact /\ CallersExact
  BY <1>1, TypesByName DEF PoolInvariant
<1> PICK i \in Cmds : i = dev.cmd
  BY <1>2, HandleFacts
<1> PICK h \in Handles : h = body[i].replyHandle
  BY <1>2, HandleFacts
<1> PICK c \in Callers : c = body[i].caller
  BY <1>2, HandleFacts
<1> PICK a : a = HeldAfter
  OBVIOUS
<1>3. /\ dev.pc = "reply" /\ dev'.pc = "release" /\ dev'.cmd = i /\ AtDevice(i) /\ Served(i) /\ WithDevice(i)
      /\ UNCHANGED <<handles, counter, free, body, queue, clients, cmd, found, stop, failed>>
  BY <1>2 DEF Answer, Typed, DevStates, AtDevice, Served, WithDevice
<1>4. /\ i \notin ToSet(queue) /\ body[i].title = title
      /\ \A d \in Callers : cmd[d] = i => pc[d] \notin {"dispatch", "send"}
      /\ \A d \in Callers : cmd[d] = i /\ pc[d] = "wait" => d = c
  BY <1>2, <1>3 DEF PoolExact, CallersExact, Inside
<1>5. \/ /\ host = "run" /\ pc[c] = "wait" /\ cmd[c] = i
         /\ pc' = [pc EXCEPT ![c] = "idle"] /\ held' = [held EXCEPT ![c] = a]
      \/ /\ UNCHANGED <<pc, held>> /\ \A d \in Callers : ~ HasHandle(d) /\ pc[d] = "gone"
  <2>1. CASE host = "run"
    BY <1>2, <1>3, <1>4, <2>1 DEF CallersExact, Answer, IsWaiting, Current, Goto
  <2>2. CASE host # "run"
    BY <1>2, <2>2 DEF CallersExact, Answer, IsWaiting, Current
  <2> QED
    BY <2>1, <2>2
<1>6. \A j : ~ Served(j)' /\ (Served(j) <=> j = i)
  BY <1>3 DEF Served
<1>7. \A d \in Callers : pc'[d] = pc[d] \/ (d = c /\ pc[d] = "wait" /\ pc'[d] = "idle")
  BY <1>2, <1>5 DEF Typed
<1>8. \A j \in Cmds : OnTheWay(j)' => OnTheWay(j) /\ j # i
  BY <1>3, <1>4, <1>6, <1>7 DEF OnTheWay
<1>9. \A g : (Owns(g)' <=> Owns(g)) /\ Target(g)' = Target(g) /\ (Closing(g)' <=> Closing(g))
  BY <1>3 DEF Owns, Target, Closing, Current
<1>10. \A d \in Callers : CloseServed(d) => d = c /\ body[i].op = "close"
  BY <1>4, <1>6 DEF CloseServed
<1>11. \A d \in Callers \ {c} : held'[d] = held[d]
  BY <1>2, <1>5 DEF Typed
\* What the answer puts into the hand of its caller.
<1>12. ASSUME host = "run", a # NoHandle
       PROVE  /\ a = h \/ (HasHandle(c) /\ a = held[c])
              /\ Owns(a) /\ Target(a) \in clients /\ OnTheWay(i)
              /\ \A d \in Callers \ {c} : HasHandle(d) => held[d] # a
              /\ \A j \in Cmds : OnTheWay(j) /\ j # i => body[j].replyHandle # a
  <2>1. pc[c] = "wait" /\ cmd[c] = i
    BY <1>2, <1>3, <1>12 DEF CallersExact
  <2>2. CASE body[i].op = "open"
    <3>1. a = h /\ dev.client # 0
      BY <1>12, <2>2 DEF HeldAfter, Current
    <3>2. OnTheWay(i)
      BY <1>6, <3>1 DEF OnTheWay
    <3>3. Owns(h) /\ Target(h) \in clients
      BY <1>1, <1>3, <2>2, <3>2 DEF HandlesOnTheWay
    <3>4. \A d \in Callers : HasHandle(d) /\ held[d] = h => d = c
      BY <1>1, <1>4, <3>2 DEF HandlesApart
    <3> QED
      BY <1>1, <3>1, <3>2, <3>3, <3>4 DEF HandlesApart
  <2>3. CASE body[i].op # "open"
    <3>1. body[i].op = "ioctl" /\ a = held[c] /\ HasHandle(c)
      BY <1>12, <2>3 DEF HeldAfter, Current, HasHandle
    <3>2. Owns(a) /\ Target(a) \in clients
      BY <1>1, <1>10, <3>1 DEF HeldOwned
    <3>3. OnTheWay(i)
      BY <1>6, <2>3 DEF OnTheWay
    <3> QED
      BY <1>1, <2>1, <3>1, <3>2, <3>3 DEF HandlesApart
  <2> QED
    BY <2>2, <2>3
<1>13. HandlesOnTheWay'
  <2>1. ASSUME NEW j \in Cmds, OnTheWay(j)'
        PROVE  /\ OnTheWay(j) /\ ~ Served(j) /\ ~ Served(j)'
               /\ (\A d \in Callers : cmd'[d] = j => pc'[d] # "dispatch")
                     => \A d \in Callers : cmd[d] = j => pc[d] # "dispatch"
    BY <1>3, <1>6, <1>7, <1>8, <2>1
  <2> QED
    BY <1>1, <1>3, <1>9, <2>1 DEF HandlesOnTheWay
<1>14. \A d \in Callers : HasHandle(d)' =>
         \/ d = c /\ held'[d] = a /\ a # NoHandle /\ host = "run"
         \/ d # c /\ HasHandle(d) /\ held'[d] = held[d]
  BY <1>2, <1>5, <1>11 DEF HasHandle, Typed
<1>15. HandlesApart'
  <2>1. \A j, k \in Cmds : OnTheWay(j)' /\ OnTheWay(k)' /\ j # k => body'[j].replyHandle # body'[k].replyHandle
    BY <1>1, <1>3, <1>8 DEF HandlesApart
  <2>2. \A d, e \in Callers : HasHandle(d)' /\ HasHandle(e)' /\ d # e => held'[d] # held'[e]
    BY <1>1, <1>12, <1>14 DEF HandlesApart
  <2>3. ASSUME NEW d \in Callers, NEW j \in Cmds, HasHandle(d)', OnTheWay(j)', held'[d] = body'[j].replyHandle
        PROVE  cmd'[d] = j /\ pc'[d] \in {"dispatch", "send", "wait"}
    <3>1. d # c
      BY <1>3, <1>8, <1>12, <1>14, <2>3
    <3>2. HasHandle(d) /\ held[d] = body[j].replyHandle /\ OnTheWay(j)
      BY <1>3, <1>8, <1>14, <2>3, <3>1
    <3>3. cmd[d] = j /\ pc[d] \in {"dispatch", "send", "wait"}
      BY <1>1, <3>2 DEF HandlesApart
    <3> QED
      BY <1>3, <1>7, <3>1, <3>3
  <2> QED
    BY <2>1, <2>2, <2>3 DEF HandlesApart
<1>16. HeldOwned'
  <2>1. ASSUME NEW d \in Callers, HasHandle(d)' PROVE Owns(held'[d]) /\ Target(held'[d]) \in clients
    BY <1>1, <1>10, <1>12, <1>14, <2>1 DEF HeldOwned
  <2>2. ASSUME NEW d \in Callers, HasHandle(d)' PROVE Owns(held[d])' /\ Target(held[d])' \in clients
    BY <1>3, <2>1, <2>2 DEF Owns, Target
  <2> QED
    BY <1>3, <2>2 DEF HeldOwned
<1>17. TargetsExact'
  <2>1. \A d \in Callers : pc'[d] = "claim" => pc[d] = "claim"
    BY <1>7
  <2> QED
    BY <1>1, <1>3, <1>9, <2>1 DEF TargetsExact, stop
<1> QED
  BY <1>1, <1>3, <1>13, <1>15, <1>16, <1>17 DEF HandleInvariant

LEMMA ReleaseHandles ==
    ASSUME KernelInvariant, ReleaseCommand
    PROVE  HandleInvariant'
<1>1. PoolInvariant /\ HandlesOnTheWay /\ HandlesApart /\ HeldOwned /\ TargetsExact /\ ~ failed
  BY DEF KernelInvariant, HandleInvariant
<1>2. TypeOK /\ Typed
  BY <1>1, TypesByName DEF PoolInvariant
<1>3. /\ dev.pc = "release" /\ dev'.cmd = dev.cmd /\ dev'.handle = Current.replyHandle
      /\ dev'.pc = (IF Current.op = "close" THEN "destroy" ELSE "receive")
      /\ UNCHANGED <<handles, counter, body, queue, clients, callers, stop, failed>>
  BY <1>2 DEF ReleaseCommand, Typed, DevStates
<1>4. \A g : (Owns(g)' <=> Owns(g)) /\ Target(g)' = Target(g) /\ (Closing(g)' <=> Closing(g))
  BY <1>3 DEF Owns, Target, Closing, Current
<1>5. \A j : ~ Served(j) /\ ~ Served(j)' /\ (OnTheWay(j)' => OnTheWay(j))
  BY <1>3 DEF OnTheWay, Served, callers
<1>6. HandlesOnTheWay'
  BY <1>1, <1>3, <1>4, <1>5 DEF HandlesOnTheWay, callers
<1>7. HandlesApart'
  BY <1>1, <1>3, <1>5 DEF HandlesApart, HasHandle, callers
<1>8. HeldOwned'
  <2>1. \A c \in Callers : ~ CloseServed(c)
    BY <1>5 DEF CloseServed
  <2> QED
    BY <1>1, <1>3, <1>4, <2>1 DEF HeldOwned, HasHandle, callers
<1>9. TargetsExact'
  BY <1>1, <1>3, <1>4 DEF TargetsExact, callers, stop
<1> QED
  BY <1>1, <1>3, <1>6, <1>7, <1>8, <1>9 DEF HandleInvariant

LEMMA DestroyHandles ==
    ASSUME KernelInvariant, DestroyHandle
    PROVE  HandleInvariant'
<1>1. PoolInvariant /\ HandlesOnTheWay /\ HandlesApart /\ HeldOwned /\ TargetsExact /\ ~ failed
  BY DEF KernelInvariant, HandleInvariant
<1>2. TypeOK /\ Typed
  BY <1>1, TypesByName DEF PoolInvariant
<1> PICK h \in Handles : h = dev.handle
  BY <1>2, HandleFacts
<1>3. dev.pc = "destroy" /\ h.slot \in Slots
  BY HandleParts DEF DestroyHandle
<1>4. Closing(h) /\ Owns(h) /\ Target(h) \notin clients /\ Target(h) # 0
  BY <1>1, <1>3 DEF Closing, TargetsExact
<1>5. /\ handles' = [handles EXCEPT ![h.slot] = Empty] /\ dev'.pc = "receive"
      /\ UNCHANGED <<counter, free, body, queue, clients, callers, stop, failed>>
  BY <1>2, <1>4 DEF DestroyHandle, Typed, DevStates
<1>6. ~ handles'[h.slot].set /\ \A s \in Slots \ {h.slot} : handles'[s] = handles[s]
  BY <1>2, <1>3, <1>5 DEF Typed, Empty
<1>7. \A g \in Handles : Owns(g) /\ g # h => Owns(g)' /\ Target(g)' = Target(g)
  <2>1. \A g \in Handles : Owns(g) /\ g # h => g.slot \in Slots \ {h.slot}
    BY <1>4, HandleParts DEF Owns
  <2> QED
    BY <1>6, <2>1 DEF Owns, Target
<1>8. \A j : ~ Served(j) /\ ~ Served(j)' /\ (OnTheWay(j)' => OnTheWay(j))
  BY <1>3, <1>5 DEF OnTheWay, Served, callers
<1>9. \A g : ~ Closing(g)' /\ (Closing(g) <=> g = h)
  BY <1>3, <1>5 DEF Closing
<1>10. \A j \in Cmds : OnTheWay(j) => /\ body[j].replyHandle \in Handles /\ body[j].replyHandle # h
                                      /\ Owns(body[j].replyHandle)
  <2>1. ASSUME NEW j \in Cmds, OnTheWay(j) PROVE body[j].replyHandle # h /\ Owns(body[j].replyHandle)
    BY <1>1, <1>4, <1>8, <2>1 DEF HandlesOnTheWay
  <2> QED
    BY <1>2, <2>1, HandleFacts
<1>11. \A c \in Callers : HasHandle(c) => /\ held[c] \in Handles /\ held[c] # h
                                          /\ Owns(held[c]) /\ Target(held[c]) \in clients
  <2>1. \A c \in Callers : ~ CloseServed(c)
    BY <1>8 DEF CloseServed
  <2> QED
    BY <1>1, <1>2, <1>4, <2>1, HandleFacts DEF HeldOwned
<1>12. HandlesOnTheWay'
  <2>1. \A j \in Cmds : OnTheWay(j)' =>
          OnTheWay(j) /\ Owns(body[j].replyHandle)' /\ Target(body[j].replyHandle)' = Target(body[j].replyHandle)
    BY <1>5, <1>7, <1>8, <1>10 DEF Owns, Target
  <2> QED
    BY <1>1, <1>5, <1>8, <2>1 DEF HandlesOnTheWay, callers
<1>13. HandlesApart'
  BY <1>1, <1>5, <1>8 DEF HandlesApart, HasHandle, callers
<1>14. HeldOwned'
  <2>1. \A c \in Callers : HasHandle(c) => Owns(held[c])' /\ Target(held[c])' \in clients
    BY <1>5, <1>7, <1>11 DEF Owns, Target, callers
  <2> QED
    BY <1>5, <2>1 DEF HeldOwned, HasHandle, callers
<1>15. TargetsExact'
  <2>1. \A s \in Slots : handles'[s].set => s # h.slot /\ handles'[s] = handles[s]
    BY <1>6
  <2>2. ASSUME NEW s \in Slots, handles'[s].set, handles'[s].target # 0, host \in {"run", "ended"} \/ ~ resetDone
        PROVE  handles'[s].target \in clients
    BY <1>1, <1>9, <2>1, <2>2 DEF TargetsExact
  <2>3. ASSUME NEW c \in Callers, pc[c] = "claim"
        PROVE  found[c].slot \in Slots /\ found[c].gen = counter /\ ~ handles'[found[c].slot].set
    BY <1>1, <1>6, <2>3 DEF TargetsExact
  <2> QED
    BY <1>1, <1>5, <1>9, <2>1, <2>2, <2>3 DEF TargetsExact, callers, stop
<1> QED
  BY <1>1, <1>5, <1>12, <1>13, <1>14, <1>15 DEF HandleInvariant

LEMMA EndTitleHandles ==
    ASSUME KernelInvariant, EndTitle
    PROVE  HandleInvariant'
<1>1. PoolInvariant /\ HandleInvariant
  BY DEF KernelInvariant
<1>2. TypeOK /\ Typed
  BY <1>1, TypesByName DEF PoolInvariant
<1>3. /\ host = "run" /\ host' = "ended" /\ \A c \in Callers : ~ Inside(c)
      /\ \A c \in Callers : pc'[c] = "gone" /\ held'[c] = NoHandle
      /\ UNCHANGED <<handles, counter, body, queue, clients, cmd, found, dev, resetDone, title, failed>>
  BY DEF EndTitle
<1>4. \A j : OnTheWay(j)' => OnTheWay(j)
  BY <1>3 DEF OnTheWay, Served
<1>5. \A c \in Callers : pc[c] \notin {"dispatch", "send", "claim"} /\ ~ HasHandle(c)'
  BY <1>3 DEF Inside, HasHandle
<1> QED
  BY <1>1, <1>3, <1>4, <1>5, HandlesUntouched

LEMMA SendResetHandles ==
    ASSUME KernelInvariant, SendReset
    PROVE  HandleInvariant'
<1>1. PoolInvariant /\ HandleInvariant
  BY DEF KernelInvariant
<1>2. TypeOK /\ Typed /\ CallersExact
  BY <1>1, TypesByName DEF PoolInvariant
<1>3. /\ host = "ended" /\ queue' = Append(queue, RESET)
      /\ UNCHANGED <<handles, counter, free, body, clients, callers, dev, title, failed>>
  BY DEF SendReset
<1>4. ToSet(queue') = ToSet(queue) \cup {RESET}
  <2>1. queue \in Seq(Cmds \cup {RESET}) /\ NoDuplicates(queue) /\ RESET \notin ToSet(queue)
    BY <1>1, <1>2, <1>3 DEF Typed, PoolInvariant, PoolExact, ResetExact
  <2> QED
    BY <1>3, <2>1, Appended
<1>5. \A j \in Cmds : OnTheWay(j)' <=> OnTheWay(j)
  BY <1>3, <1>4, Sizes DEF OnTheWay, Served, callers
<1>6. \A c \in Callers : pc[c] = "gone" /\ pc'[c] = "gone" /\ ~ HasHandle(c)'
  BY <1>2, <1>3 DEF CallersExact, HasHandle, callers
<1> QED
  BY <1>1, <1>3, <1>5, <1>6, HandlesUntouched DEF callers

LEMMA WaitEndsHandles ==
    ASSUME KernelInvariant, ResetSeen \/ ResetRunsOut
    PROVE  HandleInvariant'
<1>1. PoolInvariant /\ HandleInvariant
  BY DEF KernelInvariant
<1>2. TypeOK /\ Typed /\ CallersExact
  BY <1>1, TypesByName DEF PoolInvariant
<1>3. /\ host = "sent" /\ host' \in {"done", "unmount"}
      /\ UNCHANGED <<handles, counter, free, body, queue, clients, callers, dev, resetDone, title, failed>>
  BY DEF ResetSeen, ResetRunsOut
<1>4. \A j : OnTheWay(j)' <=> OnTheWay(j)
  BY <1>3 DEF OnTheWay, Served, callers
<1>5. \A c \in Callers : pc[c] = "gone" /\ pc'[c] = "gone" /\ ~ HasHandle(c)'
  BY <1>2, <1>3 DEF CallersExact, HasHandle, callers
<1> QED
  BY <1>1, <1>3, <1>4, <1>5, HandlesUntouched DEF callers

\* When the device has seen the reset, it has nothing left to do.
LEMMA Quiet ==
    ASSUME PoolInvariant, resetDone, host \notin {"run", "ended"}
    PROVE  /\ \A j : ~ OnTheWay(j)
           /\ \A h : ~ Closing(h)
           /\ \A c \in Callers : ~ HasHandle(c) /\ pc[c] = "gone"
           /\ dev.pc = "receive" /\ queue = <<>> /\ clients = {}
<1>1. dev.pc = "receive" /\ queue = <<>> /\ clients = {}
  BY DEF PoolInvariant, ResetExact
<1>2. \A c \in Callers : ~ HasHandle(c) /\ pc[c] = "gone"
  BY DEF PoolInvariant, CallersExact
<1>3. ToSet(queue) = {}
  BY <1>1 DEF ToSet
<1> QED
  BY <1>1, <1>2, <1>3 DEF OnTheWay, Closing, Served

LEMMA CloseAllHandles ==
    ASSUME KernelInvariant, IOS_CloseAllHandlesForQueue
    PROVE  HandleInvariant'
<1>1. PoolInvariant /\ HandleInvariant
  BY DEF KernelInvariant
<1>2. /\ host = "done" /\ handles' = [s \in Slots |-> Empty]
      /\ UNCHANGED <<counter, free, body, queue, clients, callers, dev, resetDone, title, failed>>
  BY DEF IOS_CloseAllHandlesForQueue
<1>3. resetDone
  BY <1>1, <1>2 DEF PoolInvariant, ResetExact
<1>4. /\ \A j : ~ OnTheWay(j)' /\ ~ Closing(j)'
      /\ \A c \in Callers : ~ HasHandle(c)' /\ pc'[c] = "gone"
      /\ dev'.pc = "receive"
  BY <1>1, <1>2, <1>3, Quiet DEF OnTheWay, Closing, Served, HasHandle, Current, callers
<1>5. \A s \in Slots : ~ handles'[s].set
  BY <1>2 DEF Empty
<1> QED
  BY <1>1, <1>2, <1>4, <1>5 DEF HandleInvariant, HandlesOnTheWay, HandlesApart, HeldOwned, TargetsExact

LEMMA StartTitleHandles ==
    ASSUME KernelInvariant, LateOnlyAtTheEnd, StartTitle
    PROVE  HandleInvariant'
<1>1. PoolInvariant /\ HandleInvariant
  BY DEF KernelInvariant
<1>2. /\ host = "unmount" /\ title < Titles /\ \A c \in Callers : pc'[c] = "idle"
      /\ UNCHANGED <<handles, counter, free, body, queue, clients, cmd, found, held, dev, resetDone, failed>>
  BY DEF StartTitle
<1>3. resetDone /\ \A s \in Slots : ~ handles[s].set
  <2>1. title \notin LateResets
    <3>1. title \in 1 .. Titles /\ Titles \in Nat
      BY <1>1, TypesByName, Sizes DEF PoolInvariant, Typed
    <3>2. title # Titles
      BY <1>2, <3>1
    <3> QED
      BY <3>2 DEF LateOnlyAtTheEnd
  <2> QED
    BY <1>1, <1>2, <2>1 DEF PoolInvariant, ResetExact
<1>4. /\ \A j : ~ OnTheWay(j)' /\ ~ Closing(j)'
      /\ \A c \in Callers : ~ HasHandle(c)'
      /\ dev'.pc = "receive"
  BY <1>1, <1>2, <1>3, Quiet DEF OnTheWay, Closing, Served, HasHandle, Current
<1> QED
  BY <1>1, <1>2, <1>3, <1>4 DEF HandleInvariant, HandlesOnTheWay, HandlesApart, HeldOwned, TargetsExact

LEMMA HandlesKeep ==
    ASSUME OneHostThread, LateOnlyAtTheEnd, PoolIsLargeEnough, KernelInvariant, [Next]_vars
    PROVE  HandleInvariant'
<1>1. CASE Device
  BY <1>1, ReceiveResetHandles, ReceiveOpenHandles, ReceiveCloseHandles, ReceiveIoctlHandles, AssignHandles,
     AnswerHandles, ReleaseHandles, DestroyHandles DEF Device
<1>2. CASE Host
  BY <1>2, EndTitleHandles, SendResetHandles, WaitEndsHandles, CloseAllHandles, StartTitleHandles DEF Host
<1>3. ASSUME NEW c \in Callers, Caller(c) PROVE HandleInvariant'
  BY <1>3, FindSlotHandles, ClaimSlotHandles, CheckHandleHandles, SendHandles, ErrorHandles DEF Caller
<1>4. CASE UNCHANGED vars
  <2>1. HandleInvariant
    BY DEF KernelInvariant
  <2>2. \A j : (OnTheWay(j)' <=> OnTheWay(j)) /\ (Served(j)' <=> Served(j))
    BY <1>4 DEF vars, callers, OnTheWay, Served
  <2> QED
    BY <1>4, <2>1, <2>2, HandlesUntouched
    DEF vars, callers, stop, CloseServed, HandleInvariant, TargetsExact
<1> QED
  BY <1>1, <1>2, <1>3, <1>4, SubmitHandles DEF Next, Finished

-----------------------------------------------------------------------------
(***************************************************************************)
(* The theorems.                                                           *)
(***************************************************************************)
\* The layer of the pool entries is inductive on its own.
THEOREM PoolInvariantHolds ==
    ASSUME OneHostThread, LateOnlyAtTheEnd
    PROVE  Spec => []PoolInvariant
<1>1. Init => PoolInvariant
  BY InitPool
<1>2. PoolInvariant /\ [Next]_vars => PoolInvariant'
  BY PoolKeeps
<1> QED
  BY <1>1, <1>2, PTL DEF Spec

\* Both layers of the inductive invariant hold.
THEOREM KernelInvariantHolds ==
    ASSUME OneHostThread, LateOnlyAtTheEnd, PoolIsLargeEnough
    PROVE  Spec => []KernelInvariant
<1>1. Init => KernelInvariant
  BY InitPool, InitHandles DEF KernelInvariant
<1>2. KernelInvariant /\ [Next]_vars => KernelInvariant'
  BY PoolKeeps, HandlesKeep DEF KernelInvariant
<1> QED
  BY <1>1, <1>2, PTL DEF Spec

\* The variables keep their types: no queue of the device grows beyond its
\* size, and the counter of the handles stays within the calls of IOS_Open.
THEOREM KernelTypeCorrect ==
    ASSUME OneHostThread, LateOnlyAtTheEnd
    PROVE  Spec => []TypeOK
<1>1. PoolInvariant => TypeOK
  BY DEF PoolInvariant
<1> QED
  BY <1>1, PoolInvariantHolds, PTL

\* No assertion of the kernel or of the device ever fails, and no call meets an
\* empty pool.
THEOREM AssertionsAlwaysHold ==
    ASSUME OneHostThread, LateOnlyAtTheEnd, PoolIsLargeEnough
    PROVE  Spec => []AssertionsHold
<1>1. KernelInvariant => AssertionsHold
  BY DEF KernelInvariant, HandleInvariant, AssertionsHold
<1> QED
  BY <1>1, KernelInvariantHolds, PTL

\* A handle a caller holds and is not closing is one the kernel accepts, stands
\* for a client the device has allocated, and shares it with no other caller's.
THEOREM HeldHandlesAlwaysWork ==
    ASSUME OneHostThread, LateOnlyAtTheEnd, PoolIsLargeEnough
    PROVE  Spec => []HeldHandlesWork
<1>1. ASSUME KernelInvariant PROVE HeldHandlesWork
  <2>1. PoolInvariant /\ HandlesApart /\ HeldOwned /\ TargetsExact
    BY <1>1 DEF KernelInvariant, HandleInvariant
  <2>2. TypeOK
    BY <2>1 DEF PoolInvariant
  <2>3. ASSUME NEW c \in Callers, HasHandle(c), Inside(c) \/ pc[c] = "wait" => body[cmd[c]].op # "close"
        PROVE  Owns(held[c]) /\ Target(held[c]) \in clients
    <3>1. ~ CloseServed(c)
      BY <2>3 DEF CloseServed
    <3> QED
      BY <2>1, <2>3, <3>1 DEF HeldOwned
  <2>4. ASSUME NEW c \in Callers, NEW d \in Callers \ {c}, HasHandle(c), HasHandle(d),
               Owns(held[c]), Target(held[c]) \in clients
        PROVE  Target(held[c]) # Target(held[d])
    <3>1. Owns(held[d]) /\ held[c] # held[d] /\ Target(held[c]) # 0
      BY <2>1, <2>2, <2>4, HandleFacts DEF HeldOwned, HandlesApart
    <3>2. held[c].slot \in Slots /\ held[d].slot \in Slots /\ held[c].slot # held[d].slot
      BY <2>2, <2>4, <3>1, HandleFacts DEF Owns
    <3> QED
      BY <2>1, <2>4, <3>1, <3>2 DEF TargetsExact, Owns, Target
  <2> QED
    BY <2>3, <2>4 DEF HeldHandlesWork, Target
<1> QED
  BY <1>1, KernelInvariantHolds, PTL

\* Nothing is left of a title's clients and handles when it is unmounted, unless
\* the device takes longer than the host waits.
THEOREM AllIsReleasedAtUnmount ==
    ASSUME OneHostThread, LateOnlyAtTheEnd
    PROVE  Spec => []ReleasedAtUnmount
<1>1. PoolInvariant => ReleasedAtUnmount
  BY DEF PoolInvariant, ResetExact, ReleasedAtUnmount
<1> QED
  BY <1>1, PoolInvariantHolds, PTL

\* How often an entry is in a sequence without duplicates.
LEMMA CountOf ==
    ASSUME NEW T, NEW q \in Seq(T), NoDuplicates(q), NEW i
    PROVE  Cardinality({k \in 1 .. Len(q) : q[k] = i}) = (IF i \in ToSet(q) THEN 1 ELSE 0)
<1> DEFINE K == {k \in 1 .. Len(q) : q[k] = i}
<1>1. DOMAIN q = 1 .. Len(q)
  BY LenProperties
<1>2. CASE i \in ToSet(q)
  <2>1. PICK k \in 1 .. Len(q) : q[k] = i
    BY <1>1, <1>2 DEF ToSet
  <2>2. K = {k}
    BY <1>1, <2>1 DEF NoDuplicates
  <2> QED
    BY <1>2, <2>2, FS_Singleton
<1>3. CASE i \notin ToSet(q)
  <2>1. K = {}
    BY <1>1, <1>3 DEF ToSet
  <2> QED
    BY <1>3, <2>1, FS_EmptySet
<1> QED
  BY <1>2, <1>3

\* Every entry of the pool is in exactly one place, and a caller that waits has
\* its own command on the way: no reply is lost, none goes to somebody else.
THEOREM CommandsAreConserved ==
    ASSUME OneHostThread, LateOnlyAtTheEnd
    PROVE  Spec => []CommandsConserved
<1>1. ASSUME PoolInvariant PROVE CommandsConserved
  <2>1. TypeOK /\ Typed /\ PoolExact /\ CallersExact
    BY <1>1, TypesByName DEF PoolInvariant
  <2>2. ASSUME NEW i \in Cmds
        PROVE  Cardinality({k \in 1 .. Len(free) : free[k] = i})
               + Cardinality({k \in 1 .. Len(queue) : queue[k] = i})
               + Cardinality(InHand(i)) + (IF AtDevice(i) THEN 1 ELSE 0) = 1
    <3>1. Cardinality({k \in 1 .. Len(free) : free[k] = i}) = (IF i \in ToSet(free) THEN 1 ELSE 0)
      <4>1. free \in Seq(Cmds) /\ NoDuplicates(free)
        BY <2>1 DEF Typed, PoolExact
      <4> QED
        BY <4>1, CountOf
    <3>2. Cardinality({k \in 1 .. Len(queue) : queue[k] = i}) = (IF i \in ToSet(queue) THEN 1 ELSE 0)
      <4>1. queue \in Seq(Cmds \cup {RESET}) /\ NoDuplicates(queue)
        BY <2>1 DEF Typed, PoolExact
      <4> QED
        BY <4>1, CountOf
    <3>3. Cardinality(InHand(i)) = (IF InHand(i) = {} THEN 0 ELSE 1)
      <4>1. CASE InHand(i) = {}
        BY <4>1, FS_EmptySet
      <4>2. CASE InHand(i) # {}
        <5>1. PICK c : InHand(i) = {c}
          <6>1. PICK c : c \in InHand(i)
            BY <4>2
          <6>2. \A d \in InHand(i) : d = c
            BY <2>1, <6>1 DEF InHand, CallersExact
          <6> QED
            BY <6>1, <6>2
        <5> QED
          BY <4>2, <5>1, FS_Singleton
      <4> QED
        BY <4>1, <4>2
    <3>4. /\ i \in ToSet(free) => i \notin ToSet(queue) /\ ~ AtDevice(i) /\ InHand(i) = {}
          /\ i \in ToSet(queue) => ~ AtDevice(i) /\ InHand(i) = {}
          /\ AtDevice(i) => InHand(i) = {}
          /\ i \in ToSet(free) \/ i \in ToSet(queue) \/ AtDevice(i) \/ InHand(i) # {}
      BY <2>1 DEF PoolExact, InHand
    <3> QED
      BY <3>1, <3>2, <3>3, <3>4
  <2>3. ASSUME NEW c \in Callers, pc[c] = "wait"
        PROVE  body[cmd[c]].caller = c /\ WithDevice(cmd[c])
    BY <2>1, <2>3 DEF CallersExact
  <2> QED
    BY <2>2, <2>3 DEF CommandsConserved, WithDevice
<1> QED
  BY <1>1, PoolInvariantHolds, PTL
=============================================================================

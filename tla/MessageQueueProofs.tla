------------------------- MODULE MessageQueueProofs -------------------------
(***************************************************************************)
(* Proofs about MessageQueue for every number of threads, every assignment *)
(* of priorities and every ring size: type correctness, no lost wakeup,    *)
(* and the ring as an implementation of a double-ended queue.              *)
(***************************************************************************)
EXTENDS MessageQueue, ThreadQueueProofs, FiniteSetTheorems

(***************************************************************************)
(* The inductive invariant.  The bounds on the number of messages are only *)
(* inductive together with the fact that a queued thread is queued once    *)
(* and is not counted as woken.                                            *)
(***************************************************************************)
IInv ==
    /\ TypeOK
    /\ SlotsFilled
    /\ WaitQueuesConsistent
    /\ NoLostReceiver
    /\ NoLostSender

(***************************************************************************)
(* Stepping around the ring: what % MsgCount does to an index.             *)
(***************************************************************************)
LEMMA SlotAfterValue ==
    ASSUME NEW i \in Slots, NEW k \in 0..MsgCount
    PROVE  /\ SlotAfter(i, k) = IF i + k < MsgCount THEN i + k ELSE i + k - MsgCount
           /\ SlotAfter(i, k) \in Slots
<1>1. MsgCount \in Nat /\ MsgCount > 0
  BY MsgCountAssumption
<1>2. CASE i + k < MsgCount
  <2>1. (i + k) % MsgCount = i + k
    BY <1>1, <1>2 DEF Slots
  <2> QED BY <2>1, <1>1, <1>2 DEF SlotAfter, Slots
<1>3. CASE i + k >= MsgCount
  <2>1. (i + k) % MsgCount = i + k - MsgCount
    BY <1>1, <1>3, Z3 DEF Slots
  <2> QED BY <2>1, <1>1, <1>3 DEF SlotAfter, Slots
<1> QED BY <1>1, <1>2, <1>3 DEF Slots

(***************************************************************************)
(* A sequence is the function from its indices to its elements.            *)
(***************************************************************************)
LEMMA SeqAsFunction ==
    ASSUME NEW T, NEW s \in Seq(T)
    PROVE  s = [i \in 1..Len(s) |-> s[i]]
  BY IsASeq, LenProperties

-----------------------------------------------------------------------------
(***************************************************************************)
(* The ring as a double-ended queue: what moving firstIndex and usedCount  *)
(* and writing one slot do to the sequence of messages.                    *)
(***************************************************************************)
RingOK ==
    /\ msgArray \in [Slots -> Messages \cup {NoMessage}]
    /\ firstIndex \in Slots
    /\ usedCount \in 0..MsgCount
    /\ Contents \in Seq(Messages)

LEMMA TakeContents ==
    ASSUME RingOK, NEW t, TakeMessage(t)
    PROVE  /\ Contents # <<>> /\ msgArray[firstIndex] = Head(Contents)
           /\ Contents' = Tail(Contents)
           /\ RingOK'
<1>1. /\ usedCount \in 1..MsgCount /\ usedCount' = usedCount - 1
      /\ firstIndex \in Slots /\ MsgCount \in Nat \ {0}
      /\ firstIndex' = SlotAfter(firstIndex, 1)
      /\ msgArray' = msgArray
  BY MsgCountAssumption DEF RingOK, TakeMessage
<1>2. /\ DOMAIN Contents = 1..usedCount /\ Len(Contents) = usedCount
      /\ Contents # <<>> /\ Contents[1] = msgArray[SlotAfter(firstIndex, 0)]
  BY <1>1, LenProperties DEF Contents, RingOK
<1>3. SlotAfter(firstIndex, 0) = firstIndex
  BY <1>1, SlotAfterValue DEF Slots
<1>4. Head(Contents) = msgArray[firstIndex]
  BY <1>2, <1>3, HeadTailProperties DEF RingOK
<1>5. firstIndex' \in Slots
  BY <1>1, SlotAfterValue
<1>6. \A i \in 1..(usedCount - 1) :
          SlotAfter(firstIndex', i - 1) = SlotAfter(firstIndex, (i + 1) - 1)
  <2> TAKE i \in 1..(usedCount - 1)
  <2>1. i \in 0..MsgCount /\ i - 1 \in 0..MsgCount
    BY <1>1
  <2>2. firstIndex' = IF firstIndex + 1 < MsgCount THEN firstIndex + 1
                                                  ELSE firstIndex + 1 - MsgCount
    BY <1>1, SlotAfterValue
  <2>3. SlotAfter(firstIndex', i - 1) =
            IF firstIndex' + (i - 1) < MsgCount THEN firstIndex' + (i - 1)
                                                ELSE firstIndex' + (i - 1) - MsgCount
    BY <1>5, <2>1, SlotAfterValue
  <2>4. SlotAfter(firstIndex, i) =
            IF firstIndex + i < MsgCount THEN firstIndex + i ELSE firstIndex + i - MsgCount
    BY <1>1, <2>1, SlotAfterValue
  <2>5. (i + 1) - 1 = i
    OBVIOUS
  <2> HIDE DEF SlotAfter
  <2> QED BY <1>1, <2>2, <2>3, <2>4, <2>5 DEF Slots
<1>7. Tail(Contents) \in Seq(Messages) /\ Len(Tail(Contents)) = usedCount - 1
      /\ \A i \in 1..(usedCount - 1) : Tail(Contents)[i] = Contents[i + 1]
  BY <1>1, <1>2, HeadTailProperties DEF RingOK
<1>8. \A i \in 1..(usedCount - 1) :
          Contents[i + 1] = msgArray[SlotAfter(firstIndex, (i + 1) - 1)]
  BY <1>1 DEF Contents
<1>9. Contents' = [i \in 1..(usedCount - 1) |-> msgArray[SlotAfter(firstIndex', i - 1)]]
  BY <1>1 DEF Contents, SlotAfter
<1>10. Contents' = Tail(Contents)
  <2>2. Tail(Contents) = [i \in 1..(usedCount - 1) |-> Tail(Contents)[i]]
    BY SeqAsFunction, <1>7
  <2>3. ASSUME NEW i \in 1..(usedCount - 1)
        PROVE  msgArray[SlotAfter(firstIndex', i - 1)] = Tail(Contents)[i]
    BY <1>6, <1>7, <1>8
  <2> HIDE DEF Contents, SlotAfter
  <2>4. [i \in 1..(usedCount - 1) |-> msgArray[SlotAfter(firstIndex', i - 1)]]
          = [i \in 1..(usedCount - 1) |-> Tail(Contents)[i]]
    BY <2>3
  <2> QED BY <1>9, <2>2, <2>4
<1>11. RingOK'
  BY <1>1, <1>5, <1>7, <1>10 DEF RingOK, Slots
<1> QED BY <1>2, <1>4, <1>10, <1>11

LEMMA PutBehindContents ==
    ASSUME RingOK, usedCount < MsgCount, NEW m \in Messages, PutBehind(m),
           usedCount' = usedCount + 1
    PROVE  Contents' = Append(Contents, m) /\ RingOK'
<1> DEFINE slot == SlotAfter(firstIndex, usedCount)
<1>1. /\ usedCount \in 0..(MsgCount - 1) /\ MsgCount \in Nat \ {0}
      /\ firstIndex \in Slots /\ firstIndex' = firstIndex
      /\ msgArray' = [msgArray EXCEPT ![slot] = m]
      /\ msgArray \in [Slots -> Messages \cup {NoMessage}]
  BY MsgCountAssumption DEF RingOK, PutBehind
<1>2. slot \in Slots
  BY <1>1, SlotAfterValue
<1>3. \A i \in 1..usedCount : SlotAfter(firstIndex, i - 1) \in Slots
                            /\ SlotAfter(firstIndex, i - 1) # slot
  <2> TAKE i \in 1..usedCount
  <2>1. i - 1 \in 0..MsgCount /\ usedCount \in 0..MsgCount
    BY <1>1
  <2>2. SlotAfter(firstIndex, i - 1) =
            IF firstIndex + (i - 1) < MsgCount THEN firstIndex + (i - 1)
                                               ELSE firstIndex + (i - 1) - MsgCount
    BY <1>1, <2>1, SlotAfterValue
  <2>3. slot = IF firstIndex + usedCount < MsgCount THEN firstIndex + usedCount
                                                    ELSE firstIndex + usedCount - MsgCount
    BY <1>1, <2>1, SlotAfterValue
  <2>4. SlotAfter(firstIndex, i - 1) \in Slots
    BY <1>1, <2>1, SlotAfterValue
  <2> HIDE DEF slot
  <2> QED BY <1>1, <2>1, <2>2, <2>3, <2>4 DEF Slots
<1>4. Contents' = [i \in 1..(usedCount + 1) |-> msgArray'[SlotAfter(firstIndex, i - 1)]]
  BY <1>1 DEF Contents, SlotAfter
<1>5. Len(Contents) = usedCount /\ \A i \in 1..usedCount :
                                     Contents[i] = msgArray[SlotAfter(firstIndex, i - 1)]
  BY <1>1, LenProperties DEF Contents, RingOK
<1>6. /\ Append(Contents, m) \in Seq(Messages)
      /\ Len(Append(Contents, m)) = usedCount + 1
      /\ \A i \in 1..(usedCount + 1) :
            Append(Contents, m)[i] = IF i <= usedCount THEN Contents[i] ELSE m
  BY <1>1, <1>5, AppendProperties DEF RingOK
<1>7. ASSUME NEW i \in 1..(usedCount + 1)
      PROVE  msgArray'[SlotAfter(firstIndex, i - 1)] = Append(Contents, m)[i]
  <2>1. CASE i <= usedCount
    <3>1. i \in 1..usedCount
      BY <1>1, <2>1
    <3>2. msgArray'[SlotAfter(firstIndex, i - 1)] = msgArray[SlotAfter(firstIndex, i - 1)]
      BY <1>1, <1>3, <3>1
    <3> QED BY <1>5, <1>6, <2>1, <3>1, <3>2
  <2>2. CASE i = usedCount + 1
    <3>1. i - 1 = usedCount
      BY <1>1, <2>2
    <3>2. msgArray'[slot] = m
      BY <1>1, <1>2
    <3> QED BY <1>1, <1>6, <2>2, <3>1, <3>2
  <2>3. usedCount \in Nat
    BY <1>1
  <2>4. i <= usedCount \/ i = usedCount + 1
    BY <2>3
  <2> QED BY <2>1, <2>2, <2>4
<1>8. Contents' = Append(Contents, m)
  <2> HIDE DEF Contents, SlotAfter, slot
  <2>2. Append(Contents, m) = [i \in 1..(usedCount + 1) |-> Append(Contents, m)[i]]
    BY SeqAsFunction, <1>6
  <2>3. [i \in 1..(usedCount + 1) |-> msgArray'[SlotAfter(firstIndex, i - 1)]]
          = [i \in 1..(usedCount + 1) |-> Append(Contents, m)[i]]
    BY <1>7
  <2> QED BY <1>4, <2>2, <2>3
<1>9. RingOK'
  BY <1>1, <1>2, <1>6, <1>8 DEF RingOK, Slots
<1> QED BY <1>8, <1>9

LEMMA PutInFrontContents ==
    ASSUME RingOK, usedCount < MsgCount, NEW m \in Messages, PutInFront(m),
           usedCount' = usedCount + 1
    PROVE  Contents' = <<m>> \o Contents /\ RingOK'
<1>1. /\ usedCount \in 0..(MsgCount - 1) /\ MsgCount \in Nat \ {0}
      /\ firstIndex \in Slots /\ firstIndex' = SlotAfter(firstIndex, MsgCount - 1)
      /\ msgArray' = [msgArray EXCEPT ![firstIndex'] = m]
      /\ msgArray \in [Slots -> Messages \cup {NoMessage}]
  BY MsgCountAssumption DEF RingOK, PutInFront
<1>2. firstIndex' \in Slots
  BY <1>1, SlotAfterValue
<1>3. firstIndex' = IF firstIndex = 0 THEN MsgCount - 1 ELSE firstIndex - 1
  <2>1. MsgCount - 1 \in 0..MsgCount
    BY <1>1
  <2>2. firstIndex' = IF firstIndex + (MsgCount - 1) < MsgCount
                      THEN firstIndex + (MsgCount - 1)
                      ELSE firstIndex + (MsgCount - 1) - MsgCount
    BY <1>1, <2>1, SlotAfterValue
  <2> QED BY <1>1, <2>2 DEF Slots
<1>4. ASSUME NEW i \in 1..usedCount
      PROVE  /\ SlotAfter(firstIndex', i) = SlotAfter(firstIndex, i - 1)
             /\ SlotAfter(firstIndex', i) # firstIndex'
             /\ SlotAfter(firstIndex', i) \in Slots
  <2>1. i \in 0..MsgCount /\ i - 1 \in 0..MsgCount
    BY <1>1
  <2>2. SlotAfter(firstIndex, i - 1) =
            IF firstIndex + (i - 1) < MsgCount THEN firstIndex + (i - 1)
                                               ELSE firstIndex + (i - 1) - MsgCount
    BY <1>1, <2>1, SlotAfterValue
  <2>3. /\ SlotAfter(firstIndex', i) = IF firstIndex' + i < MsgCount
                                       THEN firstIndex' + i ELSE firstIndex' + i - MsgCount
        /\ SlotAfter(firstIndex', i) \in Slots
    BY <1>2, <2>1, SlotAfterValue
  <2> HIDE DEF SlotAfter
  <2> QED BY <1>1, <1>2, <1>3, <2>1, <2>2, <2>3 DEF Slots
<1>5. SlotAfter(firstIndex', 0) = firstIndex'
  BY <1>1, <1>2, SlotAfterValue DEF Slots
<1>6. Contents' = [i \in 1..(usedCount + 1) |-> msgArray'[SlotAfter(firstIndex', i - 1)]]
  BY <1>1 DEF Contents, SlotAfter
<1>7. Len(Contents) = usedCount /\ \A i \in 1..usedCount :
                                     Contents[i] = msgArray[SlotAfter(firstIndex, i - 1)]
  BY <1>1, LenProperties DEF Contents, RingOK
<1> DEFINE r == <<m>> \o Contents
<1>8. /\ r \in Seq(Messages) /\ Len(r) = usedCount + 1
      /\ r[1] = m
      /\ \A i \in 1..usedCount : r[i + 1] = Contents[i]
  <2>1. <<m>> \in Seq(Messages) /\ Len(<<m>>) = 1 /\ <<m>>[1] = m
    OBVIOUS
  <2>2. Contents \in Seq(Messages)
    BY DEF RingOK
  <2> HIDE DEF Contents
  <2> QED BY <1>1, <1>7, <2>1, <2>2, ConcatProperties
<1> HIDE DEF r
<1>9. ASSUME NEW i \in 1..(usedCount + 1)
      PROVE  msgArray'[SlotAfter(firstIndex', i - 1)] = r[i]
  <2>1. CASE i = 1
    <3>1. i - 1 = 0
      BY <2>1
    <3> QED BY <1>1, <1>2, <1>5, <1>8, <2>1, <3>1
  <2>2. CASE i > 1
    <3>1. i - 1 \in 1..usedCount /\ (i - 1) + 1 = i
      BY <1>1, <2>2
    <3>2. msgArray'[SlotAfter(firstIndex', i - 1)] = msgArray[SlotAfter(firstIndex, (i - 1) - 1)]
      BY <1>1, <1>4, <3>1
    <3>3. r[(i - 1) + 1] = Contents[i - 1]
      BY <1>8, <3>1
    <3> QED BY <1>7, <3>1, <3>2, <3>3
  <2> QED BY <2>1, <2>2, <1>1
<1>10. Contents' = r
  <2> HIDE DEF Contents, SlotAfter
  <2>2. r = [i \in 1..(usedCount + 1) |-> r[i]]
    BY SeqAsFunction, <1>8
  <2>3. [i \in 1..(usedCount + 1) |-> msgArray'[SlotAfter(firstIndex', i - 1)]]
          = [i \in 1..(usedCount + 1) |-> r[i]]
    BY <1>9
  <2> QED BY <1>6, <2>2, <2>3
<1>11. RingOK'
  BY <1>1, <1>2, <1>8, <1>10 DEF RingOK, Slots
<1> QED BY <1>10, <1>11 DEF r

-----------------------------------------------------------------------------
(***************************************************************************)
(* Counting a finite set of threads when one of them leaves or joins it.   *)
(***************************************************************************)
LEMMA CountWithout ==
    ASSUME NEW S, IsFiniteSet(S), NEW x, NEW n \in Nat, n <= Cardinality(S)
    PROVE  n - 1 <= Cardinality(S \ {x})
<1>1. Cardinality(S) \in Nat
  BY FS_CardinalityType
<1>2. Cardinality(S \ {x}) = IF x \in S THEN Cardinality(S) - 1 ELSE Cardinality(S)
  BY FS_RemoveElement
<1> QED BY <1>1, <1>2

LEMMA CountWith ==
    ASSUME NEW S, IsFiniteSet(S), NEW x, x \notin S, NEW n \in Nat, n <= Cardinality(S)
    PROVE  n + 1 <= Cardinality(S \cup {x})
<1>1. Cardinality(S) \in Nat
  BY FS_CardinalityType
<1>2. Cardinality(S \cup {x}) = Cardinality(S) + 1
  BY FS_AddElement
<1> QED BY <1>1, <1>2

LEMMA WokenFinite == IsFiniteSet(WokenReceivers) /\ IsFiniteSet(WokenSenders)
<1>1. WokenReceivers \in SUBSET Threads /\ WokenSenders \in SUBSET Threads
  BY DEF WokenReceivers, WokenSenders
<1> QED BY <1>1, ThreadsAssumption, FS_Subset

(***************************************************************************)
(* wakeupSingleThreadWaitQueue takes at most the head off the queue.       *)
(***************************************************************************)
LEMMA WakeupSingleProperties ==
    ASSUME NEW q \in Seq(Threads), NoDuplicates(q)
    PROVE  /\ WakeupSingle(q) \in Seq(Threads)
           /\ NoDuplicates(WakeupSingle(q))
           /\ ToSet(WakeupSingle(q)) \subseteq ToSet(q)
           /\ WakeupSingle(q) # <<>> =>
                 \E h \in ToSet(q) : /\ h \in Threads
                                     /\ ToSet(WakeupSingle(q)) = ToSet(q) \ {h}
<1>1. CASE q = <<>>
  BY <1>1 DEF WakeupSingle
<1>2. CASE q # <<>>
  BY <1>2, TailProperties DEF WakeupSingle
<1> QED BY <1>1, <1>2

(***************************************************************************)
(* A receive that succeeds consumes at most one wakeup of a receiver and,  *)
(* if senders sleep, produces one for a sender.                            *)
(***************************************************************************)
LEMMA TakeMessagePreserves ==
    ASSUME IInv, NEW t \in Threads, op[t] = "none" \/ t \in WokenReceivers,
           TakeMessage(t)
    PROVE  IInv'
<1>1. /\ usedCount \in 1..MsgCount /\ usedCount' = usedCount - 1
      /\ op' = [op EXCEPT ![t] = "none"] /\ op[t] # "send"
      /\ op \in [Threads -> {"none", "receive", "send"}]
      /\ sendQueue' = WakeupSingle(sendQueue) /\ sendQueue \in Seq(Threads)
      /\ recvQueue' = recvQueue /\ arg' = arg /\ MsgCount \in Nat
  BY MsgCountAssumption DEF IInv, TypeOK, TakeMessage, WokenReceivers
<1>2. RingOK /\ RingOK' /\ SlotsFilled'
  BY TakeContents DEF IInv, TypeOK, SlotsFilled, RingOK
<1>3. WaitQueuesConsistent /\ t \notin ToSet(recvQueue) /\ t \notin ToSet(sendQueue)
  BY <1>1 DEF IInv, WaitQueuesConsistent, WokenReceivers
<1>4. /\ sendQueue' \in Seq(Threads) /\ NoDuplicates(sendQueue')
      /\ ToSet(sendQueue') \subseteq ToSet(sendQueue)
      /\ sendQueue' # <<>> =>
            \E h \in ToSet(sendQueue) : /\ h \in Threads
                                        /\ ToSet(sendQueue') = ToSet(sendQueue) \ {h}
  BY <1>1, <1>3, WakeupSingleProperties DEF WaitQueuesConsistent
<1>5. TypeOK'
  <2>1. msgArray[firstIndex] \in Messages \cup {NoMessage}
    BY <1>2 DEF RingOK
  <2> QED BY <1>1, <1>2, <1>4, <2>1 DEF IInv, TypeOK, TakeMessage, RingOK
<1>6. WaitQueuesConsistent'
  BY <1>1, <1>3, <1>4 DEF WaitQueuesConsistent, ToSet
<1>7. NoLostReceiver'
  <2>1. WokenReceivers' = WokenReceivers \ {t}
    BY <1>1, <1>3 DEF WokenReceivers
  <2>2. recvQueue # <<>> => usedCount - 1 <= Cardinality(WokenReceivers \ {t})
    <3>1. usedCount \in Nat
      BY <1>1
    <3> QED BY <3>1, WokenFinite, CountWithout DEF IInv, NoLostReceiver
  <2> QED BY <1>1, <2>1, <2>2 DEF NoLostReceiver
<1>8. NoLostSender'
  <2> SUFFICES ASSUME sendQueue' # <<>>
               PROVE  MsgCount - usedCount' <= Cardinality(WokenSenders')
    BY <1>1 DEF NoLostSender
  <2>1. PICK h \in ToSet(sendQueue) : h \in Threads /\ ToSet(sendQueue') = ToSet(sendQueue) \ {h}
    BY <1>4
  <2>2. op[h] = "send" /\ h # t
    BY <1>1, <1>3, <2>1 DEF WaitQueuesConsistent
  <2>3. WokenSenders' = WokenSenders \cup {h} /\ h \notin WokenSenders
    BY <1>1, <2>1, <2>2 DEF WokenSenders
  <2>4. sendQueue # <<>>
    BY <2>1 DEF ToSet
  <2>5. MsgCount - usedCount <= Cardinality(WokenSenders) /\ MsgCount - usedCount \in Nat
    BY <1>1, <2>4 DEF IInv, NoLostSender
  <2>6. (MsgCount - usedCount) + 1 <= Cardinality(WokenSenders \cup {h})
    BY <2>3, <2>5, WokenFinite, CountWith
  <2> QED BY <1>1, <2>3, <2>6
<1> QED BY <1>2, <1>5, <1>6, <1>7, <1>8 DEF IInv

(***************************************************************************)
(* A send that succeeds is the mirror image.                               *)
(***************************************************************************)
LEMMA AddMessagePreserves ==
    ASSUME IInv, NEW t \in Threads, op[t] = "none" \/ t \in WokenSenders,
           NEW req \in Requests, AddMessage(t, req)
    PROVE  IInv'
<1>1. /\ usedCount \in 0..(MsgCount - 1) /\ usedCount' = usedCount + 1
      /\ op' = [op EXCEPT ![t] = "none"] /\ op[t] # "receive"
      /\ op \in [Threads -> {"none", "receive", "send"}]
      /\ recvQueue' = WakeupSingle(recvQueue) /\ recvQueue \in Seq(Threads)
      /\ sendQueue' = sendQueue /\ MsgCount \in Nat /\ last' = last
      /\ arg' = [arg EXCEPT ![t] = NoRequest]
      /\ arg \in [Threads -> Requests \cup {NoRequest}]
  BY MsgCountAssumption DEF IInv, TypeOK, AddMessage, WokenSenders
<1>2. RingOK /\ RingOK' /\ SlotsFilled'
  <2>1. RingOK /\ usedCount < MsgCount /\ req.msg \in Messages
    BY <1>1 DEF IInv, TypeOK, SlotsFilled, RingOK, Requests
  <2>2. CASE req.high
    BY <1>1, <2>1, <2>2, PutInFrontContents DEF AddMessage, SlotsFilled, RingOK
  <2>3. CASE ~ req.high
    BY <1>1, <2>1, <2>3, PutBehindContents DEF AddMessage, SlotsFilled, RingOK
  <2> QED BY <2>1, <2>2, <2>3
<1>3. WaitQueuesConsistent /\ t \notin ToSet(recvQueue) /\ t \notin ToSet(sendQueue)
  BY <1>1 DEF IInv, WaitQueuesConsistent, WokenSenders
<1>4. /\ recvQueue' \in Seq(Threads) /\ NoDuplicates(recvQueue')
      /\ ToSet(recvQueue') \subseteq ToSet(recvQueue)
      /\ recvQueue' # <<>> =>
            \E h \in ToSet(recvQueue) : /\ h \in Threads
                                        /\ ToSet(recvQueue') = ToSet(recvQueue) \ {h}
  BY <1>1, <1>3, WakeupSingleProperties DEF WaitQueuesConsistent
<1>5. TypeOK'
  BY <1>1, <1>2, <1>4 DEF IInv, TypeOK, RingOK
<1>6. WaitQueuesConsistent'
  <2>1. /\ NoDuplicates(recvQueue') /\ NoDuplicates(sendQueue')
        /\ \A u \in Threads : op'[u] = "send" => arg'[u] \in Requests
    BY <1>1, <1>3, <1>4 DEF WaitQueuesConsistent
  <2>2. \A u \in ToSet(recvQueue') : op'[u] = "receive"
    BY <1>1, <1>3, <1>4 DEF WaitQueuesConsistent
  <2>3. \A u \in ToSet(sendQueue') : op'[u] = "send"
    BY <1>1, <1>3 DEF WaitQueuesConsistent
  <2> QED BY <2>1, <2>2, <2>3 DEF WaitQueuesConsistent, ToSet
<1>7. NoLostSender'
  <2>1. WokenSenders' = WokenSenders \ {t}
    BY <1>1, <1>3 DEF WokenSenders
  <2>2. sendQueue # <<>> => (MsgCount - usedCount) - 1 <= Cardinality(WokenSenders \ {t})
    <3>1. MsgCount - usedCount \in Nat
      BY <1>1
    <3> QED BY <3>1, WokenFinite, CountWithout DEF IInv, NoLostSender
  <2>3. MsgCount - usedCount' = (MsgCount - usedCount) - 1
    BY <1>1
  <2> QED BY <1>1, <2>1, <2>2, <2>3 DEF NoLostSender
<1>8. NoLostReceiver'
  <2> SUFFICES ASSUME recvQueue' # <<>>
               PROVE  usedCount' <= Cardinality(WokenReceivers')
    BY DEF NoLostReceiver
  <2>1. PICK h \in ToSet(recvQueue) : h \in Threads /\ ToSet(recvQueue') = ToSet(recvQueue) \ {h}
    BY <1>4
  <2>2. op[h] = "receive" /\ h # t
    BY <1>1, <1>3, <2>1 DEF WaitQueuesConsistent
  <2>3. WokenReceivers' = WokenReceivers \cup {h} /\ h \notin WokenReceivers
    BY <1>1, <2>1, <2>2 DEF WokenReceivers
  <2>4. recvQueue # <<>>
    BY <2>1 DEF ToSet
  <2>5. usedCount <= Cardinality(WokenReceivers) /\ usedCount \in Nat
    BY <1>1, <2>4 DEF IInv, NoLostReceiver
  <2>6. usedCount + 1 <= Cardinality(WokenReceivers \cup {h})
    BY <2>3, <2>5, WokenFinite, CountWith
  <2> QED BY <1>1, <2>3, <2>6
<1> QED BY <1>2, <1>5, <1>6, <1>7, <1>8 DEF IInv

(***************************************************************************)
(* Going to sleep on an empty ring: nothing is owed to receivers, and the  *)
(* thread was no sender.                                                   *)
(***************************************************************************)
LEMMA WaitForMessagePreserves ==
    ASSUME IInv, NEW t \in Threads, op[t] = "none" \/ t \in WokenReceivers,
           WaitForMessage(t)
    PROVE  IInv'
<1>1. /\ usedCount = 0 /\ MsgCount \in Nat
      /\ op' = [op EXCEPT ![t] = "receive"] /\ op[t] # "send"
      /\ op \in [Threads -> {"none", "receive", "send"}]
      /\ recvQueue' = AddThreadByPriority(recvQueue, Priority, t)
      /\ recvQueue \in Seq(Threads)
      /\ UNCHANGED <<msgArray, firstIndex, usedCount, sendQueue, arg, last>>
  BY MsgCountAssumption DEF IInv, TypeOK, WaitForMessage, WokenReceivers
<1>2. WaitQueuesConsistent /\ t \notin ToSet(recvQueue) /\ t \notin ToSet(sendQueue)
  BY <1>1 DEF IInv, WaitQueuesConsistent, WokenReceivers
<1>3. /\ recvQueue' \in Seq(Threads) /\ NoDuplicates(recvQueue')
      /\ ToSet(recvQueue') = ToSet(recvQueue) \cup {t}
  <2>1. NoDuplicates(recvQueue) /\ t \notin ToSet(recvQueue) /\ recvQueue \in Seq(Threads)
    BY <1>1, <1>2 DEF WaitQueuesConsistent
  <2> DEFINE r == AddThreadByPriority(recvQueue, Priority, t)
  <2>2. r \in Seq(Threads) /\ NoDuplicates(r) /\ ToSet(r) = ToSet(recvQueue) \cup {t}
    BY <2>1, PriorityAssumption, AddThreadByPriorityProperties
  <2> HIDE DEF r
  <2>3. recvQueue' = r
    BY <1>1 DEF r
  <2> QED BY <2>2, <2>3
<1>4. TypeOK'
  BY <1>1, <1>3 DEF IInv, TypeOK
<1>5. SlotsFilled'
  BY <1>1 DEF IInv, SlotsFilled, Contents
<1>6. WaitQueuesConsistent'
  <2>1. /\ NoDuplicates(recvQueue') /\ NoDuplicates(sendQueue')
        /\ \A u \in Threads : op'[u] = "send" => arg'[u] \in Requests
    BY <1>1, <1>2, <1>3 DEF WaitQueuesConsistent
  <2>2. \A u \in ToSet(recvQueue') : op'[u] = "receive"
    BY <1>1, <1>2, <1>3 DEF WaitQueuesConsistent
  <2>3. \A u \in ToSet(sendQueue') : op'[u] = "send"
    BY <1>1, <1>2 DEF WaitQueuesConsistent
  <2> QED BY <2>1, <2>2, <2>3 DEF WaitQueuesConsistent, ToSet
<1>7. NoLostReceiver'
  <2>1. WokenReceivers' = WokenReceivers \ {t}
    BY <1>1, <1>3 DEF WokenReceivers
  <2>2. Cardinality(WokenReceivers \ {t}) \in Nat
    BY WokenFinite, FS_RemoveElement, FS_CardinalityType
  <2> QED BY <1>1, <2>1, <2>2 DEF NoLostReceiver
<1>8. NoLostSender'
  <2>1. WokenSenders' = WokenSenders
    BY <1>1 DEF WokenSenders
  <2> QED BY <1>1, <2>1 DEF IInv, NoLostSender
<1> QED BY <1>4, <1>5, <1>6, <1>7, <1>8 DEF IInv

LEMMA WaitForSlotPreserves ==
    ASSUME IInv, NEW t \in Threads, op[t] = "none" \/ t \in WokenSenders,
           NEW req \in Requests, WaitForSlot(t, req)
    PROVE  IInv'
<1>1. /\ usedCount = MsgCount /\ MsgCount \in Nat
      /\ op' = [op EXCEPT ![t] = "send"] /\ op[t] # "receive"
      /\ op \in [Threads -> {"none", "receive", "send"}]
      /\ sendQueue' = AddThreadByPriority(sendQueue, Priority, t)
      /\ sendQueue \in Seq(Threads)
      /\ arg' = [arg EXCEPT ![t] = req]
      /\ arg \in [Threads -> Requests \cup {NoRequest}]
      /\ UNCHANGED <<msgArray, firstIndex, usedCount, recvQueue, last>>
  BY MsgCountAssumption DEF IInv, TypeOK, WaitForSlot, WokenSenders
<1>2. WaitQueuesConsistent /\ t \notin ToSet(recvQueue) /\ t \notin ToSet(sendQueue)
  BY <1>1 DEF IInv, WaitQueuesConsistent, WokenSenders
<1>3. /\ sendQueue' \in Seq(Threads) /\ NoDuplicates(sendQueue')
      /\ ToSet(sendQueue') = ToSet(sendQueue) \cup {t}
  <2>1. NoDuplicates(sendQueue) /\ t \notin ToSet(sendQueue) /\ sendQueue \in Seq(Threads)
    BY <1>1, <1>2 DEF WaitQueuesConsistent
  <2> DEFINE r == AddThreadByPriority(sendQueue, Priority, t)
  <2>2. r \in Seq(Threads) /\ NoDuplicates(r) /\ ToSet(r) = ToSet(sendQueue) \cup {t}
    BY <2>1, PriorityAssumption, AddThreadByPriorityProperties
  <2> HIDE DEF r
  <2>3. sendQueue' = r
    BY <1>1 DEF r
  <2> QED BY <2>2, <2>3
<1>4. TypeOK'
  BY <1>1, <1>3 DEF IInv, TypeOK
<1>5. SlotsFilled'
  BY <1>1 DEF IInv, SlotsFilled, Contents
<1>6. WaitQueuesConsistent'
  <2>1. /\ NoDuplicates(recvQueue') /\ NoDuplicates(sendQueue')
        /\ \A u \in Threads : op'[u] = "send" => arg'[u] \in Requests
    BY <1>1, <1>2, <1>3 DEF WaitQueuesConsistent
  <2>2. \A u \in ToSet(sendQueue') : op'[u] = "send"
    BY <1>1, <1>2, <1>3 DEF WaitQueuesConsistent
  <2>3. \A u \in ToSet(recvQueue') : op'[u] = "receive"
    BY <1>1, <1>2 DEF WaitQueuesConsistent
  <2> QED BY <2>1, <2>2, <2>3 DEF WaitQueuesConsistent, ToSet
<1>7. NoLostSender'
  <2>1. WokenSenders' = WokenSenders \ {t}
    BY <1>1, <1>3 DEF WokenSenders
  <2>2. Cardinality(WokenSenders \ {t}) \in Nat
    BY WokenFinite, FS_RemoveElement, FS_CardinalityType
  <2>3. MsgCount - usedCount' = 0
    BY <1>1
  <2> QED BY <2>1, <2>2, <2>3 DEF NoLostSender
<1>8. NoLostReceiver'
  <2>1. WokenReceivers' = WokenReceivers
    BY <1>1 DEF WokenReceivers
  <2> QED BY <1>1, <2>1 DEF IInv, NoLostReceiver
<1> QED BY <1>4, <1>5, <1>6, <1>7, <1>8 DEF IInv

-----------------------------------------------------------------------------
LEMMA InitIInv == Init => IInv
<1> SUFFICES ASSUME Init PROVE IInv
  OBVIOUS
<1>1. TypeOK
  BY MsgCountAssumption DEF Init, TypeOK, Slots
<1>2. SlotsFilled
  BY DEF Init, SlotsFilled, Contents
<1>3. WaitQueuesConsistent
  BY DEF Init, WaitQueuesConsistent, NoDuplicates, ToSet
<1>4. NoLostReceiver /\ NoLostSender
  BY DEF Init, NoLostReceiver, NoLostSender
<1> QED BY <1>1, <1>2, <1>3, <1>4 DEF IInv

LEMMA NextIInv == IInv /\ [Next]_vars => IInv'
<1> SUFFICES ASSUME IInv, [Next]_vars PROVE IInv'
  OBVIOUS
<1>1. ASSUME NEW t \in Threads, OSReceiveMessage(t) PROVE IInv'
  BY <1>1, TakeMessagePreserves, WaitForMessagePreserves DEF OSReceiveMessage
<1>2. ASSUME NEW t \in Threads, ResumeReceive(t) PROVE IInv'
  BY <1>2, TakeMessagePreserves, WaitForMessagePreserves DEF ResumeReceive
<1>3. ASSUME NEW t \in Threads, NEW req \in Requests, OSSendMessage(t, req) PROVE IInv'
  BY <1>3, AddMessagePreserves, WaitForSlotPreserves DEF OSSendMessage
<1>4. ASSUME NEW t \in Threads, ResumeSend(t) PROVE IInv'
  <2>1. arg[t] \in Requests
    BY <1>4 DEF ResumeSend, WokenSenders, IInv, WaitQueuesConsistent
  <2> QED BY <1>4, <2>1, AddMessagePreserves, WaitForSlotPreserves DEF ResumeSend
<1>5. CASE UNCHANGED vars
  BY <1>5 DEF vars, IInv, TypeOK, SlotsFilled, Contents, WaitQueuesConsistent,
              NoLostReceiver, NoLostSender, WokenReceivers, WokenSenders
<1> QED BY <1>1, <1>2, <1>3, <1>4, <1>5 DEF Next

(***************************************************************************)
(* In every behaviour of the queue, with any number of threads, priorities *)
(* and slots: the types hold, no receiver is handed an unwritten slot, a   *)
(* thread waits at most once, and neither a receiver nor a sender sleeps   *)
(* while there is more for its kind to do than woken threads to do it.     *)
(***************************************************************************)
THEOREM MessageQueueInvariant == Spec => []IInv
  BY InitIInv, NextIInv, PTL DEF Spec

THEOREM MessageQueueTypes == Spec => []TypeOK
  BY MessageQueueInvariant, PTL DEF IInv

THEOREM NoLostWakeup == Spec => [](NoLostReceiver /\ NoLostSender)
  BY MessageQueueInvariant, PTL DEF IInv

(***************************************************************************)
(* Each of the properties of OSSendMessage and OSReceiveMessage that the    *)
(* runs check, by itself: a slot that is handed out was filled, a free     *)
(* slot does not wait for a sender that sleeps, and nobody waits twice.    *)
(***************************************************************************)
THEOREM SlotsAreFilled == Spec => []SlotsFilled
  BY MessageQueueInvariant, PTL DEF IInv

THEOREM NoSenderIsLost == Spec => []NoLostSender
  BY MessageQueueInvariant, PTL DEF IInv

THEOREM WaitersAreConsistent == Spec => []WaitQueuesConsistent
  BY MessageQueueInvariant, PTL DEF IInv

(***************************************************************************)
(* The ring with its indices implements the bounded double-ended queue.    *)
(***************************************************************************)
THEOREM RingImplementsDeque == Spec => ImplementsDeque
<1>1. Init => Deque!Init
  BY DEF Init, Deque!Init, Contents
<1>2. ASSUME IInv, [Next]_vars PROVE [Deque!Next]_<<Contents, last>>
  <2>1. RingOK
    BY <1>2 DEF IInv, TypeOK, SlotsFilled, RingOK
  <2>2. ASSUME NEW t \in Threads, TakeMessage(t) PROVE Deque!Next
    BY <2>1, <2>2, TakeContents DEF TakeMessage, Deque!Next, Deque!Receive
  <2>3. ASSUME NEW t \in Threads, NEW req \in Requests, AddMessage(t, req)
        PROVE  Deque!Next
    <3>1. /\ usedCount < MsgCount /\ req.msg \in Messages /\ last' = last
          /\ usedCount' = usedCount + 1
      BY <2>3 DEF AddMessage, Requests
    <3>2. Len(Contents) < MsgCount
      BY <2>1, <3>1, LenProperties DEF RingOK, Contents
    <3>3. CASE req.high
      <4>1. Contents' = <<req.msg>> \o Contents
        BY <2>1, <2>3, <3>1, <3>3, PutInFrontContents DEF AddMessage
      <4> QED BY <3>1, <3>2, <4>1 DEF Deque!Next, Deque!SendHighPriority
    <3>4. CASE ~ req.high
      <4>1. Contents' = Append(Contents, req.msg)
        BY <2>1, <2>3, <3>1, <3>4, PutBehindContents DEF AddMessage
      <4> QED BY <3>1, <3>2, <4>1 DEF Deque!Next, Deque!Send
    <3> QED BY <3>3, <3>4
  <2>4. ASSUME UNCHANGED <<msgArray, firstIndex, usedCount, last>>
        PROVE  UNCHANGED <<Contents, last>>
    BY <2>4 DEF Contents
  <2>5. ASSUME NEW t \in Threads, OSReceiveMessage(t) \/ ResumeReceive(t)
        PROVE  [Deque!Next]_<<Contents, last>>
    BY <2>2, <2>4, <2>5 DEF OSReceiveMessage, ResumeReceive, WaitForMessage
  <2>6. ASSUME NEW t \in Threads, NEW req \in Requests, OSSendMessage(t, req)
        PROVE  [Deque!Next]_<<Contents, last>>
    BY <2>3, <2>4, <2>6 DEF OSSendMessage, WaitForSlot
  <2>7. ASSUME NEW t \in Threads, ResumeSend(t)
        PROVE  [Deque!Next]_<<Contents, last>>
    <3>1. arg[t] \in Requests
      BY <1>2, <2>7 DEF ResumeSend, WokenSenders, IInv, WaitQueuesConsistent
    <3> QED BY <2>3, <2>4, <2>7, <3>1 DEF ResumeSend, WaitForSlot
  <2>8. CASE UNCHANGED vars
    BY <2>4, <2>8 DEF vars
  <2> QED BY <1>2, <2>5, <2>6, <2>7, <2>8 DEF Next
<1> QED BY <1>1, <1>2, MessageQueueInvariant, PTL DEF Spec, Deque!Spec, ImplementsDeque
=============================================================================

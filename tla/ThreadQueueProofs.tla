-------------------------- MODULE ThreadQueueProofs --------------------------
(***************************************************************************)
(* What the operations on thread queues return.                            *)
(***************************************************************************)
EXTENDS ThreadQueue, WellFoundedInduction, SequenceTheorems, TLAPS

(***************************************************************************)
(* A set of natural numbers with an upper bound has a largest element.     *)
(***************************************************************************)
LEMMA LargestElement ==
    ASSUME NEW n \in Nat, NEW S \in SUBSET (0..n), S # {}
    PROVE  \E k \in S : \A i \in S : i <= k
<1> DEFINE T == {n - k : k \in S}
<1>1. T \subseteq Nat /\ T # {}
  <2>1. \A k \in S : n - k \in Nat
    OBVIOUS
  <2> QED BY <2>1
<1>2. PICK x \in T : \A y \in T : ~ (<<y, x>> \in OpToRel(<, Nat))
  BY <1>1, NatLessThanWellFounded, WFMin
<1>3. \A y \in T : ~ (y < x)
  BY <1>1, <1>2 DEF OpToRel
<1>4. PICK k \in S : x = n - k
  BY <1>2
<1>5. ASSUME NEW i \in S PROVE i <= k
  <2>1. n - i \in T /\ ~ (n - i < x)
    BY <1>3
  <2> QED BY <2>1, <1>4
<1> QED BY <1>5, <1>4

(***************************************************************************)
(* The walk of addThreadByPriority ends, and ends where its loop condition *)
(* says.                                                                   *)
(***************************************************************************)
LEMMA ThreadsAheadProperties ==
    ASSUME NEW T, NEW q \in Seq(T), NEW prio \in [T -> Int], NEW t \in T
    PROVE  LET k == ThreadsAhead(q, prio, t)
           IN  /\ k \in 0..Len(q)
               /\ \A i \in (k+1)..Len(q) : prio[q[i]] > prio[t]
               /\ k > 0 => prio[q[k]] <= prio[t]
<1> DEFINE S == {0} \cup {i \in 1..Len(q) : prio[q[i]] <= prio[t]}
<1>1. \A i \in 1..Len(q) : q[i] \in T /\ prio[q[i]] \in Int
  BY ElementOfSeq
<1>2. PICK k \in S : \A i \in S : i <= k
  <2>1. Len(q) \in Nat /\ S \in SUBSET (0..Len(q)) /\ S # {}
    BY LenProperties
  <2> HIDE DEF S
  <2> QED BY <2>1, LargestElement
<1>3. k \in 0..Len(q)
  BY <1>2, LenProperties
<1>4. \A i \in (k+1)..Len(q) : prio[q[i]] > prio[t]
  <2> TAKE i \in (k+1)..Len(q)
  <2>1. i \in 1..Len(q) /\ i \notin S
    BY <1>2, <1>3, LenProperties
  <2> QED BY <2>1, <1>1
<1>5. k > 0 => prio[q[k]] <= prio[t]
  BY <1>2
<1> HIDE DEF S
<1> QED BY <1>3, <1>4, <1>5 DEF ThreadsAhead

(***************************************************************************)
(* InsertAt, element by element.                                           *)
(***************************************************************************)
LEMMA InsertAtElements ==
    ASSUME NEW T, NEW q \in Seq(T), NEW t \in T, NEW k \in 0..Len(q)
    PROVE  /\ InsertAt(q, k + 1, t) \in Seq(T)
           /\ Len(InsertAt(q, k + 1, t)) = Len(q) + 1
           /\ \A i \in 1..(Len(q) + 1) :
                 InsertAt(q, k + 1, t)[i] =
                     IF i <= k THEN q[i] ELSE IF i = k + 1 THEN t ELSE q[i - 1]
<1> DEFINE a == SubSeq(q, 1, k)
           b == SubSeq(q, k + 1, Len(q))
<1>1. /\ a \in Seq(T) /\ Len(a) = k
      /\ \A i \in 1..k : a[i] = q[i]
  BY SubSeqProperties, LenProperties
<1>2. /\ b \in Seq(T) /\ Len(b) = Len(q) - k
      /\ \A i \in 1..(Len(q) - k) : b[i] = q[k + i]
  BY SubSeqProperties, LenProperties
<1>3. InsertAt(q, k + 1, t) = (a \o <<t>>) \o b
  <2>1. (k + 1) - 1 = k
    BY LenProperties
  <2> QED BY <2>1 DEF InsertAt
<1> HIDE DEF a, b
<1>4. /\ a \o <<t>> \in Seq(T) /\ Len(a \o <<t>>) = k + 1
      /\ \A i \in 1..(k + 1) : (a \o <<t>>)[i] = IF i <= k THEN q[i] ELSE t
  BY <1>1, ConcatProperties
<1> DEFINE ab == a \o <<t>>
<1>5. ab \in Seq(T) /\ Len(ab) = k + 1 /\ InsertAt(q, k + 1, t) = ab \o b
  BY <1>3, <1>4
<1>6. \A i \in 1..(k + 1) : ab[i] = IF i <= k THEN q[i] ELSE t
  BY <1>4
<1> HIDE DEF ab
<1>7. /\ ab \o b \in Seq(T) /\ Len(ab \o b) = Len(ab) + Len(b)
      /\ \A i \in 1..(Len(ab) + Len(b)) :
            (ab \o b)[i] = IF i <= Len(ab) THEN ab[i] ELSE b[i - Len(ab)]
  BY <1>2, <1>5, ConcatProperties
<1>8. Len(q) \in Nat /\ Len(ab) + Len(b) = Len(q) + 1
  BY <1>2, <1>5, LenProperties
<1>9. \A i \in (k + 2)..(Len(q) + 1) : b[i - (k + 1)] = q[i - 1]
  <2> TAKE i \in (k + 2)..(Len(q) + 1)
  <2>1. i - (k + 1) \in 1..(Len(q) - k) /\ k + (i - (k + 1)) = i - 1
    BY <1>8
  <2> QED BY <2>1, <1>2
<1>10. ASSUME NEW i \in 1..(Len(q) + 1)
       PROVE  (ab \o b)[i] = IF i <= k THEN q[i] ELSE IF i = k + 1 THEN t ELSE q[i - 1]
  BY <1>5, <1>6, <1>7, <1>8, <1>9
<1> QED BY <1>5, <1>7, <1>8, <1>10

(***************************************************************************)
(* addThreadByPriority adds exactly the thread and keeps the queue free of *)
(* duplicates and sorted; a thread that arrives later stays behind the     *)
(* threads of its own priority.                                            *)
(***************************************************************************)
LEMMA AddThreadByPriorityProperties ==
    ASSUME NEW T, NEW q \in Seq(T), NEW prio \in [T -> Int], NEW t \in T
    PROVE  LET r == AddThreadByPriority(q, prio, t)
           IN  /\ r \in Seq(T)
               /\ Len(r) = Len(q) + 1
               /\ ToSet(r) = ToSet(q) \cup {t}
               /\ NoDuplicates(q) /\ t \notin ToSet(q) => NoDuplicates(r)
               /\ SortedByPriority(q, prio) => SortedByPriority(r, prio)
<1> DEFINE k == ThreadsAhead(q, prio, t)
           r == InsertAt(q, k + 1, t)
<1>1. /\ k \in 0..Len(q)
      /\ \A i \in (k+1)..Len(q) : prio[q[i]] > prio[t]
      /\ k > 0 => prio[q[k]] <= prio[t]
  BY ThreadsAheadProperties
<1> HIDE DEF k
<1>2. /\ r \in Seq(T) /\ Len(r) = Len(q) + 1
      /\ \A i \in 1..(Len(q) + 1) :
            r[i] = IF i <= k THEN q[i] ELSE IF i = k + 1 THEN t ELSE q[i - 1]
  <2>1. k \in 0..Len(q)
    BY <1>1
  <2> QED BY <2>1, InsertAtElements
<1> HIDE DEF r
<1>3. DOMAIN q = 1..Len(q) /\ DOMAIN r = 1..(Len(q) + 1) /\ Len(q) \in Nat
  BY <1>2, LenProperties
<1>4. \A i \in 1..Len(q) : prio[q[i]] \in Int
  BY ElementOfSeq
<1>5. ToSet(r) = ToSet(q) \cup {t}
  <2>1. ASSUME NEW i \in 1..Len(q) PROVE q[i] \in ToSet(r)
    <3>1. CASE i <= k
      <4>1. i \in DOMAIN r /\ r[i] = q[i]
        BY <3>1, <1>1, <1>2, <1>3
      <4> QED BY <4>1 DEF ToSet
    <3>2. CASE i > k
      <4>1. i + 1 \in DOMAIN r /\ r[i + 1] = q[i]
        BY <3>2, <1>1, <1>2, <1>3
      <4> QED BY <4>1 DEF ToSet
    <3> QED BY <3>1, <3>2, <1>1
  <2>2. t \in ToSet(r)
    <3>1. k + 1 \in DOMAIN r /\ r[k + 1] = t
      BY <1>1, <1>2, <1>3
    <3> QED BY <3>1 DEF ToSet
  <2>3. ASSUME NEW i \in 1..(Len(q) + 1) PROVE r[i] \in ToSet(q) \cup {t}
    <3>1. CASE i <= k
      <4>1. i \in DOMAIN q /\ r[i] = q[i]
        BY <3>1, <1>1, <1>2, <1>3
      <4> QED BY <4>1 DEF ToSet
    <3>2. CASE i > k + 1
      <4>1. i - 1 \in DOMAIN q /\ r[i] = q[i - 1]
        BY <3>2, <1>1, <1>2, <1>3
      <4> QED BY <4>1 DEF ToSet
    <3>3. CASE i = k + 1
      <4>1. r[i] = t
        BY <3>3, <1>1, <1>2, <1>3
      <4> QED BY <4>1
    <3> QED BY <3>1, <3>2, <3>3, <1>1
  <2>4. ToSet(q) \subseteq ToSet(r)
    BY <2>1, <1>3 DEF ToSet
  <2>5. ToSet(r) \subseteq ToSet(q) \cup {t}
    BY <2>3, <1>3 DEF ToSet
  <2> QED BY <2>2, <2>4, <2>5
<1> DEFINE o(i) == IF i <= k THEN i ELSE i - 1
<1>8. ASSUME NEW i \in DOMAIN r
      PROVE  IF i = k + 1 THEN r[i] = t ELSE r[i] = q[o(i)] /\ o(i) \in 1..Len(q)
  BY SMTT(30), <1>1, <1>2, <1>3
<1>6. ASSUME NoDuplicates(q), t \notin ToSet(q) PROVE NoDuplicates(r)
  <2>1. \A i \in 1..Len(q) : q[i] # t
    BY <1>6, <1>3 DEF ToSet
  <2>2. \A i, j \in 1..Len(q) : q[i] = q[j] => i = j
    BY <1>6, <1>3 DEF NoDuplicates
  <2>3. ASSUME NEW i \in DOMAIN r, NEW j \in DOMAIN r, r[i] = r[j] PROVE i = j
    <3>1. CASE i = k + 1
      BY <3>1, <2>3, <2>1, <1>8
    <3>2. CASE j = k + 1
      BY <3>2, <2>3, <2>1, <1>8
    <3>3. CASE i # k + 1 /\ j # k + 1
      <4>1. q[o(i)] = q[o(j)] /\ o(i) \in 1..Len(q) /\ o(j) \in 1..Len(q)
        BY <3>3, <2>3, <1>8
      <4>2. o(i) = o(j)
        BY <4>1, <2>2
      <4> QED BY <4>2, <3>3, <1>1, <1>3
    <3> QED BY <3>1, <3>2, <3>3
  <2> QED BY <2>3 DEF NoDuplicates
<1>7. ASSUME SortedByPriority(q, prio) PROVE SortedByPriority(r, prio)
  <2>1. \A i, j \in 1..Len(q) : i < j => prio[q[i]] <= prio[q[j]]
    BY <1>7, <1>3 DEF SortedByPriority
  <2>2. \A i \in 1..k : prio[q[i]] <= prio[t]
    BY <2>1, <1>1, <1>3, <1>4
  <2>3. ASSUME NEW i \in DOMAIN r, NEW j \in DOMAIN r, i < j
        PROVE  prio[r[i]] <= prio[r[j]]
    <3>1. CASE i = k + 1
      <4>1. r[i] = t /\ r[j] = q[j - 1] /\ j - 1 \in (k + 1)..Len(q)
        BY <3>1, <2>3, <1>1, <1>2, <1>3
      <4> QED BY <4>1, <1>1, <1>4, <1>3
    <3>2. CASE j = k + 1
      <4>1. r[j] = t /\ r[i] = q[i] /\ i \in 1..k
        BY <3>2, <2>3, <1>1, <1>2, <1>3
      <4> QED BY <4>1, <2>2
    <3>3. CASE i # k + 1 /\ j # k + 1
      <4>1. /\ r[i] = q[o(i)] /\ r[j] = q[o(j)]
            /\ o(i) \in 1..Len(q) /\ o(j) \in 1..Len(q)
        BY <3>3, <2>3, <1>8
      <4>2. o(i) < o(j)
        BY <3>3, <2>3, <1>1, <1>3
      <4> QED BY <4>1, <4>2, <2>1
    <3> QED BY <3>1, <3>2, <3>3
  <2> QED BY <2>3 DEF SortedByPriority
<1> QED BY <1>2, <1>5, <1>6, <1>7 DEF AddThreadByPriority, k, r

(***************************************************************************)
(* addThread of a thread that is not on the queue.                         *)
(***************************************************************************)
LEMMA AddThreadProperties ==
    ASSUME NEW T, NEW q \in Seq(T), NEW t \in T
    PROVE  /\ AddThread(q, t) \in Seq(T)
           /\ Len(AddThread(q, t)) = Len(q) + 1
           /\ ToSet(AddThread(q, t)) = ToSet(q) \cup {t}
           /\ NoDuplicates(q) /\ t \notin ToSet(q) => NoDuplicates(AddThread(q, t))
<1> DEFINE r == Append(q, t)
<1>1. /\ r \in Seq(T) /\ Len(r) = Len(q) + 1 /\ Len(q) \in Nat
      /\ \A i \in 1..Len(q) : r[i] = q[i]
      /\ r[Len(q) + 1] = t
  BY AppendProperties, LenProperties
<1> HIDE DEF r
<1>2. DOMAIN q = 1..Len(q) /\ DOMAIN r = 1..(Len(q) + 1)
  BY <1>1, LenProperties
<1>3. ToSet(r) = ToSet(q) \cup {t}
  <2>1. ASSUME NEW i \in DOMAIN r PROVE r[i] \in ToSet(q) \cup {t}
    BY <1>1, <1>2 DEF ToSet
  <2>2. ASSUME NEW i \in DOMAIN q PROVE q[i] \in ToSet(r)
    <3>1. i \in DOMAIN r /\ r[i] = q[i]
      BY <1>1, <1>2
    <3> QED BY <3>1 DEF ToSet
  <2>3. t \in ToSet(r)
    <3>1. Len(q) + 1 \in DOMAIN r /\ r[Len(q) + 1] = t
      BY <1>1, <1>2
    <3> QED BY <3>1 DEF ToSet
  <2>4. ToSet(r) \subseteq ToSet(q) \cup {t}
    BY <2>1 DEF ToSet
  <2>5. ToSet(q) \subseteq ToSet(r)
    BY <2>2 DEF ToSet
  <2> QED BY <2>3, <2>4, <2>5
<1>4. ASSUME NoDuplicates(q), t \notin ToSet(q) PROVE NoDuplicates(r)
  <2>1. \A i \in 1..Len(q) : q[i] # t
    BY <1>4, <1>2 DEF ToSet
  <2>2. \A i, j \in 1..Len(q) : q[i] = q[j] => i = j
    BY <1>4, <1>2 DEF NoDuplicates
  <2> QED BY <2>1, <2>2, <1>1, <1>2 DEF NoDuplicates
<1> QED BY <1>1, <1>3, <1>4 DEF AddThread, r

(***************************************************************************)
(* removeThread of a thread that is on the queue once.                     *)
(***************************************************************************)
LEMMA RemoveThreadProperties ==
    ASSUME NEW T, NEW q \in Seq(T), NEW t \in ToSet(q), NoDuplicates(q)
    PROVE  /\ RemoveThread(q, t) \in Seq(T)
           /\ Len(RemoveThread(q, t)) = Len(q) - 1
           /\ ToSet(RemoveThread(q, t)) = ToSet(q) \ {t}
           /\ NoDuplicates(RemoveThread(q, t))
<1> DEFINE k == CHOOSE i \in DOMAIN q : q[i] = t
           a == SubSeq(q, 1, k - 1)
           b == SubSeq(q, k + 1, Len(q))
           r == a \o b
<1>1. k \in DOMAIN q /\ q[k] = t
  <2>1. \E i \in DOMAIN q : q[i] = t
    BY DEF ToSet
  <2> QED BY <2>1
<1> HIDE DEF k
<1>2. Len(q) \in Nat /\ DOMAIN q = 1..Len(q) /\ k \in 1..Len(q)
  BY <1>1, LenProperties
<1>3. /\ a \in Seq(T) /\ Len(a) = k - 1
      /\ \A i \in 1..(k - 1) : a[i] = q[i]
  BY <1>2, SubSeqProperties
<1>4. /\ b \in Seq(T) /\ Len(b) = Len(q) - k
      /\ \A i \in 1..(Len(q) - k) : b[i] = q[k + i]
  <2>1. k + 1 \in Int /\ Len(q) \in Int /\ \A i \in (k + 1)..Len(q) : q[i] \in T
    BY <1>2, ElementOfSeq
  <2>2. /\ b \in Seq(T)
        /\ Len(b) = IF k + 1 <= Len(q) THEN Len(q) - (k + 1) + 1 ELSE 0
        /\ \A i \in 1..(Len(q) - (k + 1) + 1) : b[i] = q[(k + 1) + i - 1]
    BY <2>1, SubSeqProperties
  <2> HIDE DEF b
  <2>4. Len(q) - (k + 1) + 1 = Len(q) - k
    BY <1>2
  <2>5. Len(b) = Len(q) - k
    <3> DEFINE lb == Len(b)
               lq == Len(q)
    <3>1. lb = IF k + 1 <= lq THEN lq - (k + 1) + 1 ELSE 0
      BY <2>2
    <3>2. lq \in Nat /\ k \in 1..lq
      BY <1>2
    <3> HIDE DEF lb, lq
    <3>3. k + 1 <= lq => lb = lq - k
      BY <3>1, <3>2
    <3>4. ~ (k + 1 <= lq) => lb = 0 /\ k = lq
      BY <3>1, <3>2
    <3>5. lb = lq - k
      BY <3>2, <3>3, <3>4
    <3> QED BY <3>5 DEF lb, lq
  <2>6. ASSUME NEW i \in 1..(Len(q) - k) PROVE b[i] = q[k + i]
    <3>1. (k + 1) + i - 1 = k + i
      BY <1>2
    <3> QED BY <3>1, <2>2, <2>4
  <2> QED BY <2>2, <2>5, <2>6
<1>5. RemoveThread(q, t) = r
  BY DEF RemoveThread, RemoveAt, k
<1> HIDE DEF a, b
<1>6. /\ r \in Seq(T) /\ Len(r) = Len(a) + Len(b)
      /\ \A i \in 1..(Len(a) + Len(b)) : r[i] = IF i <= Len(a) THEN a[i] ELSE b[i - Len(a)]
  BY <1>3, <1>4, ConcatProperties
<1> HIDE DEF r
<1>7. Len(r) = Len(q) - 1 /\ DOMAIN r = 1..(Len(q) - 1)
  BY <1>2, <1>3, <1>4, <1>6, LenProperties
<1>8. \A i \in 1..(Len(q) - 1) : r[i] = IF i < k THEN q[i] ELSE q[i + 1]
  <2> TAKE i \in 1..(Len(q) - 1)
  <2> DEFINE la == Len(a)
             lb == Len(b)
  <2>3. /\ la = k - 1 /\ lb = Len(q) - k
        /\ \A j \in 1..(la + lb) : r[j] = IF j <= la THEN a[j] ELSE b[j - la]
    BY <1>3, <1>4, <1>6
  <2> HIDE DEF la, lb
  <2>4. i \in 1..(la + lb) /\ r[i] = IF i <= k - 1 THEN a[i] ELSE b[i - (k - 1)]
    BY <2>3, <1>2
  <2>1. CASE i < k
    BY <2>1, <2>4, <1>2, <1>3
  <2>2. CASE i >= k
    <3>1. r[i] = b[i - (k - 1)]
      BY <2>2, <2>4, <1>2
    <3>2. i - (k - 1) \in 1..(Len(q) - k) /\ k + (i - (k - 1)) = i + 1
      BY <2>2, <1>2
    <3> QED BY <3>1, <3>2, <2>2, <1>2, <1>4
  <2> QED BY <2>1, <2>2, <1>2
<1>9. \A i, j \in 1..Len(q) : q[i] = q[j] => i = j
  BY <1>2 DEF NoDuplicates
<1>10. ToSet(r) \subseteq ToSet(q) \ {t}
  <2>1. ASSUME NEW i \in 1..(Len(q) - 1) PROVE r[i] \in ToSet(q) \ {t}
    <3>1. CASE i < k
      <4>1. i \in DOMAIN q /\ r[i] = q[i] /\ i # k
        BY <3>1, <1>2, <1>8
      <4> QED BY <4>1, <1>1, <1>2, <1>9 DEF ToSet
    <3>2. CASE i >= k
      <4>1. i + 1 \in DOMAIN q /\ r[i] = q[i + 1] /\ i + 1 # k
        BY <3>2, <1>2, <1>8
      <4> QED BY <4>1, <1>1, <1>2, <1>9 DEF ToSet
    <3> QED BY <3>1, <3>2, <1>2
  <2> QED BY <2>1, <1>7 DEF ToSet
<1>11. ToSet(q) \ {t} \subseteq ToSet(r)
  <2>1. ASSUME NEW i \in 1..Len(q), q[i] # t PROVE q[i] \in ToSet(r)
    <3>1. CASE i < k
      <4>1. i \in DOMAIN r /\ r[i] = q[i]
        BY <3>1, <1>2, <1>7, <1>8
      <4> QED BY <4>1 DEF ToSet
    <3>2. CASE i > k
      <4>1. i - 1 \in DOMAIN r /\ r[i - 1] = q[i]
        BY <3>2, <1>2, <1>7, <1>8
      <4> QED BY <4>1 DEF ToSet
    <3> QED BY <3>1, <3>2, <2>1, <1>1, <1>2
  <2> QED BY <2>1, <1>2 DEF ToSet
<1>12. NoDuplicates(r)
  <2>1. ASSUME NEW i \in DOMAIN r, NEW j \in DOMAIN r, r[i] = r[j] PROVE i = j
    <3> DEFINE o(n) == IF n < k THEN n ELSE n + 1
    <3>1. /\ r[i] = q[o(i)] /\ r[j] = q[o(j)]
          /\ o(i) \in 1..Len(q) /\ o(j) \in 1..Len(q)
      BY <1>2, <1>7, <1>8
    <3>2. o(i) = o(j)
      BY <3>1, <2>1, <1>9
    <3> QED BY <3>2, <1>2, <1>7
  <2> QED BY <2>1 DEF NoDuplicates
<1> QED BY <1>5, <1>6, <1>7, <1>10, <1>11, <1>12

(***************************************************************************)
(* A queue that is not empty has a first thread of the best priority.      *)
(***************************************************************************)
LEMMA FirstOfBestPriority ==
    ASSUME NEW T, NEW q \in Seq(T), q # <<>>, NEW prio \in [T -> Int]
    PROVE  \E i \in DOMAIN q :
              /\ \A j \in DOMAIN q : prio[q[i]] <= prio[q[j]]
              /\ \A j \in 1..(i - 1) : prio[q[i]] < prio[q[j]]
<1> DEFINE n == Len(q)
           x(i) == prio[q[i]]
<1>1. n \in Nat /\ n > 0 /\ DOMAIN q = 1..n
  BY LenProperties, EmptySeq
<1>2. \A i \in 1..n : x(i) \in Int
  BY ElementOfSeq
<1> HIDE DEF n, x
<1> DEFINE Upto == {k \in 0..n : \E i \in 1..n : \A j \in 1..k : x(i) <= x(j)}
<1>3. PICK k \in Upto : \A i \in Upto : i <= k
  <2>1. Upto \in SUBSET (0..n)
    OBVIOUS
  <2>2. 0 \in Upto
    BY <1>1
  <2>3. Upto # {}
    BY <2>2
  <2> HIDE DEF Upto
  <2> QED BY <2>1, <2>3, <1>1, LargestElement
<1>4. PICK i \in 1..n : \A j \in 1..k : x(i) <= x(j)
  BY <1>3
<1>11. k \in 0..n /\ \A l \in 0..n : (\E h \in 1..n : \A j \in 1..l : x(h) <= x(j)) => l <= k
  BY <1>3
<1> HIDE DEF Upto
<1>5. k = n
  <2>1. SUFFICES ASSUME k # n PROVE FALSE
    OBVIOUS
  <2>2. k \in 0..n /\ k + 1 \in 1..n
    BY <2>1, <1>1, <1>11
  <2>3. CASE x(i) <= x(k + 1)
    <3>1. \A j \in 1..(k + 1) : x(i) <= x(j)
      BY <2>2, <2>3, <1>4
    <3>2. k + 1 \in 0..n
      BY <2>2, <1>1
    <3>3. k + 1 <= k
      BY <3>1, <3>2, <1>11
    <3> QED BY <3>3, <2>2
  <2>4. CASE x(k + 1) < x(i)
    <3> DEFINE new == x(k + 1)
    <3>3. new \in Int /\ new < x(i) /\ x(i) \in Int
      BY <2>2, <2>4, <1>2
    <3>4. ASSUME NEW j \in 1..k PROVE new <= x(j)
      <4>2. j \in 1..n
        BY <2>2, <1>1
      <4>1. x(j) \in Int /\ x(i) <= x(j)
        BY <4>2, <1>2, <1>4
      <4> HIDE DEF new
      <4> QED BY <3>3, <4>1
    <3>1. \A j \in 1..(k + 1) : x(k + 1) <= x(j)
      BY <2>2, <3>3, <3>4
    <3>2. k + 1 \in 0..n
      BY <2>2, <1>1
    <3>5. k + 1 <= k
      BY <3>1, <3>2, <2>2, <1>11
    <3> QED BY <3>5, <2>2
  <2> QED BY <2>2, <2>3, <2>4, <1>2
<1>6. \A j \in 1..n : x(i) <= x(j)
  BY <1>4, <1>5
<1> DEFINE Back == {n - m : m \in {m \in 1..n : x(m) = x(i)}}
<1>7. PICK b \in Back : \A y \in Back : y <= b
  <2>1. Back \in SUBSET (0..n)
    BY <1>1
  <2>2. n - i \in Back
    BY <1>1
  <2>3. Back # {}
    BY <2>2
  <2> HIDE DEF Back
  <2> QED BY <2>1, <2>3, <1>1, LargestElement
<1>8. PICK m \in 1..n : x(m) = x(i) /\ b = n - m
  BY <1>7
<1>9. ASSUME NEW j \in 1..(m - 1) PROVE x(m) < x(j)
  <2>1. j \in 1..n /\ j < m
    BY <1>1, <1>8
  <2>2. n - j \notin Back
    <3>1. SUFFICES ASSUME n - j \in Back PROVE FALSE
      OBVIOUS
    <3> HIDE DEF Back
    <3>2. n - j <= n - m
      BY <3>1, <1>7, <1>8
    <3> QED BY <3>2, <2>1, <1>1, <1>8
  <2>3. x(j) # x(i)
    BY <2>1, <2>2
  <2> QED BY <2>1, <2>3, <1>2, <1>6, <1>8
<1>10. \A j \in 1..n : x(m) <= x(j)
  BY <1>6, <1>8
<1> QED BY <1>1, <1>9, <1>10 DEF x

(***************************************************************************)
(* Taking the head of a duplicate-free queue removes exactly that thread.  *)
(***************************************************************************)
LEMMA TailProperties ==
    ASSUME NEW T, NEW q \in Seq(T), q # <<>>, NoDuplicates(q)
    PROVE  /\ Tail(q) \in Seq(T)
           /\ Len(Tail(q)) = Len(q) - 1
           /\ q[1] \in T
           /\ q[1] \in ToSet(q)
           /\ ToSet(Tail(q)) = ToSet(q) \ {q[1]}
           /\ NoDuplicates(Tail(q))
<1> DEFINE r == Tail(q)
<1>1. /\ r \in Seq(T) /\ Len(r) = Len(q) - 1 /\ Len(q) > 0
      /\ \A i \in 1..(Len(q) - 1) : r[i] = q[i + 1]
  BY HeadTailProperties, LenProperties, EmptySeq
<1> HIDE DEF r
<1>2. DOMAIN q = 1..Len(q) /\ DOMAIN r = 1..(Len(q) - 1) /\ Len(q) \in Nat
  BY <1>1, LenProperties
<1>3. \A i, j \in 1..Len(q) : q[i] = q[j] => i = j
  BY <1>2 DEF NoDuplicates
<1>4. q[1] \in T /\ q[1] \in ToSet(q)
  BY <1>1, <1>2, ElementOfSeq DEF ToSet
<1>5. ToSet(r) \subseteq ToSet(q) \ {q[1]}
  BY SMTT(30), <1>1, <1>2, <1>3 DEF ToSet
<1>6. ToSet(q) \ {q[1]} \subseteq ToSet(r)
  <2>1. ASSUME NEW i \in 1..Len(q), i # 1 PROVE q[i] \in ToSet(r)
    <3>1. i - 1 \in DOMAIN r /\ r[i - 1] = q[i]
      BY <2>1, <1>1, <1>2
    <3> QED BY <3>1 DEF ToSet
  <2> QED BY <2>1, <1>2 DEF ToSet
<1>7. NoDuplicates(r)
  BY <1>1, <1>2, <1>3 DEF NoDuplicates
<1> QED BY <1>1, <1>4, <1>5, <1>6, <1>7 DEF r
=============================================================================

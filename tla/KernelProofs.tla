---------------------------- MODULE KernelProofs ----------------------------
(***************************************************************************)
(* The safety properties of Kernel hold for any number of PCBs, any sizes  *)
(* of the counters and any arguments of the system calls.                  *)
(***************************************************************************)
EXTENDS Kernel, TLAPS, WellFoundedInduction, SequenceTheorems

-----------------------------------------------------------------------------
(* Facts about the queue operators of KQueue, for any kind of node.        *)

(* Every non-empty set of naturals has a least element. *)
LEMMA LeastNat ==
  ASSUME NEW T, T \subseteq Nat, T # {}
  PROVE  \E x \in T : \A y \in T : x <= y
<1>1. \E x \in T : \A y \in T : ~ (<<y, x>> \in OpToRel(<, Nat))
  BY NatLessThanWellFounded, WFMin
<1>2. PICK x \in T : \A y \in T : ~ (<<y, x>> \in OpToRel(<, Nat))
  BY <1>1
<1>3. ASSUME NEW y \in T, y < x PROVE <<y, x>> \in OpToRel(<, Nat)
  BY <1>3 DEF OpToRel
<1>4. ASSUME NEW y \in T PROVE x <= y
  <2>1. x \in Nat /\ y \in Nat
    OBVIOUS
  <2>2. ~(y < x)
    BY <1>2, <1>3
  <2> QED BY <2>1, <2>2
<1> QED BY <1>4

(* _q_insert always finds a place in an ordered queue: the search loop     *)
(* stops behind the nodes whose key is at most the new one.                *)
LEMMA InsertionPointExists ==
  ASSUME NEW D, NEW s \in Seq([key : Nat, data : D]), NEW k \in Nat
  PROVE  /\ InsertionPoint(s, k) \in 0 .. Len(s)
         /\ \A j \in 1 .. InsertionPoint(s, k) : s[j].key <= k
         /\ InsertionPoint(s, k) < Len(s) => s[InsertionPoint(s, k) + 1].key > k
<1> DEFINE T == {i \in 0 .. Len(s) : i < Len(s) => s[i + 1].key > k}
<1>1. T \subseteq Nat /\ Len(s) \in T
  OBVIOUS
<1>2. PICK x \in T : \A y \in T : x <= y
  BY <1>1, LeastNat
<1>3. ASSUME NEW j \in 1 .. x PROVE s[j].key <= k
  <2>0. /\ Len(s) \in Nat
        /\ x \in 0 .. Len(s) /\ j \in 1 .. Len(s) /\ j - 1 \in Nat /\ j - 1 < x
    BY <1>1
  <2>1. j - 1 \in 0 .. Len(s) /\ j - 1 \notin T
    <3>1. ~(x <= j - 1)
      BY <2>0
    <3>2. j - 1 \notin T
      BY <1>2, <3>1
    <3> QED BY <2>0, <3>2
  <2>2. j - 1 < Len(s) /\ ~(s[j].key > k)
    BY <2>1
  <2>3. s[j] \in [key : Nat, data : D]
    BY <2>0, ElementOfSeq
  <2> QED BY <2>2, <2>3
<1>4. \E i \in 0 .. Len(s) : /\ \A j \in 1 .. i : s[j].key <= k
                             /\ i < Len(s) => s[i + 1].key > k
  BY <1>2, <1>3
<1> QED BY <1>4 DEF InsertionPoint

(* Linking a node into a queue makes it one longer and keeps the others.   *)
LEMMA LinkAfterType ==
  ASSUME NEW S, NEW s \in Seq(S), NEW n \in S, NEW i \in 0 .. Len(s)
  PROVE  /\ LinkAfter(s, i, n) \in Seq(S)
         /\ Len(LinkAfter(s, i, n)) = Len(s) + 1
         /\ \A j \in 1 .. Len(s) + 1 :
              LinkAfter(s, i, n)[j] = IF j <= i THEN s[j]
                                      ELSE IF j = i + 1 THEN n ELSE s[j - 1]
  BY DEF LinkAfter

(* An insertion into an ordered queue keeps it ordered: this is why the    *)
(* clock need only look at the first sleeper.                              *)
LEMMA InsertOrderedSorted ==
  ASSUME NEW D, NEW s \in Seq([key : Nat, data : D]),
         NEW k \in Nat, NEW d \in D,
         \A i, j \in 1 .. Len(s) : i <= j => s[i].key <= s[j].key
  PROVE  LET t == InsertOrdered(s, k, d)
         IN \A i, j \in 1 .. Len(t) : i <= j => t[i].key <= t[j].key
<1> DEFINE x == InsertionPoint(s, k)
           t == LinkAfter(s, x, QNode(k, d))
<1>1. /\ x \in 0 .. Len(s)
      /\ \A j \in 1 .. x : s[j].key <= k
      /\ x < Len(s) => s[x + 1].key > k
  BY InsertionPointExists
<1>2. QNode(k, d) \in [key : Nat, data : D] /\ QNode(k, d).key = k
  BY DEF QNode
<1> HIDE DEF x
<1>3. /\ Len(t) = Len(s) + 1
      /\ \A j \in 1 .. Len(s) + 1 :
              t[j] = IF j <= x THEN s[j]
                     ELSE IF j = x + 1 THEN QNode(k, d) ELSE s[j - 1]
  <2> DEFINE N == [key : Nat, data : D]
  <2>1. s \in Seq(N) /\ QNode(k, d) \in N
    BY <1>2
  <2> HIDE DEF N
  <2> QED BY <1>1, <2>1, LinkAfterType
<1> HIDE DEF t
<1>4. \A j \in 1 .. Len(s) : s[j].key \in Nat
  <2>1. \A j \in 1 .. Len(s) : s[j] \in [key : Nat, data : D]
    BY ElementOfSeq
  <2> QED BY <2>1
<1> DEFINE K(j) == s[j].key
           T(j) == t[j].key
           n == Len(s)
<1>5. /\ n \in Nat /\ Len(t) = n + 1 /\ x \in 0 .. n
      /\ \A j \in 1 .. n : K(j) \in Nat
      /\ \A j \in 1 .. x : K(j) <= k
      /\ x < n => K(x + 1) > k
      /\ \A i, j \in 1 .. n : i <= j => K(i) <= K(j)
  BY <1>1, <1>3, <1>4
<1>6. ASSUME NEW j \in 1 .. n + 1
      PROVE  T(j) = IF j <= x THEN K(j) ELSE IF j = x + 1 THEN k ELSE K(j - 1)
  BY <1>2, <1>3, <1>6
<1> HIDE DEF K, T, n
<1>7. ASSUME NEW i \in 1 .. n + 1, NEW j \in 1 .. n + 1, i <= j PROVE T(i) <= T(j)
  <2>1. ASSUME NEW m \in x + 1 .. n PROVE K(m) > k
    <3>1. K(x + 1) > k /\ K(x + 1) <= K(m)
      BY <1>5, <2>1
    <3>2. K(x + 1) \in Nat /\ K(m) \in Nat
      BY <1>5, <2>1
    <3> QED BY <3>1, <3>2
  <2>2. CASE j <= x
    BY <1>5, <1>6, <1>7, <2>2
  <2>3. CASE j = x + 1
    BY <1>5, <1>6, <1>7, <2>3
  <2>4. CASE j > x + 1
    <3>1. T(j) = K(j - 1) /\ j - 1 \in x + 1 .. n /\ j - 1 \in 1 .. n
      BY <1>5, <1>6, <1>7, <2>4
    <3>2. K(j - 1) > k /\ K(j - 1) \in Nat
      BY <1>5, <2>1, <3>1
    <3>3. CASE i <= x
      <4>1. T(i) = K(i) /\ K(i) <= k /\ K(i) \in Nat
        BY <1>5, <1>6, <1>7, <3>3
      <4> QED BY <3>1, <3>2, <4>1
    <3>4. CASE i = x + 1
      <4>1. T(i) = k
        BY <1>5, <1>6, <1>7, <3>4
      <4> QED BY <3>1, <3>2, <4>1
    <3>5. CASE i > x + 1
      <4>1. T(i) = K(i - 1) /\ i - 1 \in 1 .. n /\ i - 1 <= j - 1
        BY <1>5, <1>6, <1>7, <3>5
      <4> QED BY <1>5, <3>1, <4>1
    <3> QED BY <1>5, <1>7, <3>3, <3>4, <3>5
  <2> QED BY <1>5, <1>7, <2>2, <2>3, <2>4
<1>8. \A i, j \in 1 .. Len(t) : i <= j => t[i].key <= t[j].key
  BY <1>5, <1>7 DEF T
<1> QED BY <1>8 DEF InsertOrdered, t, x

-----------------------------------------------------------------------------
(* The queues of the kernel.                                               *)

Nodes == [key : Nat, data : PCBs]

(* The contents of one queue are a sequence of nodes. *)
LEMMA QueueSeq ==
  ASSUME NEW qq \in QueueContents, NEW a \in Queues
  PROVE  /\ qq[a] \in Seq(Nodes) /\ Len(qq[a]) \in Nat
         /\ \A i \in 1 .. Len(qq[a]) : qq[a][i] \in Nodes /\ qq[a][i].data \in PCBs
<1>1. qq[a] \in Seq(Nodes)
  BY DEF QueueContents, Nodes
<1>2. \A i \in 1 .. Len(qq[a]) : qq[a][i] \in Nodes
  BY <1>1, ElementOfSeq
<1>3. \A n \in Nodes : n.data \in PCBs
  BY DEF Nodes
<1> QED BY <1>1, <1>2, <1>3

(* What _q_insert does to the queues when there is a free node: one more   *)
(* entry in one queue, and no PCB twice if it was in none before.          *)
LEMMA InsertSeq ==
  ASSUME NEW qq \in QueueContents, NEW id \in Queues, NEW k \in Nat,
         NEW p \in PCBs, HasNode(qq)
  PROVE  \E x \in 0 .. Len(qq[id]), n \in Nodes :
            /\ n.data = p
            /\ QInsert(qq, id, k, p) = [qq EXCEPT ![id] = LinkAfter(qq[id], x, n)]
            /\ id # Sleeping => x = Len(qq[id]) /\ n = QNode(0, p)
<1>1. qq[id] \in Seq([key : Nat, data : PCBs]) /\ Len(qq[id]) \in Nat
  BY QueueSeq DEF Nodes
<1>2. QNode(0, p) \in Nodes /\ QNode(k, p) \in Nodes
      /\ QNode(0, p).data = p /\ QNode(k, p).data = p
  BY DEF QNode, Nodes
<1>3. CASE id = Sleeping
  <2>1. InsertionPoint(qq[id], k) \in 0 .. Len(qq[id])
    BY <1>1, InsertionPointExists
  <2>2. QInsert(qq, id, k, p)
          = [qq EXCEPT ![id] = LinkAfter(qq[id], InsertionPoint(qq[id], k), QNode(k, p))]
    BY <1>3 DEF QInsert, InsertOrdered
  <2> USE <1>2, <2>1
  <2> WITNESS InsertionPoint(qq[id], k) \in 0 .. Len(qq[id]), QNode(k, p) \in Nodes
  <2> QED BY <1>2, <1>3, <2>2
<1>4. CASE id # Sleeping
  <2>1. QInsert(qq, id, k, p)
          = [qq EXCEPT ![id] = LinkAfter(qq[id], Len(qq[id]), QNode(0, p))]
    BY <1>4 DEF QInsert, InsertFifo
  <2>2. Len(qq[id]) \in 0 .. Len(qq[id])
    BY <1>1
  <2> USE <1>2, <2>2
  <2> WITNESS Len(qq[id]) \in 0 .. Len(qq[id]), QNode(0, p) \in Nodes
  <2> QED BY <1>2, <2>1
<1> QED BY <1>3, <1>4

(* The number of queued PCBs changes as the one queue that changes does.   *)
LEMMA QueuedChange ==
  ASSUME NEW qq \in QueueContents, NEW r \in QueueContents, NEW id \in Queues,
         NEW d \in {-1, 1},
         \A a \in Queues : a # id => r[a] = qq[a],
         Len(r[id]) = Len(qq[id]) + d
  PROVE  /\ Queued(qq) \in Nat /\ Queued(r) \in Nat
         /\ id \in PcbQueues => Queued(r) = Queued(qq) + d
         /\ id \notin PcbQueues => Queued(r) = Queued(qq)
<1> DEFINE m(a) == Len(qq[a])
           n(a) == Len(r[a])
<1>1. /\ m(0) \in Nat /\ m(1) \in Nat /\ m(2) \in Nat
      /\ m(3) \in Nat /\ m(4) \in Nat /\ m(5) \in Nat
  BY QueueSeq DEF Queues
<1>2. /\ n(0) \in Nat /\ n(1) \in Nat /\ n(2) \in Nat
      /\ n(3) \in Nat /\ n(4) \in Nat /\ n(5) \in Nat
  BY QueueSeq DEF Queues
<1>3. /\ Queued(qq) = m(0) + m(1) + m(2) + m(3) + m(4) + m(5)
      /\ Queued(r) = n(0) + n(1) + n(2) + n(3) + n(4) + n(5)
  BY DEF Queued, Sleeping, Reading, FreePcbs
<1>4. \A a \in 0 .. 5 : n(a) = IF a = id THEN m(a) + d ELSE m(a)
  <2>1. ASSUME NEW a \in 0 .. 5, a # id PROVE n(a) = m(a)
    BY <2>1 DEF Queues
  <2>2. n(id) = m(id) + d
    OBVIOUS
  <2> HIDE DEF m, n
  <2> QED BY <2>1, <2>2
<1> HIDE DEF m, n
<1>5. PICK m0 \in Nat, m1 \in Nat, m2 \in Nat, m3 \in Nat, m4 \in Nat, m5 \in Nat :
         m0 = m(0) /\ m1 = m(1) /\ m2 = m(2) /\ m3 = m(3) /\ m4 = m(4) /\ m5 = m(5)
  BY <1>1
<1>6. PICK n0 \in Nat, n1 \in Nat, n2 \in Nat, n3 \in Nat, n4 \in Nat, n5 \in Nat :
         n0 = n(0) /\ n1 = n(1) /\ n2 = n(2) /\ n3 = n(3) /\ n4 = n(4) /\ n5 = n(5)
  BY <1>2
<1>7. /\ Queued(qq) = m0 + m1 + m2 + m3 + m4 + m5
      /\ Queued(r) = n0 + n1 + n2 + n3 + n4 + n5
  BY <1>3, <1>5, <1>6
<1>8. Queued(qq) \in Nat /\ Queued(r) \in Nat
  BY <1>7
<1>9. CASE id \in PcbQueues
  <2>0. d \in Int
    OBVIOUS
  <2>1. CASE id = 0
    <3>1. n0 = m0 + d /\ n1 = m1 /\ n2 = m2 /\ n3 = m3 /\ n4 = m4 /\ n5 = m5
      BY <1>4, <1>5, <1>6, <2>1
    <3>2. Queued(r) = Queued(qq) + d
      BY <1>7, <2>0, <3>1
    <3> QED BY <1>8, <1>9, <3>2
  <2>2. CASE id = 1
    <3>1. n0 = m0 /\ n1 = m1 + d /\ n2 = m2 /\ n3 = m3 /\ n4 = m4 /\ n5 = m5
      BY <1>4, <1>5, <1>6, <2>2
    <3>2. Queued(r) = Queued(qq) + d
      BY <1>7, <2>0, <3>1
    <3> QED BY <1>8, <1>9, <3>2
  <2>3. CASE id = 2
    <3>1. n0 = m0 /\ n1 = m1 /\ n2 = m2 + d /\ n3 = m3 /\ n4 = m4 /\ n5 = m5
      BY <1>4, <1>5, <1>6, <2>3
    <3>2. Queued(r) = Queued(qq) + d
      BY <1>7, <2>0, <3>1
    <3> QED BY <1>8, <1>9, <3>2
  <2>4. CASE id = 3
    <3>1. n0 = m0 /\ n1 = m1 /\ n2 = m2 /\ n3 = m3 + d /\ n4 = m4 /\ n5 = m5
      BY <1>4, <1>5, <1>6, <2>4
    <3>2. Queued(r) = Queued(qq) + d
      BY <1>7, <2>0, <3>1
    <3> QED BY <1>8, <1>9, <3>2
  <2>5. CASE id = 4
    <3>1. n0 = m0 /\ n1 = m1 /\ n2 = m2 /\ n3 = m3 /\ n4 = m4 + d /\ n5 = m5
      BY <1>4, <1>5, <1>6, <2>5
    <3>2. Queued(r) = Queued(qq) + d
      BY <1>7, <2>0, <3>1
    <3> QED BY <1>8, <1>9, <3>2
  <2>6. CASE id = 5
    <3>1. n0 = m0 /\ n1 = m1 /\ n2 = m2 /\ n3 = m3 /\ n4 = m4 /\ n5 = m5 + d
      BY <1>4, <1>5, <1>6, <2>6
    <3>2. Queued(r) = Queued(qq) + d
      BY <1>7, <2>0, <3>1
    <3> QED BY <1>8, <1>9, <3>2
  <2> QED BY <1>9, <2>1, <2>2, <2>3, <2>4, <2>5, <2>6 DEF PcbQueues
<1>10. CASE id \notin PcbQueues
  <2>1. \A a \in 0 .. 5 : n(a) = m(a)
    BY <1>4, <1>10 DEF PcbQueues
  <2> QED BY <1>3, <1>8, <1>10, <2>1
<1> QED BY <1>9, <1>10

(* What an insertion makes of the queues. *)
LEMMA InsertFacts ==
  ASSUME NEW qq \in QueueContents, NEW id \in Queues, NEW k \in Nat,
         NEW p \in PCBs, HasNode(qq)
  PROVE  LET r == QInsert(qq, id, k, p)
         IN /\ r \in QueueContents
            /\ \A a \in Queues : a # id => r[a] = qq[a]
            /\ Len(r[id]) = Len(qq[id]) + 1
            /\ Queued(qq) \in Nat
            /\ Queued(r) = IF id \in PcbQueues THEN Queued(qq) + 1 ELSE Queued(qq)
            /\ \A a \in Queues, x \in PCBs :
                  In(r, a, x) <=> In(qq, a, x) \/ (a = id /\ x = p)
            /\ Distinct(qq) /\ (\A a \in PcbQueues : ~In(qq, a, p)) => Distinct(r)
            /\ Distinct(qq) /\ id = FreeStacks => Distinct(r)
            /\ Used(qq) \in Nat /\ Used(r) = Used(qq) + 1
<1> DEFINE r == QInsert(qq, id, k, p)
<1>1. PICK x \in 0 .. Len(qq[id]), n \in Nodes :
         /\ n.data = p
         /\ r = [qq EXCEPT ![id] = LinkAfter(qq[id], x, n)]
  BY InsertSeq
<1>2. qq[id] \in Seq(Nodes) /\ Len(qq[id]) \in Nat
  BY QueueSeq
<1>3. /\ LinkAfter(qq[id], x, n) \in Seq(Nodes)
      /\ Len(LinkAfter(qq[id], x, n)) = Len(qq[id]) + 1
      /\ \A j \in 1 .. Len(qq[id]) + 1 :
            LinkAfter(qq[id], x, n)[j] =
              IF j <= x THEN qq[id][j] ELSE IF j = x + 1 THEN n ELSE qq[id][j - 1]
  BY <1>1, <1>2, LinkAfterType
<1> HIDE DEF r
<1>4. /\ r \in QueueContents
      /\ \A a \in Queues : a # id => r[a] = qq[a]
      /\ r[id] = LinkAfter(qq[id], x, n)
  BY <1>1, <1>3 DEF QueueContents, Nodes
<1>5. /\ Len(r[id]) = Len(qq[id]) + 1
      /\ \A j \in 1 .. Len(qq[id]) + 1 :
            r[id][j] = IF j <= x THEN qq[id][j]
                       ELSE IF j = x + 1 THEN n ELSE qq[id][j - 1]
  BY <1>3, <1>4
<1>6. ASSUME NEW y \in PCBs
      PROVE  In(r, id, y) <=> In(qq, id, y) \/ y = p
  <2>1. ASSUME NEW j \in 1 .. Len(r[id]), r[id][j].data = y
        PROVE  In(qq, id, y) \/ y = p
    <3>1. CASE j <= x
      BY <1>1, <1>2, <1>5, <2>1, <3>1 DEF In
    <3>2. CASE j = x + 1
      BY <1>1, <1>2, <1>5, <2>1, <3>2
    <3>3. CASE j > x + 1
      <4>1. j - 1 \in 1 .. Len(qq[id]) /\ r[id][j] = qq[id][j - 1]
        BY <1>1, <1>2, <1>5, <2>1, <3>3
      <4> QED BY <2>1, <4>1 DEF In
    <3> QED BY <1>1, <1>2, <1>5, <3>1, <3>2, <3>3
  <2>2. ASSUME NEW i \in 1 .. Len(qq[id]), qq[id][i].data = y
        PROVE  In(r, id, y)
    <3>1. CASE i <= x
      <4>1. i \in 1 .. Len(r[id]) /\ r[id][i] = qq[id][i]
        BY <1>1, <1>2, <1>5, <3>1
      <4> QED BY <2>2, <4>1 DEF In
    <3>2. CASE i > x
      <4>1. /\ i + 1 \in 1 .. Len(qq[id]) + 1 /\ ~(i + 1 <= x) /\ ~(i + 1 = x + 1)
            /\ (i + 1) - 1 = i
        BY <1>1, <1>2, <3>2
      <4>2. r[id][i + 1] = qq[id][i]
        BY <1>5, <4>1
      <4>3. i + 1 \in 1 .. Len(r[id])
        BY <1>5, <4>1
      <4> QED BY <2>2, <4>2, <4>3 DEF In
    <3> QED BY <1>1, <1>2, <3>1, <3>2
  <2>3. In(r, id, p)
    <3>1. x + 1 \in 1 .. Len(r[id]) /\ r[id][x + 1].data = p
      BY <1>1, <1>2, <1>5
    <3> QED BY <3>1 DEF In
  <2> QED BY <2>1, <2>2, <2>3 DEF In
<1>7. \A a \in Queues, y \in PCBs :
         In(r, a, y) <=> In(qq, a, y) \/ (a = id /\ y = p)
  <2>1. ASSUME NEW a \in Queues, NEW y \in PCBs, a # id
        PROVE  In(r, a, y) <=> In(qq, a, y)
    BY <1>4, <2>1 DEF In
  <2> QED BY <1>6, <2>1
<1>8. ASSUME Distinct(qq), id \notin PcbQueues PROVE Distinct(r)
  <2>1. \A a \in PcbQueues : r[a] = qq[a]
    BY <1>4, <1>8 DEF PcbQueues, Queues
  <2> QED BY <1>8, <2>1 DEF Distinct
<1>9. ASSUME Distinct(qq), \A a \in PcbQueues : ~In(qq, a, p), id \in PcbQueues
      PROVE  Distinct(r)
  <2>1. SUFFICES ASSUME NEW a \in PcbQueues, NEW b \in PcbQueues,
                        NEW i \in 1 .. Len(r[a]), NEW j \in 1 .. Len(r[b]),
                        r[a][i].data = r[b][j].data
                 PROVE  a = b /\ i = j
    BY DEF Distinct
  <2> DEFINE old(c, m) == IF c # id \/ m <= x THEN m ELSE m - 1
  <2>2. ASSUME NEW c \in PcbQueues, NEW m \in 1 .. Len(r[c]), c # id \/ m # x + 1
        PROVE  old(c, m) \in 1 .. Len(qq[c]) /\ r[c][m] = qq[c][old(c, m)]
    <3>1. CASE c # id
      <4>1. c \in Queues
        BY DEF PcbQueues, Queues
      <4>2. r[c] = qq[c]
        BY <1>4, <3>1, <4>1
      <4> QED BY <3>1, <4>2
    <3>2. CASE c = id /\ m <= x
      BY <1>1, <1>2, <1>5, <3>2
    <3>3. CASE c = id /\ m > x + 1
      <4>1. m \in 1 .. Len(qq[id]) + 1 /\ ~(m <= x) /\ ~(m = x + 1)
        BY <1>1, <1>2, <1>5, <3>3
      <4>2. r[id][m] = qq[id][m - 1]
        BY <1>5, <4>1
      <4>3. m - 1 \in 1 .. Len(qq[id])
        BY <1>1, <1>2, <3>3, <4>1
      <4> QED BY <3>3, <4>1, <4>2, <4>3
    <3>4. c = id => m \in Int /\ x \in Int
      BY <1>1, <1>2, <1>5
    <3> QED BY <2>2, <3>1, <3>2, <3>3, <3>4
  <2>3. ASSUME NEW c \in PcbQueues, NEW m \in 1 .. Len(r[c]), c # id \/ m # x + 1
        PROVE  r[c][m].data # p
    <3> HIDE DEF old
    <3>1. old(c, m) \in 1 .. Len(qq[c]) /\ r[c][m] = qq[c][old(c, m)]
      BY <2>2, <2>3
    <3> QED BY <1>9, <3>1 DEF In
  <2>4. CASE (a = id /\ i = x + 1) \/ (b = id /\ j = x + 1)
    <3>1. x + 1 \in 1 .. Len(qq[id]) + 1 /\ ~(x + 1 <= x)
      BY <1>1, <1>2
    <3>2. r[id][x + 1] = n /\ n.data = p
      BY <1>1, <1>5, <3>1
    <3> QED BY <2>1, <2>3, <2>4, <3>2
  <2>5. CASE (a # id \/ i # x + 1) /\ (b # id \/ j # x + 1)
    <3>1. /\ old(a, i) \in 1 .. Len(qq[a]) /\ r[a][i] = qq[a][old(a, i)]
          /\ old(b, j) \in 1 .. Len(qq[b]) /\ r[b][j] = qq[b][old(b, j)]
      BY <2>2, <2>5
    <3>2. a = b /\ old(a, i) = old(b, j)
      <4> HIDE DEF old
      <4> HIDE DEF r
      <4>1. qq[a][old(a, i)].data = qq[b][old(b, j)].data
        BY <2>1, <3>1
      <4>2. Distinct(qq)
        BY <1>9
      <4>3. ASSUME NEW u \in 1 .. Len(qq[a]), NEW v \in 1 .. Len(qq[b]),
                   qq[a][u].data = qq[b][v].data
            PROVE  a = b /\ u = v
        BY <4>2, <4>3 DEF Distinct
      <4> QED BY <3>1, <4>1, <4>3
    <3>3. i \in Int /\ j \in Int /\ x \in Int
      BY <1>1, <1>2
    <3> QED BY <2>5, <3>2, <3>3
  <2> QED BY <2>4, <2>5
<1>10. /\ Queued(qq) \in Nat
       /\ Queued(r) = IF id \in PcbQueues THEN Queued(qq) + 1 ELSE Queued(qq)
  BY <1>4, <1>5, QueuedChange
<1>11. Used(qq) \in Nat /\ Used(r) = Used(qq) + 1
  <2>1. FreeStacks \in Queues /\ (id \notin PcbQueues => id = FreeStacks)
        /\ FreeStacks \notin PcbQueues
    BY DEF Queues, PcbQueues, FreeStacks
  <2>2. Len(qq[FreeStacks]) \in Nat
    BY <2>1, QueueSeq
  <2>3. CASE id \in PcbQueues
    <3>1. r[FreeStacks] = qq[FreeStacks]
      BY <1>4, <2>1, <2>3
    <3> QED BY <1>10, <2>2, <2>3, <3>1 DEF Used
  <2>4. CASE id \notin PcbQueues
    <3>1. Len(r[FreeStacks]) = Len(qq[FreeStacks]) + 1
      BY <1>5, <2>1, <2>4
    <3> QED BY <1>10, <2>2, <2>4, <3>1 DEF Used
  <2> QED BY <2>3, <2>4
<1> QED
  BY <1>4, <1>5, <1>7, <1>8, <1>9, <1>10, <1>11 DEF r, Queues, PcbQueues, FreeStacks

(* What _q_remove does: the first entry leaves its queue, and if no PCB    *)
(* was queued twice, that PCB is now in no queue at all.                   *)
LEMMA RemoveFacts ==
  ASSUME NEW qq \in QueueContents, NEW id \in Queues, qq[id] # <<>>
  PROVE  LET r == QRemove(qq, id)
             p == Head(qq[id]).data
         IN /\ r \in QueueContents
            /\ p \in PCBs /\ In(qq, id, p)
            /\ \A a \in Queues : a # id => r[a] = qq[a]
            /\ Len(r[id]) = Len(qq[id]) - 1 /\ Len(qq[id]) > 0
            /\ Queued(qq) \in Nat
            /\ Queued(r) = IF id \in PcbQueues THEN Queued(qq) - 1 ELSE Queued(qq)
            /\ \A a \in Queues, x \in PCBs : In(r, a, x) => In(qq, a, x)
            /\ \A a \in Queues, x \in PCBs :
                  In(qq, a, x) => In(r, a, x) \/ (a = id /\ x = p)
            /\ Distinct(qq) => Distinct(r)
            /\ Distinct(qq) /\ id \in PcbQueues =>
                  \A a \in PcbQueues : ~In(r, a, p)
            /\ Used(qq) \in Nat /\ Used(r) = Used(qq) - 1
<1> DEFINE r == QRemove(qq, id)
           p == Head(qq[id]).data
<1>1. /\ qq[id] \in Seq(Nodes) /\ Len(qq[id]) \in Nat
      /\ \A i \in 1 .. Len(qq[id]) : qq[id][i] \in Nodes /\ qq[id][i].data \in PCBs
  BY QueueSeq
<1>2. /\ Head(qq[id]) = qq[id][1] /\ Len(qq[id]) > 0
      /\ Tail(qq[id]) \in Seq(Nodes)
      /\ Len(Tail(qq[id])) = Len(qq[id]) - 1
      /\ \A i \in 1 .. Len(qq[id]) - 1 : Tail(qq[id])[i] = qq[id][i + 1]
  BY <1>1, HeadTailProperties, EmptySeq
<1>3. /\ r \in QueueContents
      /\ \A a \in Queues : a # id => r[a] = qq[a]
      /\ r[id] = Tail(qq[id])
  BY <1>2 DEF QueueContents, Nodes, QRemove
<1> HIDE DEF r
<1>4. p = qq[id][1].data /\ p \in PCBs /\ In(qq, id, p)
  BY <1>1, <1>2 DEF In
<1>5. ASSUME NEW a \in Queues, NEW i \in 1 .. Len(r[a])
      PROVE  IF a = id THEN i + 1 \in 2 .. Len(qq[a]) /\ r[a][i] = qq[a][i + 1]
                       ELSE i \in 1 .. Len(qq[a]) /\ r[a][i] = qq[a][i]
  <2>1. CASE a = id
    <3>1. i \in 1 .. Len(qq[id]) - 1
      BY <1>2, <1>3, <2>1
    <3>2. i + 1 \in 2 .. Len(qq[id]) /\ r[id][i] = qq[id][i + 1]
      BY <1>1, <1>2, <1>3, <3>1
    <3> QED BY <2>1, <3>2
  <2>2. CASE a # id
    BY <1>3, <2>2
  <2> QED BY <2>1, <2>2
<1>6. ASSUME NEW a \in Queues, NEW x \in PCBs, In(r, a, x) PROVE In(qq, a, x)
  <2>1. PICK i \in 1 .. Len(r[a]) : r[a][i].data = x
    BY <1>6 DEF In
  <2>2. CASE a = id
    <3>1. i + 1 \in 1 .. Len(qq[a]) /\ r[a][i] = qq[a][i + 1]
      BY <1>1, <1>5, <2>2
    <3> QED BY <2>1, <3>1 DEF In
  <2>3. CASE a # id
    BY <1>5, <2>1, <2>3 DEF In
  <2> QED BY <2>2, <2>3
<1>7. ASSUME NEW a \in Queues, NEW x \in PCBs, In(qq, a, x)
      PROVE  In(r, a, x) \/ (a = id /\ x = p)
  <2>1. CASE a # id
    BY <1>3, <1>7, <2>1 DEF In
  <2>2. CASE a = id
    <3>1. PICK i \in 1 .. Len(qq[id]) : qq[id][i].data = x
      BY <1>7, <2>2 DEF In
    <3>2. CASE i = 1
      BY <1>4, <2>2, <3>1, <3>2
    <3>3. CASE i > 1
      <4>1. i - 1 \in 1 .. Len(r[id]) /\ r[id][i - 1] = qq[id][i]
        BY <1>1, <1>2, <1>3, <3>3
      <4> QED BY <2>2, <3>1, <4>1 DEF In
    <3> QED BY <3>2, <3>3
  <2> QED BY <2>1, <2>2
<1>8. ASSUME Distinct(qq) PROVE Distinct(r)
  <2>1. SUFFICES ASSUME NEW a \in PcbQueues, NEW b \in PcbQueues,
                        NEW i \in 1 .. Len(r[a]), NEW j \in 1 .. Len(r[b]),
                        r[a][i].data = r[b][j].data
                 PROVE  a = b /\ i = j
    BY DEF Distinct
  <2> DEFINE old(c, m) == IF c = id THEN m + 1 ELSE m
  <2>2. ASSUME NEW c \in PcbQueues, NEW m \in 1 .. Len(r[c])
        PROVE  old(c, m) \in 1 .. Len(qq[c]) /\ r[c][m] = qq[c][old(c, m)]
    <3>1. c \in Queues
      BY DEF PcbQueues, Queues
    <3>2. CASE c = id
      <4>1. m + 1 \in 2 .. Len(qq[c]) /\ r[c][m] = qq[c][m + 1]
        BY <1>5, <3>1, <3>2
      <4>2. old(c, m) = m + 1 /\ m + 1 \in 1 .. Len(qq[c])
        BY <3>2, <4>1
      <4> QED BY <4>1, <4>2
    <3>3. CASE c # id
      BY <1>5, <3>1, <3>3
    <3> QED BY <3>2, <3>3
  <2>3. a = b /\ old(a, i) = old(b, j)
    <3> HIDE DEF old
    <3>1. qq[a][old(a, i)].data = qq[b][old(b, j)].data
      BY <2>1, <2>2
    <3> QED BY <1>8, <2>2, <3>1 DEF Distinct
  <2> QED BY <2>3
<1>9. ASSUME Distinct(qq), id \in PcbQueues, NEW a \in PcbQueues
      PROVE  ~In(r, a, p)
  <2>1. SUFFICES ASSUME NEW i \in 1 .. Len(r[a]), r[a][i].data = p PROVE FALSE
    BY DEF In
  <2>2. a \in Queues
    BY DEF PcbQueues, Queues
  <2>3. 1 \in 1 .. Len(qq[id]) /\ qq[id][1].data = p
    BY <1>1, <1>2, <1>4
  <2>4. CASE a = id
    <3>1. i + 1 \in 2 .. Len(qq[id]) /\ qq[id][i + 1].data = p
      BY <1>5, <2>1, <2>2, <2>4
    <3>2. i + 1 \in 1 .. Len(qq[id]) /\ i + 1 # 1
      BY <3>1
    <3> QED BY <1>9, <2>3, <3>1, <3>2 DEF Distinct
  <2>5. CASE a # id
    <3>1. i \in 1 .. Len(qq[a]) /\ qq[a][i].data = p
      BY <1>5, <2>1, <2>2, <2>5
    <3> QED BY <1>9, <2>3, <2>5, <3>1 DEF Distinct
  <2> QED BY <2>4, <2>5
<1> HIDE DEF p
<1>10. Len(r[id]) = Len(qq[id]) - 1 /\ Len(qq[id]) > 0
  BY <1>2, <1>3
<1>11. /\ Queued(qq) \in Nat
       /\ Queued(r) = IF id \in PcbQueues THEN Queued(qq) - 1 ELSE Queued(qq)
  BY <1>1, <1>3, <1>10, QueuedChange
<1>12. Used(qq) \in Nat /\ Used(r) = Used(qq) - 1
  <2>1. FreeStacks \in Queues /\ (id \notin PcbQueues => id = FreeStacks)
        /\ FreeStacks \notin PcbQueues
    BY DEF Queues, PcbQueues, FreeStacks
  <2>2. Len(qq[FreeStacks]) \in Nat
    BY <2>1, QueueSeq
  <2>3. CASE id \in PcbQueues
    <3>1. r[FreeStacks] = qq[FreeStacks]
      BY <1>3, <2>1, <2>3
    <3> QED BY <1>11, <2>2, <2>3, <3>1 DEF Used
  <2>4. CASE id \notin PcbQueues
    <3>1. Len(r[FreeStacks]) = Len(qq[FreeStacks]) - 1
      BY <1>10, <2>1, <2>4
    <3> QED BY <1>11, <2>2, <2>4, <3>1 DEF Used
  <2> QED BY <2>3, <2>4
<1> QED BY <1>3, <1>4, <1>6, <1>7, <1>8, <1>9, <1>10, <1>11, <1>12 DEF r, p

(***************************************************************************)
(* The inductive invariant.                                                *)
(***************************************************************************)

(* The free PCBs are among the queued ones. *)
LEMMA QueuedBound ==
  ASSUME NEW qq \in QueueContents
  PROVE  Queued(qq) \in Nat /\ Len(qq[FreePcbs]) \in 0 .. Queued(qq)
<1>1. /\ Len(qq[0]) \in Nat /\ Len(qq[1]) \in Nat /\ Len(qq[2]) \in Nat
      /\ Len(qq[3]) \in Nat /\ Len(qq[4]) \in Nat /\ Len(qq[5]) \in Nat
  BY QueueSeq DEF Queues
<1>2. ASSUME NEW a0 \in Nat, NEW a1 \in Nat, NEW a2 \in Nat,
             NEW a3 \in Nat, NEW a4 \in Nat, NEW a5 \in Nat
      PROVE  /\ a0 + a1 + a2 + a3 + a4 + a5 \in Nat
             /\ a5 \in 0 .. a0 + a1 + a2 + a3 + a4 + a5
  OBVIOUS
<1> QED BY <1>1, <1>2 DEF Queued, Sleeping, Reading, FreePcbs

(* An insertion into one queue leaves the others alone.                    *)
LEMMA InsertOther ==
  ASSUME NEW qq \in QueueContents, NEW id \in Queues, NEW k, NEW p,
         NEW a \in Queues, a # id
  PROVE  QInsert(qq, id, k, p)[a] = qq[a]
  BY DEF QInsert, QueueContents

(* What _q_insert does whether or not there is a node.                     *)
LEMMA InsertMaybe ==
  ASSUME NEW qq \in QueueContents, NEW id \in Queues, NEW k \in Nat, NEW p \in PCBs
  PROVE  LET r == QInsert(qq, id, k, p)
         IN /\ r \in QueueContents
            /\ \A a \in Queues : a # id => r[a] = qq[a]
            /\ \A a \in Queues, x \in PCBs : In(qq, a, x) => In(r, a, x)
            /\ \A a \in Queues, x \in PCBs :
                  In(r, a, x) => In(qq, a, x) \/ (a = id /\ x = p)
            /\ Distinct(qq) /\ (\A a \in PcbQueues : ~In(qq, a, p)) => Distinct(r)
            /\ Distinct(qq) /\ id = FreeStacks => Distinct(r)
            /\ Used(qq) \in Nat /\ Used(r) \in Nat
            /\ Used(qq) + lent <= NQNODES /\ lent \in Nat => Used(r) + lent <= NQNODES
<1> DEFINE r == QInsert(qq, id, k, p)
<1>1. CASE HasNode(qq)
  <2>1. /\ r \in QueueContents
        /\ \A a \in Queues : a # id => r[a] = qq[a]
        /\ \A a \in Queues, x \in PCBs :
              In(r, a, x) <=> In(qq, a, x) \/ (a = id /\ x = p)
        /\ Distinct(qq) /\ (\A a \in PcbQueues : ~In(qq, a, p)) => Distinct(r)
        /\ Distinct(qq) /\ id = FreeStacks => Distinct(r)
        /\ Used(qq) \in Nat /\ Used(r) = Used(qq) + 1
    BY <1>1, InsertFacts
  <2> HIDE DEF r
  <2>2. NQNODES \in Nat
    BY SizeAssumption DEF NQNODES
  <2>3. lent \in Nat => Used(r) + lent <= NQNODES
    BY <1>1, <2>1, <2>2 DEF HasNode
  <2> QED BY <2>1, <2>3 DEF r
<1>2. CASE ~HasNode(qq)
  <2>1. r = qq
    BY <1>2 DEF QInsert
  <2>2. Used(qq) \in Nat
    <3>1. Queued(qq) \in Nat /\ Len(qq[FreeStacks]) \in Nat
      BY QueuedBound, QueueSeq DEF Queues, FreeStacks
    <3> QED BY <3>1 DEF Used
  <2> QED BY <2>1, <2>2
<1> QED BY <1>1, <1>2

(* A node with new data at the end of a queue keeps the entries different. *)
LEMMA AppendOnce ==
  ASSUME NEW t \in Seq(Nodes), OnceEach(t), NEW n \in Nodes,
         \A i \in 1 .. Len(t) : t[i].data # n.data
  PROVE  OnceEach(LinkAfter(t, Len(t), n))
<1>1. Len(t) \in Nat /\ Len(t) \in 0 .. Len(t)
  OBVIOUS
<1>2. PICK m \in 0 .. Len(t) : m = Len(t)
  BY <1>1
<1> DEFINE r == LinkAfter(t, m, n)
<1>3. /\ Len(r) = Len(t) + 1
      /\ \A j \in 1 .. Len(t) + 1 :
            r[j] = IF j <= m THEN t[j] ELSE IF j = m + 1 THEN n ELSE t[j - 1]
  BY LinkAfterType
<1> HIDE DEF r
<1>4. \A j \in 1 .. Len(r) : (j \in 1 .. Len(t) /\ r[j] = t[j]) \/ (j = Len(t) + 1 /\ r[j] = n)
  BY <1>1, <1>2, <1>3
<1>5. ASSUME NEW i \in 1 .. Len(r), NEW j \in 1 .. Len(r), r[i].data = r[j].data
      PROVE  i = j
  <2>1. CASE i \in 1 .. Len(t) /\ j \in 1 .. Len(t)
    <3>1. r[i] = t[i] /\ r[j] = t[j]
      BY <1>1, <1>4, <2>1
    <3> QED BY <1>5, <2>1, <3>1 DEF OnceEach
  <2>2. CASE i \notin 1 .. Len(t) \/ j \notin 1 .. Len(t)
    BY <1>4, <1>5, <2>2
  <2> QED BY <2>1, <2>2
<1> QED BY <1>2, <1>5 DEF OnceEach, r

(* A stack that is returned to the pool was not there. *)
LEMMA PoolStack ==
  ASSUME NEW qq \in QueueContents, OnceEach(qq[FreeStacks]),
         NEW s \in PCBs, ~In(qq, FreeStacks, s)
  PROVE  OnceEach(QInsert(qq, FreeStacks, 0, s)[FreeStacks])
<1>1. qq[FreeStacks] \in Seq(Nodes) /\ FreeStacks \in Queues
  BY QueueSeq DEF Queues, FreeStacks
<1>2. CASE ~HasNode(qq)
  BY <1>2 DEF QInsert
<1>3. CASE HasNode(qq)
  <2>1. QInsert(qq, FreeStacks, 0, s)[FreeStacks]
          = LinkAfter(qq[FreeStacks], Len(qq[FreeStacks]), QNode(0, s))
    BY <1>1, <1>3 DEF QInsert, InsertFifo, QueueContents, FreeStacks, Sleeping
  <2>2. QNode(0, s) \in Nodes /\ QNode(0, s).data = s
    BY DEF QNode, Nodes
  <2>3. \A i \in 1 .. Len(qq[FreeStacks]) : qq[FreeStacks][i].data # s
    BY DEF In
  <2> QED BY <1>1, <2>1, <2>2, <2>3, AppendOnce
<1> QED BY <1>2, <1>3

(* Removing the first stack of the pool leaves none like it. *)
LEMMA UnpoolStack ==
  ASSUME NEW t \in Seq(Nodes), t # <<>>, OnceEach(t)
  PROVE  /\ OnceEach(Tail(t))
         /\ \A i \in 1 .. Len(Tail(t)) : Tail(t)[i].data # Head(t).data
<1>1. /\ Head(t) = t[1] /\ Len(t) \in Nat /\ Len(t) > 0
      /\ Len(Tail(t)) = Len(t) - 1
      /\ \A i \in 1 .. Len(t) - 1 : Tail(t)[i] = t[i + 1]
  BY HeadTailProperties, EmptySeq
<1>2. \A i \in 1 .. Len(Tail(t)) : i + 1 \in 1 .. Len(t) /\ Tail(t)[i] = t[i + 1]
  BY <1>1
<1>3. 1 \in 1 .. Len(t)
  BY <1>1
<1>4. OnceEach(Tail(t))
  <2>1. ASSUME NEW i \in 1 .. Len(Tail(t)), NEW j \in 1 .. Len(Tail(t)),
               Tail(t)[i].data = Tail(t)[j].data
        PROVE  i = j
    <3>1. t[i + 1].data = t[j + 1].data
      BY <1>2, <2>1
    <3>2. i + 1 = j + 1
      BY <1>2, <3>1 DEF OnceEach
    <3> QED BY <1>1, <3>2
  <2> QED BY <2>1 DEF OnceEach
<1>5. ASSUME NEW i \in 1 .. Len(Tail(t)), Tail(t)[i].data = Head(t).data PROVE FALSE
  <2>1. t[i + 1].data = t[1].data
    BY <1>1, <1>2, <1>5
  <2>2. i + 1 = 1
    BY <1>2, <1>3, <2>1 DEF OnceEach
  <2> QED BY <1>1, <2>2
<1> QED BY <1>4, <1>5

(* What the invariant says about the nodes, in numbers: with a process on  *)
(* the CPU and the rest of the system within its share there is one node   *)
(* to spare and there are two to clean it up.                              *)
LEMMA NodeSupply ==
  ASSUME IInv
  PROVE  /\ NQNODES = 2 * MAX_PROCS + Share /\ Share \in Nat /\ lent \in Nat
         /\ Used(q) \in Nat /\ Used(q) = Queued(q) + Len(q[FreeStacks])
         /\ Used(q) + lent <= NQNODES
         /\ Queued(q) \in Nat
         /\ Len(q[FreePcbs]) \in 0 .. Queued(q)
         /\ Len(q[FreeStacks]) \in Nat
         /\ Busy = IF mode \in {"user", "clock"} THEN 1 ELSE 0
         /\ ~overdrawn => /\ Len(q[FreeStacks]) = Len(q[FreePcbs])
                          /\ Queued(q) + Busy <= MAX_PROCS
                          /\ lent <= Share
<1>1. Queued(q) \in Nat /\ Len(q[FreePcbs]) \in 0 .. Queued(q)
  BY QueuedBound DEF IInv, TypeOK
<1>2. Len(q[FreeStacks]) \in Nat
  BY QueueSeq DEF IInv, TypeOK, Queues, FreeStacks
<1>3. Used(q) \in Nat /\ Used(q) = Queued(q) + Len(q[FreeStacks])
  BY <1>1, <1>2 DEF Used
<1>4. NQNODES = 2 * MAX_PROCS + Share /\ Share \in Nat
  BY SizeAssumption DEF NQNODES, Share
<1> QED BY <1>1, <1>2, <1>3, <1>4 DEF IInv, TypeOK, NodesCounted, NodesSuffice, Busy

(* The process on the CPU goes into a queue that suits its new status, if  *)
(* there is a node.  This covers the end of a quantum, yielding, sleeping  *)
(* and blocking.                                                           *)
LEMMA LeaveCpu ==
  ASSUME IInv, mode \in {"user", "clock"},
         NEW id \in 0 .. 4, NEW k \in Nat, NEW st \in 0 .. 6,
         q' = QInsert(q, id, k, current),
         status' = [status EXCEPT ![current] = st],
         mode' \in {"dispatch", "panic"}, mode' = "panic" => ~HasNode(q),
         UNCHANGED <<current, quantum, procVars, poolVars, incount>>, time' \in Nat,
         id \in Levels => st = PROC_READY /\ level[current] = id,
         id = Sleeping => st = PROC_SLEEPING,
         id = Reading => st = PROC_BLOCKED /\ incount = 0,
         current = Idle => id = LEVEL_LOW
  PROVE  IInv'
<1>1. /\ current \in PCBs /\ q \in QueueContents /\ id \in Queues
      /\ status \in [PCBs -> 0 .. 6] /\ Idle \in PCBs
      /\ lent' = lent /\ overdrawn' = overdrawn
  <2>1. Idle \in PCBs
    BY SizeAssumption DEF Idle, PCBs
  <2>2. id \in Queues
    BY DEF Queues
  <2> QED BY <2>1, <2>2 DEF IInv, TypeOK, poolVars
<1>2. (~overdrawn => HasNode(q)) /\ Busy = 1
  <2>1. MAX_PROCS \in Nat /\ NQNODES \in Nat /\ Busy = 1
    BY NodeSupply, SizeAssumption
  <2>2. ASSUME ~overdrawn PROVE Used(q) + lent < NQNODES
    <3>1. /\ Queued(q) + 1 <= MAX_PROCS /\ lent <= Share
          /\ Len(q[FreeStacks]) \in 0 .. Queued(q)
      BY <2>1, <2>2, NodeSupply
    <3>2. /\ Used(q) = Queued(q) + Len(q[FreeStacks]) /\ NQNODES = 2 * MAX_PROCS + Share
          /\ Queued(q) \in Nat /\ lent \in Nat /\ Share \in Nat
      BY NodeSupply
    <3> QED BY <2>1, <3>1, <3>2
  <2> QED BY <2>1, <2>2 DEF HasNode
<1>3. OnCpu(current) /\ \A a \in PcbQueues : ~In(q, a, current)
  BY <1>1 DEF IInv, OnePlace, OnCpu
<1>4. /\ q' \in QueueContents
      /\ \A a \in Queues : a # id => q'[a] = q[a]
      /\ \A a \in Queues, x \in PCBs : In(q, a, x) => In(q', a, x)
      /\ \A a \in Queues, x \in PCBs :
            In(q', a, x) => In(q, a, x) \/ (a = id /\ x = current)
      /\ Distinct(q')
      /\ Used(q') + lent <= NQNODES
  <2>1. Distinct(q) /\ Used(q) + lent <= NQNODES /\ lent \in Nat
    BY DEF IInv, OnePlace, NodesCounted, TypeOK
  <2>2. q' \in QueueContents
    BY <1>1, InsertMaybe
  <2>3. ASSUME NEW a \in Queues, a # id PROVE q'[a] = q[a]
    BY <1>1, <2>3, InsertOther
  <2>4. \A a \in Queues, x \in PCBs : In(q, a, x) => In(q', a, x)
    BY <1>1, InsertMaybe
  <2>5. \A a \in Queues, x \in PCBs :
          In(q', a, x) => In(q, a, x) \/ (a = id /\ x = current)
    BY <1>1, InsertMaybe
  <2>6. Distinct(q')
    BY <1>1, <1>3, <2>1, InsertMaybe
  <2>7. Used(q') + lent <= NQNODES
    BY <1>1, <2>1, InsertMaybe
  <2> QED BY <2>2, <2>3, <2>4, <2>5, <2>6, <2>7
<1>5. HasNode(q) => /\ In(q', id, current)
                    /\ Queued(q') = IF id \in PcbQueues THEN Queued(q) + 1 ELSE Queued(q)
  BY <1>1, InsertFacts
<1>6. /\ PcbQueues \subseteq Queues /\ id \in PcbQueues
      /\ \A x \in PCBs : ~OnCpu(x)'
      /\ q'[FreePcbs] = q[FreePcbs] /\ q'[FreeStacks] = q[FreeStacks]
  BY <1>4 DEF PcbQueues, Queues, OnCpu, FreePcbs, FreeStacks
<1>7. TypeOK'
  BY <1>1, <1>4 DEF IInv, TypeOK, procVars
<1>8. OnePlace'
  BY <1>4, <1>6 DEF OnePlace
<1>9. StatusFitsPlace'
  <2>1. ASSUME NEW a \in PcbQueues, NEW x \in PCBs, In(q', a, x)
        PROVE  FitsQueue(a, x)'
    <3>1. CASE x = current
      BY <1>1, <1>3, <1>4, <1>6, <2>1, <3>1
        DEF FitsQueue, procVars, Levels, MLQ_LEVELS, Sleeping, Reading, FreePcbs
    <3>2. CASE x # current
      <4>1. In(q, a, x) /\ status'[x] = status[x] /\ level' = level
        BY <1>1, <1>4, <1>6, <2>1, <3>2 DEF procVars
      <4> QED BY <4>1 DEF IInv, StatusFitsPlace, FitsQueue
    <3> QED BY <3>1, <3>2
  <2>2. ASSUME NEW x \in PCBs PROVE status'[x] # PROC_RUNNING
    <3>1. CASE x = current
      BY <1>1, <3>1 DEF Levels, MLQ_LEVELS, Sleeping, Reading, PROC_READY,
          PROC_SLEEPING, PROC_BLOCKED, PROC_RUNNING
    <3>2. CASE x # current
      BY <1>1, <3>2 DEF IInv, StatusFitsPlace, OnCpu
    <3> QED BY <3>1, <3>2
  <2> QED BY <1>6, <2>1, <2>2 DEF StatusFitsPlace
<1>10. \A x \in PCBs : Live(x)' <=> Live(x)
  <2>1. Live(current) /\ Live(current)'
    <3>1. Live(current)
      BY <1>1, <1>3 DEF IInv, StatusFitsPlace, Live, PROC_RUNNING, PROC_NEW
    <3>2. st > PROC_NEW
      BY DEF Levels, MLQ_LEVELS, Sleeping, Reading, PROC_READY, PROC_SLEEPING, PROC_BLOCKED,
          PROC_NEW
    <3> QED BY <1>1, <3>1, <3>2 DEF Live
  <2>2. ASSUME NEW x \in PCBs, x # current PROVE Live(x)' <=> Live(x)
    BY <1>1, <2>2 DEF Live
  <2> QED BY <2>1, <2>2
<1>11. NothingLost'
  <2>1. ASSUME ~overdrawn, NEW x \in PCBs, Live(x)' PROVE \E a \in PcbQueues : In(q', a, x)
    <3>1. CASE x = current
      BY <1>2, <1>5, <1>6, <2>1, <3>1
    <3>2. CASE x # current
      <4>1. PICK a \in PcbQueues : In(q, a, x)
        BY <1>10, <2>1, <3>2 DEF IInv, NothingLost, Placed, OnCpu
      <4> QED BY <1>4, <1>6, <4>1
    <3> QED BY <3>1, <3>2
  <2> QED BY <1>1, <2>1 DEF NothingLost, Placed
<1>12. PrivateStacks' /\ PooledOnce' /\ StackForEveryPcb'
  BY <1>6, <1>10
     DEF IInv, PrivateStacks, PooledOnce, StackForEveryPcb, In, procVars
<1>13. NodesCounted' /\ NodesSuffice'
  <2>1. Busy' = 0
    BY DEF Busy
  <2>2. ~overdrawn => Queued(q') = Queued(q) + 1
    BY <1>2, <1>5, <1>6
  <2>3. ~overdrawn => Queued(q') + Busy' <= MAX_PROCS
    BY <1>2, <2>1, <2>2, NodeSupply
  <2> QED BY <1>1, <1>2, <1>4, <1>6, <2>3 DEF IInv, NodesCounted, NodesSuffice
<1>14. LiveLevel'
  BY <1>10 DEF IInv, LiveLevel, procVars
<1>15. IdleStays'
  <2>1. In(q', LEVEL_LOW, Idle)
    <3>1. CASE current = Idle
      BY <1>3, <1>5, <3>1 DEF IInv, IdleStays
    <3>2. CASE current # Idle
      BY <1>1, <1>4, <3>2 DEF IInv, IdleStays, OnCpu, LEVEL_LOW, Queues
    <3> QED BY <3>1, <3>2
  <2>2. status'[Idle] \in {PROC_READY, PROC_RUNNING}
    BY <1>1 DEF IInv, IdleStays, LEVEL_LOW, Levels, MLQ_LEVELS
  <2> QED BY <1>1, <1>6, <2>1, <2>2 DEF IInv, IdleStays, procVars
<1>16. ReadersFindBufferEmpty'
  <2>1. id # Reading => q'[Reading] = q[Reading]
    BY <1>4 DEF Queues, Reading
  <2> QED BY <2>1 DEF IInv, ReadersFindBufferEmpty
<1> QED
  BY <1>7, <1>8, <1>9, <1>11, <1>12, <1>13, <1>14, <1>15, <1>16 DEF IInv

(* A process that waited for its wake-up time or for input is scheduled.   *)
LEMMA BecomeReady ==
  ASSUME IInv, NEW w \in {Sleeping, Reading}, q[w] # <<>>,
         q' = ScheduleQ(QRemove(q, w), level[First(w)], First(w)),
         status' = ScheduleStatus(status, level[First(w)], First(w)),
         UNCHANGED <<current, quantum, procVars, poolVars, time, incount, mode>>
  PROVE  IInv'
<1> DEFINE p == First(w)
           r == QRemove(q, w)
           l == level[p]
<1>1. /\ q \in QueueContents /\ w \in Queues /\ w \in PcbQueues /\ Idle \in PCBs
      /\ status \in [PCBs -> 0 .. 6] /\ PcbQueues \subseteq Queues
      /\ w \notin Levels /\ w # FreePcbs /\ w # FreeStacks
      /\ lent' = lent /\ overdrawn' = overdrawn /\ lent \in Nat
  BY SizeAssumption DEF IInv, TypeOK, Queues, PcbQueues, Sleeping, Reading, Idle,
     PCBs, Levels, MLQ_LEVELS, FreePcbs, FreeStacks, poolVars
<1>2. /\ r \in QueueContents /\ p \in PCBs /\ In(q, w, p)
      /\ \A a \in Queues : a # w => r[a] = q[a]
      /\ Len(r[w]) = Len(q[w]) - 1
      /\ Queued(q) \in Nat /\ Queued(r) = Queued(q) - 1
      /\ Used(q) \in Nat /\ Used(r) = Used(q) - 1
      /\ \A a \in Queues, x \in PCBs : In(r, a, x) => In(q, a, x)
      /\ \A a \in Queues, x \in PCBs : In(q, a, x) => In(r, a, x) \/ (a = w /\ x = p)
      /\ Distinct(r) /\ \A a \in PcbQueues : ~In(r, a, p)
  BY <1>1, RemoveFacts DEF IInv, OnePlace, First
<1> HIDE DEF p, r
<1>3. /\ status[p] \in {PROC_SLEEPING, PROC_BLOCKED, PROC_ZOMBIE}
      /\ Live(p) /\ ~OnCpu(p)
  BY <1>1, <1>2 DEF IInv, StatusFitsPlace, FitsQueue, OnePlace, Live, PROC_NEW,
     PROC_SLEEPING, PROC_BLOCKED, PROC_ZOMBIE
<1>4. p # Idle
  BY <1>3 DEF IInv, IdleStays, PROC_SLEEPING, PROC_BLOCKED, PROC_ZOMBIE, PROC_READY,
     PROC_RUNNING
<1>5. l \in Levels /\ l \in Queues /\ l \in PcbQueues /\ l # w
  BY <1>1, <1>2, <1>3 DEF IInv, LiveLevel, Levels, MLQ_LEVELS, Queues, PcbQueues
<1> HIDE DEF l
<1>6. q' = QInsert(r, l, 0, p) /\ status' = [status EXCEPT ![p] = PROC_READY]
  BY <1>5 DEF ScheduleQ, ScheduleStatus, Levels, MLQ_LEVELS, p, r, l
<1>7. HasNode(r)
  BY <1>2, NodeSupply, SizeAssumption DEF HasNode
<1>8. /\ q' \in QueueContents
      /\ \A a \in Queues : a # l => q'[a] = r[a]
      /\ Queued(q') = Queued(q) /\ Used(q') = Used(q)
      /\ \A a \in Queues, x \in PCBs :
            In(q', a, x) <=> In(r, a, x) \/ (a = l /\ x = p)
      /\ Distinct(q')
  BY <1>1, <1>2, <1>5, <1>6, <1>7, InsertFacts
<1>9. /\ \A x \in PCBs : OnCpu(x)' <=> OnCpu(x)
      /\ \A x \in PCBs : x # p => status'[x] = status[x]
      /\ status'[p] = PROC_READY /\ status' \in [PCBs -> 0 .. 6]
  BY <1>1, <1>2, <1>6 DEF OnCpu, PROC_READY
<1>10. TypeOK'
  BY <1>1, <1>8, <1>9 DEF IInv, TypeOK, procVars
<1>11. OnePlace'
  BY <1>1, <1>2, <1>3, <1>8, <1>9 DEF IInv, OnePlace
<1>12. StatusFitsPlace'
  <2>1. ASSUME NEW a \in PcbQueues, NEW x \in PCBs, In(q', a, x)
        PROVE  FitsQueue(a, x)'
    <3>1. CASE x = p
      BY <1>1, <1>2, <1>5, <1>8, <1>9, <2>1, <3>1 DEF FitsQueue, procVars, l,
         Levels, MLQ_LEVELS, Sleeping, Reading, FreePcbs
    <3>2. CASE x # p
      <4>1. In(q, a, x) /\ status'[x] = status[x] /\ level' = level
        BY <1>1, <1>2, <1>8, <1>9, <2>1, <3>2 DEF procVars
      <4> QED BY <4>1 DEF IInv, StatusFitsPlace, FitsQueue
    <3> QED BY <3>1, <3>2
  <2> QED BY <1>3, <1>9, <2>1
      DEF IInv, StatusFitsPlace, PROC_READY, PROC_RUNNING
<1>13. NothingLost'
  <2>1. ASSUME ~overdrawn, NEW x \in PCBs, Live(x)', ~OnCpu(x)'
        PROVE  \E a \in PcbQueues : In(q', a, x)
    <3>1. CASE x = p
      BY <1>1, <1>5, <1>8, <3>1
    <3>2. CASE x # p
      BY <1>1, <1>2, <1>8, <1>9, <2>1, <3>2 DEF IInv, NothingLost, Placed, Live
    <3> QED BY <3>1, <3>2
  <2> QED BY <1>1, <2>1 DEF NothingLost, Placed
<1>14. q'[FreePcbs] = q[FreePcbs] /\ q'[FreeStacks] = q[FreeStacks]
  BY <1>1, <1>2, <1>5, <1>8 DEF Queues, Levels, MLQ_LEVELS, FreePcbs, FreeStacks
<1>15. \A x \in PCBs : Live(x)' <=> Live(x)
  BY <1>3, <1>9 DEF Live, PROC_READY, PROC_NEW
<1>16. PrivateStacks' /\ PooledOnce' /\ StackForEveryPcb'
  BY <1>14, <1>15 DEF IInv, PrivateStacks, PooledOnce, StackForEveryPcb, In, procVars
<1>17. NodesCounted' /\ NodesSuffice'
  <2>1. Busy' = Busy
    BY DEF Busy
  <2> QED BY <1>1, <1>8, <1>14, <2>1 DEF IInv, NodesCounted, NodesSuffice
<1>18. LiveLevel'
  BY <1>15 DEF IInv, LiveLevel, procVars
<1>19. IdleStays'
  <2>1. HasNode(q) => HasNode(q)'
    BY <1>1, <1>8 DEF HasNode
  <2> QED BY <1>1, <1>2, <1>4, <1>8, <1>9, <2>1 DEF IInv, IdleStays, procVars, Queues, LEVEL_LOW
<1>20. ReadersFindBufferEmpty'
  <2>1. Reading # l /\ Reading \in Queues
    BY <1>5 DEF Levels, MLQ_LEVELS, Reading, Queues
  <2>2. q[Reading] = <<>> => q'[Reading] = q[Reading]
    BY <1>2, <1>8, <2>1
  <2> QED BY <2>2 DEF IInv, ReadersFindBufferEmpty
<1> QED
  BY <1>10, <1>11, <1>12, <1>13, <1>16, <1>17, <1>18, <1>19, <1>20 DEF IInv

(* _cleanup of a process that has left its queue or the CPU: base is what  *)
(* the queues hold without it.  The stack goes first: when nodes are       *)
(* scarce the PCB may be lost and even the stack, but never a stack alone. *)
LEMMA CleanedUp ==
  ASSUME IInv, NEW p \in PCBs, NEW base \in QueueContents,
         Live(p), p # Idle, mode \in {"user", "dispatch"},
         Distinct(base), \A a \in PcbQueues : ~In(base, a, p),
         \A a \in PcbQueues, x \in PCBs : x # p => (In(base, a, x) <=> In(q, a, x)),
         base[FreePcbs] = q[FreePcbs], base[FreeStacks] = q[FreeStacks],
         base[Reading] = q[Reading],
         Queued(base) \in Nat, Used(base) + lent <= NQNODES,
         ~overdrawn => Queued(base) + 1 <= MAX_PROCS,
         Len(q[FreePcbs]) <= Queued(base),
         \A x \in PCBs : x # p => ~OnCpu(x),
         q' = CleanupQ(base, p),
         status' = [status EXCEPT ![p] = PROC_FREE],
         mode' = "dispatch",
         UNCHANGED <<current, quantum, procVars, poolVars, time, incount>>
  PROVE  IInv'
<1> DEFINE s == stack[p]
           b1 == QInsert(base, FreeStacks, 0, s)
<1>1. /\ PcbQueues \subseteq Queues /\ FreePcbs \in Queues /\ FreeStacks \in Queues
      /\ FreePcbs \in PcbQueues /\ FreeStacks \notin PcbQueues
      /\ Idle \in PCBs /\ status \in [PCBs -> 0 .. 6] /\ FreePcbs # FreeStacks
      /\ Reading \in Queues /\ Reading # FreePcbs /\ Reading # FreeStacks
      /\ LEVEL_LOW \in PcbQueues /\ 0 \in Nat
      /\ lent' = lent /\ overdrawn' = overdrawn /\ lent \in Nat
  BY SizeAssumption DEF IInv, TypeOK, Queues, PcbQueues, FreePcbs, FreeStacks, Reading,
     Idle, PCBs, poolVars, LEVEL_LOW
<1>2. s # 0 /\ s \in PCBs /\ ~In(q, FreeStacks, s)
  <2>1. s # 0 /\ ~In(q, FreeStacks, s)
    BY DEF IInv, PrivateStacks
  <2>2. s \in 0 .. MAX_PROCS
    BY DEF IInv, TypeOK
  <2> QED BY <2>1, <2>2, SizeAssumption DEF PCBs
<1>3. q' = QInsert(b1, FreePcbs, 0, p)
  BY <1>2 DEF CleanupQ
<1> HIDE DEF s
<1>4. /\ b1 \in QueueContents
      /\ \A a \in Queues : a # FreeStacks => b1[a] = base[a]
      /\ \A a \in Queues, x \in PCBs :
            In(b1, a, x) => In(base, a, x) \/ (a = FreeStacks /\ x = s)
      /\ Distinct(b1)
      /\ Used(b1) + lent <= NQNODES
      /\ OnceEach(b1[FreeStacks])
  <2>1. /\ b1 \in QueueContents
        /\ \A a \in Queues : a # FreeStacks => b1[a] = base[a]
        /\ Distinct(base) => Distinct(b1)
        /\ Used(b1) + lent <= NQNODES
    BY <1>1, <1>2, InsertMaybe
  <2>2. \A a \in Queues, x \in PCBs :
          In(b1, a, x) => In(base, a, x) \/ (a = FreeStacks /\ x = s)
    BY <1>1, <1>2, InsertMaybe
  <2>3. ~In(base, FreeStacks, s) /\ OnceEach(base[FreeStacks])
    BY <1>2 DEF In, IInv, PooledOnce
  <2>4. OnceEach(b1[FreeStacks])
    BY <1>2, <2>3, PoolStack
  <2> QED BY <2>1, <2>2, <2>4
<1>5. /\ HasNode(base) => /\ Len(b1[FreeStacks]) = Len(base[FreeStacks]) + 1
                          /\ Queued(b1) = Queued(base)
                          /\ Used(b1) = Used(base) + 1
      /\ ~HasNode(base) => b1 = base
  <2>1. ~HasNode(base) => b1 = base
    BY DEF QInsert
  <2>2. HasNode(base) => Len(b1[FreeStacks]) = Len(base[FreeStacks]) + 1
    BY <1>1, <1>2, InsertFacts
  <2>3. HasNode(base) =>
          Queued(b1) = IF FreeStacks \in PcbQueues THEN Queued(base) + 1 ELSE Queued(base)
    BY <1>1, <1>2, InsertFacts
  <2>4. HasNode(base) => Used(b1) = Used(base) + 1
    BY <1>1, <1>2, InsertFacts
  <2> QED BY <1>1, <2>1, <2>2, <2>3, <2>4
<1> HIDE DEF b1
<1>6. \A a \in PcbQueues : b1[a] = base[a] /\ ~In(b1, a, p)
  BY <1>1, <1>4 DEF In
<1>7. /\ q' \in QueueContents
      /\ \A a \in Queues : a # FreePcbs => q'[a] = b1[a]
      /\ \A a \in Queues, x \in PCBs : In(b1, a, x) => In(q', a, x)
      /\ \A a \in Queues, x \in PCBs :
            In(q', a, x) => In(b1, a, x) \/ (a = FreePcbs /\ x = p)
      /\ Distinct(q')
      /\ Used(q') + lent <= NQNODES
  <2>0. b1 \in QueueContents /\ FreePcbs \in Queues /\ 0 \in Nat
    BY <1>1, <1>4
  <2>1. q' \in QueueContents
    BY <1>3, <2>0, InsertMaybe
  <2>2. ASSUME NEW a \in Queues, a # FreePcbs PROVE q'[a] = b1[a]
    BY <1>3, <2>0, <2>2, InsertOther
  <2>3. \A a \in Queues, x \in PCBs : In(b1, a, x) => In(q', a, x)
    BY <1>3, <2>0, InsertMaybe
  <2>4. \A a \in Queues, x \in PCBs :
          In(q', a, x) => In(b1, a, x) \/ (a = FreePcbs /\ x = p)
    <3>1. ASSUME NEW a \in Queues, NEW x \in PCBs, a # FreePcbs, In(q', a, x)
          PROVE  In(b1, a, x)
      BY <2>2, <3>1 DEF In
    <3>2. ASSUME NEW x \in PCBs, x # p, In(q', FreePcbs, x) PROVE In(b1, FreePcbs, x)
      BY <1>3, <2>0, <3>2, InsertMaybe
    <3> QED BY <3>1, <3>2
  <2>5. Distinct(q')
    BY <1>1, <1>3, <1>4, <1>6, InsertMaybe
  <2>6. Used(q') + lent <= NQNODES
    BY <1>1, <1>3, <1>4, <2>0, InsertMaybe
  <2> QED BY <2>1, <2>2, <2>3, <2>4, <2>5, <2>6
<1>8. /\ HasNode(b1) => /\ Len(q'[FreePcbs]) = Len(b1[FreePcbs]) + 1
                        /\ Queued(q') = Queued(b1) + 1
      /\ ~HasNode(b1) => q' = b1
  <2>1. ~HasNode(b1) => q' = b1
    BY <1>3 DEF QInsert
  <2>2. HasNode(b1) =>
          /\ Len(q'[FreePcbs]) = Len(b1[FreePcbs]) + 1
          /\ Queued(q') = IF FreePcbs \in PcbQueues THEN Queued(b1) + 1 ELSE Queued(b1)
    BY <1>1, <1>3, <1>4, InsertFacts
  <2> QED BY <1>1, <2>1, <2>2
<1>9. /\ Len(q[FreePcbs]) \in Nat /\ Len(q[FreeStacks]) \in Nat
      /\ Used(base) = Queued(base) + Len(q[FreeStacks]) /\ Share \in Nat
      /\ NQNODES = 2 * MAX_PROCS + Share
      /\ ~overdrawn => Len(q[FreeStacks]) = Len(q[FreePcbs]) /\ lent <= Share
  <2>1. Len(q[FreePcbs]) \in Nat
    BY <1>1, QueueSeq DEF IInv, TypeOK
  <2> QED BY <2>1, NodeSupply DEF Used
<1>10. ~overdrawn => HasNode(base) /\ HasNode(b1)
  <2>1. ~overdrawn => Used(base) + 1 + lent < NQNODES
    BY <1>1, <1>9, SizeAssumption
  <2>2. Used(base) \in Nat /\ NQNODES \in Nat
    BY <1>9, SizeAssumption
  <2>3. ~overdrawn => HasNode(base)
    BY <1>1, <2>1, <2>2 DEF HasNode
  <2> QED BY <1>1, <1>5, <2>1, <2>2, <2>3 DEF HasNode
<1>11. \A a \in PcbQueues, x \in PCBs :
          /\ In(q', a, x) => (x # p /\ In(q, a, x)) \/ (a = FreePcbs /\ x = p)
          /\ x # p /\ In(q, a, x) => In(q', a, x)
  <2>1. \A a \in PcbQueues, x \in PCBs : In(b1, a, x) <=> In(base, a, x)
    BY <1>6 DEF In
  <2> QED BY <1>1, <1>6, <1>7, <2>1
<1>12. /\ status'[p] = PROC_FREE /\ \A x \in PCBs : x # p => status'[x] = status[x]
       /\ status' \in [PCBs -> 0 .. 6]
       /\ \A x \in PCBs : ~OnCpu(x)'
       /\ ~Live(p)' /\ \A x \in PCBs : x # p => (Live(x)' <=> Live(x))
  BY <1>1 DEF OnCpu, PROC_FREE, Live, PROC_NEW
<1>13. TypeOK'
  BY <1>1, <1>7, <1>12 DEF IInv, TypeOK, procVars
<1>14. OnePlace'
  BY <1>7, <1>12 DEF OnePlace
<1>15. StatusFitsPlace'
  <2>1. ASSUME NEW a \in PcbQueues, NEW x \in PCBs, In(q', a, x)
        PROVE  FitsQueue(a, x)'
    <3>1. CASE x = p
      BY <1>11, <1>12, <2>1, <3>1
         DEF FitsQueue, Levels, MLQ_LEVELS, Sleeping, Reading, FreePcbs
    <3>2. CASE x # p
      <4>1. In(q, a, x) /\ status'[x] = status[x] /\ level' = level
        BY <1>11, <1>12, <2>1, <3>2 DEF procVars
      <4> QED BY <4>1 DEF IInv, StatusFitsPlace, FitsQueue
    <3> QED BY <3>1, <3>2
  <2>2. ASSUME NEW x \in PCBs PROVE status'[x] # PROC_RUNNING
    BY <1>12 DEF IInv, StatusFitsPlace, PROC_FREE, PROC_RUNNING
  <2> QED BY <1>12, <2>1, <2>2 DEF StatusFitsPlace
<1>16. NothingLost'
  <2>1. ASSUME ~overdrawn, NEW x \in PCBs, Live(x)' PROVE \E a \in PcbQueues : In(q', a, x)
    <3>1. x # p
      BY <1>12, <2>1
    <3>2. \E a \in PcbQueues : In(q, a, x)
      BY <1>12, <2>1, <3>1 DEF IInv, NothingLost, Placed
    <3> QED BY <1>11, <3>1, <3>2
  <2> QED BY <1>1, <2>1 DEF NothingLost, Placed
<1>17. PrivateStacks'
  <2> SUFFICES ASSUME NEW x \in PCBs, Live(x)'
               PROVE  /\ stack'[x] # 0
                      /\ \A y \in PCBs : Live(y)' /\ y # x => stack'[y] # stack'[x]
                      /\ ~In(q', FreeStacks, stack'[x])
    BY DEF PrivateStacks
  <2>1. x # p /\ Live(x) /\ stack' = stack
    BY <1>12 DEF procVars
  <2>2. stack[x] # 0 /\ stack[x] # s /\ ~In(q, FreeStacks, stack[x])
        /\ \A y \in PCBs : Live(y) /\ y # x => stack[y] # stack[x]
    BY <2>1 DEF IInv, PrivateStacks, s
  <2>3. stack[x] \in PCBs
    <3>1. stack[x] \in 0 .. MAX_PROCS
      BY DEF IInv, TypeOK
    <3> QED BY <2>2, <3>1, SizeAssumption DEF PCBs
  <2>4. ~In(base, FreeStacks, stack[x])
    BY <2>2 DEF In
  <2>5. ~In(q', FreeStacks, stack[x])
    BY <1>1, <1>4, <1>7, <2>2, <2>3, <2>4
  <2>6. \A y \in PCBs : Live(y)' => Live(y)
    BY <1>12
  <2> QED BY <2>1, <2>2, <2>5, <2>6
<1>18. PooledOnce' /\ StackForEveryPcb'
  <2>1. q'[FreeStacks] = b1[FreeStacks] /\ b1[FreePcbs] = q[FreePcbs]
    BY <1>1, <1>4, <1>7
  <2>2. Len(q[FreePcbs]) <= Len(q[FreeStacks])
    BY DEF IInv, StackForEveryPcb
  <2>3. HasNode(b1) => HasNode(base)
    BY <1>5
  <2>4. Len(q'[FreePcbs]) <= Len(q'[FreeStacks])
    <3>1. CASE HasNode(b1)
      <4>1. Len(q'[FreePcbs]) = Len(q[FreePcbs]) + 1
        BY <1>8, <2>1, <3>1
      <4>2. Len(q'[FreeStacks]) = Len(q[FreeStacks]) + 1
        BY <1>5, <2>1, <2>3, <3>1
      <4> QED BY <1>9, <2>2, <4>1, <4>2
    <3>2. CASE ~HasNode(b1) /\ HasNode(base)
      <4>1. Len(q'[FreePcbs]) = Len(q[FreePcbs])
        BY <1>8, <2>1, <3>2
      <4>2. Len(q'[FreeStacks]) = Len(q[FreeStacks]) + 1
        BY <1>5, <2>1, <3>2
      <4> QED BY <1>9, <2>2, <4>1, <4>2
    <3>3. CASE ~HasNode(base)
      BY <1>5, <1>8, <2>1, <2>2, <2>3, <3>3
    <3> QED BY <3>1, <3>2, <3>3
  <2> QED BY <1>4, <2>1, <2>4 DEF PooledOnce, StackForEveryPcb
<1>19. NodesCounted' /\ NodesSuffice'
  <2>1. Busy' = 0
    BY DEF Busy
  <2>2. q'[FreeStacks] = b1[FreeStacks] /\ b1[FreePcbs] = q[FreePcbs]
    BY <1>1, <1>4, <1>7
  <2>3. ~overdrawn => /\ Queued(q') = Queued(base) + 1
                      /\ Len(q'[FreeStacks]) = Len(q'[FreePcbs])
    BY <1>5, <1>8, <1>9, <1>10, <2>2
  <2> QED BY <1>1, <1>7, <1>9, <2>1, <2>3, SizeAssumption DEF NodesCounted, NodesSuffice
<1>20. LiveLevel'
  BY <1>12 DEF IInv, LiveLevel, procVars
<1>21. IdleStays'
  <2>1. In(q, LEVEL_LOW, Idle)
    BY <1>1 DEF IInv, IdleStays
  <2> QED BY <1>1, <1>11, <1>12, <2>1 DEF IInv, IdleStays, procVars
<1>22. ReadersFindBufferEmpty'
  <2>1. q'[Reading] = q[Reading]
    BY <1>1, <1>4, <1>7
  <2> QED BY <2>1 DEF IInv, ReadersFindBufferEmpty
<1> QED
  BY <1>13, <1>14, <1>15, <1>16, <1>17, <1>18, <1>19, <1>20, <1>21, <1>22 DEF IInv

(* One iteration of _dispatch: it cannot fail, because the idle process is *)
(* always found and only ready processes and zombies are in ready queues.  *)
LEMMA DispatchStep == IInv /\ Dispatch => IInv'
<1> SUFFICES ASSUME IInv, Dispatch PROVE IInv'
  OBVIOUS
<1>1. /\ q \in QueueContents /\ PcbQueues \subseteq Queues /\ Levels \subseteq PcbQueues
      /\ status \in [PCBs -> 0 .. 6] /\ mode = "dispatch" /\ Idle \in PCBs
      /\ UNCHANGED <<procVars, poolVars, time, incount>>
      /\ lent' = lent /\ overdrawn' = overdrawn /\ lent \in Nat
  BY SizeAssumption DEF IInv, TypeOK, Dispatch, PcbQueues, Queues, Levels, MLQ_LEVELS,
     PCBs, Idle, poolVars
<1>2. \A x \in PCBs : ~OnCpu(x)
  BY <1>1 DEF OnCpu
<1>3. ~(\A l \in Levels : q[l] = <<>>)
  <2>1. In(q, LEVEL_LOW, Idle) /\ LEVEL_LOW \in Levels
    BY <1>1, <1>2 DEF IInv, IdleStays, LEVEL_LOW, Levels, MLQ_LEVELS
  <2> QED BY <2>1, EmptySeq DEF In
<1>4. PICK l \in Levels :
        /\ TopLevel(l)
        /\ CASE status[First(l)] = PROC_READY -> Run(l, First(l))
             [] status[First(l)] = PROC_ZOMBIE -> Reap(l, First(l))
             [] OTHER -> Panic
  BY <1>3 DEF Dispatch
<1> DEFINE p == First(l)
           r == QRemove(q, l)
<1>5. l \in Queues /\ l \in PcbQueues /\ q[l] # <<>> /\ l # FreePcbs /\ l # FreeStacks
      /\ l # Reading /\ FreePcbs \in Queues /\ FreeStacks \in Queues /\ Reading \in Queues
  BY <1>1, <1>4 DEF TopLevel, Levels, MLQ_LEVELS, FreePcbs, FreeStacks, Reading, Queues
<1>6. /\ r \in QueueContents /\ p \in PCBs /\ In(q, l, p)
      /\ \A a \in Queues : a # l => r[a] = q[a]
      /\ Queued(q) \in Nat /\ Queued(r) = Queued(q) - 1
      /\ Used(q) \in Nat /\ Used(r) = Used(q) - 1
      /\ \A a \in Queues, x \in PCBs : In(r, a, x) => In(q, a, x)
      /\ \A a \in Queues, x \in PCBs : In(q, a, x) => In(r, a, x) \/ (a = l /\ x = p)
      /\ Distinct(r) /\ \A a \in PcbQueues : ~In(r, a, p)
  BY <1>1, <1>5, RemoveFacts DEF IInv, OnePlace, First
<1>7. status[p] \in {PROC_READY, PROC_ZOMBIE} /\ level[p] = l /\ Live(p)
  BY <1>5, <1>6 DEF IInv, StatusFitsPlace, FitsQueue, Live, PROC_READY, PROC_ZOMBIE, PROC_NEW
<1> HIDE DEF p, r
<1>8. r[FreePcbs] = q[FreePcbs] /\ r[FreeStacks] = q[FreeStacks] /\ r[Reading] = q[Reading]
  BY <1>5, <1>6
<1>9. CASE status[p] = PROC_READY
  <2>1. Run(l, p)
    BY <1>4, <1>9 DEF p, PROC_READY, PROC_ZOMBIE
  <2>2. /\ q' = r /\ current' = p /\ mode' = "user" /\ quantum' = QUANTUM_DEFAULT
        /\ status'[p] = PROC_RUNNING /\ status' \in [PCBs -> 0 .. 6]
        /\ \A x \in PCBs : x # p => status'[x] = status[x]
        /\ \A x \in PCBs : OnCpu(x)' <=> x = p
    BY <1>1, <1>6, <2>1 DEF Run, r, OnCpu, PROC_RUNNING
  <2>3. TypeOK'
    BY <1>1, <1>6, <2>2, ClockAssumption DEF IInv, TypeOK, procVars
  <2>4. OnePlace'
    BY <1>6, <2>2 DEF OnePlace
  <2>5. StatusFitsPlace'
    <3>1. ASSUME NEW a \in PcbQueues, NEW x \in PCBs, In(q', a, x)
          PROVE  FitsQueue(a, x)'
      <4>1. x # p /\ In(q, a, x) /\ status'[x] = status[x] /\ level' = level
        BY <1>1, <1>6, <2>2, <3>1 DEF procVars
      <4> QED BY <4>1 DEF IInv, StatusFitsPlace, FitsQueue
    <3> QED BY <1>2, <2>2, <3>1 DEF IInv, StatusFitsPlace
  <2>6. NothingLost'
    <3>1. ASSUME ~overdrawn, NEW x \in PCBs, Live(x)', x # p
          PROVE  \E a \in PcbQueues : In(q', a, x)
      BY <1>1, <1>2, <1>6, <2>2, <3>1 DEF IInv, NothingLost, Placed, Live
    <3> QED BY <1>1, <2>2, <3>1 DEF NothingLost, Placed
  <2>7. \A x \in PCBs : Live(x)' <=> Live(x)
    BY <1>7, <2>2 DEF Live, PROC_RUNNING, PROC_NEW
  <2>8. PrivateStacks' /\ PooledOnce' /\ StackForEveryPcb'
    BY <1>1, <1>8, <2>2, <2>7
       DEF IInv, PrivateStacks, PooledOnce, StackForEveryPcb, In, procVars
  <2>9. NodesCounted' /\ NodesSuffice'
    <3>1. Busy = 0 /\ Busy' = 1
      BY <1>1, <2>2 DEF Busy
    <3>2. ~overdrawn => Queued(q') + Busy' <= MAX_PROCS
      BY <1>6, <2>2, <3>1, NodeSupply, SizeAssumption
    <3>3. Used(q') + lent <= NQNODES
      BY <1>1, <1>6, <2>2, NodeSupply, SizeAssumption
    <3> QED BY <1>1, <1>8, <2>2, <3>2, <3>3 DEF IInv, NodesCounted, NodesSuffice
  <2>10. LiveLevel'
    BY <1>1, <2>7 DEF IInv, LiveLevel, procVars
  <2>11. IdleStays'
    <3>1. LEVEL_LOW \in Queues
      BY DEF LEVEL_LOW, Queues
    <3>2. HasNode(q)'
      <4>1. Used(q') + lent < NQNODES
        BY <1>1, <1>6, <2>2, NodeSupply, SizeAssumption
      <4> QED BY <1>1, <4>1 DEF HasNode
    <3> QED BY <1>1, <1>2, <1>6, <2>2, <3>1, <3>2 DEF IInv, IdleStays, procVars
  <2>12. ReadersFindBufferEmpty'
    BY <1>1, <1>8, <2>2 DEF IInv, ReadersFindBufferEmpty
  <2> QED
    BY <2>2, <2>3, <2>4, <2>5, <2>6, <2>7, <2>8, <2>9, <2>10, <2>11, <2>12
       DEF IInv
<1>10. CASE status[p] = PROC_ZOMBIE
  <2>1. Reap(l, p)
    BY <1>4, <1>10 DEF p, PROC_READY, PROC_ZOMBIE
  <2>2. /\ q' = CleanupQ(r, p) /\ status' = [status EXCEPT ![p] = PROC_FREE]
        /\ mode' = "dispatch" /\ UNCHANGED <<current, quantum, procVars, poolVars, time, incount>>
    BY <1>1, <2>1 DEF Reap, r
  <2>3. p # Idle
    BY <1>10 DEF IInv, IdleStays, PROC_READY, PROC_RUNNING, PROC_ZOMBIE
  <2>4. /\ Queued(r) \in Nat /\ (~overdrawn => Queued(r) + 1 <= MAX_PROCS)
        /\ Len(q[FreePcbs]) <= Queued(r) /\ Used(r) + lent <= NQNODES
    <3>1. /\ ~overdrawn => Queued(q) + Busy <= MAX_PROCS
          /\ Busy = 0 /\ Used(r) + lent <= NQNODES
      BY <1>1, <1>6, NodeSupply, SizeAssumption
    <3>2. Queued(r) \in Nat /\ Len(r[FreePcbs]) \in 0 .. Queued(r)
      BY <1>6, QueuedBound
    <3> QED BY <1>6, <1>8, <3>1, <3>2
  <2>5. \A a \in PcbQueues, x \in PCBs : x # p => (In(r, a, x) <=> In(q, a, x))
    BY <1>1, <1>6
  <2> QED BY <1>1, <1>2, <1>6, <1>7, <1>8, <2>2, <2>3, <2>4, <2>5, CleanedUp
<1> QED BY <1>7, <1>9, <1>10

(* A step that moves no process preserves the invariant, provided that the *)
(* nodes it takes are there and none is taken from the idle process.       *)
LEMMA ProcessesStay ==
  ASSUME IInv, UNCHANGED <<status, q, current, procVars>>,
         mode \in {"user", "clock"}, mode' \in {"user", "clock"},
         quantum' \in Nat, time' \in Nat, incount' \in 0 .. BUF_SIZE,
         q[Reading] # <<>> => incount' = 0,
         lent' \in Nat, overdrawn' \in BOOLEAN, Used(q) + lent' <= NQNODES,
         current = Idle => lent' <= lent,
         ~overdrawn' => ~overdrawn /\ lent' <= Share
  PROVE  IInv'
<1>1. Busy' = Busy /\ \A x \in PCBs : OnCpu(x)' <=> OnCpu(x)
  BY DEF Busy, OnCpu
<1>2. TypeOK'
  BY DEF IInv, TypeOK, procVars
<1>3. Idle \in PCBs
  BY SizeAssumption DEF Idle, PCBs
<1>4. OnePlace' /\ StatusFitsPlace' /\ LiveLevel' /\ ReadersFindBufferEmpty'
  BY <1>1 DEF IInv, OnePlace, StatusFitsPlace, FitsQueue, LiveLevel, ReadersFindBufferEmpty,
              Live, procVars
<1>5. NothingLost' /\ PrivateStacks' /\ PooledOnce' /\ StackForEveryPcb'
  BY <1>1 DEF IInv, NothingLost, Placed, PrivateStacks, PooledOnce, StackForEveryPcb, Live,
              procVars
<1>6. NodesCounted' /\ NodesSuffice'
  BY <1>1 DEF IInv, NodesCounted, NodesSuffice
<1>7. IdleStays'
  <2>1. OnCpu(Idle) => HasNode(q)'
    <3>1. OnCpu(Idle) => Used(q) + lent < NQNODES /\ lent' <= lent
      BY DEF IInv, IdleStays, HasNode, OnCpu
    <3>2. Used(q) \in Nat /\ lent \in Nat /\ NQNODES \in Nat
      BY NodeSupply, SizeAssumption
    <3> QED BY <3>1, <3>2 DEF HasNode
  <2> QED BY <1>1, <1>3, <2>1 DEF IInv, IdleStays, procVars
<1> QED BY <1>2, <1>4, <1>5, <1>6, <1>7 DEF IInv

(* A step that also leaves the nodes of the rest of the system alone. *)
LEMMA NodesStay ==
  ASSUME IInv, UNCHANGED poolVars
  PROVE  /\ lent' \in Nat /\ overdrawn' \in BOOLEAN /\ Used(q) + lent' <= NQNODES
         /\ lent' <= lent
         /\ ~overdrawn' => ~overdrawn /\ lent' <= Share
BY DEF IInv, TypeOK, NodesCounted, NodesSuffice, poolVars

(* Ticking, and the two ways the clock ISR goes on. *)
LEMMA TickStep == IInv /\ Tick => IInv'
<1> SUFFICES ASSUME IInv, Tick PROVE IInv'
  OBVIOUS
<1>1. time' \in Nat
  BY ClockAssumption DEF Tick, IInv, TypeOK
<1> QED BY <1>1, NodesStay, ProcessesStay DEF Tick, IInv, TypeOK, ReadersFindBufferEmpty

(* The clock wakes the head of the sleep queue, or goes on. *)
LEMMA WakeSleeperStep == IInv /\ WakeSleeper => IInv'
  BY BecomeReady DEF WakeSleeper, FirstIsLe, First

(* On the CPU a process is running and at a valid level. *)
LEMMA CurrentRuns ==
  ASSUME IInv, mode \in {"user", "clock"}
  PROVE  /\ current \in PCBs /\ status[current] = PROC_RUNNING /\ Live(current)
         /\ level[current] \in Levels
         /\ current = Idle => level[current] = LEVEL_LOW
<1>1. current \in PCBs /\ OnCpu(current)
  BY DEF IInv, TypeOK, OnCpu
<1>2. status[current] = PROC_RUNNING /\ Live(current)
  BY <1>1 DEF IInv, StatusFitsPlace, Live, PROC_RUNNING, PROC_NEW
<1> QED BY <1>1, <1>2 DEF IInv, LiveLevel, IdleStays

(* Scheduling the current process finds its level, and a node if there is one. *)
LEMMA RescheduleCurrent ==
  ASSUME IInv, mode \in {"user", "clock"},
         q' = ScheduleQ(q, level[current], current),
         status' = ScheduleStatus(status, level[current], current),
         mode' = "dispatch",
         UNCHANGED <<current, quantum, procVars, poolVars, incount>>, time' \in Nat
  PROVE  IInv'
<1>1. /\ level[current] \in Levels /\ level[current] \in 0 .. 4
      /\ current = Idle => level[current] = LEVEL_LOW
      /\ level[current] # Sleeping /\ level[current] # Reading
  BY CurrentRuns DEF Levels, MLQ_LEVELS, Sleeping, Reading
<1>2. /\ q' = QInsert(q, level[current], 0, current)
      /\ status' = [status EXCEPT ![current] = PROC_READY]
  BY <1>1 DEF ScheduleQ, ScheduleStatus, Levels, MLQ_LEVELS
<1>3. PROC_READY \in 0 .. 6
  BY DEF PROC_READY
<1> QED BY <1>1, <1>2, <1>3, LeaveCpu

(* The clock charges the current process and may preempt it. *)
LEMMA ChargeQuantumStep == IInv /\ ChargeQuantum => IInv'
<1> SUFFICES ASSUME IInv, ChargeQuantum PROVE IInv'
  OBVIOUS
<1>1. CASE quantum = 0
  BY <1>1, RescheduleCurrent DEF ChargeQuantum, IInv, TypeOK
<1>2. CASE quantum # 0
  <2>1. quantum' \in Nat
    BY <1>2 DEF ChargeQuantum, IInv, TypeOK
  <2> QED BY <1>2, <2>1, NodesStay, ProcessesStay
      DEF ChargeQuantum, IInv, TypeOK, ReadersFindBufferEmpty
<1> QED BY <1>1, <1>2

(* The system calls and the receive interrupt. *)
LEMMA ExitStep == IInv /\ Exit => IInv'
<1> SUFFICES ASSUME IInv, Exit PROVE IInv'
  OBVIOUS
<1>1. /\ mode = "user" /\ current # Idle /\ mode' = "dispatch"
      /\ q' = CleanupQ(q, current) /\ status' = [status EXCEPT ![current] = PROC_FREE]
      /\ UNCHANGED <<current, quantum, procVars, poolVars, time, incount>>
  BY DEF Exit, Syscall, Cleanup
<1>2. current \in PCBs /\ Live(current) /\ OnCpu(current) /\ q \in QueueContents
  BY <1>1, CurrentRuns DEF OnCpu, IInv, TypeOK
<1>3. Distinct(q) /\ \A a \in PcbQueues : ~In(q, a, current)
  BY <1>2 DEF IInv, OnePlace
<1>4. /\ Queued(q) \in Nat /\ (~overdrawn => Queued(q) + 1 <= MAX_PROCS)
      /\ Len(q[FreePcbs]) <= Queued(q) /\ Used(q) + lent <= NQNODES
  BY <1>1, NodeSupply
<1>5. \A x \in PCBs : x # current => ~OnCpu(x)
  BY DEF OnCpu
<1> QED BY <1>1, <1>2, <1>3, <1>4, <1>5, CleanedUp

(* kill() marks a process, or reports an error. *)
LEMMA KillStep == ASSUME NEW n \in Nat PROVE IInv /\ Kill(n) => IInv'
<1> SUFFICES ASSUME IInv, Kill(n) PROVE IInv'
  OBVIOUS
<1>1. PICK p \in PCBs : HasPid(p, n) /\ status' = [status EXCEPT ![p] = PROC_ZOMBIE]
  BY DEF Kill, Victim
<1>2. /\ UNCHANGED <<q, current, quantum, procVars, poolVars, time, incount, mode>>
      /\ mode = "user" /\ n # 0 /\ n # pid[current] /\ status \in [PCBs -> 0 .. 6]
  BY DEF Kill, Syscall, IInv, TypeOK
<1>3. p # current /\ p # Idle /\ Live(p) /\ Idle \in PCBs
  BY <1>1, <1>2, SizeAssumption DEF HasPid, IInv, IdleStays, Live, Idle, PCBs
<1>4. /\ status'[p] = PROC_ZOMBIE /\ status' \in [PCBs -> 0 .. 6]
      /\ \A x \in PCBs : x # p => status'[x] = status[x]
      /\ \A x \in PCBs : OnCpu(x)' <=> OnCpu(x)
      /\ \A x \in PCBs : Live(x)' <=> Live(x)
      /\ Busy' = Busy
  BY <1>1, <1>2, <1>3 DEF OnCpu, Live, Busy, PROC_ZOMBIE, PROC_NEW
<1>5. TypeOK'
  BY <1>2, <1>4 DEF IInv, TypeOK, procVars, poolVars
<1>6. StatusFitsPlace'
  <2>1. ASSUME NEW a \in PcbQueues, NEW x \in PCBs, In(q', a, x)
        PROVE  FitsQueue(a, x)'
    <3>1. FitsQueue(a, x) /\ level' = level
      BY <1>2, <2>1 DEF IInv, StatusFitsPlace, procVars
    <3>2. CASE x = p
      <4>1. a # FreePcbs
        BY <1>3, <3>1, <3>2 DEF FitsQueue, Live, PROC_FREE, PROC_NEW
      <4> QED BY <1>4, <3>1, <3>2, <4>1 DEF FitsQueue
    <3>3. CASE x # p
      BY <1>4, <3>1, <3>3 DEF FitsQueue
    <3> QED BY <3>2, <3>3
  <2>2. ~OnCpu(p)
    BY <1>3 DEF OnCpu
  <2> QED BY <1>4, <2>1, <2>2 DEF IInv, StatusFitsPlace, PROC_RUNNING, PROC_ZOMBIE
<1> QED
  BY <1>2, <1>3, <1>4, <1>5, <1>6
     DEF IInv, OnePlace, NothingLost, Placed, PrivateStacks, PooledOnce, StackForEveryPcb,
         NodesCounted, NodesSuffice, HasNode, LiveLevel, IdleStays, ReadersFindBufferEmpty,
         procVars, poolVars

(* sleep(0) gives the CPU away. *)
LEMMA YieldStep == IInv /\ Yield => IInv'
  BY RescheduleCurrent DEF Yield, Syscall, IInv, TypeOK

(* sleep() blocks the caller. *)
LEMMA SleepStep == ASSUME NEW n \in SleepArgs PROVE IInv /\ Sleep(n) => IInv'
<1> SUFFICES ASSUME IInv, Sleep(n) PROVE IInv'
  OBVIOUS
<1>1. Wakeup(n) \in Nat
  BY ClockAssumption DEF Wakeup, IInv, TypeOK
<1>2. mode' \in {"dispatch", "panic"} /\ (mode' = "panic" => ~HasNode(q))
  BY DEF Sleep, Block
<1>3. /\ Sleeping \in 0 .. 4 /\ Sleeping \notin Levels /\ Sleeping # Reading
      /\ PROC_SLEEPING \in 0 .. 6
  BY DEF Sleeping, Reading, Levels, MLQ_LEVELS, PROC_SLEEPING
<1> QED BY <1>1, <1>2, <1>3, LeaveCpu DEF Sleep, Syscall, Block, IInv, TypeOK

(* read() blocks the caller or returns a character. *)
LEMMA ReadStep == IInv /\ Read => IInv'
<1> SUFFICES ASSUME IInv, Read PROVE IInv'
  OBVIOUS
<1>1. CASE incount > 0
  <2>1. incount' \in 0 .. BUF_SIZE /\ incount # 0
    BY <1>1, SizeAssumption DEF Read, IInv, TypeOK
  <2> QED BY <1>1, <2>1, NodesStay, ProcessesStay
      DEF Read, Syscall, IInv, TypeOK, ReadersFindBufferEmpty
<1>2. CASE ~(incount > 0)
  <2>1. incount = 0
    BY <1>2, SizeAssumption DEF IInv, TypeOK
  <2>2. mode' \in {"dispatch", "panic"} /\ (mode' = "panic" => ~HasNode(q))
    BY <1>2 DEF Read, Block
  <2>3. /\ Reading \in 0 .. 4 /\ Reading \notin Levels /\ Sleeping # Reading
        /\ PROC_BLOCKED \in 0 .. 6
    BY DEF Sleeping, Reading, Levels, MLQ_LEVELS, PROC_BLOCKED
  <2> QED BY <1>2, <2>1, <2>2, <2>3, LeaveCpu DEF Read, Syscall, Block, IInv, TypeOK
<1> QED BY <1>1, <1>2

(* A character arrives and may wake a reader. *)
LEMMA ReceiveStep == IInv /\ Receive => IInv'
<1> SUFFICES ASSUME IInv, Receive PROVE IInv'
  OBVIOUS
<1>1. CASE q[Reading] # <<>>
  BY <1>1, BecomeReady DEF Receive, First
<1>2. CASE q[Reading] = <<>>
  <2>1. incount \in 0 .. BUF_SIZE /\ BUF_SIZE \in Nat
    BY SizeAssumption DEF IInv, TypeOK
  <2>2. incount' = IF incount < BUF_SIZE THEN incount + 1 ELSE incount
    BY <1>2 DEF Receive
  <2>3. incount' \in 0 .. BUF_SIZE
    BY <2>1, <2>2
  <2> QED BY <1>2, <2>3, NodesStay, ProcessesStay DEF Receive, IInv, TypeOK
<1> QED BY <1>1, <1>2

(* spawn(): the child gets the first PCB and, there being a stack for      *)
(* every PCB, the first stack; child and parent become ready, on the two   *)
(* nodes that were freed.                                                  *)
LEMMA SpawnStep == ASSUME NEW lv \in LevelArgs PROVE IInv /\ Spawn(lv) => IInv'
<1> SUFFICES ASSUME IInv, Spawn(lv) PROVE IInv'
  OBVIOUS
<1> DEFINE p == First(FreePcbs)
           q1 == QRemove(q, FreePcbs)
           q2 == QRemove(q1, FreeStacks)
           q3 == ScheduleQ(q2, lv, p)
           s == First(FreeStacks)
           c == current
<1>1. /\ PcbQueues \subseteq Queues /\ Levels \subseteq PcbQueues
      /\ FreePcbs \in PcbQueues /\ FreeStacks \in Queues /\ FreeStacks \notin PcbQueues
      /\ FreePcbs \notin Levels /\ FreeStacks \notin Levels /\ FreePcbs # FreeStacks
      /\ Reading \in Queues /\ Reading # FreePcbs /\ Reading # FreeStacks
      /\ Reading \notin Levels /\ Idle \in PCBs
  BY SizeAssumption DEF PcbQueues, Queues, Levels, MLQ_LEVELS, FreePcbs, FreeStacks,
     Reading, Idle, PCBs
<1>2. /\ mode = "user" /\ c # Idle /\ q[FreePcbs] # <<>>
      /\ q \in QueueContents /\ status \in [PCBs -> 0 .. 6] /\ lv \in Nat
      /\ lent' = lent /\ overdrawn' = overdrawn /\ lent \in Nat
  BY PidAssumption DEF Spawn, Syscall, IInv, TypeOK, poolVars
<1>3. c \in PCBs /\ status[c] = PROC_RUNNING /\ level[c] \in Levels /\ OnCpu(c) /\ Live(c)
  BY <1>2, CurrentRuns DEF OnCpu
<1>4. /\ q1 \in QueueContents /\ p \in PCBs /\ In(q, FreePcbs, p)
      /\ \A a \in Queues : a # FreePcbs => q1[a] = q[a]
      /\ q1[FreePcbs] = Tail(q[FreePcbs])
      /\ Queued(q) \in Nat /\ Queued(q1) = Queued(q) - 1
      /\ Used(q) \in Nat /\ Used(q1) = Used(q) - 1
      /\ \A a \in Queues, x \in PCBs : In(q1, a, x) => In(q, a, x)
      /\ \A a \in Queues, x \in PCBs :
            In(q, a, x) => In(q1, a, x) \/ (a = FreePcbs /\ x = p)
      /\ Distinct(q1) /\ \A a \in PcbQueues : ~In(q1, a, p)
  <2>1. q1[FreePcbs] = Tail(q[FreePcbs])
    BY <1>1, <1>2 DEF QRemove, QueueContents
  <2> QED BY <1>1, <1>2, <2>1, RemoveFacts DEF IInv, OnePlace, First
<1>5. status[p] = PROC_FREE /\ p # c /\ p # Idle /\ ~Live(p)
  <2>1. status[p] = PROC_FREE
    BY <1>1, <1>4 DEF IInv, StatusFitsPlace, FitsQueue
  <2> QED BY <1>3, <2>1 DEF IInv, IdleStays, Live, PROC_FREE, PROC_NEW, PROC_READY,
      PROC_RUNNING
<1>6. /\ q1[FreeStacks] = q[FreeStacks] /\ q1[FreeStacks] # <<>>
      /\ q[FreeStacks] \in Seq(Nodes)
  <2>1. q[FreePcbs] \in Seq(Nodes) /\ q[FreeStacks] \in Seq(Nodes)
    BY <1>1, <1>2, QueueSeq
  <2>2. Len(q[FreePcbs]) > 0 /\ Len(q[FreePcbs]) <= Len(q[FreeStacks])
    BY <1>2, <2>1, EmptySeq DEF IInv, StackForEveryPcb
  <2>3. q[FreeStacks] # <<>>
    BY <2>1, <2>2
  <2> QED BY <1>1, <1>2, <1>4, <2>1, <2>3
<1>7. /\ q2 \in QueueContents
      /\ \A a \in Queues : a # FreeStacks => q2[a] = q1[a]
      /\ q2[FreeStacks] = Tail(q[FreeStacks])
      /\ Queued(q2) = Queued(q) - 1 /\ Used(q2) = Used(q) - 2
      /\ Distinct(q2)
  <2>1. q2[FreeStacks] = Tail(q1[FreeStacks])
    BY <1>1, <1>4 DEF QRemove, QueueContents
  <2> QED BY <1>1, <1>4, <1>6, <2>1, RemoveFacts
<1>8. \A a \in PcbQueues, x \in PCBs :
         In(q2, a, x) <=> (x # p /\ In(q, a, x))
  <2>1. \A a \in PcbQueues, x \in PCBs : In(q2, a, x) <=> In(q1, a, x)
    BY <1>1, <1>7 DEF In
  <2>2. \A a \in PcbQueues : a # FreePcbs => ~In(q, a, p)
    BY <1>1, <1>4
  <2> QED BY <1>1, <1>4, <2>1, <2>2
<1>9. /\ stack' = [stack EXCEPT ![p] = s] /\ pid' = [pid EXCEPT ![p] = nextPid]
      /\ level' = [level EXCEPT ![p] = lv] /\ nextPid' = (nextPid + 1) % PidMod
      /\ q' = ScheduleQ(q3, level[c], c)
      /\ status' = ScheduleStatus(
                     ScheduleStatus([status EXCEPT ![p] = PROC_FREE], lv, p), level[c], c)
      /\ mode' = "dispatch" /\ UNCHANGED <<current, quantum, time, incount>>
  BY <1>6 DEF Spawn, MakeProc, SpawnBoth
<1>30. /\ s \in PCBs /\ In(q, FreeStacks, s)
       /\ OnceEach(q2[FreeStacks]) /\ ~In(q2, FreeStacks, s)
       /\ \A x \in PCBs : In(q2, FreeStacks, x) => In(q, FreeStacks, x)
  <2>1. s \in PCBs /\ In(q, FreeStacks, s)
    BY <1>1, <1>2, <1>6, RemoveFacts DEF First
  <2>2. /\ OnceEach(Tail(q[FreeStacks]))
        /\ \A i \in 1 .. Len(Tail(q[FreeStacks])) : Tail(q[FreeStacks])[i].data # s
    BY <1>6, UnpoolStack DEF IInv, PooledOnce, First
  <2>3. \A x \in PCBs : In(q2, FreeStacks, x) => In(q1, FreeStacks, x)
    BY <1>1, <1>4, <1>6, RemoveFacts
  <2>4. \A x \in PCBs : In(q1, FreeStacks, x) <=> In(q, FreeStacks, x)
    BY <1>6 DEF In
  <2> HIDE DEF q2, q1, s
  <2> QED BY <1>7, <2>1, <2>2, <2>3, <2>4 DEF In
<1> HIDE DEF p, q1, q2, q3, s
<1>10. /\ ~overdrawn => Queued(q) + 1 <= MAX_PROCS
       /\ Used(q) + lent <= NQNODES /\ NQNODES \in Nat
  BY <1>2, NodeSupply, SizeAssumption
<1>11. HasNode(q2)
  BY <1>2, <1>4, <1>7, <1>10 DEF HasNode
<1>12. /\ q3 \in QueueContents
       /\ \A a \in Queues : a # lv => q3[a] = q2[a]
       /\ lv \notin Levels => q3 = q2
       /\ Queued(q3) \in Nat /\ Queued(q3) <= Queued(q)
       /\ Used(q3) \in Nat /\ Used(q3) <= Used(q) - 1
       /\ \A a \in PcbQueues, x \in PCBs :
             In(q3, a, x) <=> In(q2, a, x) \/ (a = lv /\ lv \in Levels /\ x = p)
       /\ Distinct(q3)
  <2>1. CASE lv \in Levels
    <3>1. q3 = QInsert(q2, lv, 0, p) /\ lv \in Queues
      BY <1>1, <2>1 DEF q3, ScheduleQ, Levels, MLQ_LEVELS
    <3>2. /\ q3 \in QueueContents
          /\ \A a \in Queues : a # lv => q3[a] = q2[a]
          /\ Queued(q3) = Queued(q2) + 1 /\ Used(q3) = Used(q2) + 1 /\ Used(q2) \in Nat
          /\ \A a \in Queues, x \in PCBs :
                In(q3, a, x) <=> In(q2, a, x) \/ (a = lv /\ x = p)
          /\ Distinct(q3)
      <4>1. p \in PCBs /\ 0 \in Nat /\ lv \in PcbQueues
        BY <1>1, <1>4, <2>1 DEF Levels, MLQ_LEVELS, PcbQueues
      <4>2. \A a \in PcbQueues : ~In(q2, a, p)
        BY <1>8, <4>1
      <4>3. /\ q3 \in QueueContents
            /\ \A a \in Queues : a # lv => q3[a] = q2[a]
            /\ Queued(q3) = IF lv \in PcbQueues THEN Queued(q2) + 1 ELSE Queued(q2)
            /\ Used(q3) = Used(q2) + 1 /\ Used(q2) \in Nat
        BY <1>7, <1>11, <3>1, <4>1, InsertFacts
      <4>4. \A a \in Queues, x \in PCBs :
              In(q3, a, x) <=> In(q2, a, x) \/ (a = lv /\ x = p)
        BY <1>7, <1>11, <3>1, <4>1, InsertFacts
      <4>5. Distinct(q3)
        BY <1>7, <1>11, <3>1, <4>1, <4>2, InsertFacts
      <4> QED BY <4>1, <4>3, <4>4, <4>5
    <3> QED BY <1>1, <1>4, <1>7, <2>1, <3>2
  <2>2. CASE lv \notin Levels
    <3>1. q3 = q2
      BY <1>2, <2>2 DEF q3, ScheduleQ, Levels, MLQ_LEVELS
    <3>2. Queued(q2) \in Nat /\ Used(q2) \in Nat
      BY <1>2, <1>7, InsertMaybe, QueuedBound, <1>1, <1>4
    <3> QED BY <1>4, <1>7, <2>2, <3>1, <3>2
  <2> QED BY <2>1, <2>2
<1>13. \A a \in PcbQueues : ~In(q3, a, c)
  BY <1>3, <1>5, <1>8, <1>12 DEF IInv, OnePlace
<1>14. q3[FreeStacks] = q2[FreeStacks] /\ HasNode(q3)
  <2>1. q3[FreeStacks] = q2[FreeStacks]
    BY <1>1, <1>12
  <2> QED BY <1>2, <1>4, <1>10, <1>12, <2>1 DEF HasNode
<1>15. /\ q' = QInsert(q3, level[c], 0, c) /\ level[c] \in Queues /\ level[c] \in PcbQueues
       /\ status' = [ScheduleStatus([status EXCEPT ![p] = PROC_FREE], lv, p)
                       EXCEPT ![c] = PROC_READY]
  BY <1>1, <1>3, <1>9 DEF ScheduleQ, ScheduleStatus, Levels, MLQ_LEVELS
<1>16. /\ q' \in QueueContents
       /\ \A a \in Queues : a # level[c] => q'[a] = q3[a]
       /\ Queued(q') = Queued(q3) + 1 /\ Used(q') = Used(q3) + 1
       /\ \A a \in Queues, x \in PCBs :
             In(q', a, x) <=> In(q3, a, x) \/ (a = level[c] /\ x = c)
       /\ Distinct(q')
  BY <1>3, <1>12, <1>13, <1>14, <1>15, InsertFacts
<1>17. \A a \in PcbQueues, x \in PCBs :
          In(q', a, x) <=> \/ x # p /\ In(q, a, x)
                           \/ a = lv /\ lv \in Levels /\ x = p
                           \/ a = level[c] /\ x = c
  BY <1>1, <1>8, <1>12, <1>16
<1>18. /\ status' \in [PCBs -> 0 .. 6] /\ status'[c] = PROC_READY
       /\ status'[p] = (IF lv \in Levels THEN PROC_READY ELSE PROC_FREE)
       /\ \A x \in PCBs : x # p /\ x # c => status'[x] = status[x]
       /\ \A x \in PCBs : ~OnCpu(x)'
  <2>1. CASE lv \in Levels
    BY <1>2, <1>3, <1>4, <1>5, <1>9, <1>15, <2>1
       DEF ScheduleStatus, Levels, MLQ_LEVELS, PROC_READY, PROC_FREE, OnCpu
  <2>2. CASE lv \notin Levels
    BY <1>2, <1>3, <1>4, <1>5, <1>9, <1>15, <2>2
       DEF ScheduleStatus, Levels, MLQ_LEVELS, PROC_READY, PROC_FREE, OnCpu
  <2> QED BY <2>1, <2>2
<1>19. /\ level'[p] = lv /\ \A x \in PCBs : x # p => level'[x] = level[x]
       /\ stack'[p] = s /\ \A x \in PCBs : x # p => stack'[x] = stack[x]
       /\ pid'[Idle] = pid[Idle]
  BY <1>1, <1>4, <1>5, <1>9 DEF IInv, TypeOK
<1>20. TypeOK'
  <2>1. nextPid' \in 0 .. PidMod - 1
    BY <1>9, PidAssumption DEF IInv, TypeOK
  <2>2. s \in 0 .. MAX_PROCS
    BY <1>30, SizeAssumption DEF PCBs
  <2> QED BY <1>2, <1>4, <1>9, <1>16, <1>18, <2>1, <2>2 DEF IInv, TypeOK
<1>21. OnePlace'
  BY <1>16, <1>18 DEF OnePlace
<1>22. StatusFitsPlace'
  <2>1. ASSUME NEW a \in PcbQueues, NEW x \in PCBs, In(q', a, x)
        PROVE  FitsQueue(a, x)'
    <3>1. CASE x = p
      BY <1>5, <1>17, <1>18, <1>19, <2>1, <3>1
         DEF FitsQueue, Levels, MLQ_LEVELS, Sleeping, Reading, FreePcbs
    <3>2. CASE x = c
      <4>1. a = level[c]
        BY <1>3, <1>5, <1>17, <2>1, <3>2 DEF IInv, OnePlace
      <4> QED BY <1>3, <1>5, <1>18, <1>19, <3>2, <4>1
          DEF FitsQueue, Levels, MLQ_LEVELS, Sleeping, Reading, FreePcbs
    <3>3. CASE x # p /\ x # c
      <4>1. In(q, a, x) /\ status'[x] = status[x] /\ level'[x] = level[x]
        BY <1>17, <1>18, <1>19, <2>1, <3>3
      <4> QED BY <4>1 DEF IInv, StatusFitsPlace, FitsQueue
    <3> QED BY <3>1, <3>2, <3>3
  <2>2. ASSUME NEW x \in PCBs PROVE status'[x] # PROC_RUNNING
    BY <1>18 DEF IInv, StatusFitsPlace, OnCpu, PROC_FREE, PROC_READY, PROC_RUNNING
  <2> QED BY <1>18, <2>1, <2>2 DEF StatusFitsPlace
<1>23. NothingLost'
  <2>1. ASSUME ~overdrawn, NEW x \in PCBs, Live(x)' PROVE \E a \in PcbQueues : In(q', a, x)
    <3>1. CASE x = p
      BY <1>1, <1>17, <1>18, <2>1, <3>1 DEF Live, PROC_FREE, PROC_NEW
    <3>2. CASE x = c
      BY <1>3, <1>15, <1>17, <3>2
    <3>3. CASE x # p /\ x # c
      BY <1>17, <1>18, <2>1, <3>3 DEF IInv, NothingLost, Placed, Live, OnCpu
    <3> QED BY <3>1, <3>2, <3>3
  <2> QED BY <1>2, <2>1 DEF NothingLost, Placed
<1>24. /\ q'[FreePcbs] = Tail(q[FreePcbs]) /\ q'[FreeStacks] = q2[FreeStacks]
       /\ q2[FreeStacks] = Tail(q[FreeStacks])
  BY <1>1, <1>3, <1>4, <1>7, <1>12, <1>14, <1>16
<1>31. /\ Len(q'[FreePcbs]) = Len(q[FreePcbs]) - 1
       /\ Len(q'[FreeStacks]) = Len(q[FreeStacks]) - 1
       /\ Len(q[FreePcbs]) \in Nat /\ Len(q[FreeStacks]) \in Nat
  <2>1. q[FreePcbs] \in Seq(Nodes) /\ q[FreeStacks] \in Seq(Nodes) /\ q[FreeStacks] # <<>>
    BY <1>1, <1>2, <1>6, QueueSeq
  <2> QED BY <1>2, <1>24, <2>1
<1>32. PooledOnce' /\ StackForEveryPcb'
  BY <1>24, <1>30, <1>31 DEF IInv, PooledOnce, StackForEveryPcb
<1>25. PrivateStacks'
  <2>1. \A x \in PCBs : x # p => (Live(x)' <=> Live(x)) /\ stack'[x] = stack[x]
    <3>1. status'[c] > PROC_NEW
      BY <1>18 DEF PROC_READY, PROC_NEW
    <3>2. ASSUME NEW x \in PCBs, x # p PROVE Live(x)' <=> Live(x)
      <4>1. CASE x = c
        BY <1>3, <3>1, <4>1 DEF Live
      <4>2. CASE x # c
        BY <1>18, <3>2, <4>2 DEF Live
      <4> QED BY <4>1, <4>2
    <3> QED BY <1>19, <3>2
  <2>2. \A x \in PCBs : In(q', FreeStacks, x) <=> In(q2, FreeStacks, x)
    BY <1>24 DEF In
  <2>3. s # 0
    BY <1>30, SizeAssumption DEF PCBs
  <2>4. ASSUME NEW x \in PCBs, Live(x), x # p
        PROVE  /\ stack[x] # 0 /\ stack[x] \in PCBs /\ stack[x] # s
               /\ ~In(q2, FreeStacks, stack[x])
               /\ \A y \in PCBs : Live(y) /\ y # x => stack[y] # stack[x]
    <3>1. /\ stack[x] # 0 /\ ~In(q, FreeStacks, stack[x])
          /\ \A y \in PCBs : Live(y) /\ y # x => stack[y] # stack[x]
      BY <2>4 DEF IInv, PrivateStacks
    <3>2. stack[x] \in 0 .. MAX_PROCS
      BY DEF IInv, TypeOK
    <3>3. stack[x] \in PCBs
      BY <3>1, <3>2, SizeAssumption DEF PCBs
    <3> QED BY <1>30, <3>1, <3>3
  <2> SUFFICES ASSUME NEW x \in PCBs, Live(x)'
               PROVE  /\ stack'[x] # 0
                      /\ \A y \in PCBs : Live(y)' /\ y # x => stack'[y] # stack'[x]
                      /\ ~In(q', FreeStacks, stack'[x])
    BY DEF PrivateStacks
  <2>5. CASE x = p
    <3>1. stack'[x] = s
      BY <1>19, <2>5
    <3>2. \A y \in PCBs : Live(y)' /\ y # x => stack'[y] # s
      BY <2>1, <2>4, <2>5
    <3> QED BY <1>30, <2>2, <2>3, <3>1, <3>2
  <2>6. CASE x # p
    <3>1. Live(x) /\ stack'[x] = stack[x]
      BY <2>1, <2>6
    <3>2. \A y \in PCBs : Live(y)' /\ y # x => stack'[y] # stack[x]
      BY <1>19, <2>1, <2>4, <2>6, <3>1
    <3> QED BY <2>2, <2>4, <2>6, <3>1, <3>2
  <2> QED BY <2>5, <2>6
<1>26. NodesCounted' /\ NodesSuffice'
  <2>1. Busy' = 0
    BY <1>9 DEF Busy
  <2>2. ~overdrawn => Queued(q') + Busy' <= MAX_PROCS
    BY <1>4, <1>10, <1>12, <1>16, <2>1, SizeAssumption
  <2>3. Used(q') + lent <= NQNODES
    BY <1>2, <1>4, <1>10, <1>12, <1>16
  <2> QED BY <1>2, <1>9, <1>31, <2>2, <2>3 DEF IInv, NodesCounted, NodesSuffice
<1>27. LiveLevel'
  <2>1. ASSUME NEW x \in PCBs, Live(x)' PROVE level'[x] \in Levels
    <3>1. CASE x = p
      BY <1>18, <1>19, <2>1, <3>1 DEF Live, PROC_FREE, PROC_NEW
    <3>2. CASE x # p
      BY <1>3, <1>18, <1>19, <2>1, <3>2 DEF IInv, LiveLevel, Live
    <3> QED BY <3>1, <3>2
  <2> QED BY <2>1 DEF LiveLevel
<1>28. IdleStays'
  <2>1. In(q, LEVEL_LOW, Idle) /\ LEVEL_LOW \in PcbQueues
    BY <1>2 DEF IInv, IdleStays, OnCpu, LEVEL_LOW, PcbQueues
  <2> QED BY <1>1, <1>2, <1>5, <1>17, <1>18, <1>19, <2>1 DEF IInv, IdleStays
<1>29. ReadersFindBufferEmpty'
  <2>1. q'[Reading] = q[Reading]
    BY <1>1, <1>3, <1>4, <1>7, <1>12, <1>16
  <2> QED BY <1>9, <2>1 DEF IInv, ReadersFindBufferEmpty
<1> QED
  BY <1>20, <1>21, <1>22, <1>23, <1>25, <1>26, <1>27, <1>28, <1>29, <1>32 DEF IInv

(* The rest of the system takes a node, but never the idle process's. *)
LEMMA OtherInsertStep == IInv /\ OtherInsert => IInv'
<1> SUFFICES ASSUME IInv, OtherInsert PROVE IInv'
  OBVIOUS
<1>1. /\ lent' \in Nat /\ overdrawn' \in BOOLEAN /\ Used(q) + lent' <= NQNODES
      /\ ~overdrawn' => ~overdrawn /\ lent' <= Share
  <2>1. lent' = lent + 1 /\ overdrawn' = (overdrawn \/ lent' > Share) /\ HasNode(q)
    BY DEF OtherInsert
  <2>2. lent \in Nat /\ Used(q) \in Nat /\ NQNODES \in Nat /\ Share \in Nat
    BY NodeSupply, SizeAssumption
  <2>3. overdrawn \in BOOLEAN
    BY DEF IInv, TypeOK
  <2>4. lent' \in Nat /\ Used(q) + lent' <= NQNODES
    BY <2>1, <2>2 DEF HasNode
  <2>5. ~overdrawn' => ~(lent' > Share)
    BY <2>1
  <2> QED BY <2>1, <2>2, <2>3, <2>4, <2>5
<1> QED BY <1>1, ProcessesStay
    DEF OtherInsert, Syscall, IInv, TypeOK, ReadersFindBufferEmpty

(* The rest of the system returns a node. *)
LEMMA OtherRemoveStep == IInv /\ OtherRemove => IInv'
<1> SUFFICES ASSUME IInv, OtherRemove PROVE IInv'
  OBVIOUS
<1>1. /\ lent' \in Nat /\ overdrawn' \in BOOLEAN /\ Used(q) + lent' <= NQNODES
      /\ lent' <= lent
      /\ ~overdrawn' => ~overdrawn /\ lent' <= Share
  <2>1. lent' = lent - 1 /\ overdrawn' = overdrawn /\ lent > 0
    BY DEF OtherRemove
  <2>2. /\ lent \in Nat /\ Used(q) \in Nat /\ NQNODES \in Nat /\ Share \in Nat
        /\ Used(q) + lent <= NQNODES
        /\ ~overdrawn => lent <= Share
    BY NodeSupply, SizeAssumption
  <2>3. overdrawn \in BOOLEAN
    BY DEF IInv, TypeOK
  <2> QED BY <2>1, <2>2, <2>3
<1> QED BY <1>1, ProcessesStay DEF OtherRemove, IInv, TypeOK, ReadersFindBufferEmpty

(* The state _init leaves behind satisfies the invariant. *)
LEMMA InitInv == Init => IInv
<1> SUFFICES ASSUME Init PROVE IInv
  OBVIOUS
<1> USE DEF PROC_FREE, PROC_NEW, PROC_READY, PROC_RUNNING, PROC_ZOMBIE, PROC_SLEEPING,
        PROC_BLOCKED, Idle, LEVEL_LOW, LEVEL_DEFAULT, Sleeping, Reading, FreePcbs,
        FreeStacks
<1>1. /\ Idle \in PCBs /\ 2 \in PCBs /\ 3 \in PCBs
      /\ status \in [PCBs -> 0 .. 6] /\ level \in [PCBs -> 0 .. 2]
      /\ status[1] = 2 /\ status[2] = 3 /\ status[3] = 2
      /\ level[1] = 2 /\ level[2] = 1 /\ level[3] = 1
      /\ \A x \in PCBs : x > 3 => status[x] = 0
  BY SizeAssumption DEF Init, PCBs
<1>2. /\ QNode(0, 1) \in Nodes /\ QNode(0, 3) \in Nodes
      /\ QNode(0, 1).data = 1 /\ QNode(0, 3).data = 3
  BY <1>1 DEF Nodes, QNode
<1>3. Pool \in Seq(Nodes) /\ Len(Pool) = MAX_PROCS - 3
      /\ \A i \in 1 .. MAX_PROCS - 3 : Pool[i] = QNode(0, i + 3) /\ Pool[i].data = i + 3
  <2>1. \A i \in 1 .. MAX_PROCS - 3 : QNode(0, i + 3) \in Nodes /\ QNode(0, i + 3).data = i + 3
    BY SizeAssumption DEF QNode, Nodes, PCBs
  <2>2. MAX_PROCS - 3 \in Nat
    BY SizeAssumption
  <2> QED BY <2>1, <2>2 DEF Pool
<1>4. /\ q[0] = <<>> /\ q[1] = <<QNode(0, 3)>> /\ q[2] = <<QNode(0, 1)>>
      /\ q[3] = <<>> /\ q[4] = <<>> /\ q[5] = Pool /\ q[6] = Pool
  BY DEF Init, Queues
<1>5. q \in QueueContents
  <2>1. ASSUME NEW a \in Queues PROVE q[a] \in Seq(Nodes)
    <3>1. <<>> \in Seq(Nodes)
      OBVIOUS
    <3>2. <<QNode(0, 3)>> \in Seq(Nodes) /\ <<QNode(0, 1)>> \in Seq(Nodes)
      BY <1>2
    <3>3. a = 0 \/ a = 1 \/ a = 2 \/ a = 3 \/ a = 4 \/ a = 5 \/ a = 6
      BY <2>1 DEF Queues
    <3> QED BY <1>3, <1>4, <3>1, <3>2, <3>3
  <2>2. q = [a \in Queues |-> q[a]]
    BY DEF Init
  <2> QED BY <2>1, <2>2 DEF QueueContents, Nodes
<1>6. /\ Len(q[0]) = 0 /\ Len(q[1]) = 1 /\ Len(q[2]) = 1 /\ Len(q[3]) = 0
      /\ Len(q[4]) = 0 /\ Len(q[5]) = MAX_PROCS - 3
      /\ q[1][1].data = 3 /\ q[2][1].data = 1
      /\ \A i \in 1 .. MAX_PROCS - 3 : q[5][i].data = i + 3
  BY <1>2, <1>3, <1>4
<1>7. ASSUME NEW a \in PcbQueues, NEW i \in 1 .. Len(q[a])
      PROVE  \/ a = 1 /\ i = 1 /\ q[a][i].data = 3
             \/ a = 2 /\ i = 1 /\ q[a][i].data = 1
             \/ a = 5 /\ i \in 1 .. MAX_PROCS - 3 /\ q[a][i].data = i + 3
  <2>1. a = 0 \/ a = 1 \/ a = 2 \/ a = 3 \/ a = 4 \/ a = 5
    BY <1>7 DEF PcbQueues
  <2>2. CASE a = 0 \/ a = 3 \/ a = 4
    <3>1. Len(q[a]) = 0
      BY <1>6, <2>2
    <3> QED BY <1>7, <3>1
  <2>3. CASE a = 1
    <3>1. Len(q[a]) = 1
      BY <1>6, <2>3
    <3>2. i \in 1 .. 1
      BY <3>1
    <3> QED BY <1>6, <2>3, <3>2
  <2>4. CASE a = 2
    <3>1. Len(q[a]) = 1
      BY <1>6, <2>4
    <3>2. i \in 1 .. 1
      BY <3>1
    <3> QED BY <1>6, <2>4, <3>2
  <2>5. CASE a = 5
    BY <1>6, <1>7, <2>5
  <2> QED BY <2>1, <2>2, <2>3, <2>4, <2>5
<1>8. ASSUME NEW a \in PcbQueues, NEW x \in PCBs, In(q, a, x)
      PROVE  (a = 1 /\ x = 3) \/ (a = 2 /\ x = 1) \/ (a = 5 /\ x > 3)
  <2>1. PICK i \in 1 .. Len(q[a]) : q[a][i].data = x
    BY <1>8 DEF In
  <2> QED BY <1>7, <2>1
<1>9. ASSUME NEW x \in PCBs, x > 3 PROVE In(q, 5, x)
  <2>1. x - 3 \in 1 .. Len(q[5]) /\ q[5][x - 3].data = (x - 3) + 3 /\ (x - 3) + 3 = x
    BY <1>6, <1>9, SizeAssumption DEF PCBs
  <2> QED BY <2>1 DEF In
<1>10. In(q, 1, 3) /\ In(q, 2, 1)
  BY <1>6 DEF In
<1>11. \A x \in PCBs : OnCpu(x) <=> x = 2
  BY DEF OnCpu, Init
<1>12. TypeOK
  <2>1. pid \in [PCBs -> 0 .. PidMod - 1] /\ stack \in [PCBs -> 0 .. MAX_PROCS]
    BY PidAssumption, SizeAssumption DEF Init, PCBs
  <2>2. level \in [PCBs -> Nat]
    <3>1. \A x \in 0 .. 2 : x \in Nat
      OBVIOUS
    <3> QED BY <1>1, <3>1
  <2>3. current \in PCBs
    BY <1>1 DEF Init
  <2>4. quantum \in Nat /\ time \in Nat
    BY ClockAssumption DEF Init
  <2>5. nextPid \in 0 .. PidMod - 1 /\ incount \in 0 .. BUF_SIZE
    BY PidAssumption, SizeAssumption DEF Init
  <2>6. mode \in {"user", "clock", "dispatch", "panic"}
    BY DEF Init
  <2>7. lent \in Nat /\ overdrawn \in BOOLEAN
    BY SizeAssumption DEF Init
  <2> QED BY <1>1, <1>5, <2>1, <2>2, <2>3, <2>4, <2>5, <2>6, <2>7 DEF TypeOK
<1>13. OnePlace
  <2>1. Distinct(q)
    <3>1. SUFFICES ASSUME NEW a \in PcbQueues, NEW b \in PcbQueues,
                          NEW i \in 1 .. Len(q[a]), NEW j \in 1 .. Len(q[b]),
                          q[a][i].data = q[b][j].data
                   PROVE  a = b /\ i = j
      BY DEF Distinct
    <3>2. \/ a = 1 /\ i = 1 /\ q[a][i].data = 3
          \/ a = 2 /\ i = 1 /\ q[a][i].data = 1
          \/ a = 5 /\ i \in 1 .. MAX_PROCS - 3 /\ q[a][i].data = i + 3
      BY <1>7
    <3>3. \/ b = 1 /\ j = 1 /\ q[b][j].data = 3
          \/ b = 2 /\ j = 1 /\ q[b][j].data = 1
          \/ b = 5 /\ j \in 1 .. MAX_PROCS - 3 /\ q[b][j].data = j + 3
      BY <1>7
    <3> DEFINE x == q[a][i].data
               y == q[b][j].data
    <3>4. x = y
      BY <3>1
    <3> HIDE DEF x, y
    <3>5. (a = 1 /\ i = 1 /\ x = 3) \/ (a = 2 /\ i = 1 /\ x = 1)
          \/ (a = 5 /\ i \in 1 .. MAX_PROCS - 3 /\ x = i + 3)
      BY <3>2 DEF x
    <3>6. (b = 1 /\ j = 1 /\ y = 3) \/ (b = 2 /\ j = 1 /\ y = 1)
          \/ (b = 5 /\ j \in 1 .. MAX_PROCS - 3 /\ y = j + 3)
      BY <3>3 DEF y
    <3> QED BY <3>4, <3>5, <3>6, SizeAssumption
  <2>2. ASSUME NEW a \in PcbQueues, NEW x \in PCBs, In(q, a, x) PROVE x # 2
    BY <1>8, <2>2
  <2> QED BY <1>11, <2>1, <2>2 DEF OnePlace
<1>14. StatusFitsPlace
  <2>1. ASSUME NEW a \in PcbQueues, NEW x \in PCBs, In(q, a, x) PROVE FitsQueue(a, x)
    BY <1>1, <1>8, <2>1 DEF FitsQueue, Levels, MLQ_LEVELS
  <2>2. ASSUME NEW x \in PCBs PROVE status[x] = PROC_RUNNING <=> x = 2
    BY <1>1, <2>2 DEF PCBs
  <2> QED BY <1>11, <2>1, <2>2 DEF StatusFitsPlace
<1>15. NothingLost
  <2>1. ASSUME NEW x \in PCBs, x # 2 PROVE \E a \in PcbQueues : In(q, a, x)
    <3>1. x = 1 \/ x = 3 \/ x > 3
      BY <2>1, SizeAssumption DEF PCBs
    <3> QED BY <1>9, <1>10, <3>1 DEF PcbQueues
  <2> QED BY <1>11, <2>1 DEF NothingLost, Placed
<1>16. PooledOnce /\ StackForEveryPcb
  <2>1. \A i \in 1 .. Len(q[6]) : q[6][i].data = i + 3
    BY <1>3, <1>4
  <2>2. \A i, m \in 1 .. Len(q[6]) : i + 3 = m + 3 => i = m
    BY <1>3, <1>4, SizeAssumption
  <2>3. Len(q[5]) <= Len(q[6])
    BY <1>3, <1>4, SizeAssumption
  <2> QED BY <2>1, <2>2, <2>3 DEF PooledOnce, OnceEach, StackForEveryPcb
<1>17. PrivateStacks
  <2>1. \A x \in PCBs : stack[x] = IF x <= 3 THEN x ELSE 0
    BY DEF Init
  <2>2. \A x \in PCBs : Live(x) => x <= 3 /\ stack[x] = x /\ x # 0
    BY <1>1, <2>1, SizeAssumption DEF Live, PCBs
  <2>3. \A x \in PCBs : x <= 3 => ~In(q, 6, x)
    <3>1. ASSUME NEW x \in PCBs, x <= 3, NEW i \in 1 .. Len(q[6]), q[6][i].data = x
          PROVE  FALSE
      <4>1. q[6][i].data = i + 3 /\ i \in 1 .. MAX_PROCS - 3
        BY <1>3, <1>4
      <4> QED BY <3>1, <4>1, SizeAssumption DEF PCBs
    <3> QED BY <3>1 DEF In
  <2> QED BY <2>2, <2>3 DEF PrivateStacks
<1>18. NodesCounted /\ NodesSuffice
  <2>1. Busy = 1 /\ lent = MAX_SHMS /\ mode = "user"
    BY DEF Busy, Init
  <2>2. Queued(q) = MAX_PROCS - 1 /\ Len(q[6]) = MAX_PROCS - 3
    BY <1>3, <1>4, <1>6, SizeAssumption DEF Queued
  <2>3. Used(q) + lent <= NQNODES
    BY <2>1, <2>2, SizeAssumption DEF Used, NQNODES
  <2>4. /\ Queued(q) + Busy <= MAX_PROCS /\ lent <= Share
        /\ Len(q[6]) = Len(q[5])
    BY <1>4, <2>1, <2>2, SizeAssumption DEF Share
  <2> QED BY <2>1, <2>3, <2>4 DEF NodesCounted, NodesSuffice
<1>19. LiveLevel
  BY <1>1 DEF LiveLevel, Levels, MLQ_LEVELS
<1>20. IdleStays
  <2>1. pid[1] = 0
    BY <1>1 DEF Init
  <2> QED BY <1>1, <1>10, <1>11, <2>1 DEF IdleStays
<1>21. ReadersFindBufferEmpty
  BY DEF Init, ReadersFindBufferEmpty
<1> QED
  BY <1>12, <1>13, <1>14, <1>15, <1>16, <1>17, <1>18, <1>19, <1>20, <1>21 DEF IInv

(* Every step of the kernel preserves the invariant. *)
LEMMA NextInv == IInv /\ [Next]_vars => IInv'
<1> SUFFICES ASSUME IInv, [Next]_vars PROVE IInv'
  OBVIOUS
<1>1. CASE Handler
  BY <1>1, DispatchStep, WakeSleeperStep, ChargeQuantumStep DEF Handler
<1>2. CASE Tick \/ Receive \/ Exit \/ Yield \/ Read
  BY <1>2, TickStep, ReceiveStep, ExitStep, YieldStep, ReadStep
<1>3. ASSUME NEW n \in 0 .. PidMod - 1, Kill(n) PROVE IInv'
  BY <1>3, KillStep
<1>4. ASSUME NEW lv \in LevelArgs, Spawn(lv) PROVE IInv'
  BY <1>4, SpawnStep
<1>5. ASSUME NEW n \in SleepArgs, Sleep(n) PROVE IInv'
  BY <1>5, SleepStep
<1>6. CASE UNCHANGED vars
  BY <1>6 DEF vars, procVars, IInv, TypeOK, OnePlace, StatusFitsPlace, FitsQueue,
     NothingLost, Placed, PrivateStacks, PooledOnce, StackForEveryPcb, NodesCounted,
     NodesSuffice, LiveLevel, IdleStays, HasNode, ReadersFindBufferEmpty, OnCpu, Live, Busy
<1>7. CASE OtherInsert \/ OtherRemove
  BY <1>7, OtherInsertStep, OtherRemoveStep
<1> QED BY <1>1, <1>2, <1>3, <1>4, <1>5, <1>6, <1>7 DEF Next, Halt

(* The inductive invariant holds in every behaviour of the kernel. *)
THEOREM InductiveInvariant == Spec => []IInv
  BY InitInv, NextInv, PTL DEF Spec

-----------------------------------------------------------------------------
(***************************************************************************)
(* The properties.                                                         *)
(***************************************************************************)

(* The kernel state stays well typed. *)
THEOREM TypeCorrect == Spec => []TypeOK
<1>1. IInv => TypeOK
  BY DEF IInv
<1> QED BY <1>1, InductiveInvariant, PTL

(* _dispatch never panics, whatever the rest of the system does with the   *)
(* queue nodes: the idle process is always there, and what is found in a   *)
(* ready queue is ready or a zombie.  A process that blocks gets a node as *)
(* long as the rest of the system stays within its share.                  *)
THEOREM NeverPanics == Spec => []NoPanic
<1>1. IInv => NoPanic
  <2> SUFFICES ASSUME IInv PROVE NoPanic
    OBVIOUS
  <2>1. ASSUME mode = "dispatch" PROVE \E l \in Levels : q[l] # <<>>
    <3>1. In(q, LEVEL_LOW, Idle) /\ LEVEL_LOW \in Levels
      BY <2>1 DEF IInv, IdleStays, OnCpu, LEVEL_LOW, Levels, MLQ_LEVELS
    <3> QED BY <3>1, EmptySeq DEF In
  <2>2. ASSUME NEW l \in Levels, q[l] # <<>>
        PROVE  status[First(l)] \in {PROC_READY, PROC_ZOMBIE}
    <3>1. l \in Queues /\ l \in PcbQueues
      BY DEF Levels, MLQ_LEVELS, Queues, PcbQueues
    <3>2. First(l) \in PCBs /\ In(q, l, First(l))
      BY <2>2, <3>1, RemoveFacts DEF IInv, TypeOK, First
    <3> QED BY <3>1, <3>2 DEF IInv, StatusFitsPlace, FitsQueue
  <2>3. ~overdrawn => mode # "panic"
    BY DEF IInv, NodesSuffice
  <2> QED BY <2>1, <2>2, <2>3 DEF NoPanic
<1> QED BY <1>1, InductiveInvariant, PTL

(* A PCB is in one queue at most, once, and not while it has the CPU. *)
THEOREM InOnePlace == Spec => []OnePlace
<1>1. IInv => OnePlace
  BY DEF IInv
<1> QED BY <1>1, InductiveInvariant, PTL

(* The status of a PCB fits the queue it is in. *)
THEOREM StatusAgrees == Spec => []StatusFitsPlace
<1>1. IInv => StatusFitsPlace
  BY DEF IInv
<1> QED BY <1>1, InductiveInvariant, PTL

(* _schedule drops no process, although no caller would notice, as long as *)
(* the rest of the system keeps to its share of the nodes. *)
THEOREM NoProcessLost == Spec => []NothingLost
<1>1. IInv => NothingLost
  BY DEF IInv
<1> QED BY <1>1, InductiveInvariant, PTL

(* The roll-back of _spawn is dead code: there is a stack for every PCB,   *)
(* also after _cleanup found no node for one of the two.                   *)
THEOREM RollBackNeverNeeded == Spec => []StackForEveryPcb
<1>1. IInv => StackForEveryPcb
  BY DEF IInv
<1> QED BY <1>1, InductiveInvariant, PTL

(* Input is handed out in the order in which it arrived. *)
THEOREM ReadersInOrder == Spec => []ReadersFindBufferEmpty
<1>1. IInv => ReadersFindBufferEmpty
  BY DEF IInv
<1> QED BY <1>1, InductiveInvariant, PTL

(* No two processes share a stack, and no stack in use is in the pool. *)
THEOREM StacksPrivate == Spec => []PrivateStacks
<1>1. IInv => PrivateStacks
  BY DEF IInv
<1> QED BY <1>1, InductiveInvariant, PTL

(* What _dispatch runs has the highest level of all in the ready queues. *)
THEOREM HighestDispatched == Spec => DispatchesHighest
<1>1. ASSUME IInv, [Next]_vars, mode = "dispatch", mode' = "user",
             NEW p \in PCBs, status[p] = PROC_READY, Placed(p)
      PROVE  level[current'] <= level[p]
  <2>1. Dispatch
    BY <1>1 DEF Next, Handler, vars, Tick, WakeSleeper, ChargeQuantum, Receive, Exit,
       Yield, Read, Kill, Spawn, Sleep, Syscall, OtherInsert, OtherRemove, Halt
  <2>2. PICK l \in Levels : TopLevel(l) /\ status[First(l)] = PROC_READY /\ Run(l, First(l))
    BY <1>1, <2>1 DEF Dispatch, Panic, Reap
  <2>3. current' = First(l) /\ q[l] # <<>>
    BY <2>2 DEF Run, TopLevel
  <2>4. First(l) \in PCBs /\ In(q, l, First(l))
    <3>1. l \in Queues
      BY DEF Levels, MLQ_LEVELS, Queues
    <3>2. q[l] \in Seq(Nodes)
      <4>1. q \in QueueContents
        BY <1>1 DEF IInv, TypeOK
      <4> QED BY <3>1, <4>1, QueueSeq
    <3>3. 1 \in 1 .. Len(q[l]) /\ Head(q[l]) = q[l][1] /\ q[l][1] \in Nodes
      BY <2>3, <3>2
    <3> QED BY <3>3 DEF In, First, Nodes
  <2>5. level[First(l)] = l
    BY <1>1, <2>4 DEF IInv, StatusFitsPlace, FitsQueue, PcbQueues, Levels, MLQ_LEVELS
  <2>6. PICK a \in PcbQueues : In(q, a, p)
    BY <1>1 DEF Placed, OnCpu
  <2>7. a \in Levels /\ level[p] = a
    BY <1>1, <2>6 DEF IInv, StatusFitsPlace, FitsQueue, PcbQueues, Levels, MLQ_LEVELS,
       PROC_READY, PROC_ZOMBIE, PROC_SLEEPING, PROC_BLOCKED, PROC_FREE, Sleeping,
       Reading, FreePcbs
  <2>8. q[a] # <<>>
    BY <2>6 DEF In
  <2>9. ~(a < l)
    BY <2>2, <2>7, <2>8 DEF TopLevel, Levels, MLQ_LEVELS
  <2> QED BY <2>3, <2>5, <2>7, <2>9 DEF Levels, MLQ_LEVELS
<1>2. IInv /\ [Next]_vars =>
        (mode = "dispatch" /\ mode' = "user" =>
           \A p \in PCBs : status[p] = PROC_READY /\ Placed(p) => level[current'] <= level[p])
  BY <1>1
<1> QED BY <1>2, InductiveInvariant, PTL DEF Spec, DispatchesHighest

-----------------------------------------------------------------------------
(***************************************************************************)
(* The sleep queue.                                                        *)
(***************************************************************************)

(* Sleepers are queued in the order in which they wake. *)
Ascending(s) == \A i, j \in 1 .. Len(s) : i <= j => s[i].key <= s[j].key

SleepersOrdered == Ascending(q[Sleeping])

(* qq has all the queues, with the given contents of the sleep queue. *)
SleepQueueIs(qq, s) == qq = [a \in Queues |-> qq[a]] /\ qq[Sleeping] = s

(* Insertions into other queues leave the sleep queue alone. *)
LEMMA InsertElsewhere ==
  ASSUME NEW qq, NEW s, SleepQueueIs(qq, s), NEW id, id # Sleeping, NEW k, NEW p
  PROVE  SleepQueueIs(QInsert(qq, id, k, p), s)
BY DEF SleepQueueIs, QInsert, Queues, Sleeping

(* So does _schedule, which rejects the levels that are none. *)
LEMMA ScheduleElsewhere ==
  ASSUME NEW qq, NEW s, SleepQueueIs(qq, s), NEW lv, NEW p
  PROVE  SleepQueueIs(ScheduleQ(qq, lv, p), s)
<1>1. CASE lv >= MLQ_LEVELS
  BY <1>1 DEF ScheduleQ
<1>2. CASE ~(lv >= MLQ_LEVELS)
  <2>1. lv # Sleeping
    BY <1>2 DEF MLQ_LEVELS, Sleeping
  <2> QED BY <1>2, <2>1, InsertElsewhere DEF ScheduleQ
<1> QED BY <1>1, <1>2

(* So do removals from other queues, and _cleanup. *)
LEMMA RemoveElsewhere ==
  ASSUME NEW qq, NEW s, SleepQueueIs(qq, s), NEW id, id # Sleeping
  PROVE  SleepQueueIs(QRemove(qq, id), s)
BY DEF SleepQueueIs, QRemove, Queues, Sleeping

(* Giving back a PCB and its stack leaves the sleep queue alone. *)
LEMMA CleanupElsewhere ==
  ASSUME NEW qq, NEW s, SleepQueueIs(qq, s), NEW p
  PROVE  SleepQueueIs(CleanupQ(qq, p), s)
BY InsertElsewhere DEF CleanupQ, FreePcbs, FreeStacks, Sleeping

(* The sleep queue changes when its first process wakes and when a process *)
(* goes to sleep, and then in order. *)
LEMMA SleepQueueSteps ==
  ASSUME IInv, [Next]_vars
  PROVE  \/ q'[Sleeping] = q[Sleeping]
         \/ q[Sleeping] # <<>> /\ q'[Sleeping] = Tail(q[Sleeping])
         \/ \E k \in Nat, p \in PCBs : q'[Sleeping] = InsertOrdered(q[Sleeping], k, p)
<1>0. q \in QueueContents /\ current \in PCBs /\ SleepQueueIs(q, q[Sleeping])
  BY DEF IInv, TypeOK, QueueContents, SleepQueueIs
<1>1. CASE SleepQueueIs(q', q[Sleeping])
  BY <1>1 DEF SleepQueueIs
<1>2. CASE Dispatch
  <2>1. CASE q' = q
    BY <2>1
  <2>2. ASSUME NEW l \in Levels, Run(l, First(l)) \/ Reap(l, First(l))
        PROVE  SleepQueueIs(q', q[Sleeping])
    <3>1. SleepQueueIs(QRemove(q, l), q[Sleeping])
      BY <1>0, RemoveElsewhere DEF Levels, MLQ_LEVELS, Sleeping
    <3> QED BY <2>2, <3>1, CleanupElsewhere DEF Run, Reap
  <2> QED BY <1>1, <1>2, <2>1, <2>2 DEF Dispatch, Panic
<1>3. CASE WakeSleeper
  <2>1. q[Sleeping] # <<>> /\ q' = ScheduleQ(QRemove(q, Sleeping), level[First(Sleeping)],
                                             First(Sleeping))
    BY <1>3 DEF WakeSleeper, FirstIsLe
  <2>2. SleepQueueIs(QRemove(q, Sleeping), Tail(q[Sleeping]))
    <3> DEFINE r == QRemove(q, Sleeping)
    <3>1. r = [q EXCEPT ![Sleeping] = Tail(q[Sleeping])] /\ Sleeping \in Queues
      BY DEF QRemove, Queues, Sleeping
    <3>2. q = [a \in Queues |-> q[a]]
      BY <1>0 DEF SleepQueueIs
    <3>3. r[Sleeping] = Tail(q[Sleeping])
      BY <3>1, <3>2
    <3>4. r = [a \in Queues |-> r[a]]
      BY <3>1, <3>2
    <3> QED BY <3>3, <3>4 DEF SleepQueueIs
  <2>3. SleepQueueIs(q', Tail(q[Sleeping]))
    BY <2>1, <2>2, ScheduleElsewhere
  <2> QED BY <2>1, <2>3 DEF SleepQueueIs
<1>4. CASE ChargeQuantum \/ Yield
  BY <1>0, <1>1, <1>4, ScheduleElsewhere DEF ChargeQuantum, Yield
<1>5. CASE Receive
  <2>1. CASE q[Reading] # <<>>
    <3>1. SleepQueueIs(QRemove(q, Reading), q[Sleeping])
      BY <1>0, RemoveElsewhere DEF Reading, Sleeping
    <3>2. SleepQueueIs(q', q[Sleeping])
      BY <1>5, <2>1, <3>1, ScheduleElsewhere DEF Receive
    <3> QED BY <1>1, <3>2
  <2>2. CASE q[Reading] = <<>>
    BY <1>5, <2>2 DEF Receive
  <2> QED BY <2>1, <2>2
<1>6. CASE Exit
  BY <1>0, <1>1, <1>6, CleanupElsewhere DEF Exit, Cleanup
<1>7. CASE Read
  BY <1>0, <1>1, <1>7, InsertElsewhere DEF Read, Block, Reading, Sleeping
<1>8. ASSUME NEW lv \in LevelArgs, Spawn(lv) PROVE SleepQueueIs(q', q[Sleeping])
  <2> DEFINE q1 == QRemove(q, FreePcbs)
  <2>1. SleepQueueIs(q1, q[Sleeping])
    BY <1>0, RemoveElsewhere DEF FreePcbs, Sleeping
  <2>2. SleepQueueIs(QRemove(q1, FreeStacks), q[Sleeping])
    BY <2>1, RemoveElsewhere DEF FreeStacks, Sleeping
  <2> HIDE DEF q1
  <2>3. CASE q1[FreeStacks] = <<>>
    <3>1. q' = QInsert(q1, FreePcbs, 0, First(FreePcbs))
      BY <1>8, <2>3 DEF Spawn, q1
    <3> QED BY <2>1, <3>1, InsertElsewhere DEF FreePcbs, Sleeping
  <2>4. CASE q1[FreeStacks] # <<>>
    <3>1. q' = ScheduleQ(ScheduleQ(QRemove(q1, FreeStacks), lv, First(FreePcbs)),
                         level[current], current)
      BY <1>8, <2>4 DEF Spawn, SpawnBoth, q1
    <3> QED BY <2>2, <3>1, ScheduleElsewhere
  <2> QED BY <2>3, <2>4
<1>9. ASSUME NEW n \in SleepArgs, Sleep(n)
      PROVE  \/ q' = q
             \/ \E k \in Nat, p \in PCBs : q'[Sleeping] = InsertOrdered(q[Sleeping], k, p)
  <2>1. Wakeup(n) \in Nat
    BY ClockAssumption DEF Wakeup, IInv, TypeOK
  <2>2. q' = QInsert(q, Sleeping, Wakeup(n), current)
    BY <1>9 DEF Sleep, Block
  <2>3. CASE HasNode(q)
    <3>1. q'[Sleeping] = InsertOrdered(q[Sleeping], Wakeup(n), current)
      BY <1>0, <2>2, <2>3 DEF QInsert, QueueContents, Queues, Sleeping
    <3> QED BY <1>0, <2>1, <3>1
  <2>4. CASE ~HasNode(q)
    BY <2>2, <2>4 DEF QInsert
  <2> QED BY <2>3, <2>4
<1>10. CASE \/ Tick \/ (\E n \in 0 .. PidMod - 1 : Kill(n)) \/ OtherInsert \/ OtherRemove
            \/ UNCHANGED vars
  BY <1>10 DEF Tick, Kill, OtherInsert, OtherRemove, vars
<1> QED BY <1>1, <1>2, <1>3, <1>4, <1>5, <1>6, <1>7, <1>8, <1>9, <1>10 DEF Next, Handler, Halt

(* The order of the sleepers is kept. *)
LEMMA SleepersStayOrdered ==
  ASSUME IInv, SleepersOrdered, [Next]_vars
  PROVE  SleepersOrdered'
<1> DEFINE s == q[Sleeping]
           t == q'[Sleeping]
<1>0. s \in Seq(Nodes) /\ Ascending(s)
  BY QueueSeq DEF IInv, TypeOK, Queues, Sleeping, SleepersOrdered
<1> SUFFICES Ascending(t)
  BY DEF SleepersOrdered, Ascending
<1>1. CASE t = s
  BY <1>0, <1>1
<1>2. CASE s # <<>> /\ t = Tail(s)
  <2> HIDE DEF s, t
  <2>1. Len(s) \in Nat /\ Len(t) = Len(s) - 1 /\ \A i \in 1 .. Len(t) : t[i] = s[i + 1]
    BY <1>0, <1>2
  <2>2. \A i \in 1 .. Len(t) : i + 1 \in 1 .. Len(s)
    BY <2>1
  <2> QED BY <1>0, <2>1, <2>2 DEF Ascending
<1>3. ASSUME NEW k \in Nat, NEW p \in PCBs, t = InsertOrdered(s, k, p) PROVE Ascending(t)
  <2> HIDE DEF s, t
  <2> QED BY <1>0, <1>3, InsertOrderedSorted DEF Ascending, Nodes
<1> QED BY <1>1, <1>2, <1>3, SleepQueueSteps

(* When the wake-up loop of _isr_clock ends no sleeper is overdue: it      *)
(* looks only at the first entry of _sleeping, which is the earliest. *)
THEOREM SleepersWoken == Spec => NoSleeperMissed
<1>1. Init => SleepersOrdered
  BY DEF Init, SleepersOrdered, Ascending, Queues, Sleeping, LEVEL_LOW, LEVEL_DEFAULT, FreePcbs,
         FreeStacks
<1>2. IInv /\ SleepersOrdered /\ [Next]_vars => SleepersOrdered'
  BY SleepersStayOrdered
<1>3. ASSUME IInv, SleepersOrdered, [Next]_vars, mode = "clock", mode' # "clock",
             NEW i \in 1 .. Len(q[Sleeping])
      PROVE  q[Sleeping][i].key > time
  <2> DEFINE s == q[Sleeping]
  <2>1. ~FirstIsLe(s, time)
    BY <1>3 DEF Next, Handler, Dispatch, WakeSleeper, ChargeQuantum, Tick, Receive, Exit, Yield,
                Read, Kill, Spawn, Sleep, Syscall, OtherInsert, OtherRemove, Halt, vars
  <2>2. s \in Seq(Nodes) /\ time \in Nat
    BY <1>3, QueueSeq DEF IInv, TypeOK, Queues, Sleeping
  <2>3. s[1].key <= s[i].key
    <3>1. 1 \in 1 .. Len(s) /\ 1 <= i
      BY <1>3, <2>2
    <3> QED BY <1>3, <3>1 DEF SleepersOrdered, Ascending
  <2> HIDE DEF s
  <2>4. s # <<>> /\ Head(s) = s[1] /\ s[1] \in Nodes /\ s[i] \in Nodes
    BY <1>3, <2>2 DEF s
  <2>5. s[1].key > time
    BY <2>1, <2>2, <2>4 DEF FirstIsLe, Nodes
  <2>6. s[i].key > time
    BY <2>2, <2>3, <2>4, <2>5 DEF Nodes
  <2> QED BY <2>6 DEF s
<1>4. IInv /\ SleepersOrdered /\ [Next]_vars
        => [mode = "clock" /\ mode' # "clock" =>
              \A i \in 1 .. Len(q[Sleeping]) : q[Sleeping][i].key > time]_vars
  BY <1>3
<1> QED BY <1>1, <1>2, <1>4, InductiveInvariant, PTL DEF Spec, NoSleeperMissed
=============================================================================

---------------------------- MODULE QueuesProofs ----------------------------
(***************************************************************************)
(* Proofs that the linked lists of queues.c and disk.c keep every item at  *)
(* one place and implement the sequences of QueueSpec, for any number of   *)
(* nodes, requests, queues, keys, data and contexts and however these      *)
(* interleave, until two of them are inside of one list or one puts an     *)
(* item back twice.                                                        *)
(***************************************************************************)
EXTENDS Queues, TLAPS, FiniteSetTheorems, WellFoundedInduction, SequenceTheorems

-----------------------------------------------------------------------------
(* The inductive invariant.                                                *)

Kind(l) == IF l = "request" THEN "request" ELSE "node"

Starts == [l \in Lists |-> Start(l)]

(* The items of each list in their order.                                  *)
Orders == {L \in [Lists -> Seq(Items)] : \A l \in Lists : L[l] \in Seq(ItemsOf(Kind(l)))}

(* The links lead through the items of each list, and none is there twice. *)
Wired(L, st, link) ==
  /\ \A l \in Lists : IsPath(L[l], st[l], link)
  /\ \A l, m \in Lists : \A i \in 1 .. Len(L[l]), j \in 1 .. Len(L[m]) :
       L[l][i] = L[m][j] => l = m /\ i = j

OnList(L, x) == \E l \in Lists : \E i \in 1 .. Len(L[l]) : L[l][i] = x

(* What a process has is on no list and no other process's; what nobody    *)
(* has is on a list or on its way.                                         *)
Owners(L) ==
  /\ \A p \in Users : \A x \in held[p] : TableOf(x) = "request" /\ ~OnList(L, x)
  /\ \A p, o \in Users : \A x \in held[p] : x \in held[o] => p = o
  /\ \A x \in Items : \/ OnList(L, x) \/ \E p \in Users : x \in held[p]
                      \/ \E c \in Contexts : pc[c] # "idle" /\ item[c] = x

(* The item a context works on is its own after it was taken off its list  *)
(* and until it is on the next.                                            *)
Loose(L, x) == x \in Items /\ ~OnList(L, x) /\ \A p \in Users : x \notin held[p]

Carries(c) == pc[c] \in {"fill", "search", "join", "hang", "empty", "link", "put"}

Distinct ==
  \A c, o \in Contexts : c # o /\ Carries(c) /\ Carries(o) => item[c] # item[o]

(* A context between reading the head of a list and giving it another.     *)
ListStep(c, L) ==
  /\ pc[c] = "take" => item[c] # Null /\ item[c] = head[table[c]]
  /\ Carries(c) => Loose(L, item[c]) /\ TableOf(item[c]) = table[c]
  /\ pc[c] = "put" => next[item[c]] = head[table[c]]
  /\ pc[c] \in {"link", "put"} => todo[c] > 0

(* The place the search has reached: behind m nodes whose keys are not     *)
(* larger.                                                                 *)
Found(c, s, m) ==
  /\ prev[c] = IF m = 0 THEN Null ELSE s[m]
  /\ curr[c] = IF m = Len(s) THEN Null ELSE s[m + 1]
  /\ call[c].queue \in Ordered => \A j \in 1 .. m : key[s[j]] <= key[item[c]]
  /\ pc[c] # "search" =>
       IF call[c].queue \in Ordered THEN m < Len(s) => key[s[m + 1]] > key[item[c]]
                                    ELSE m = Len(s)

(* A context in an operation on a queue.                                   *)
QueueOperation(c, L) ==
  LET n == call[c].queue IN
  /\ pc[c] \notin {"idle", "take", "link", "put"} => table[c] = "node" /\ n \in QNames
  /\ pc[c] = "take" /\ table[c] = "node" => n \in QNames
  /\ (pc[c] = "take" /\ table[c] = "node") \/ pc[c] \in {"fill", "search", "join", "hang"} =>
       call[c].key \in KeysOf(n) /\ call[c].data \in Data
  /\ pc[c] \in {"search", "join", "hang"} =>
       /\ data[item[c]] = call[c].data
       /\ key[item[c]] = IF n \in Ordered THEN call[c].key ELSE 0
       /\ pc[c] = "search" => n \in Ordered
       /\ \E m \in 0 .. Len(L[n]) : Found(c, L[n], m)
  /\ pc[c] = "hang" => next[item[c]] = curr[c]
  /\ pc[c] = "tail" =>
       \E m \in 1 .. Len(L[n]) : L[n][m] = item[c] /\ (curr[c] = Null => m = Len(L[n]))
  /\ pc[c] = "unlink" => item[c] # Null /\ item[c] = first[n]

LastOf(s) == IF s = <<>> THEN Null ELSE s[Len(s)]

(* A context is about to set the last pointer of queue n.                  *)
Owes(c, n, L) ==
  /\ call[c].queue = n
  /\ \/ pc[c] = "tail" /\ curr[c] = Null
     \/ pc[c] = "empty" /\ L[n] = <<>>

(* The last pointer of a queue is right except just before it is set.      *)
Ends(L) ==
  \A n \in QNames : last[n] = LastOf(L[n]) \/ \E c \in Contexts : Owes(c, n, L)

Shape(L) ==
  /\ L \in Orders /\ Wired(L, Starts, next) /\ Owners(L) /\ Ends(L) /\ Distinct
  /\ \A c \in Contexts : ListStep(c, L) /\ QueueOperation(c, L)

Calls == [queue : QNames \cup {"none"}, key : Keys \cup {0}, data : Data \cup {0}]

(* Requests are the processes' affair.                                     *)
Requesters == \A c \in Contexts : pc[c] # "idle" /\ table[c] = "request" => c \in Users

Typed == TypeOK /\ call \in [Contexts -> Calls]

Good(L) == L \in Orders /\ Typed /\ ~Meet /\ Requesters /\ Shape(L)

QueuesInvariant == clash \in BOOLEAN /\ (~clash => \E L \in Orders : Good(L))

-----------------------------------------------------------------------------
(* Paths.                                                                  *)

(* The constants.                                                          *)
LEMMA ItemFacts ==
  /\ Nodes \in Nat \ {0} /\ Requests \in Nat \ {0} /\ Null = 0
  /\ NodeItems \subseteq Items /\ Null \notin Items
  /\ ItemsOf("node") = NodeItems
  /\ \A t : ItemsOf(t) \subseteq Items
BY FreeListAssumption DEF Items, NodeItems, Null, ItemsOf, TableOf

(* Every non-empty set of naturals has a least element.                    *)
LEMMA LeastNat ==
  ASSUME NEW T, T \subseteq Nat, T # {}
  PROVE  \E n \in T : \A m \in T : n <= m
<1> DEFINE R == OpToRel(<, Nat)
<1>1. \A x, y \in Nat : <<y, x>> \in R <=> y < x
  BY DEF OpToRel
<1>2. IsWellFoundedOn(R, Nat)
  BY NatLessThanWellFounded
<1> HIDE DEF R
<1>3. PICK n \in T : \A y \in T : ~ (<<y, n>> \in R)
  BY <1>2, WFMin
<1>4. ASSUME NEW m \in T PROVE n <= m
  <2>1. m \in Nat /\ n \in Nat /\ ~ (<<m, n>> \in R)
    BY <1>3
  <2>2. ~(m < n)
    BY <1>1, <2>1
  <2> QED BY <2>1, <2>2
<1> QED BY <1>4

(* A path goes along with every other one from the same item.              *)
LEMMA PathPrefix ==
  ASSUME NEW s \in Seq(Items), NEW t \in Seq(Items), NEW i, NEW link,
         IsPath(s, i, link), IsPath(t, i, link), NEW j \in 1 .. Len(s)
  PROVE  j <= Len(t) /\ t[j] = s[j]
<1> DEFINE T == {k \in 1 .. Len(s) : ~(k <= Len(t) /\ t[k] = s[k])}
<1> SUFFICES ASSUME j \in T PROVE FALSE
  OBVIOUS
<1>1. Len(s) \in Nat /\ Len(t) \in Nat
  OBVIOUS
<1>2. PICK k \in T : \A m \in T : k <= m
  <2>1. T \subseteq Nat /\ T # {}
    BY <1>1
  <2> QED BY <2>1, LeastNat
<1>3. k \in 1 .. Len(s) /\ ~(k <= Len(t) /\ t[k] = s[k])
  OBVIOUS
<1>4. s[k] \in Items /\ s[k] # Null
  BY <1>3, ItemFacts
<1>5. CASE k = 1
  <2>1. i = s[1] /\ i # Null
    BY <1>3, <1>4, <1>5 DEF IsPath
  <2>2. t # <<>> /\ t[1] = i
    BY <2>1 DEF IsPath
  <2> QED BY <1>3, <1>5, <2>1, <2>2
<1>6. CASE k # 1
  <2>1. k - 1 \in 1 .. Len(s) /\ k - 1 \notin T
    BY <1>1, <1>2, <1>3, <1>6
  <2>2. k - 1 <= Len(t) /\ t[k - 1] = s[k - 1]
    BY <2>1
  <2>3. link[s[k - 1]] = s[k]
    BY <1>1, <1>3, <2>1 DEF IsPath
  <2>4. k - 1 \in 1 .. Len(t)
    BY <1>1, <2>1, <2>2
  <2>5. link[t[k - 1]] = IF k - 1 = Len(t) THEN Null ELSE t[(k - 1) + 1]
    BY <2>4 DEF IsPath
  <2>6. k - 1 # Len(t) /\ t[(k - 1) + 1] = s[k]
    BY <1>4, <2>2, <2>3, <2>5
  <2> QED BY <1>1, <1>3, <2>4, <2>6
<1> QED BY <1>5, <1>6

(* There is one path from an item.                                         *)
LEMMA PathUnique ==
  ASSUME NEW s \in Seq(Items), NEW t \in Seq(Items), NEW i, NEW link,
         IsPath(s, i, link), IsPath(t, i, link)
  PROVE  s = t
<1>1. Len(s) \in Nat /\ Len(t) \in Nat
  OBVIOUS
<1>2. \A j \in 1 .. Len(s) : j <= Len(t) /\ t[j] = s[j]
  BY PathPrefix
<1>3. \A j \in 1 .. Len(t) : j <= Len(s) /\ s[j] = t[j]
  BY PathPrefix
<1>4. Len(s) = Len(t)
  BY <1>1, <1>2, <1>3
<1> QED BY <1>2, <1>4, SeqEqual

(* No more nodes than there are.                                           *)
LEMMA PathShort ==
  ASSUME NEW s \in Seq(NodeItems), \A i, j \in 1 .. Len(s) : s[i] = s[j] => i = j
  PROVE  Len(s) <= Nodes
<1>1. Len(s) \in Nat /\ s \in [1 .. Len(s) -> NodeItems]
  OBVIOUS
<1>2. s \in Injection(1 .. Len(s), NodeItems)
  BY <1>1 DEF Injection, IsInjective
<1>3. IsFiniteSet(NodeItems) /\ Cardinality(NodeItems) = Nodes
  BY FS_Interval, ItemFacts DEF NodeItems
<1>4. Cardinality(1 .. Len(s)) = Len(s)
  BY <1>1, FS_Interval
<1>5. Cardinality(1 .. Len(s)) <= Cardinality(NodeItems)
  BY <1>2, <1>3, FS_Injection
<1> QED BY <1>3, <1>4, <1>5

(* The path of a queue is what Listed goes along.                          *)
LEMMA PathFromIs ==
  ASSUME NEW s \in Seq(NodeItems), \A i, j \in 1 .. Len(s) : s[i] = s[j] => i = j,
         NEW i, NEW link, IsPath(s, i, link)
  PROVE  PathFrom(i, link) = s
<1> DEFINE P == NodeSeqs
<1>1. s \in P
  <2>1. Len(s) \in 0 .. Nodes /\ s \in [1 .. Len(s) -> NodeItems]
    BY PathShort, ItemFacts
  <2> QED BY <2>1 DEF NodeSeqs
<1>2. P \subseteq Seq(Items)
  <2>1. ASSUME NEW m \in 0 .. Nodes, NEW u \in [1 .. m -> NodeItems]
        PROVE  u \in Seq(Items)
    <3>1. m \in Nat /\ u \in [1 .. m -> Items]
      BY ItemFacts
    <3> QED BY <3>1
  <2> QED BY <2>1 DEF NodeSeqs
<1> HIDE DEF P
<1>3. s \in Seq(Items)
  BY <1>1, <1>2
<1>4. \A t \in P : IsPath(t, i, link) => t = s
  BY <1>2, <1>3, PathUnique
<1>5. PathFrom(i, link) = CHOOSE t \in P : IsPath(t, i, link)
  BY DEF PathFrom, P
<1> QED BY <1>1, <1>4, <1>5

(* The items on a list are those of its path.                              *)
LEMMA ChainIs ==
  ASSUME NEW t, NEW s \in Seq(ItemsOf(t)), NEW i, IsPath(s, i, next)
  PROVE  Chain(t, i) = {s[j] : j \in 1 .. Len(s)}
<1> DEFINE A == ItemsOf(t)
           R == {s[j] : j \in 1 .. Len(s)}
<1>1. Len(s) \in Nat /\ \A j \in 1 .. Len(s) : s[j] \in A
  OBVIOUS
<1>2. R \in SUBSET A
  BY <1>1
<1>3. i \in R \cup {Null} /\ \A k \in R : next[k] \in R \cup {Null}
  BY <1>1 DEF IsPath
<1>4. ASSUME NEW S \in SUBSET A, i \in S \cup {Null}, \A k \in S : next[k] \in S \cup {Null},
             NEW j \in 1 .. Len(s), s[j] \notin S
      PROVE  FALSE
  <2> DEFINE T == {k \in 1 .. Len(s) : s[k] \notin S}
  <2>1. T \subseteq Nat /\ T # {}
    BY <1>1, <1>4
  <2>2. PICK k \in T : \A m \in T : k <= m
    BY <2>1, LeastNat
  <2>3. k \in 1 .. Len(s) /\ s[k] \notin S /\ s[k] # Null
    BY <1>1, ItemFacts
  <2>4. CASE k = 1
    BY <1>4, <2>3, <2>4 DEF IsPath
  <2>5. CASE k # 1
    <3>1. k - 1 \in 1 .. Len(s) /\ k - 1 \notin T
      BY <1>1, <2>2, <2>3, <2>5
    <3>2. s[k - 1] \in S /\ next[s[k - 1]] = s[k]
      BY <1>1, <2>3, <3>1 DEF IsPath
    <3> QED BY <1>4, <2>3, <3>2
  <2> QED BY <2>4, <2>5
<1>5. /\ \A x : x \in Chain(t, i) <=>
             x \in A /\ \A S \in SUBSET A :
               i \in S \cup {Null} /\ (\A k \in S : next[k] \in S \cup {Null}) => x \in S
  BY DEF Chain
<1> HIDE DEF A
<1>6. Chain(t, i) \subseteq R
  BY <1>2, <1>3, <1>5
<1>7. ASSUME NEW j \in 1 .. Len(s) PROVE s[j] \in Chain(t, i)
  <2>1. \A S \in SUBSET A :
          i \in S \cup {Null} /\ (\A k \in S : next[k] \in S \cup {Null}) => s[j] \in S
    BY <1>4
  <2>2. s[j] \in A
    BY <1>1
  <2> QED BY <1>5, <2>1, <2>2
<1> QED BY <1>6, <1>7

-----------------------------------------------------------------------------
(* Changes of lists.                                                       *)

(* Links that are not on a list may change.                                *)
LEMMA WiredKept ==
  ASSUME NEW L \in Orders, NEW st, NEW link, NEW st2, NEW link2, Wired(L, st, link),
         \A l \in Lists : st2[l] = st[l],
         \A y \in Items : OnList(L, y) => link2[y] = link[y]
  PROVE  Wired(L, st2, link2)
<1>1. ASSUME NEW l \in Lists PROVE IsPath(L[l], st2[l], link2)
  <2>1. L[l] \in Seq(Items)
    BY DEF Orders
  <2>2. \A j \in 1 .. Len(L[l]) : L[l][j] \in Items /\ OnList(L, L[l][j])
    BY <2>1 DEF OnList
  <2> QED BY <2>2 DEF Wired, IsPath
<1> QED BY <1>1 DEF Wired

(* The first item of list t is taken off.                                  *)
TakenOff(L, t, st, link, st2, link2) ==
  /\ L \in Orders /\ Wired(L, st, link) /\ t \in Lists
  /\ st[t] # Null /\ st2[t] = link[st[t]] /\ \A l \in Lists \ {t} : st2[l] = st[l]
  /\ \A y \in Items \ {st[t]} : link2[y] = link[y]

Without(L, t) == [L EXCEPT ![t] = Tail(@)]

(* The lists are right without it.                                         *)
LEMMA WiredTail ==
  ASSUME NEW L, NEW t, NEW st, NEW link, NEW st2, NEW link2,
         TakenOff(L, t, st, link, st2, link2)
  PROVE  /\ Without(L, t) \in Orders /\ Wired(Without(L, t), st2, link2)
         /\ L[t] # <<>> /\ st[t] = L[t][1] /\ st[t] \in ItemsOf(Kind(t)) /\ OnList(L, st[t])
         /\ \A y : OnList(Without(L, t), y) <=> OnList(L, y) /\ y # st[t]
         /\ Without(L, t)[t] = Tail(L[t]) /\ \A l \in Lists \ {t} : Without(L, t)[l] = L[l]
<1> /\ L \in Orders /\ Wired(L, st, link) /\ t \in Lists
    /\ st[t] # Null /\ st2[t] = link[st[t]] /\ \A l \in Lists \ {t} : st2[l] = st[l]
    /\ \A y \in Items \ {st[t]} : link2[y] = link[y]
  BY DEF TakenOff
<1> DEFINE s == L[t]
           M == Without(L, t)
<1>1. /\ s \in Seq(Items) /\ s \in Seq(ItemsOf(Kind(t))) /\ Len(s) \in Nat
      /\ \A l \in Lists : L[l] \in Seq(Items) /\ L[l] \in Seq(ItemsOf(Kind(l)))
  BY DEF Orders
<1>2. s # <<>> /\ st[t] = s[1]
  BY DEF Wired, IsPath
<1>3. 1 \in 1 .. Len(s) /\ s[1] \in ItemsOf(Kind(t))
  BY <1>1, <1>2
<1>4. /\ Tail(s) \in Seq(Items) /\ Tail(s) \in Seq(ItemsOf(Kind(t)))
      /\ Len(Tail(s)) = Len(s) - 1
      /\ \A j \in 1 .. Len(s) - 1 : Tail(s)[j] = s[j + 1]
  BY <1>1, <1>2
<1>5. L \in [Lists -> Seq(Items)] /\ M[t] = Tail(s) /\ \A l \in Lists \ {t} : M[l] = L[l]
  BY DEF Orders, Without
<1>6. M \in Orders
  <2>1. M \in [Lists -> Seq(Items)]
    BY <1>4, <1>5 DEF Without
  <2> QED BY <1>1, <1>4, <1>5, <2>1 DEF Orders
<1> HIDE DEF M
<1>7. \A l, m \in Lists : \A i \in 1 .. Len(L[l]), j \in 1 .. Len(L[m]) :
        L[l][i] = L[m][j] => l = m /\ i = j
  BY DEF Wired
<1>8. ASSUME NEW l \in Lists, NEW i \in 1 .. Len(M[l])
      PROVE  \E j \in 1 .. Len(L[l]) : /\ j = IF l = t THEN i + 1 ELSE i
                                       /\ M[l][i] = L[l][j] /\ M[l][i] # s[1]
  <2>1. CASE l = t
    <3>1. i \in 1 .. Len(s) - 1 /\ i + 1 \in 1 .. Len(s) /\ M[l][i] = s[i + 1]
      <4> DEFINE k == Len(s)
      <4>1. k \in Nat /\ i \in 1 .. k - 1
        BY <1>1, <1>4, <1>5, <1>8, <2>1
      <4>2. M[l][i] = s[i + 1]
        BY <1>4, <1>5, <2>1, <4>1
      <4> HIDE DEF k
      <4>3. i \in 1 .. k - 1 /\ i + 1 \in 1 .. k
        BY <4>1
      <4> QED BY <4>2, <4>3 DEF k
    <3>2. s[i + 1] # s[1]
      BY <1>3, <1>7, <3>1
    <3> QED BY <2>1, <3>1, <3>2
  <2>2. CASE l # t
    BY <1>3, <1>5, <1>7, <1>8, <2>2
  <2> QED BY <2>1, <2>2
<1>9. \A l, m \in Lists : \A i \in 1 .. Len(M[l]), j \in 1 .. Len(M[m]) :
        M[l][i] = M[m][j] => l = m /\ i = j
  <2> SUFFICES ASSUME NEW l \in Lists, NEW m \in Lists, NEW i \in 1 .. Len(M[l]),
                      NEW j \in 1 .. Len(M[m]), M[l][i] = M[m][j]
               PROVE  l = m /\ i = j
    OBVIOUS
  <2>1. PICK a \in 1 .. Len(L[l]) : a = (IF l = t THEN i + 1 ELSE i) /\ M[l][i] = L[l][a]
    BY <1>8
  <2>2. PICK b \in 1 .. Len(L[m]) : b = (IF m = t THEN j + 1 ELSE j) /\ M[m][j] = L[m][b]
    BY <1>8
  <2>3. l = m /\ a = b
    <3>1. L[l][a] = L[m][b]
      BY <2>1, <2>2
    <3> HIDE <2>1, <2>2
    <3> QED BY <1>7, <3>1
  <2>4. i \in Int /\ j \in Int
    OBVIOUS
  <2> QED BY <2>1, <2>2, <2>3, <2>4
<1>13. \A l \in Lists :
         /\ st[l] = IF L[l] = <<>> THEN Null ELSE L[l][1]
         /\ \A j \in 1 .. Len(L[l]) :
              link[L[l][j]] = IF j = Len(L[l]) THEN Null ELSE L[l][j + 1]
  BY DEF Wired, IsPath
<1>10. ASSUME NEW l \in Lists PROVE IsPath(M[l], st2[l], link2)
  <2>1. \A i \in 1 .. Len(M[l]) : M[l][i] \in Items /\ link2[M[l][i]] = link[M[l][i]]
    <3>1. M[l] \in Seq(Items)
      BY <1>6 DEF Orders
    <3> QED BY <1>2, <1>8, <3>1
  <2>2. CASE l = t
    <3>1. link[s[1]] = IF 1 = Len(s) THEN Null ELSE s[1 + 1]
      BY <1>3, <1>13
    <3>2. st2[t] = IF Tail(s) = <<>> THEN Null ELSE Tail(s)[1]
      <4>1. CASE Len(s) = 1
        <5>1. Tail(s) = <<>>
          <6> DEFINE u == Tail(s)
          <6>1. u \in Seq(Items) /\ Len(u) = 0
            BY <1>4, <4>1
          <6> HIDE DEF u
          <6>2. u = <<>>
            BY <6>1
          <6> QED BY <6>2 DEF u
        <5> QED BY <1>2, <3>1, <4>1, <5>1
      <4>2. CASE Len(s) # 1
        <5>1. Tail(s) # <<>> /\ Tail(s)[1] = s[1 + 1]
          <6>1. 1 \in 1 .. Len(s) - 1 /\ Len(Tail(s)) # 0
            <7> DEFINE n == Len(s)
            <7>1. n \in Nat /\ 1 \in 1 .. n /\ n # 1 /\ Len(Tail(s)) = n - 1
              BY <1>1, <1>3, <1>4, <4>2
            <7> HIDE DEF n
            <7>2. 1 \in 1 .. n - 1 /\ n - 1 # 0
              BY <7>1
            <7> QED BY <7>1, <7>2 DEF n
          <6>2. Tail(s)[1] = s[1 + 1]
            BY <1>4, <6>1
          <6>3. Tail(s) # <<>>
            BY <6>1, EmptySeq
          <6> QED BY <6>2, <6>3
        <5> QED BY <1>2, <3>1, <4>2, <5>1
      <4> QED BY <4>1, <4>2
    <3>3. ASSUME NEW j \in 1 .. Len(s) - 1
          PROVE  link2[Tail(s)[j]] = IF j = Len(s) - 1 THEN Null ELSE Tail(s)[j + 1]
      <4>1. j + 1 \in 1 .. Len(s)
        BY <1>1
      <4>2. link[s[j + 1]] = IF j + 1 = Len(s) THEN Null ELSE s[(j + 1) + 1]
        BY <1>13, <4>1
      <4>3. link2[Tail(s)[j]] = link[s[j + 1]]
        <5>1. j \in 1 .. Len(M[l]) /\ M[l][j] = Tail(s)[j] /\ Tail(s)[j] = s[j + 1]
          BY <1>4, <1>5, <2>2
        <5> QED BY <2>1, <5>1
      <4> QED BY <1>1, <1>4, <4>2, <4>3
    <3>4. M[l] = Tail(s) /\ st2[l] = st2[t] /\ Len(M[l]) = Len(s) - 1
      BY <1>4, <1>5, <2>2
    <3> QED BY <3>2, <3>3, <3>4 DEF IsPath
  <2>3. CASE l # t
    <3>1. M[l] = L[l] /\ st2[l] = st[l]
      BY <1>5, <2>3
    <3> QED BY <1>13, <2>1, <3>1 DEF IsPath
  <2> QED BY <2>2, <2>3
<1>11. ASSUME NEW y PROVE OnList(M, y) <=> OnList(L, y) /\ y # st[t]
  <2>1. OnList(M, y) => OnList(L, y) /\ y # st[t]
    BY <1>2, <1>8 DEF OnList
  <2>2. ASSUME NEW l \in Lists, NEW i \in 1 .. Len(L[l]), L[l][i] = y, y # st[t]
        PROVE  OnList(M, y)
    <3>1. CASE l = t
      <4>1. i - 1 \in 1 .. Len(M[l]) /\ M[l][i - 1] = y
        <5>1. i \in 1 .. Len(s) /\ i # 1
          BY <1>2, <2>2, <3>1
        <5>2. i - 1 \in 1 .. Len(s) - 1 /\ (i - 1) + 1 = i
          BY <1>1, <5>1
        <5> QED BY <1>4, <1>5, <2>2, <3>1, <5>2
      <4> QED BY <4>1 DEF OnList
    <3>2. CASE l # t
      BY <1>5, <2>2, <3>2 DEF OnList
    <3> QED BY <3>1, <3>2
  <2> QED BY <2>1, <2>2 DEF OnList
<1>12. OnList(L, st[t])
  BY <1>2, <1>3 DEF OnList
<1> QED BY <1>2, <1>3, <1>5, <1>6, <1>9, <1>10, <1>11, <1>12 DEF Wired, M

After(s, m, x) ==
  [j \in 1 .. Len(s) + 1 |-> IF j <= m THEN s[j] ELSE IF j = m + 1 THEN x ELSE s[j - 1]]

(* Item x is hung behind the first m items of list t.                      *)
HungIn(L, t, m, x, st, link, st2, link2) ==
  /\ L \in Orders /\ Wired(L, st, link) /\ t \in Lists /\ m \in 0 .. Len(L[t])
  /\ x \in ItemsOf(Kind(t)) /\ ~OnList(L, x)
  /\ link2[x] = IF m = Len(L[t]) THEN Null ELSE L[t][m + 1]
  /\ st2[t] = IF m = 0 THEN x ELSE st[t]
  /\ \A l \in Lists \ {t} : st2[l] = st[l]
  /\ \A y \in Items \ {x} : link2[y] = IF m > 0 /\ y = L[t][m] THEN x ELSE link[y]

With(L, t, m, x) == [L EXCEPT ![t] = After(@, m, x)]

(* The lists are right with it.                                            *)
LEMMA WiredInsert ==
  ASSUME NEW L, NEW t, NEW m, NEW x, NEW st, NEW link, NEW st2, NEW link2,
         HungIn(L, t, m, x, st, link, st2, link2)
  PROVE  /\ With(L, t, m, x) \in Orders /\ Wired(With(L, t, m, x), st2, link2)
         /\ \A y : OnList(With(L, t, m, x), y) <=> OnList(L, y) \/ y = x
         /\ With(L, t, m, x)[t] = After(L[t], m, x)
         /\ \A l \in Lists \ {t} : With(L, t, m, x)[l] = L[l]
<1> /\ L \in Orders /\ Wired(L, st, link) /\ t \in Lists /\ m \in 0 .. Len(L[t])
    /\ x \in ItemsOf(Kind(t)) /\ ~OnList(L, x)
    /\ link2[x] = IF m = Len(L[t]) THEN Null ELSE L[t][m + 1]
    /\ st2[t] = IF m = 0 THEN x ELSE st[t]
    /\ \A l \in Lists \ {t} : st2[l] = st[l]
    /\ \A y \in Items \ {x} : link2[y] = IF m > 0 /\ y = L[t][m] THEN x ELSE link[y]
  BY DEF HungIn
<1> DEFINE s == L[t]
           u == After(s, m, x)
           n == Len(s)
           M == With(L, t, m, x)
<1>1. /\ s \in Seq(Items) /\ s \in Seq(ItemsOf(Kind(t))) /\ n \in Nat /\ m \in 0 .. n
      /\ \A l \in Lists : L[l] \in Seq(Items) /\ L[l] \in Seq(ItemsOf(Kind(l)))
  BY DEF Orders
<1>2. x \in Items
  BY ItemFacts
<1>3. /\ u \in Seq(Items) /\ u \in Seq(ItemsOf(Kind(t))) /\ Len(u) = n + 1
      /\ \A j \in 1 .. n + 1 : u[j] = IF j <= m THEN s[j] ELSE IF j = m + 1 THEN x ELSE s[j - 1]
  BY <1>1, <1>2 DEF After
<1>4. L \in [Lists -> Seq(Items)] /\ M[t] = u /\ \A l \in Lists \ {t} : M[l] = L[l]
  BY DEF Orders, With
<1>5. M \in Orders
  <2>1. M \in [Lists -> Seq(Items)]
    BY <1>3, <1>4 DEF With
  <2> QED BY <1>1, <1>3, <1>4, <2>1 DEF Orders
<1>6. /\ \A l, k \in Lists : \A i \in 1 .. Len(L[l]), j \in 1 .. Len(L[k]) :
           L[l][i] = L[k][j] => l = k /\ i = j
      /\ \A l \in Lists : st[l] = IF L[l] = <<>> THEN Null ELSE L[l][1]
      /\ \A l \in Lists : \A j \in 1 .. Len(L[l]) :
           link[L[l][j]] = IF j = Len(L[l]) THEN Null ELSE L[l][j + 1]
  BY DEF Wired, IsPath
<1>7. \A l \in Lists : \A j \in 1 .. Len(L[l]) : L[l][j] # x /\ L[l][j] \in Items
  BY <1>1 DEF OnList
<1> HIDE DEF M, u
<1> DEFINE Old(l, i) == IF l = t /\ i > m THEN i - 1 ELSE i
<1>8. ASSUME NEW l \in Lists, NEW i \in 1 .. Len(M[l]), ~(l = t /\ i = m + 1)
      PROVE  /\ i \in Int /\ Old(l, i) \in 1 .. Len(L[l])
             /\ M[l][i] = L[l][Old(l, i)] /\ M[l][i] # x
  <2>1. CASE l = t
    <3>1. i \in 1 .. n + 1 /\ i # m + 1 /\ M[l][i] = u[i]
      BY <1>3, <1>4, <1>8, <2>1
    <3>2. Old(l, i) \in 1 .. n
      BY <1>1, <2>1, <3>1
    <3>3. u[i] = s[Old(l, i)]
      BY <1>1, <1>3, <2>1, <3>1
    <3> QED BY <1>7, <2>1, <3>1, <3>2, <3>3
  <2>2. CASE l # t
    <3>1. M[l] = L[l]
      BY <1>4, <2>2
    <3> QED BY <1>7, <1>8, <2>2, <3>1
  <2> QED BY <2>1, <2>2
<1>9. m + 1 \in 1 .. Len(M[t]) /\ M[t][m + 1] = x
  BY <1>1, <1>3, <1>4
<1>10. ASSUME NEW l \in Lists, NEW k \in Lists, NEW i \in 1 .. Len(M[l]),
              NEW j \in 1 .. Len(M[k]), M[l][i] = M[k][j]
       PROVE  l = k /\ i = j
  <2>1. CASE l = t /\ i = m + 1
    BY <1>8, <1>9, <1>10, <2>1
  <2>2. CASE k = t /\ j = m + 1
    BY <1>8, <1>9, <1>10, <2>2
  <2>3. CASE ~(l = t /\ i = m + 1) /\ ~(k = t /\ j = m + 1)
    <3>1. /\ i \in Int /\ Old(l, i) \in 1 .. Len(L[l]) /\ M[l][i] = L[l][Old(l, i)]
          /\ j \in Int /\ Old(k, j) \in 1 .. Len(L[k]) /\ M[k][j] = L[k][Old(k, j)]
      BY <1>8, <2>3
    <3>2. l = k /\ Old(l, i) = Old(k, j)
      <4> HIDE DEF Old
      <4>1. L[l][Old(l, i)] = L[k][Old(k, j)]
        BY <1>10, <3>1
      <4> QED BY <1>6, <3>1, <4>1
    <3> QED BY <1>1, <2>3, <3>1, <3>2
  <2> QED BY <2>1, <2>2, <2>3
<1>11. ASSUME NEW l \in Lists, l # t PROVE IsPath(M[l], st2[l], link2)
  <2>1. M[l] = L[l] /\ st2[l] = st[l]
    BY <1>4, <1>11
  <2>2. ASSUME NEW j \in 1 .. Len(L[l]) PROVE link2[L[l][j]] = link[L[l][j]]
    <3>1. m > 0 => m \in 1 .. Len(L[t])
      BY <1>1
    <3>2. ~(m > 0 /\ L[l][j] = L[t][m])
      BY <1>6, <1>11, <3>1
    <3> QED BY <1>7, <3>2
  <2>3. IsPath(L[l], st2[l], link2)
    BY <1>6, <2>1, <2>2 DEF IsPath
  <2> QED BY <2>1, <2>3
<1>12. IsPath(u, st2[t], link2)
  <2>1. st2[t] = IF u = <<>> THEN Null ELSE u[1]
    <3>1. u # <<>> /\ 1 \in 1 .. n + 1
      BY <1>1, <1>3, EmptySeq
    <3>2. CASE m = 0
      BY <1>1, <1>3, <3>1, <3>2
    <3>3. CASE m # 0
      <4>1. 1 <= m /\ u[1] = s[1] /\ s # <<>>
        BY <1>1, <1>3, <3>1, <3>3
      <4> QED BY <1>6, <3>1, <3>3, <4>1
    <3> QED BY <3>2, <3>3
  <2>2. ASSUME NEW j \in 1 .. n + 1
        PROVE  link2[u[j]] = IF j = n + 1 THEN Null ELSE u[j + 1]
    <3>0. j \in Int /\ 1 <= j /\ j <= n + 1 /\ m \in Int /\ 0 <= m /\ m <= n /\ n \in Int
      BY <1>1
    <3>1. CASE j < m
      <4>1. /\ j \in 1 .. n /\ j + 1 \in 1 .. n + 1 /\ m \in 1 .. n /\ j # n /\ j # m
            /\ j + 1 <= m /\ j # n + 1 /\ j <= m
        BY <3>0, <3>1
      <4>2. u[j] = s[j] /\ u[j + 1] = s[j + 1]
        BY <1>3, <4>1
      <4>3. s[j] # s[m] /\ s[j] # x /\ s[j] \in Items
        BY <1>6, <1>7, <4>1
      <4>4. link2[s[j]] = link[s[j]] /\ link[s[j]] = s[j + 1]
        BY <1>6, <4>1, <4>3
      <4> QED BY <4>1, <4>2, <4>4
    <3>2. CASE j = m
      <4>1. j \in 1 .. n /\ j + 1 \in 1 .. n + 1 /\ m > 0 /\ j # n + 1 /\ j <= m /\ ~(j + 1 <= m)
        BY <3>0, <3>2
      <4>2. u[j] = s[m] /\ u[j + 1] = x
        BY <1>3, <3>2, <4>1
      <4>3. s[m] # x /\ s[m] \in Items
        BY <1>7, <3>2, <4>1
      <4>4. link2[s[m]] = x
        BY <4>1, <4>3
      <4> QED BY <4>1, <4>2, <4>4
    <3>3. CASE j = m + 1
      <4>1. u[j] = x
        BY <1>3, <3>0, <3>3
      <4>2. CASE m = n
        BY <3>0, <3>3, <4>1, <4>2
      <4>3. CASE m # n
        <5>1. j + 1 \in 1 .. n + 1 /\ j # n + 1 /\ ~(j + 1 <= m) /\ j + 1 # m + 1 /\ (j + 1) - 1 = m + 1
          BY <3>0, <3>3, <4>3
        <5>2. u[j + 1] = s[m + 1]
          BY <1>3, <5>1
        <5> QED BY <4>1, <4>3, <5>1, <5>2
      <4> QED BY <4>2, <4>3
    <3>4. CASE j > m + 1
      <4>1. /\ j - 1 \in 1 .. n /\ ~(j <= m) /\ j # m + 1 /\ j - 1 # m
            /\ m > 0 => m \in 1 .. n
        BY <3>0, <3>4
      <4>2. u[j] = s[j - 1]
        BY <1>3, <4>1
      <4>3. s[j - 1] # x /\ s[j - 1] \in Items /\ (m > 0 => s[j - 1] # s[m])
        BY <1>6, <1>7, <4>1
      <4>4. link2[s[j - 1]] = link[s[j - 1]]
        BY <4>3
      <4>5. link[s[j - 1]] = IF j - 1 = n THEN Null ELSE s[(j - 1) + 1]
        BY <1>6, <4>1
      <4>6. CASE j = n + 1
        BY <3>0, <4>2, <4>4, <4>5, <4>6
      <4>7. CASE j # n + 1
        <5>1. /\ j + 1 \in 1 .. n + 1 /\ ~(j + 1 <= m) /\ j + 1 # m + 1 /\ (j + 1) - 1 = j
              /\ (j - 1) + 1 = j /\ j - 1 # n
          BY <3>0, <3>4, <4>7
        <5>2. u[j + 1] = s[j]
          BY <1>3, <5>1
        <5> QED BY <4>2, <4>4, <4>5, <4>7, <5>1, <5>2
      <4> QED BY <4>6, <4>7
    <3> QED BY <3>0, <3>1, <3>2, <3>3, <3>4
  <2> QED BY <1>3, <2>1, <2>2 DEF IsPath
<1>13. ASSUME NEW y PROVE OnList(M, y) <=> OnList(L, y) \/ y = x
  <2>1. OnList(M, y) => OnList(L, y) \/ y = x
    BY <1>8, <1>9 DEF OnList
  <2>2. OnList(M, x)
    BY <1>9 DEF OnList
  <2>3. ASSUME NEW l \in Lists, NEW i \in 1 .. Len(L[l]), L[l][i] = y
        PROVE  OnList(M, y)
    <3>1. CASE l # t
      BY <1>4, <2>3, <3>1 DEF OnList
    <3>2. CASE l = t /\ i <= m
      <4>1. i \in 1 .. Len(M[t]) /\ M[t][i] = y
        BY <1>1, <1>3, <1>4, <2>3, <3>2
      <4> QED BY <4>1 DEF OnList
    <3>3. CASE l = t /\ ~(i <= m)
      <4>1. i + 1 \in 1 .. n + 1 /\ ~(i + 1 <= m) /\ i + 1 # m + 1 /\ (i + 1) - 1 = i
        BY <1>1, <3>3
      <4>2. i + 1 \in 1 .. Len(M[t]) /\ M[t][i + 1] = y
        BY <1>3, <1>4, <2>3, <3>3, <4>1
      <4> QED BY <4>2 DEF OnList
    <3> QED BY <3>1, <3>2, <3>3
  <2> QED BY <2>1, <2>2, <2>3 DEF OnList
<1>14. Wired(M, st2, link2)
  <2>1. ASSUME NEW l \in Lists PROVE IsPath(M[l], st2[l], link2)
    BY <1>4, <1>11, <1>12
  <2> QED BY <1>10, <2>1 DEF Wired
<1>15. M[t] = After(L[t], m, x)
  BY <1>4 DEF u
<1> QED BY <1>4, <1>5, <1>13, <1>14, <1>15 DEF M

-----------------------------------------------------------------------------
(* The lists are about items, and the constants keep them apart.           *)
LEMMA ListFacts ==
  ASSUME NEW L \in Orders
  PROVE  /\ "node" \in Lists /\ "request" \in Lists /\ Lists = Tables \cup QNames
         /\ \A n \in QNames : n \in Lists /\ n \notin Tables /\ Kind(n) = "node" /\ n # "none"
         /\ Kind("node") = "node" /\ Kind("request") = "request"
         /\ \A t \in Tables : t \in Lists /\ Kind(t) = t /\ t \notin QNames
         /\ \A l \in Lists : /\ L[l] \in Seq(Items) /\ Len(L[l]) \in Nat
                              /\ \A j \in 1 .. Len(L[l]) : L[l][j] \in ItemsOf(Kind(l))
         /\ \A n \in QNames : \A j \in 1 .. Len(L[n]) : L[n][j] \in NodeItems
         /\ \A x \in Items : TableOf(x) = "node" <=> x \in NodeItems
<1>1. ASSUME NEW n \in QNames
      PROVE  n \in Lists /\ n \notin Tables /\ Kind(n) = "node" /\ n # "none"
  BY QueuesAssumption DEF Lists, Tables, Kind
<1>2. ASSUME NEW l \in Lists
      PROVE  /\ L[l] \in Seq(Items) /\ Len(L[l]) \in Nat
             /\ \A j \in 1 .. Len(L[l]) : L[l][j] \in ItemsOf(Kind(l))
  BY DEF Orders
<1>3. \A x \in Items : TableOf(x) = "node" <=> x \in NodeItems
  BY ItemFacts DEF TableOf, Items, NodeItems
<1>4. ItemsOf("node") = NodeItems
  BY ItemFacts
<1>5. /\ "node" \in Lists /\ "request" \in Lists /\ Lists = Tables \cup QNames
      /\ Kind("node") = "node" /\ Kind("request") = "request"
  BY DEF Lists, Tables, Kind
<1>6. \A t \in Tables : t \in Lists /\ Kind(t) = t /\ t \notin QNames
  BY QueuesAssumption DEF Lists, Tables, Kind
<1>7. \A n \in QNames : \A j \in 1 .. Len(L[n]) : L[n][j] \in NodeItems
  BY <1>1, <1>2, <1>4
<1> QED BY <1>1, <1>2, <1>3, <1>5, <1>6, <1>7

-----------------------------------------------------------------------------
(* What every step keeps of the contexts that do not take it.              *)

(* The local variables of the other contexts.                              *)
Moves(c) ==
  \A o \in Contexts \ {c} :
    /\ pc'[o] = pc[o] /\ table'[o] = table[o] /\ item'[o] = item[o]
    /\ todo'[o] = todo[o] /\ call'[o] = call[o] /\ prev'[o] = prev[o] /\ curr'[o] = curr[o]

(* A step changes the list that its context is inside of, and of the items *)
(* under way only its own.                                                 *)
Spares(c, L, M) ==
  /\ \A t \in Tables \ {Inside(c)} : head'[t] = head[t]
  /\ \A n \in QNames \ {Inside(c)} :
       /\ first'[n] = first[n] /\ M[n] = L[n]
       /\ \A j \in 1 .. Len(L[n]) : key'[L[n][j]] = key[L[n][j]]
  /\ \A y \in Items : Loose(L, y) /\ (Carries(c) => y # item[c]) =>
       /\ Loose(M, y)' /\ next'[y] = next[y]
       /\ y \in NodeItems => key'[y] = key[y] /\ data'[y] = data[y]

(* The item of a context that takes a step is its own already, or nobody's *)
(* but a list's or a process's.                                            *)
TakesOwn(c, L) ==
  Carries(c)' => \/ Carries(c) /\ item'[c] = item[c]
                 \/ OnList(L, item'[c])
                 \/ \E p \in Users : item'[c] \in held[p]

(* Where a context is inside of.                                           *)
LEMMA InsideIs ==
  ASSUME NEW c \in Contexts
  PROVE  /\ pc[c] \in {"take", "put"} => Inside(c) = table[c]
         /\ pc[c] \in {"search", "join", "hang", "tail", "unlink", "empty"} =>
              Inside(c) = call[c].queue
BY DEF Inside

(* The same after a step.                                                  *)
LEMMA InsideNext ==
  ASSUME NEW c \in Contexts
  PROVE  /\ pc'[c] \in {"take", "put"} => Inside(c)' = table'[c]
         /\ pc'[c] \in {"search", "join", "hang", "tail", "unlink", "empty"} =>
              Inside(c)' = call'[c].queue
BY DEF Inside

(* No two contexts are inside of one list.                                 *)
LEMMA Alone ==
  ASSUME ~Meet, NEW a \in Contexts, NEW b \in Contexts, Inside(a) # "none",
         Inside(a) = Inside(b)
  PROVE  a = b
BY DEF Meet

(* The same after a step.                                                  *)
LEMMA AloneNext ==
  ASSUME ~Meet', NEW a \in Contexts, NEW b \in Contexts, Inside(a)' # "none",
         Inside(a)' = Inside(b)'
  PROVE  a = b
BY DEF Meet

(* Requests remain the processes' affair.                                  *)
LEMMA RequestersKept ==
  ASSUME NEW L, Good(L), NEW c \in Contexts, Moves(c),
         c \in Users \/ table'[c] = "node" \/ pc'[c] = "idle"
  PROVE  Requesters'
<1>1. ASSUME NEW o \in Contexts, pc'[o] # "idle", table'[o] = "request" PROVE o \in Users
  <2>1. CASE o = c
    BY <1>1, <2>1
  <2>2. CASE o # c
    BY <1>1, <2>2 DEF Moves, Good, Requesters
  <2> QED BY <2>1, <2>2
<1> QED BY <1>1 DEF Requesters

(* No two contexts come to carry one item.                                 *)
LEMMA DistinctKept ==
  ASSUME NEW L, Good(L), NEW c \in Contexts, Moves(c), TakesOwn(c, L)
  PROVE  Distinct'
<1>1. ASSUME NEW o \in Contexts \ {c}, Carries(o)' PROVE Carries(o) /\ item'[o] = item[o] /\ Loose(L, item[o])
  <2>1. Carries(o) /\ item'[o] = item[o]
    BY <1>1 DEF Moves, Carries
  <2> QED BY <2>1 DEF Good, Shape, ListStep
<1>2. ASSUME NEW o \in Contexts \ {c}, Carries(o)', Carries(c)' PROVE item'[o] # item'[c]
  <2>1. Carries(o) /\ item'[o] = item[o] /\ Loose(L, item[o])
    BY <1>1, <1>2
  <2>2. Distinct
    BY DEF Good, Shape
  <2> QED BY <1>2, <2>1, <2>2 DEF TakesOwn, Distinct, Loose
<1>3. ASSUME NEW a \in Contexts, NEW b \in Contexts, a # b, Carries(a)', Carries(b)'
      PROVE  item'[a] # item'[b]
  <2>1. CASE a = c \/ b = c
    BY <1>2, <1>3, <2>1
  <2>2. CASE a # c /\ b # c
    <3>1. Carries(a) /\ Carries(b) /\ item'[a] = item[a] /\ item'[b] = item[b]
      BY <1>1, <1>3, <2>2
    <3> QED BY <1>3, <3>1 DEF Good, Shape, Distinct
  <2> QED BY <2>1, <2>2
<1> QED BY <1>3 DEF Distinct

(* The operations of the other contexts go on undisturbed.                 *)
LEMMA OthersKeep ==
  ASSUME NEW L, Good(L), NEW M, NEW c \in Contexts, Moves(c), Spares(c, L, M),
         NEW o \in Contexts \ {c}
  PROVE  ListStep(o, M)' /\ QueueOperation(o, M)'
<1> PICK n : n = call[o].queue
  OBVIOUS
<1> PICK x : x = item[o]
  OBVIOUS
<1>1. /\ pc'[o] = pc[o] /\ table'[o] = table[o] /\ item'[o] = x /\ todo'[o] = todo[o]
      /\ call'[o] = call[o] /\ prev'[o] = prev[o] /\ curr'[o] = curr[o]
  BY DEF Moves
<1>2. /\ L \in Orders /\ TypeOK /\ ~Meet /\ ListStep(o, L) /\ QueueOperation(o, L)
  BY DEF Good, Typed, Shape
<1>3. Carries(o) =>
        /\ Loose(L, x) /\ TableOf(x) = table[o] /\ Loose(M, x)' /\ next'[x] = next[x]
        /\ x \in NodeItems => key'[x] = key[x] /\ data'[x] = data[x]
  <2> SUFFICES ASSUME Carries(o)
               PROVE  /\ Loose(L, x) /\ TableOf(x) = table[o] /\ Loose(M, x)' /\ next'[x] = next[x]
                      /\ x \in NodeItems => key'[x] = key[x] /\ data'[x] = data[x]
    OBVIOUS
  <2>1. Loose(L, x) /\ TableOf(x) = table[o] /\ x \in Items
    BY <1>2 DEF ListStep, Loose
  <2>2. Carries(c) => x # item[c]
    BY DEF Good, Shape, Distinct
  <2> QED BY <2>1, <2>2 DEF Spares
<1>4. pc[o] \in {"take", "put"} => head'[table[o]] = head[table[o]]
  <2> SUFFICES ASSUME pc[o] \in {"take", "put"} PROVE head'[table[o]] = head[table[o]]
    OBVIOUS
  <2>1. Inside(o) = table[o] /\ table[o] \in Tables
    BY <1>2, InsideIs DEF TypeOK
  <2>2. table[o] # "none"
    BY <2>1 DEF Tables
  <2>3. table[o] # Inside(c)
    BY <1>2, <2>1, <2>2, Alone
  <2> QED BY <2>1, <2>3 DEF Spares
<1>5. ListStep(o, M)'
  <2>1. pc[o] = "take" => x # Null /\ x = head'[table[o]]
    BY <1>2, <1>4 DEF ListStep
  <2>2. pc[o] = "put" => next'[x] = head'[table[o]]
    BY <1>2, <1>3, <1>4 DEF ListStep, Carries
  <2>3. pc[o] \in {"link", "put"} => todo[o] > 0
    BY <1>2 DEF ListStep
  <2> QED BY <1>1, <1>3, <2>1, <2>2, <2>3 DEF ListStep, Carries
<1>6. pc[o] \in {"search", "join", "hang", "tail", "unlink", "empty"} =>
        /\ n \in QNames /\ first'[n] = first[n] /\ M[n] = L[n]
        /\ \A j \in 1 .. Len(L[n]) : key'[L[n][j]] = key[L[n][j]]
  <2> SUFFICES ASSUME pc[o] \in {"search", "join", "hang", "tail", "unlink", "empty"}
               PROVE  /\ n \in QNames /\ first'[n] = first[n] /\ M[n] = L[n]
                      /\ \A j \in 1 .. Len(L[n]) : key'[L[n][j]] = key[L[n][j]]
    OBVIOUS
  <2>1. Inside(o) = n /\ n \in QNames
    BY <1>2, InsideIs DEF QueueOperation
  <2>2. n # "none"
    BY <2>1, QueuesAssumption
  <2>3. n # Inside(c)
    BY <1>2, <2>1, <2>2, Alone
  <2> QED BY <2>1, <2>3 DEF Spares
<1>7. pc[o] \in {"search", "join", "hang"} =>
        /\ key'[x] = key[x] /\ data'[x] = data[x]
        /\ \E m \in 0 .. Len(M[n]) : Found(o, M[n], m)'
  <2> SUFFICES ASSUME pc[o] \in {"search", "join", "hang"}
               PROVE  /\ key'[x] = key[x] /\ data'[x] = data[x]
                      /\ \E m \in 0 .. Len(M[n]) : Found(o, M[n], m)'
    OBVIOUS
  <2>1. key'[x] = key[x] /\ data'[x] = data[x]
    <3>1. table[o] = "node" /\ Loose(L, x) /\ TableOf(x) = "node"
      BY <1>2, <1>3 DEF QueueOperation, Carries
    <3>2. x \in NodeItems
      BY <1>2, <3>1, ListFacts DEF Loose
    <3> QED BY <1>3, <3>2 DEF Carries
  <2>2. PICK m \in 0 .. Len(L[n]) : Found(o, L[n], m)
    BY <1>2 DEF QueueOperation
  <2>3. n \in QNames /\ M[n] = L[n] /\ \A j \in 1 .. Len(L[n]) : key'[L[n][j]] = key[L[n][j]]
    BY <1>6
  <2>4. Len(L[n]) \in Nat
    BY <1>2, <2>3, ListFacts
  <2>5. /\ \A j \in 1 .. m : key'[L[n][j]] = key[L[n][j]]
        /\ m < Len(L[n]) => key'[L[n][m + 1]] = key[L[n][m + 1]]
    BY <2>3, <2>4
  <2>6. Found(o, L[n], m)'
    BY <1>1, <2>1, <2>2, <2>5 DEF Found
  <2> QED BY <2>1, <2>3, <2>6
<1>8. QueueOperation(o, M)'
  <2>1. pc[o] = "hang" => next'[x] = curr[o]
    BY <1>2, <1>3 DEF QueueOperation, Carries
  <2>2. pc[o] = "tail" =>
          \E m \in 1 .. Len(M[n]) : M[n][m] = x /\ (curr[o] = Null => m = Len(M[n]))
    BY <1>2, <1>6 DEF QueueOperation
  <2>3. pc[o] = "unlink" => x # Null /\ x = first'[n]
    BY <1>2, <1>6 DEF QueueOperation
  <2>4. /\ pc[o] \notin {"idle", "take", "link", "put"} => table[o] = "node" /\ n \in QNames
        /\ pc[o] = "take" /\ table[o] = "node" => n \in QNames
        /\ (pc[o] = "take" /\ table[o] = "node") \/ pc[o] \in {"fill", "search", "join", "hang"} =>
             call[o].key \in KeysOf(n) /\ call[o].data \in Data
    BY <1>2 DEF QueueOperation
  <2>5. pc[o] \in {"search", "join", "hang"} =>
          /\ data'[x] = call[o].data
          /\ key'[x] = IF n \in Ordered THEN call[o].key ELSE 0
          /\ pc[o] = "search" => n \in Ordered
    BY <1>2, <1>7 DEF QueueOperation
  <2>6. call'[o].queue = n /\ call'[o].key = call[o].key /\ call'[o].data = call[o].data
    BY <1>1
  <2> QED BY <1>1, <1>7, <2>1, <2>2, <2>3, <2>4, <2>5, <2>6 DEF QueueOperation
<1> QED BY <1>5, <1>8

(* Only the context inside of a queue may owe it its last pointer.         *)
LEMMA EndsHere ==
  ASSUME NEW L, Good(L), NEW c \in Contexts, NEW n \in QNames, Inside(c) = n
  PROVE  last[n] = LastOf(L[n]) \/ Owes(c, n, L)
<1>1. last[n] = LastOf(L[n]) \/ \E o \in Contexts : Owes(o, n, L)
  BY DEF Good, Shape, Ends
<1>2. ASSUME NEW o \in Contexts, Owes(o, n, L) PROVE o = c
  <2>1. Inside(o) = n
    BY <1>2, InsideIs DEF Owes
  <2>2. n # "none"
    BY QueuesAssumption
  <2> QED BY <2>1, <2>2, Alone DEF Good
<1> QED BY <1>1, <1>2

(* The last pointers when an operation on queue n goes on or ends.         *)
LEMMA EndsInside ==
  ASSUME NEW L, Good(L), NEW c \in Contexts, Moves(c), NEW n \in QNames, Inside(c) = n, NEW M,
         \A q \in QNames \ {n} : last'[q] = last[q] /\ M[q] = L[q],
         last'[n] = LastOf(M[n]) \/ Owes(c, n, M)'
  PROVE  Ends(M)'
<1>1. ASSUME NEW q \in QNames \ {n}
      PROVE  last'[q] = LastOf(M[q]) \/ \E o \in Contexts : Owes(o, q, M)'
  <2>1. last[q] = LastOf(L[q]) \/ \E o \in Contexts : Owes(o, q, L)
    BY DEF Good, Shape, Ends
  <2>2. ASSUME NEW o \in Contexts, Owes(o, q, L) PROVE Owes(o, q, M)'
    <3>1. o # c
      BY <2>2, InsideIs DEF Owes
    <3> QED BY <2>2, <3>1 DEF Owes, Moves
  <2> QED BY <2>1, <2>2
<1> QED BY <1>1 DEF Ends

-----------------------------------------------------------------------------
(* Steps that leave every list as it is.                                   *)

(* What such a step has to keep.                                           *)
LEMMA Same ==
  ASSUME NEW L, Good(L), NEW c \in Contexts, Moves(c), ~Meet', head' = head, first' = first,
         \A y \in Items : (Carries(c) => y # item[c]) => next'[y] = next[y],
         \A y \in NodeItems : (Carries(c) => y # item[c]) => key'[y] = key[y] /\ data'[y] = data[y],
         \A p \in Users : held'[p] \subseteq held[p],
         c \in Users \/ table'[c] = "node" \/ pc'[c] = "idle", TakesOwn(c, L),
         Typed', Owners(L)', Ends(L)', ListStep(c, L)', QueueOperation(c, L)'
  PROVE  Good(L)'
<1>1. L \in Orders /\ Wired(L, Starts, next) /\ ListStep(c, L)
  BY DEF Good, Shape
<1>2. Starts' = Starts
  BY DEF Starts, Start
<1>3. Wired(L, Starts', next')
  <2> DEFINE st2 == Starts'
             link2 == next'
             st == Starts
             link == next
  <2>1. \A y \in Items : OnList(L, y) => next'[y] = next[y]
    BY <1>1 DEF ListStep, Loose
  <2>2. /\ Wired(L, st, link) /\ \A l \in Lists : st2[l] = st[l]
        /\ \A y \in Items : OnList(L, y) => link2[y] = link[y]
    BY <1>1, <1>2, <2>1
  <2> HIDE DEF st2, link2, st, link
  <2>3. Wired(L, st2, link2)
    BY <1>1, <2>2, WiredKept
  <2> QED BY <2>3 DEF st2, link2
<1>4. Requesters' /\ Distinct'
  BY RequestersKept, DistinctKept
<1>5. Spares(c, L, L)
  <2>1. ASSUME NEW n \in QNames, NEW j \in 1 .. Len(L[n]) PROVE key'[L[n][j]] = key[L[n][j]]
    <3>1. L[n][j] \in NodeItems /\ OnList(L, L[n][j])
      BY <1>1, ListFacts DEF OnList
    <3> QED BY <1>1, <3>1 DEF ListStep, Loose
  <2>2. ASSUME NEW y \in Items, Loose(L, y) PROVE Loose(L, y)'
    BY <2>2 DEF Loose
  <2> QED BY <2>1, <2>2 DEF Spares
<1>6. \A o \in Contexts \ {c} : ListStep(o, L)' /\ QueueOperation(o, L)'
  BY <1>5, OthersKeep
<1> QED BY <1>1, <1>3, <1>4, <1>6 DEF Good, Shape

(* The owners when processes keep what they have.                          *)
LEMMA OwnersSame ==
  ASSUME NEW L, Owners(L), NEW c \in Contexts, Moves(c), held' = held,
         pc[c] # "idle" => \/ pc'[c] # "idle" /\ item'[c] = item[c]
                           \/ OnList(L, item[c])
  PROVE  Owners(L)'
<1>1. ASSUME NEW x \in Items
      PROVE  \/ OnList(L, x) \/ \E p \in Users : x \in held'[p]
             \/ \E o \in Contexts : pc'[o] # "idle" /\ item'[o] = x
  <2>1. CASE OnList(L, x) \/ \E p \in Users : x \in held[p]
    BY <2>1
  <2>2. CASE \E o \in Contexts : pc[o] # "idle" /\ item[o] = x
    BY <2>2 DEF Moves
  <2> QED BY <2>1, <2>2 DEF Owners
<1> QED BY <1>1 DEF Owners

(* The last pointers when no operation ends.                               *)
LEMMA EndsSame ==
  ASSUME NEW L, Good(L), NEW c \in Contexts, Moves(c), last' = last,
         pc[c] \notin {"tail", "empty"}, NEW M, \A n \in QNames : M[n] = L[n]
  PROVE  Ends(M)'
<1>1. ASSUME NEW n \in QNames
      PROVE  last'[n] = LastOf(M[n]) \/ \E o \in Contexts : Owes(o, n, M)'
  <2>1. last[n] = LastOf(L[n]) \/ \E o \in Contexts : Owes(o, n, L)
    BY DEF Good, Shape, Ends
  <2>2. ASSUME NEW o \in Contexts, Owes(o, n, L) PROVE Owes(o, n, M)'
    <3>1. o # c
      BY <2>2 DEF Owes
    <3> QED BY <2>2, <3>1 DEF Owes, Moves
  <2> QED BY <2>1, <2>2
<1> QED BY <1>1 DEF Ends

(* What the invariant says of the context that takes a step.               *)
LEMMA GoodFacts ==
  ASSUME NEW L, Good(L), NEW c \in Contexts
  PROVE  /\ L \in Orders /\ TypeOK /\ call \in [Contexts -> Calls]
         /\ Owners(L) /\ ListStep(c, L) /\ QueueOperation(c, L)
         /\ \A l \in Lists : Starts[l] = IF L[l] = <<>> THEN Null ELSE L[l][1]
         /\ \A l \in Lists : \A j \in 1 .. Len(L[l]) :
              next[L[l][j]] = IF j = Len(L[l]) THEN Null ELSE L[l][j + 1]
         /\ \A t \in Tables : Starts[t] = head[t]
         /\ \A n \in QNames : Starts[n] = first[n]
<1>1. ASSUME NEW n \in QNames PROVE n \in Lists /\ n \notin Tables
  BY QueuesAssumption DEF Lists
<1>2. \A t \in Tables : t \in Lists
  BY DEF Lists
<1>3. /\ \A t \in Tables : Starts[t] = head[t]
      /\ \A n \in QNames : Starts[n] = first[n]
  BY <1>1, <1>2 DEF Starts, Start
<1>4. /\ L \in Orders /\ TypeOK /\ call \in [Contexts -> Calls]
      /\ Owners(L) /\ ListStep(c, L) /\ QueueOperation(c, L)
      /\ Wired(L, Starts, next)
  BY DEF Good, Shape, Typed
<1>5. /\ \A l \in Lists : Starts[l] = IF L[l] = <<>> THEN Null ELSE L[l][1]
      /\ \A l \in Lists : \A j \in 1 .. Len(L[l]) :
           next[L[l][j]] = IF j = Len(L[l]) THEN Null ELSE L[l][j + 1]
  BY <1>4 DEF Wired, IsPath
<1> QED BY <1>3, <1>4, <1>5

(* Keys are numbers.                                                       *)
LEMMA KeyFacts == TypeOK => \A y \in NodeItems : key[y] \in Nat
<1>1. Keys \cup {0} \subseteq Nat
  BY QueuesAssumption
<1>2. TypeOK => key \in [NodeItems -> Keys \cup {0}]
  BY DEF TypeOK
<1> QED BY <1>1, <1>2

(* _qn_alloc and _disk_alloc_request read the head of their list.          *)
LEMMA ReadHeadStep ==
  ASSUME NEW L, Good(L), NEW c \in Contexts, ~Meet', NEW t \in Tables,
         ReadHead(c, t), c \in Users \/ t = "node", Typed', UNCHANGED <<nodeVars, prev, curr>>,
         \A o \in Contexts \ {c} : call'[o] = call[o],
         t = "node" /\ head["node"] # Null =>
           /\ call'[c].queue \in QNames /\ call'[c].key \in KeysOf(call'[c].queue)
           /\ call'[c].data \in Data
  PROVE  Good(L)'
<1>1. /\ TypeOK /\ Owners(L) /\ pc[c] = "idle" /\ head' = head /\ next' = next /\ held' = held
      /\ first' = first /\ last' = last /\ key' = key /\ data' = data
      /\ prev' = prev /\ curr' = curr
  BY GoodFacts DEF ReadHead, nodeVars
<1>2. /\ pc'[c] = IF head[t] = Null THEN "idle" ELSE "take"
      /\ head[t] # Null => table'[c] = t /\ item'[c] = head[t]
      /\ Moves(c)
  BY <1>1 DEF TypeOK, ReadHead, Goto, Moves
<1>3. Owners(L)'
  BY <1>1, <1>2, OwnersSame
<1>4. Ends(L)'
  BY <1>1, <1>2, EndsSame
<1>5. ListStep(c, L)' /\ QueueOperation(c, L)'
  BY <1>1, <1>2 DEF ListStep, QueueOperation, Carries
<1>6. TakesOwn(c, L) /\ (c \in Users \/ table'[c] = "node" \/ pc'[c] = "idle")
  BY <1>2 DEF TakesOwn, Carries
<1> QED BY <1>1, <1>2, <1>3, <1>4, <1>5, <1>6, Same

(* _q_insert begins.                                                       *)
LEMMA CallInsertStep ==
  ASSUME NEW L, Good(L), NEW c \in Contexts, ~Meet',
         NEW n \in QNames, NEW k \in KeysOf(n), NEW d \in Data, CallInsert(c, n, k, d)
  PROVE  Good(L)'
<1>1. TypeOK /\ call \in [Contexts -> Calls]
  BY GoodFacts
<1>2. /\ call' \in [Contexts -> Calls] /\ \A o \in Contexts \ {c} : call'[o] = call[o]
      /\ head["node"] # Null => call'[c] = [queue |-> n, key |-> k, data |-> d]
  BY <1>1 DEF CallInsert, Note, Calls, KeysOf
<1>3. TypeOK'
  BY <1>1 DEF TypeOK, CallInsert, ReadHead, Goto, nodeVars, Tables
<1> QED BY <1>2, <1>3, ReadHeadStep DEF CallInsert, Typed, Tables

(* A process asks for a request.                                           *)
LEMMA ReadRequestStep ==
  ASSUME NEW L, Good(L), NEW c \in Contexts, ~Meet', c \in Users,
         ReadHead(c, "request"), UNCHANGED <<nodeVars, callVars, taken>>
  PROVE  Good(L)'
<1>1. TypeOK /\ call \in [Contexts -> Calls]
  BY GoodFacts
<1>2. TypeOK' /\ call' = call
  BY <1>1 DEF TypeOK, ReadHead, Goto, nodeVars, callVars, Tables
<1> QED BY <1>1, <1>2, ReadHeadStep DEF Typed, Tables, callVars

(* A process gives a request back.                                         *)
LEMMA ReleaseStep ==
  ASSUME NEW L, Good(L), NEW c \in Contexts, ~Meet', c \in Users,
         NEW i \in Items, Release(c, i), UNCHANGED <<nodeVars, callVars, taken>>
  PROVE  Good(L)'
<1>1. TypeOK /\ call \in [Contexts -> Calls] /\ Owners(L) /\ pc[c] = "idle" /\ i \in held[c]
  BY GoodFacts DEF Release
<1>2. /\ head' = head /\ next' = next /\ first' = first /\ last' = last /\ call' = call
      /\ key' = key /\ data' = data /\ prev' = prev /\ curr' = curr
      /\ held' = [held EXCEPT ![c] = @ \ {i}]
  BY DEF Release, nodeVars, callVars
<1>3. Typed'
  BY <1>1, FreeListAssumption DEF Typed, TypeOK, Release, Goto, nodeVars, callVars, Tables
<1>4. /\ pc'[c] = "link" /\ item'[c] = i /\ table'[c] = "request" /\ todo'[c] > 0 /\ Moves(c)
  BY <1>1, <1>2, FreeListAssumption DEF TypeOK, Release, Goto, Moves
<1>5. held'[c] = held[c] \ {i} /\ \A p \in Users \ {c} : held'[p] = held[p]
  BY <1>1, <1>2 DEF TypeOK
<1>6. Loose(L, i)' /\ TableOf(i) = "request"
  <2>1. \A p \in Users : i \notin held'[p]
    BY <1>1, <1>5 DEF Owners
  <2> QED BY <1>1, <2>1 DEF Owners, Loose
<1>7. Owners(L)'
  <2>1. ASSUME NEW x \in Items
        PROVE  \/ OnList(L, x) \/ \E p \in Users : x \in held'[p]
               \/ \E o \in Contexts : pc'[o] # "idle" /\ item'[o] = x
    <3>1. CASE x = i
      BY <1>4, <3>1
    <3>2. CASE OnList(L, x) \/ \E p \in Users : x \in held[p]
      BY <1>4, <1>5, <3>2
    <3>3. CASE \E o \in Contexts : pc[o] # "idle" /\ item[o] = x
      BY <1>1, <3>3, <1>4 DEF Moves
    <3> QED BY <1>1, <3>1, <3>2, <3>3 DEF Owners
  <2>2. \A p \in Users : held'[p] \subseteq held[p]
    BY <1>5
  <2> QED BY <1>1, <2>1, <2>2 DEF Owners
<1>8. Ends(L)'
  BY <1>1, <1>2, <1>4, EndsSame
<1>9. ListStep(c, L)' /\ QueueOperation(c, L)'
  BY <1>4, <1>6 DEF ListStep, QueueOperation, Carries
<1>10. TakesOwn(c, L) /\ \A p \in Users : held'[p] \subseteq held[p]
  BY <1>1, <1>4, <1>5 DEF TakesOwn
<1> QED BY <1>2, <1>3, <1>4, <1>7, <1>8, <1>9, <1>10, Same

(* _qn_dealloc and _disk_dealloc_request link an item to their list.       *)
LEMMA LinkStep ==
  ASSUME NEW L, Good(L), NEW c \in Contexts, ~Meet', Dealloc(c), Link(c)
  PROVE  Good(L)' /\ taken' = taken
<1>1. /\ TypeOK /\ call \in [Contexts -> Calls] /\ Owners(L) /\ pc[c] = "link"
      /\ ListStep(c, L) /\ Requesters
  BY GoodFacts DEF Link, Good
<1>2. /\ head' = head /\ first' = first /\ last' = last /\ held' = held
      /\ next' = [next EXCEPT ![item[c]] = head[table[c]]]
      /\ table' = table /\ item' = item /\ todo' = todo
      /\ key' = key /\ data' = data /\ prev' = prev /\ curr' = curr
  BY DEF Dealloc, Link, nodeVars
<1>3. /\ call' = call /\ taken' = taken /\ pc'[c] = "put" /\ \A o \in Contexts \ {c} : pc'[o] = pc[o]
  BY <1>1 DEF TypeOK, Dealloc, Link, Goto
<1>4. /\ Loose(L, item[c]) /\ TableOf(item[c]) = table[c] /\ todo[c] > 0 /\ Carries(c)
      /\ item[c] \in Items /\ table[c] \in Tables
  BY <1>1 DEF ListStep, Loose, TypeOK, Carries
<1>5. /\ next'[item[c]] = head[table[c]]
      /\ \A y \in Items \ {item[c]} : next'[y] = next[y]
  BY <1>1, <1>2, <1>4 DEF TypeOK
<1>6. Typed'
  <2>1. pc' \in [Contexts -> {"idle", "take", "fill", "search", "join",
                          "hang", "tail", "unlink", "empty", "link", "put"}]
    BY <1>1 DEF TypeOK, Link, Goto
  <2>2. next' \in [Items -> Items \cup {Null}]
    BY <1>1, <1>2, <1>4 DEF TypeOK
  <2> QED BY <1>1, <1>2, <1>3, <2>1, <2>2 DEF Typed, TypeOK, Dealloc, nodeVars
<1>7. Moves(c)
  BY <1>2, <1>3 DEF Moves
<1>8. Owners(L)'
  BY <1>1, <1>2, <1>3, <1>7, OwnersSame
<1>9. Ends(L)'
  BY <1>1, <1>2, <1>7, EndsSame
<1>10. Loose(L, item[c])'
  BY <1>2, <1>4 DEF Loose
<1>11. ListStep(c, L)' /\ QueueOperation(c, L)'
  BY <1>2, <1>3, <1>4, <1>5, <1>10 DEF ListStep, QueueOperation, Carries
<1>12. c \in Users \/ table[c] = "node"
  BY <1>1, <1>4 DEF Requesters, Tables
<1>13. TakesOwn(c, L)
  BY <1>2, <1>4 DEF TakesOwn
<1> QED BY <1>2, <1>3, <1>4, <1>5, <1>6, <1>7, <1>8, <1>9, <1>11, <1>12, <1>13, Same

(* _q_insert stores the datum and the key and starts to search.            *)
LEMMA FillStep ==
  ASSUME NEW L, Good(L), NEW c \in Contexts, ~Meet', Fill(c)
  PROVE  /\ Good(L)' /\ Loose(L, item[c]) /\ \A y \in NodeItems \ {item[c]} :
                            key'[y] = key[y] /\ data'[y] = data[y]
<1> PICK n : n = call[c].queue
  OBVIOUS
<1> DEFINE x == item[c]
<1>1. /\ TypeOK /\ call \in [Contexts -> Calls] /\ Owners(L) /\ pc[c] = "fill"
      /\ ListStep(c, L) /\ QueueOperation(c, L) /\ L \in Orders
  BY GoodFacts DEF Fill, Good
<1>2. /\ head' = head /\ first' = first /\ last' = last /\ held' = held /\ next' = next
      /\ table' = table /\ item' = item /\ todo' = todo /\ call' = call /\ taken' = taken
      /\ data' = [data EXCEPT ![x] = call[c].data]
      /\ key' = [key EXCEPT ![x] = IF n \in Ordered THEN call[c].key ELSE 0]
      /\ prev' = [prev EXCEPT ![c] = IF n \in Ordered THEN Null ELSE last[n]]
      /\ curr' = [curr EXCEPT ![c] = IF n \in Ordered THEN first[n] ELSE Null]
      /\ pc' = [pc EXCEPT ![c] = IF n \in Ordered THEN "search" ELSE "join"]
  BY DEF Fill, Goto
<1>3. /\ Loose(L, x) /\ TableOf(x) = "node" /\ table[c] = "node" /\ n \in QNames
      /\ call[c].key \in KeysOf(n) /\ call[c].data \in Data /\ Carries(c)
  BY <1>1 DEF ListStep, QueueOperation, Carries
<1>4. x \in NodeItems
  BY <1>1, <1>3, ListFacts DEF Loose
<1>5. /\ key'[x] = (IF n \in Ordered THEN call[c].key ELSE 0) /\ data'[x] = call[c].data
      /\ \A y \in NodeItems \ {x} : key'[y] = key[y] /\ data'[y] = data[y]
  BY <1>1, <1>2, <1>4 DEF TypeOK
<1>6. /\ prev'[c] = (IF n \in Ordered THEN Null ELSE last[n])
      /\ curr'[c] = (IF n \in Ordered THEN first[n] ELSE Null)
      /\ pc'[c] = (IF n \in Ordered THEN "search" ELSE "join")
      /\ \A o \in Contexts \ {c} : pc'[o] = pc[o]
  BY <1>1, <1>2 DEF TypeOK
<1>7. Moves(c)
  BY <1>1, <1>2, <1>6 DEF Moves, TypeOK
<1>8. Typed'
  <2>1. /\ key' \in [NodeItems -> Keys \cup {0}] /\ data' \in [NodeItems -> Data \cup {0}]
    BY <1>1, <1>2, <1>3 DEF TypeOK, KeysOf
  <2>2. /\ prev' \in [Contexts -> NodeItems \cup {Null}]
        /\ curr' \in [Contexts -> NodeItems \cup {Null}]
    BY <1>1, <1>2, <1>3 DEF TypeOK
  <2>3. pc' \in [Contexts -> {"idle", "take", "fill", "search", "join",
                          "hang", "tail", "unlink", "empty", "link", "put"}]
    BY <1>1, <1>2 DEF TypeOK
  <2> QED BY <1>1, <1>2, <2>1, <2>2, <2>3 DEF Typed, TypeOK
<1>9. Owners(L)'
  BY <1>1, <1>2, <1>6, <1>7, OwnersSame
<1>10. Ends(L)'
  BY <1>1, <1>2, <1>7, EndsSame
<1>11. ListStep(c, L)'
  <2>1. Loose(L, x)'
    BY <1>2, <1>3 DEF Loose
  <2> QED BY <1>2, <1>3, <1>6, <2>1 DEF ListStep, Carries
<1>12. \E m \in 0 .. Len(L[n]) : Found(c, L[n], m)'
  <2>1. /\ L[n] \in Seq(Items) /\ Len(L[n]) \in Nat /\ (L[n] = <<>> <=> Len(L[n]) = 0)
        /\ first[n] = IF L[n] = <<>> THEN Null ELSE L[n][1]
    <3>1. n \in Lists /\ Starts[n] = first[n] /\ L[n] \in Seq(Items) /\ Len(L[n]) \in Nat
      BY <1>1, <1>3, GoodFacts, ListFacts
    <3> QED BY <3>1, GoodFacts
  <2>2. CASE n \in Ordered
    <3>1. Found(c, L[n], 0)'
      BY <1>2, <1>6, <2>1, <2>2 DEF Found
    <3> QED BY <2>1, <3>1
  <2>3. CASE n \notin Ordered
    <3>1. last[n] = LastOf(L[n])
      <4>1. ASSUME NEW o \in Contexts, Owes(o, n, L) PROVE FALSE
        <5>1. o # c /\ pc'[o] \in {"tail", "empty"} /\ call'[o].queue = n
          BY <1>1, <1>2, <1>6, <4>1 DEF Owes
        <5>2. pc'[c] = "join" /\ call'[c].queue = n /\ n # "none"
          BY <1>2, <1>3, <1>6, <2>3, QueuesAssumption
        <5> QED BY <5>1, <5>2, InsideNext, AloneNext
      <4> QED BY <1>1, <1>3, <4>1 DEF Good, Shape, Ends
    <3>2. Found(c, L[n], Len(L[n]))'
      BY <1>2, <1>6, <2>1, <2>3, <3>1 DEF Found, LastOf
    <3> QED BY <2>1, <3>2
  <2> QED BY <2>2, <2>3
<1>13. QueueOperation(c, L)'
  BY <1>2, <1>3, <1>5, <1>6, <1>12 DEF QueueOperation
<1>14. TakesOwn(c, L)
  BY <1>2, <1>3 DEF TakesOwn
<1>15. Good(L)'
  BY <1>2, <1>3, <1>5, <1>7, <1>8, <1>9, <1>10, <1>11, <1>13, <1>14, Same
<1> QED BY <1>3, <1>5, <1>15

(* The search goes on or ends.                                             *)
LEMMA SearchStep ==
  ASSUME NEW L, Good(L), NEW c \in Contexts, ~Meet', Search(c)
  PROVE  Good(L)'
<1> PICK n : n = call[c].queue
  OBVIOUS
<1> DEFINE x == item[c]
           s == L[n]
<1>1. /\ TypeOK /\ call \in [Contexts -> Calls] /\ Owners(L) /\ pc[c] = "search"
      /\ ListStep(c, L) /\ QueueOperation(c, L) /\ L \in Orders
  BY GoodFacts DEF Search, Good
<1>2. /\ head' = head /\ first' = first /\ last' = last /\ held' = held /\ next' = next
      /\ table' = table /\ item' = item /\ todo' = todo /\ call' = call /\ taken' = taken
      /\ key' = key /\ data' = data
  BY DEF Search, nodeVars
<1>3. /\ Loose(L, x) /\ TableOf(x) = "node" /\ table[c] = "node" /\ n \in QNames
      /\ call[c].key \in KeysOf(n) /\ call[c].data \in Data /\ n \in Ordered /\ Carries(c)
      /\ data[x] = call[c].data /\ key[x] = call[c].key
      /\ \E m \in 0 .. Len(s) : Found(c, s, m)
  BY <1>1 DEF ListStep, QueueOperation, Carries
<1>4. x \in NodeItems
  BY <1>1, <1>3, ListFacts DEF Loose
<1>5. /\ s \in Seq(Items) /\ Len(s) \in Nat /\ \A j \in 1 .. Len(s) : s[j] \in NodeItems
      /\ \A j \in 1 .. Len(s) : next[s[j]] = IF j = Len(s) THEN Null ELSE s[j + 1]
  <2>1. n \in Lists
    BY <1>1, <1>3, ListFacts
  <2> QED BY <1>1, <1>3, <2>1, GoodFacts, ListFacts
<1>6. PICK m \in 0 .. Len(s) : Found(c, s, m)
  BY <1>3
<1>7. /\ prev[c] = IF m = 0 THEN Null ELSE s[m]
      /\ curr[c] = IF m = Len(s) THEN Null ELSE s[m + 1]
      /\ \A j \in 1 .. m : key[s[j]] <= key[x]
  BY <1>3, <1>6 DEF Found
<1>8. /\ \A j \in 1 .. Len(s) : s[j] # Null /\ key[s[j]] \in Int
      /\ key[x] \in Int
  <2>1. \A y \in NodeItems : y # Null /\ key[y] \in Int
    BY <1>1, KeyFacts, ItemFacts
  <2> QED BY <1>4, <1>5, <2>1
<1> HIDE DEF s, x
<1>9. curr[c] # Null => curr[c] = s[m + 1] /\ m + 1 \in 1 .. Len(s)
  BY <1>5, <1>7
<1>10. /\ Moves(c) /\ Typed' /\ pc'[c] \in {"search", "join"}
       /\ \E k \in 0 .. Len(s) : Found(c, s, k)'
  <2>1. CASE WalksOn(c)
    <3>1. /\ prev' = [prev EXCEPT ![c] = curr[c]] /\ curr' = [curr EXCEPT ![c] = next[curr[c]]]
          /\ pc' = pc
      BY <2>1 DEF Search
    <3>2. m + 1 \in 1 .. Len(s) /\ curr[c] = s[m + 1] /\ key[s[m + 1]] <= key[x]
      BY <1>9, <2>1 DEF WalksOn, x
    <3>3. next[curr[c]] = IF m + 1 = Len(s) THEN Null ELSE s[(m + 1) + 1]
      BY <1>5, <3>2
    <3>4. prev'[c] = s[m + 1] /\ curr'[c] = next[curr[c]]
      BY <1>1, <3>1, <3>2 DEF TypeOK
    <3>5. next[curr[c]] \in NodeItems \cup {Null}
      BY <1>5, <3>2, <3>3
    <3>6. TypeOK'
      <4>1. prev' \in [Contexts -> NodeItems \cup {Null}] /\ curr' \in [Contexts -> NodeItems \cup {Null}]
        BY <1>1, <3>1, <3>5 DEF TypeOK
      <4> QED BY <1>1, <1>2, <3>1, <4>1 DEF TypeOK
    <3>7. ASSUME NEW j \in 1 .. m + 1 PROVE key[s[j]] <= key[x]
      <4>1. CASE j = m + 1
        BY <3>2, <4>1
      <4>2. CASE j # m + 1
        <5>1. j \in 1 .. m
          BY <4>2
        <5> QED BY <1>7, <5>1
      <4> QED BY <4>1, <4>2
    <3>8. Found(c, s, m + 1)'
      <4>1. m + 1 # 0
        OBVIOUS
      <4> QED BY <1>1, <1>2, <3>1, <3>3, <3>4, <3>7, <4>1 DEF Found, x
    <3>9. m + 1 \in 0 .. Len(s)
      BY <3>2
    <3>10. Moves(c) /\ Typed' /\ pc'[c] \in {"search", "join"}
      BY <1>1, <1>2, <3>1, <3>6 DEF Moves, Typed, TypeOK
    <3> QED BY <3>8, <3>9, <3>10
  <2>2. CASE ~WalksOn(c)
    <3>1. prev' = prev /\ curr' = curr /\ pc' = [pc EXCEPT ![c] = "join"]
      BY <2>2 DEF Search, Goto
    <3>2. TypeOK'
      <4>1. pc' \in [Contexts -> {"idle", "take", "fill", "search", "join",
                          "hang", "tail", "unlink", "empty", "link", "put"}]
        BY <1>1, <3>1 DEF TypeOK
      <4> QED BY <1>1, <1>2, <3>1, <4>1 DEF TypeOK
    <3>3. pc'[c] = "join" /\ \A o \in Contexts \ {c} : pc'[o] = pc[o]
      BY <1>1, <3>1 DEF TypeOK
    <3>4. m < Len(s) => key[s[m + 1]] > key[x]
      <4>1. ASSUME m < Len(s) PROVE key[s[m + 1]] > key[x]
        <5>1. m + 1 \in 1 .. Len(s) /\ m # Len(s)
          BY <1>5, <4>1
        <5>2. curr[c] = s[m + 1] /\ curr[c] # Null /\ key[s[m + 1]] \in Int
          BY <1>7, <1>8, <5>1
        <5> QED BY <1>8, <2>2, <5>2 DEF WalksOn, x
      <4> QED BY <4>1
    <3>5. Found(c, s, m)'
      BY <1>2, <1>3, <1>7, <3>1, <3>3, <3>4 DEF Found, x
    <3>6. Moves(c) /\ Typed' /\ pc'[c] \in {"search", "join"}
      BY <1>1, <1>2, <3>1, <3>2, <3>3 DEF Moves, Typed
    <3> QED BY <3>5, <3>6
  <2> QED BY <2>1, <2>2
<1>11. Owners(L)'
  BY <1>1, <1>2, <1>10, OwnersSame
<1>12. Ends(L)'
  BY <1>1, <1>2, <1>10, EndsSame
<1>13. ListStep(c, L)'
  <2>1. Loose(L, x)'
    BY <1>2, <1>3 DEF Loose, x
  <2> QED BY <1>2, <1>3, <1>10, <2>1 DEF ListStep, Carries, x
<1>14. QueueOperation(c, L)'
  BY <1>2, <1>3, <1>10 DEF QueueOperation, s, x
<1>15. TakesOwn(c, L)
  BY <1>2, <1>3 DEF TakesOwn
<1> QED BY <1>2, <1>3, <1>10, <1>11, <1>12, <1>13, <1>14, <1>15, Same

(* The new node is linked to its successor.                                *)
LEMMA JoinStep ==
  ASSUME NEW L, Good(L), NEW c \in Contexts, ~Meet', Join(c)
  PROVE  Good(L)'
<1> PICK n : n = call[c].queue
  OBVIOUS
<1> DEFINE x == item[c]
<1>1. /\ TypeOK /\ call \in [Contexts -> Calls] /\ Owners(L) /\ pc[c] = "join"
      /\ ListStep(c, L) /\ QueueOperation(c, L) /\ L \in Orders
  BY GoodFacts DEF Join, Good
<1>2. /\ head' = head /\ first' = first /\ last' = last /\ held' = held
      /\ next' = [next EXCEPT ![x] = curr[c]]
      /\ table' = table /\ item' = item /\ todo' = todo /\ call' = call /\ taken' = taken
      /\ key' = key /\ data' = data /\ prev' = prev /\ curr' = curr
  BY DEF Join, nodeVars, callVars
<1>3. /\ Loose(L, x) /\ TableOf(x) = "node" /\ table[c] = "node" /\ n \in QNames
      /\ call[c].key \in KeysOf(n) /\ call[c].data \in Data /\ Carries(c)
      /\ data[x] = call[c].data /\ key[x] = (IF n \in Ordered THEN call[c].key ELSE 0)
      /\ \E m \in 0 .. Len(L[n]) : Found(c, L[n], m)
  BY <1>1 DEF ListStep, QueueOperation, Carries
<1>4. /\ pc'[c] = "hang" /\ \A o \in Contexts \ {c} : pc'[o] = pc[o]
  BY <1>1 DEF Join, Goto, TypeOK
<1>5. next'[x] = curr[c] /\ \A y \in Items \ {x} : next'[y] = next[y]
  BY <1>1, <1>2, <1>3 DEF TypeOK, Loose
<1>6. Typed'
  <2>1. pc' \in [Contexts -> {"idle", "take", "fill", "search", "join",
                          "hang", "tail", "unlink", "empty", "link", "put"}]
    BY <1>1 DEF TypeOK, Join, Goto
  <2>2. next' \in [Items -> Items \cup {Null}]
    <3>1. curr[c] \in Items \cup {Null}
      BY <1>1, ItemFacts DEF TypeOK
    <3> QED BY <1>1, <1>2, <3>1 DEF TypeOK
  <2> QED BY <1>1, <1>2, <2>1, <2>2 DEF Typed, TypeOK
<1>7. Moves(c)
  BY <1>2, <1>4 DEF Moves
<1>8. Owners(L)'
  BY <1>1, <1>2, <1>4, <1>7, OwnersSame
<1>9. Ends(L)'
  BY <1>1, <1>2, <1>7, EndsSame
<1>10. ListStep(c, L)'
  <2>1. Loose(L, x)'
    BY <1>2, <1>3 DEF Loose
  <2> QED BY <1>2, <1>3, <1>4, <2>1 DEF ListStep, Carries
<1>11. QueueOperation(c, L)'
  <2>1. PICK m \in 0 .. Len(L[n]) : Found(c, L[n], m)
    BY <1>3
  <2>2. Found(c, L[n], m)'
    BY <1>1, <1>2, <1>4, <2>1 DEF Found
  <2> QED BY <1>2, <1>3, <1>4, <1>5, <2>2 DEF QueueOperation
<1>12. TakesOwn(c, L)
  BY <1>2, <1>3 DEF TakesOwn
<1> QED BY <1>2, <1>3, <1>5, <1>6, <1>7, <1>8, <1>9, <1>10, <1>11, <1>12, Same

(* _q_insert ends with the last pointer.                                   *)
LEMMA SetLastStep ==
  ASSUME NEW L, Good(L), NEW c \in Contexts, ~Meet', SetLast(c)
  PROVE  Good(L)'
<1> PICK n : n = call[c].queue
  OBVIOUS
<1>1. /\ TypeOK /\ call \in [Contexts -> Calls] /\ Owners(L) /\ pc[c] = "tail"
      /\ QueueOperation(c, L) /\ L \in Orders
  BY GoodFacts DEF SetLast, Good
<1>2. /\ head' = head /\ first' = first /\ held' = held /\ next' = next /\ todo' = todo
      /\ table' = table /\ taken' = taken /\ key' = key /\ data' = data
      /\ last' = [last EXCEPT ![n] = IF curr[c] = Null THEN item[c] ELSE @]
      /\ item' = [item EXCEPT ![c] = Null] /\ prev' = [prev EXCEPT ![c] = Null]
      /\ curr' = [curr EXCEPT ![c] = Null] /\ call' = [call EXCEPT ![c] = NoCall]
      /\ pc' = [pc EXCEPT ![c] = "idle"]
  BY DEF SetLast, Goto
<1>3. n \in QNames /\ table[c] = "node"
  BY <1>1 DEF QueueOperation
<1>4. PICK m \in 1 .. Len(L[n]) : L[n][m] = item[c] /\ (curr[c] = Null => m = Len(L[n]))
  BY <1>1 DEF QueueOperation
<1>5. n \in Lists /\ OnList(L, item[c]) /\ item[c] \in NodeItems
  BY <1>1, <1>3, <1>4, ListFacts DEF OnList
<1>6. Typed'
  <2>1. NoCall \in Calls
    BY QueuesAssumption DEF NoCall, Calls, Null
  <2>2. call' \in [Contexts -> Calls]
    BY <1>1, <1>2, <2>1
  <2>3. last' \in [QNames -> NodeItems \cup {Null}] /\ item' \in [Contexts -> Items \cup {Null}]
    BY <1>1, <1>2, <1>5 DEF TypeOK
  <2>4. /\ prev' \in [Contexts -> NodeItems \cup {Null}]
        /\ curr' \in [Contexts -> NodeItems \cup {Null}]
    BY <1>1, <1>2 DEF TypeOK
  <2>5. pc' \in [Contexts -> {"idle", "take", "fill", "search", "join",
                          "hang", "tail", "unlink", "empty", "link", "put"}]
    BY <1>1, <1>2 DEF TypeOK
  <2> QED BY <1>1, <1>2, <2>2, <2>3, <2>4, <2>5 DEF Typed, TypeOK
<1>7. pc'[c] = "idle" /\ Moves(c)
  BY <1>1, <1>2 DEF TypeOK, Moves
<1>8. Owners(L)'
  BY <1>1, <1>2, <1>5, <1>7, OwnersSame
<1>9. Ends(L)'
  <2>1. Inside(c) = n
    BY <1>1, InsideIs
  <2>2. \A q \in QNames \ {n} : last'[q] = last[q]
    BY <1>1, <1>2, <1>3 DEF TypeOK
  <2>3. last'[n] = LastOf(L[n])
    <3>1. CASE curr[c] = Null
      <4>1. last'[n] = item[c]
        BY <1>1, <1>2, <1>3, <3>1 DEF TypeOK
      <4>2. L[n] # <<>> /\ L[n][Len(L[n])] = item[c]
        BY <1>4, <3>1, EmptySeq
      <4> QED BY <4>1, <4>2 DEF LastOf
    <3>2. CASE curr[c] # Null
      <4>1. last'[n] = last[n]
        BY <1>1, <1>2, <1>3, <3>2 DEF TypeOK
      <4>2. last[n] = LastOf(L[n])
        BY <1>1, <1>3, <2>1, <3>2, EndsHere DEF Owes
      <4> QED BY <4>1, <4>2
    <3> QED BY <3>1, <3>2
  <2> QED BY <1>3, <1>7, <2>1, <2>2, <2>3, EndsInside
<1>10. ListStep(c, L)' /\ QueueOperation(c, L)' /\ TakesOwn(c, L)
  BY <1>7 DEF ListStep, QueueOperation, TakesOwn, Carries
<1> QED BY <1>2, <1>6, <1>7, <1>8, <1>9, <1>10, Same

(* _q_remove and _q_remove_if_le find a node.                              *)
LEMMA CallRemoveStep ==
  ASSUME NEW L, Good(L), NEW c \in Contexts, ~Meet',
         NEW n \in QNames, CallRemove(c, n)
  PROVE  Good(L)'
<1>1. /\ TypeOK /\ call \in [Contexts -> Calls] /\ Owners(L) /\ pc[c] = "idle" /\ L \in Orders
  BY GoodFacts DEF CallRemove, Good
<1>2. /\ head' = head /\ first' = first /\ last' = last /\ held' = held /\ next' = next
      /\ todo' = todo /\ taken' = taken /\ key' = key /\ data' = data
      /\ prev' = prev /\ curr' = curr /\ first[n] # Null
      /\ table' = [table EXCEPT ![c] = "node"] /\ item' = [item EXCEPT ![c] = first[n]]
      /\ call' = [call EXCEPT ![c] = [queue |-> n, key |-> 0, data |-> Null]]
      /\ pc' = [pc EXCEPT ![c] = "unlink"]
  BY DEF CallRemove, Note, Goto, nodeVars
<1>3. Typed'
  <2>1. [queue |-> n, key |-> 0, data |-> Null] \in Calls
    BY DEF Calls, Null
  <2>2. call' \in [Contexts -> Calls]
    BY <1>1, <1>2, <2>1
  <2>3. first[n] \in Items \cup {Null}
    BY <1>1, ItemFacts DEF TypeOK
  <2>4. item' \in [Contexts -> Items \cup {Null}] /\ table' \in [Contexts -> Tables]
    BY <1>1, <1>2, <2>3 DEF TypeOK, Tables
  <2>5. pc' \in [Contexts -> {"idle", "take", "fill", "search", "join",
                          "hang", "tail", "unlink", "empty", "link", "put"}]
    BY <1>1, <1>2 DEF TypeOK
  <2> QED BY <1>1, <1>2, <2>2, <2>4, <2>5 DEF Typed, TypeOK
<1>4. /\ pc'[c] = "unlink" /\ table'[c] = "node" /\ item'[c] = first[n] /\ call'[c].queue = n
      /\ Moves(c)
  BY <1>1, <1>2 DEF TypeOK, Moves
<1>5. Owners(L)'
  BY <1>1, <1>2, <1>4, OwnersSame
<1>6. Ends(L)'
  BY <1>1, <1>2, <1>4, EndsSame
<1>7. ListStep(c, L)' /\ QueueOperation(c, L)' /\ TakesOwn(c, L)
  BY <1>2, <1>4 DEF ListStep, QueueOperation, TakesOwn, Carries
<1> QED BY <1>2, <1>3, <1>4, <1>5, <1>6, <1>7, Same

(* _q_remove clears the last pointer of an empty queue.                    *)
LEMMA EmptiedStep ==
  ASSUME NEW L, Good(L), NEW c \in Contexts, ~Meet', Emptied(c)
  PROVE  Good(L)'
<1> PICK n : n = call[c].queue
  OBVIOUS
<1>1. /\ TypeOK /\ call \in [Contexts -> Calls] /\ Owners(L) /\ pc[c] = "empty"
      /\ ListStep(c, L) /\ QueueOperation(c, L) /\ L \in Orders
  BY GoodFacts DEF Emptied, Good
<1>2. /\ head' = head /\ first' = first /\ held' = held /\ next' = next
      /\ table' = table /\ item' = item /\ call' = call /\ taken' = taken
      /\ key' = key /\ data' = data /\ prev' = prev /\ curr' = curr
      /\ last' = [last EXCEPT ![n] = IF first[n] = Null THEN Null ELSE @]
      /\ todo' = [todo EXCEPT ![c] = 1] /\ pc' = [pc EXCEPT ![c] = "link"]
  BY DEF Emptied, Goto, callVars
<1>3. Loose(L, item[c]) /\ TableOf(item[c]) = "node" /\ table[c] = "node" /\ n \in QNames /\ Carries(c)
  BY <1>1 DEF ListStep, QueueOperation, Carries
<1>4. Typed'
  <2>1. last' \in [QNames -> NodeItems \cup {Null}]
    BY <1>1, <1>2 DEF TypeOK
  <2>2. todo' \in [Contexts -> 0 .. Releases]
    BY <1>1, <1>2, FreeListAssumption DEF TypeOK
  <2>3. pc' \in [Contexts -> {"idle", "take", "fill", "search", "join",
                          "hang", "tail", "unlink", "empty", "link", "put"}]
    BY <1>1, <1>2 DEF TypeOK
  <2> QED BY <1>1, <1>2, <2>1, <2>2, <2>3 DEF Typed, TypeOK
<1>5. pc'[c] = "link" /\ todo'[c] = 1 /\ Moves(c)
  BY <1>1, <1>2 DEF TypeOK, Moves
<1>6. Owners(L)'
  BY <1>1, <1>2, <1>5, OwnersSame
<1>7. Ends(L)'
  <2>1. /\ n \in Lists /\ L[n] \in Seq(Items) /\ Starts[n] = first[n]
        /\ first[n] = IF L[n] = <<>> THEN Null ELSE L[n][1]
        /\ \A j \in 1 .. Len(L[n]) : L[n][j] \in NodeItems
    <3>1. n \in Lists
      BY <1>1, <1>3, ListFacts
    <3> QED BY <1>1, <1>3, <3>1, GoodFacts, ListFacts
  <2>2. first[n] = Null <=> L[n] = <<>>
    <3>1. ASSUME L[n] # <<>> PROVE L[n][1] # Null
      <4>1. 1 \in 1 .. Len(L[n])
        BY <2>1, <3>1
      <4> QED BY <2>1, <4>1, ItemFacts
    <3> QED BY <2>1, <3>1
  <2>3. Inside(c) = n
    BY <1>1, InsideIs
  <2>4. \A q \in QNames \ {n} : last'[q] = last[q]
    BY <1>1, <1>2, <1>3 DEF TypeOK
  <2>5. last'[n] = LastOf(L[n])
    <3>1. CASE L[n] = <<>>
      BY <1>1, <1>2, <1>3, <2>2, <3>1 DEF TypeOK, LastOf
    <3>2. CASE L[n] # <<>>
      <4>1. last'[n] = last[n]
        BY <1>1, <1>2, <1>3, <2>2, <3>2 DEF TypeOK
      <4>2. last[n] = LastOf(L[n])
        BY <1>1, <1>3, <2>3, <3>2, EndsHere DEF Owes
      <4> QED BY <4>1, <4>2
    <3> QED BY <3>1, <3>2
  <2> QED BY <1>3, <1>5, <2>3, <2>4, <2>5, EndsInside
<1>8. Loose(L, item[c])'
  BY <1>2, <1>3 DEF Loose
<1>9. ListStep(c, L)' /\ QueueOperation(c, L)' /\ TakesOwn(c, L)
  BY <1>2, <1>3, <1>5, <1>8 DEF ListStep, QueueOperation, TakesOwn, Carries
<1> QED BY <1>2, <1>3, <1>4, <1>5, <1>6, <1>7, <1>9, Same

-----------------------------------------------------------------------------
(* Steps that change a list.                                               *)

(* What such a step has to establish of the new lists.                     *)
LEMMA Changed ==
  ASSUME NEW L, Good(L), NEW c \in Contexts, ~Meet', Moves(c), NEW M \in Orders,
         Wired(M, Starts', next'), Spares(c, L, M), TakesOwn(c, L),
         c \in Users \/ table'[c] = "node" \/ pc'[c] = "idle",
         Typed', Owners(M)', Ends(M)', ListStep(c, M)', QueueOperation(c, M)'
  PROVE  Good(M)'
<1>1. Requesters' /\ Distinct'
  BY RequestersKept, DistinctKept
<1>2. \A o \in Contexts \ {c} : ListStep(o, M)' /\ QueueOperation(o, M)'
  BY OthersKeep
<1> QED BY <1>1, <1>2 DEF Good, Shape

(* An item is taken from its free list.                                    *)
LEMMA AllocStep ==
  ASSUME NEW L, Good(L), NEW c \in Contexts, ~Meet', Alloc(c)
  PROVE  \E M \in Orders : /\ Good(M)' /\ \A n \in QNames : M[n] = L[n]
                           /\ \A y \in NodeItems : OnList(M, y) =>
                                key'[y] = key[y] /\ data'[y] = data[y]
<1> PICK t : t = table[c]
  OBVIOUS
<1> PICK x : x = item[c]
  OBVIOUS
<1>1. /\ TypeOK /\ call \in [Contexts -> Calls] /\ Owners(L) /\ pc[c] = "take"
      /\ ListStep(c, L) /\ QueueOperation(c, L) /\ L \in Orders /\ Requesters
      /\ Wired(L, Starts, next)
  BY GoodFacts DEF Alloc, Take, Good, Shape
<1>2. t \in Tables /\ x # Null /\ x = head[t] /\ x \in Items
  BY <1>1 DEF TypeOK, ListStep
<1>3. /\ head' = [head EXCEPT ![t] = next[x]] /\ next' = [next EXCEPT ![x] = Null]
      /\ todo' = todo /\ call' = call /\ prev' = prev /\ curr' = curr
      /\ first' = first /\ last' = last /\ taken' = taken
  BY DEF Alloc, Take, callVars
<1>4. /\ t = "node" => /\ held' = held /\ item' = item /\ pc' = [pc EXCEPT ![c] = "fill"]
                       /\ table' = table /\ key' = [key EXCEPT ![x] = 0] /\ data' = [data EXCEPT ![x] = 0]
      /\ t = "request" => /\ held' = [held EXCEPT ![c] = @ \cup {x}]
                          /\ item' = [item EXCEPT ![c] = Null]
                          /\ pc' = [pc EXCEPT ![c] = "idle"]
                          /\ table' = [table EXCEPT ![c] = "node"] /\ key' = key /\ data' = data
  BY DEF Alloc, Take, Keep, Goto, Null
<1>5. t \in Lists /\ Kind(t) = t /\ \A n \in QNames : n # t /\ n \in Lists
  BY <1>1, <1>2, ListFacts
<1> PICK M : M = Without(L, t)
  OBVIOUS
<1>6. Starts[t] = x /\ \A l \in Lists : Starts'[l] = IF l = t THEN next[x] ELSE Starts[l]
  BY <1>1, <1>2, <1>3, <1>5 DEF Starts, Start, TypeOK
<1>7. next'[x] = Null /\ \A y \in Items \ {x} : next'[y] = next[y]
  BY <1>1, <1>2, <1>3 DEF TypeOK
<1>8. /\ M \in Orders /\ Wired(M, Starts', next')
      /\ x \in ItemsOf(t) /\ OnList(L, x)
      /\ \A y : OnList(M, y) <=> OnList(L, y) /\ y # x
  <2> DEFINE st == Starts
             st2 == Starts'
             link == next
             link2 == next'
  <2>1. st[t] = x /\ TakenOff(L, t, st, link, st2, link2)
    BY <1>1, <1>2, <1>5, <1>6, <1>7 DEF TakenOff
  <2> HIDE DEF st, st2, link, link2
  <2>2. /\ M \in Orders /\ Wired(M, st2, link2)
        /\ st[t] \in ItemsOf(Kind(t)) /\ OnList(L, st[t])
        /\ \A y : OnList(M, y) <=> OnList(L, y) /\ y # st[t]
    BY <2>1, WiredTail
  <2> QED BY <1>5, <2>1, <2>2 DEF st2, link2
<1>9. \A l \in Lists \ {t} : M[l] = L[l]
  BY <1>1 DEF Orders, Without
<1>10. TableOf(x) = t /\ (c \in Users \/ t = "node") /\ t \in {"node", "request"}
  BY <1>1, <1>2, <1>8 DEF ItemsOf, Requesters, Tables
<1>11. \A p \in Users : x \notin held[p]
  BY <1>1, <1>8 DEF Owners
<1>12. Moves(c)
  BY <1>1, <1>3, <1>4, <1>10 DEF TypeOK, Moves
<1>13. Ends(M)'
  BY <1>1, <1>3, <1>5, <1>9, <1>12, EndsSame
<1>14. head' \in [Tables -> Items \cup {Null}] /\ next' \in [Items -> Items \cup {Null}]
  BY <1>1, <1>2, <1>3 DEF TypeOK
<1>17. Inside(c) = t
  BY <1>1, InsideIs
<1>18. \A n \in QNames : \A j \in 1 .. Len(L[n]) : L[n][j] \in NodeItems \ {x}
  <2>1. ASSUME NEW n \in QNames, NEW j \in 1 .. Len(L[n]) PROVE L[n][j] \in NodeItems \ {x}
    <3>1. n \in Lists /\ M[n] = L[n] /\ L[n][j] \in NodeItems
      BY <1>1, <1>5, <1>9, ListFacts
    <3>2. OnList(M, L[n][j])
      BY <3>1 DEF OnList
    <3> QED BY <1>8, <3>1, <3>2
  <2> QED BY <2>1
<1>19. Spares(c, L, M)
  <2>1. \A l \in Tables \ {t} : head'[l] = head[l]
    BY <1>1, <1>3 DEF TypeOK
  <2>2. /\ \A y \in NodeItems \ {x} : key'[y] = key[y] /\ data'[y] = data[y]
        /\ \A p \in Users, y \in Items \ {x} : y \in held'[p] => y \in held[p]
    <3>1. CASE t = "node"
      BY <1>1, <1>4, <3>1 DEF TypeOK
    <3>2. CASE t = "request"
      BY <1>1, <1>4, <3>2 DEF TypeOK
    <3> QED BY <1>10, <3>1, <3>2
  <2>3. ASSUME NEW y \in Items, Loose(L, y) PROVE Loose(M, y)' /\ y # x
    BY <1>8, <2>2, <2>3 DEF Loose
  <2> QED BY <1>3, <1>5, <1>7, <1>9, <1>17, <1>18, <2>1, <2>2, <2>3 DEF Spares
<1>15. CASE t = "node"
  <2>1. /\ held' = held /\ item' = item /\ pc' = [pc EXCEPT ![c] = "fill"] /\ table' = table
        /\ key' = [key EXCEPT ![x] = 0] /\ data' = [data EXCEPT ![x] = 0]
    BY <1>4, <1>15
  <2>2. Typed'
    <3>1. key' \in [NodeItems -> Keys \cup {0}] /\ data' \in [NodeItems -> Data \cup {0}]
      BY <1>1, <2>1 DEF TypeOK
    <3>2. pc' \in [Contexts -> {"idle", "take", "fill", "search", "join",
                          "hang", "tail", "unlink", "empty", "link", "put"}]
      BY <1>1, <2>1 DEF TypeOK
    <3> QED BY <1>1, <1>3, <1>14, <2>1, <3>1, <3>2 DEF Typed, TypeOK
  <2>3. pc'[c] = "fill"
    BY <1>1, <2>1 DEF TypeOK
  <2>4. Owners(M)'
    <3>1. ASSUME NEW y \in Items
          PROVE  \/ OnList(M, y) \/ \E p \in Users : y \in held'[p]
                 \/ \E o \in Contexts : pc'[o] # "idle" /\ item'[o] = y
      <4>1. CASE y = x
        BY <2>1, <2>3, <4>1
      <4>2. CASE y # x
        BY <1>1, <1>8, <1>12, <2>1, <2>3, <4>2 DEF Owners, Moves
      <4> QED BY <4>1, <4>2
    <3> QED BY <1>1, <1>8, <2>1, <3>1 DEF Owners
  <2>5. Loose(M, x)'
    BY <1>2, <1>8, <1>11, <2>1 DEF Loose
  <2>6. ListStep(c, M)'
    BY <1>3, <1>10, <2>1, <2>3, <2>5 DEF ListStep, Carries
  <2>7. QueueOperation(c, M)'
    BY <1>1, <1>3, <1>15, <2>1, <2>3 DEF QueueOperation
  <2>8. TakesOwn(c, L) /\ table'[c] = "node"
    BY <1>8, <1>15, <2>1 DEF TakesOwn
  <2>9. Good(M)'
    BY <1>8, <1>12, <1>13, <1>19, <2>2, <2>4, <2>6, <2>7, <2>8, Changed
  <2>10. \A y \in NodeItems : OnList(M, y) => key'[y] = key[y] /\ data'[y] = data[y]
    BY <1>1, <1>8, <2>1 DEF TypeOK
  <2> QED BY <1>5, <1>8, <1>9, <2>9, <2>10
<1>16. CASE t = "request"
  <2>1. /\ held' = [held EXCEPT ![c] = @ \cup {x}] /\ item' = [item EXCEPT ![c] = Null]
        /\ pc' = [pc EXCEPT ![c] = "idle"] /\ key' = key /\ data' = data
        /\ table' = [table EXCEPT ![c] = "node"]
    BY <1>4, <1>16
  <2>2. c \in Users /\ c # Kernel
    BY <1>10, <1>16, FreeListAssumption
  <2>3. /\ pc'[c] = "idle" /\ held'[c] = held[c] \cup {x}
        /\ \A p \in Users \ {c} : held'[p] = held[p]
    BY <1>1, <2>1, <2>2 DEF TypeOK
  <2>4. Typed'
    <3>1. /\ held' \in [Users -> SUBSET Items] /\ item' \in [Contexts -> Items \cup {Null}]
          /\ table' \in [Contexts -> Tables]
      BY <1>1, <1>2, <2>1, <2>2 DEF TypeOK, Tables
    <3>2. pc' \in [Contexts -> {"idle", "take", "fill", "search", "join",
                          "hang", "tail", "unlink", "empty", "link", "put"}]
      BY <1>1, <2>1 DEF TypeOK
    <3> QED BY <1>1, <1>3, <1>14, <2>1, <3>1, <3>2 DEF Typed, TypeOK
  <2>5. Owners(M)'
    <3>1. ASSUME NEW y \in Items
          PROVE  \/ OnList(M, y) \/ \E p \in Users : y \in held'[p]
                 \/ \E o \in Contexts : pc'[o] # "idle" /\ item'[o] = y
      <4>1. CASE y = x
        BY <2>2, <2>3, <4>1
      <4>2. CASE y # x
        <5>1. CASE OnList(L, y)
          BY <1>8, <4>2, <5>1
        <5>2. CASE \E p \in Users : y \in held[p]
          BY <2>2, <2>3, <5>2
        <5>3. CASE \E o \in Contexts : pc[o] # "idle" /\ item[o] = y
          BY <1>12, <4>2, <5>3 DEF Moves
        <5> QED BY <1>1, <5>1, <5>2, <5>3 DEF Owners
      <4> QED BY <4>1, <4>2
    <3>2. ASSUME NEW p \in Users, NEW y \in held'[p] PROVE TableOf(y) = "request" /\ ~OnList(M, y)
      <4>1. CASE y = x
        BY <1>8, <1>10, <1>16, <4>1
      <4>2. CASE y # x
        <5>1. y \in held[p]
          BY <2>3, <3>2, <4>2
        <5> QED BY <1>1, <1>8, <5>1 DEF Owners
      <4> QED BY <4>1, <4>2
    <3>3. ASSUME NEW p \in Users, NEW o \in Users, NEW y \in held'[p], y \in held'[o] PROVE p = o
      <4>1. CASE y = x
        BY <1>11, <2>3, <3>3, <4>1
      <4>2. CASE y # x
        <5>1. y \in held[p] /\ y \in held[o]
          BY <2>3, <3>3, <4>2
        <5> QED BY <1>1, <5>1 DEF Owners
      <4> QED BY <4>1, <4>2
    <3> QED BY <3>1, <3>2, <3>3 DEF Owners
  <2>6. ListStep(c, M)' /\ QueueOperation(c, M)' /\ TakesOwn(c, L)
    BY <2>3 DEF ListStep, QueueOperation, TakesOwn, Carries
  <2>7. Good(M)'
    BY <1>8, <1>12, <1>13, <1>19, <2>2, <2>4, <2>5, <2>6, Changed
  <2> QED BY <1>5, <1>8, <1>9, <2>1, <2>7
<1> QED BY <1>10, <1>15, <1>16

(* _q_remove takes the first node off its queue.                           *)
LEMMA UnlinkStep ==
  ASSUME NEW L, Good(L), NEW c \in Contexts, ~Meet', Unlink(c)
  PROVE  \E n \in QNames :
           /\ Good(Without(L, n))'
           /\ L[n] # <<>> /\ taken' = data[L[n][1]] /\ key' = key /\ data' = data
<1> PICK n : n = call[c].queue
  OBVIOUS
<1> PICK x : x = item[c]
  OBVIOUS
<1>1. /\ TypeOK /\ call \in [Contexts -> Calls] /\ Owners(L) /\ pc[c] = "unlink"
      /\ QueueOperation(c, L) /\ L \in Orders /\ Wired(L, Starts, next)
  BY GoodFacts DEF Unlink, Good, Shape
<1>2. n \in QNames /\ table[c] = "node" /\ x # Null /\ x = first[n]
  BY <1>1 DEF QueueOperation
<1>3. /\ head' = head /\ next' = next /\ held' = held /\ table' = table /\ item' = item
      /\ todo' = todo /\ key' = key /\ data' = data /\ last' = last /\ call' = call
      /\ prev' = prev /\ curr' = curr /\ taken' = data[x]
      /\ first' = [first EXCEPT ![n] = next[x]] /\ pc' = [pc EXCEPT ![c] = "empty"]
  BY DEF Unlink, Goto, callVars
<1>4. n \in Lists /\ Kind(n) = "node" /\ n \notin Tables
  BY <1>1, <1>2, ListFacts
<1> PICK M : M = Without(L, n)
  OBVIOUS
<1> DEFINE s == L[n]
<1>5. Starts[n] = x /\ \A l \in Lists : Starts'[l] = IF l = n THEN next[x] ELSE Starts[l]
  BY <1>1, <1>2, <1>3, <1>4 DEF Starts, Start, TypeOK, Lists
<1>6. /\ M \in Orders /\ Wired(M, Starts', next')
      /\ s # <<>> /\ x = s[1] /\ x \in ItemsOf("node") /\ OnList(L, x)
      /\ \A y : OnList(M, y) <=> OnList(L, y) /\ y # x
  <2> DEFINE st == Starts
             st2 == Starts'
             link == next
             link2 == next'
  <2>1. st[n] = x /\ TakenOff(L, n, st, link, st2, link2)
    BY <1>1, <1>2, <1>3, <1>4, <1>5 DEF TakenOff
  <2> HIDE DEF st, st2, link, link2
  <2>2. /\ M \in Orders /\ Wired(M, st2, link2)
        /\ L[n] # <<>> /\ st[n] = L[n][1]
        /\ st[n] \in ItemsOf(Kind(n)) /\ OnList(L, st[n])
        /\ \A y : OnList(M, y) <=> OnList(L, y) /\ y # st[n]
    BY <2>1, WiredTail
  <2> QED BY <1>4, <2>1, <2>2 DEF st2, link2
<1>7. M[n] = Tail(s) /\ \A l \in Lists \ {n} : M[l] = L[l]
  BY <1>1, <1>4 DEF Orders, Without
<1>8. /\ pc'[c] = "empty" /\ Moves(c)
  BY <1>1, <1>3 DEF TypeOK, Moves
<1>9. /\ s \in Seq(Items) /\ Len(s) \in Nat \ {0} /\ x \in NodeItems
      /\ \A j \in 1 .. Len(s) : s[j] \in NodeItems
      /\ \A j \in 1 .. Len(s) : next[s[j]] = IF j = Len(s) THEN Null ELSE s[j + 1]
  <2>1. /\ s \in Seq(Items) /\ \A j \in 1 .. Len(s) : s[j] \in NodeItems
    BY <1>1, <1>2, <1>4, ListFacts
  <2>2. \A j \in 1 .. Len(s) : next[s[j]] = IF j = Len(s) THEN Null ELSE s[j + 1]
    BY <1>4, GoodFacts
  <2>3. Len(s) \in Nat \ {0}
    BY <1>6, <2>1
  <2> QED BY <1>6, <2>1, <2>2, <2>3
<1>10. next[x] \in NodeItems \cup {Null}
  <2>1. 1 \in 1 .. Len(s)
    BY <1>9
  <2>2. next[x] = IF 1 = Len(s) THEN Null ELSE s[1 + 1]
    BY <1>6, <1>9, <2>1
  <2>3. Len(s) # 1 => 1 + 1 \in 1 .. Len(s)
    <3> DEFINE k == Len(s)
    <3>1. k \in Nat /\ k # 0
      BY <1>9
    <3> HIDE DEF k
    <3>2. k # 1 => 1 + 1 \in 1 .. k
      BY <3>1
    <3> QED BY <3>2 DEF k
  <2> QED BY <1>9, <2>2, <2>3
<1>11. Typed'
  <2>1. first' \in [QNames -> NodeItems \cup {Null}]
    BY <1>1, <1>3, <1>10 DEF TypeOK
  <2>2. data[x] \in Data \cup {0}
    BY <1>1, <1>9 DEF TypeOK
  <2>3. pc' \in [Contexts -> {"idle", "take", "fill", "search", "join",
                          "hang", "tail", "unlink", "empty", "link", "put"}]
    BY <1>1, <1>3 DEF TypeOK
  <2> QED BY <1>1, <1>3, <2>1, <2>2, <2>3 DEF Typed, TypeOK
<1>12. Owners(M)'
  <2>1. ASSUME NEW y \in Items
        PROVE  \/ OnList(M, y) \/ \E p \in Users : y \in held'[p]
               \/ \E o \in Contexts : pc'[o] # "idle" /\ item'[o] = y
    <3>1. CASE y = x
      BY <1>3, <1>8, <3>1
    <3>2. CASE y # x
      BY <1>1, <1>3, <1>6, <1>8, <3>2 DEF Owners, Moves
    <3> QED BY <3>1, <3>2
  <2> QED BY <1>1, <1>3, <1>6, <2>1 DEF Owners
<1>13. Ends(M)'
  <2>0. Inside(c) = n
    BY <1>1, InsideIs
  <2>1. last'[n] = LastOf(M[n]) \/ M[n] = <<>>
    <3>1. last[n] = LastOf(s)
      BY <1>1, <1>2, <2>0, EndsHere DEF Owes
    <3>2. CASE Tail(s) # <<>>
      <4> DEFINE u == Tail(s)
      <4>1. u \in Seq(Items) /\ Len(u) = Len(s) - 1 /\ \A j \in 1 .. Len(s) - 1 : u[j] = s[j + 1]
        BY <1>6, <1>9
      <4> HIDE DEF u
      <4>2. u # <<>>
        BY <3>2 DEF u
      <4>3. Len(u) # 0
        BY <4>1, <4>2
      <4>4. Len(u) \in 1 .. Len(s) - 1 /\ Len(u) + 1 = Len(s)
        <5> DEFINE k == Len(s)
                   j == Len(u)
        <5>1. k \in Nat /\ k # 0 /\ j = k - 1 /\ j # 0
          BY <1>9, <4>1, <4>3
        <5> HIDE DEF k, j
        <5>2. j \in 1 .. k - 1 /\ j + 1 = k
          BY <5>1
        <5> QED BY <5>2 DEF k, j
      <4>5. u[Len(u)] = s[Len(s)]
        BY <4>1, <4>4
      <4>6. M[n] = u
        BY <1>7 DEF u
      <4> QED BY <1>3, <1>6, <3>1, <4>2, <4>5, <4>6 DEF LastOf
    <3> QED BY <1>7, <3>2
  <2>2. last'[n] = LastOf(M[n]) \/ Owes(c, n, M)'
    BY <1>3, <1>8, <2>1 DEF Owes
  <2>3. \A q \in QNames \ {n} : last'[q] = last[q] /\ M[q] = L[q]
    BY <1>1, <1>3, <1>7, ListFacts
  <2> QED BY <1>2, <1>8, <2>0, <2>2, <2>3, EndsInside
<1>14. TableOf(x) = "node" /\ Loose(M, x)'
  <2>1. \A p \in Users : x \notin held[p]
    BY <1>1, <1>6 DEF Owners
  <2> QED BY <1>3, <1>6, <2>1 DEF Loose, ItemsOf
<1>15. ListStep(c, M)' /\ QueueOperation(c, M)'
  BY <1>2, <1>3, <1>8, <1>14 DEF ListStep, QueueOperation, Carries
<1>16. Spares(c, L, M) /\ TakesOwn(c, L)
  <2>1. Inside(c) = n
    BY <1>1, InsideIs
  <2>2. \A q \in QNames \ {n} : first'[q] = first[q] /\ M[q] = L[q]
    BY <1>1, <1>2, <1>3, <1>7, ListFacts DEF TypeOK
  <2>3. \A y \in Items : Loose(L, y) => Loose(M, y)'
    BY <1>3, <1>6 DEF Loose
  <2>4. Spares(c, L, M)
    BY <1>3, <2>1, <2>2, <2>3 DEF Spares
  <2> QED BY <1>3, <1>6, <2>4 DEF TakesOwn
<1>17. Good(M)'
  BY <1>2, <1>3, <1>6, <1>8, <1>11, <1>12, <1>13, <1>15, <1>16, Changed
<1> QED BY <1>2, <1>3, <1>6, <1>17

(* An item becomes the head of its free list.                              *)
LEMMA PutStep ==
  ASSUME NEW L, Good(L), NEW c \in Contexts, ~Meet', ~PutsBackTwice(c),
         Dealloc(c), Put(c)
  PROVE  \E M \in Orders : /\ Good(M)' /\ \A n \in QNames : M[n] = L[n]
                           /\ key' = key /\ data' = data /\ taken' \in {taken, 0}
<1> PICK t : t = table[c]
  OBVIOUS
<1> PICK x : x = item[c]
  OBVIOUS
<1>1. /\ TypeOK /\ call \in [Contexts -> Calls] /\ Owners(L) /\ pc[c] = "put"
      /\ ListStep(c, L) /\ L \in Orders /\ Requesters /\ Wired(L, Starts, next)
  BY GoodFacts DEF Put, Good, Shape
<1>2. /\ t \in Tables /\ Loose(L, x) /\ TableOf(x) = t /\ next[x] = head[t] /\ todo[c] = 1
      /\ x \in Items /\ Carries(c)
  <2>1. todo[c] \in 0 .. Releases /\ todo[c] > 0 /\ ~(todo[c] > 1)
    BY <1>1 DEF TypeOK, ListStep, PutsBackTwice
  <2>2. todo[c] = 1
    BY <2>1, FreeListAssumption
  <2> QED BY <1>1, <2>2 DEF TypeOK, ListStep, Loose, Carries
<1>3. /\ head' = [head EXCEPT ![t] = x] /\ next' = next /\ held' = held
      /\ table' = [table EXCEPT ![c] = "node"]
      /\ first' = first /\ last' = last /\ key' = key /\ data' = data
      /\ prev' = prev /\ curr' = curr
      /\ todo' = [todo EXCEPT ![c] = 0] /\ item' = [item EXCEPT ![c] = Null]
      /\ pc' = [pc EXCEPT ![c] = "idle"] /\ call' = [call EXCEPT ![c] = NoCall]
  <2>1. ~(todo[c] > 1) /\ todo[c] - 1 = 0
    BY <1>2
  <2> QED BY <1>1, <2>1 DEF Dealloc, Put, Goto, nodeVars
<1>4. taken' \in {taken, 0}
  BY DEF Dealloc, Null
<1>5. t \in Lists /\ Kind(t) = t /\ \A n \in QNames : n # t /\ n \in Lists
  BY <1>1, <1>2, ListFacts
<1> PICK M : M = With(L, t, 0, x)
  OBVIOUS
<1>6. \A l \in Lists : Starts'[l] = IF l = t THEN x ELSE Starts[l]
  BY <1>1, <1>2, <1>3, <1>5 DEF Starts, Start, TypeOK
<1>7. HungIn(L, t, 0, x, Starts, next, Starts', next')
  <2>1. L[t] \in Seq(Items) /\ Starts[t] = head[t] /\ Starts[t] = IF L[t] = <<>> THEN Null ELSE L[t][1]
    BY <1>1, <1>2, <1>5, GoodFacts, ListFacts
  <2>2. next[x] = IF 0 = Len(L[t]) THEN Null ELSE L[t][0 + 1]
    BY <1>2, <2>1
  <2>3. x \in ItemsOf(Kind(t)) /\ ~OnList(L, x) /\ 0 \in 0 .. Len(L[t]) /\ ~(0 > 0)
    BY <1>2, <1>5, <2>1 DEF ItemsOf, Loose
  <2> QED BY <1>1, <1>3, <1>5, <1>6, <2>2, <2>3 DEF HungIn
<1>8. /\ M \in Orders /\ Wired(M, Starts', next')
      /\ \A y : OnList(M, y) <=> OnList(L, y) \/ y = x
      /\ \A l \in Lists \ {t} : M[l] = L[l]
  <2> DEFINE st == Starts
             st2 == Starts'
             link == next
             link2 == next'
  <2>1. HungIn(L, t, 0, x, st, link, st2, link2)
    BY <1>7
  <2> HIDE DEF st, st2, link, link2
  <2>2. /\ M \in Orders /\ Wired(M, st2, link2)
        /\ \A y : OnList(M, y) <=> OnList(L, y) \/ y = x
        /\ \A l \in Lists \ {t} : M[l] = L[l]
    BY <2>1, WiredInsert
  <2> QED BY <2>2 DEF st2, link2
<1>9. pc'[c] = "idle" /\ Moves(c)
  BY <1>1, <1>3 DEF TypeOK, Moves
<1>10. Typed'
  <2>1. NoCall \in Calls
    BY QueuesAssumption DEF NoCall, Calls, Null
  <2>2. call' \in [Contexts -> Calls]
    BY <1>1, <1>3, <2>1
  <2>3. head' \in [Tables -> Items \cup {Null}] /\ item' \in [Contexts -> Items \cup {Null}]
    BY <1>1, <1>2, <1>3 DEF TypeOK
  <2>4. todo' \in [Contexts -> 0 .. Releases]
    BY <1>1, <1>3, FreeListAssumption DEF TypeOK
  <2>5. pc' \in [Contexts -> {"idle", "take", "fill", "search", "join",
                          "hang", "tail", "unlink", "empty", "link", "put"}]
    BY <1>1, <1>3 DEF TypeOK
  <2>7. table' \in [Contexts -> Tables]
    BY <1>1, <1>3 DEF TypeOK, Tables
  <2>6. taken' \in Data \cup {0}
    BY <1>1, <1>4 DEF TypeOK
  <2> QED BY <1>1, <1>3, <2>2, <2>3, <2>4, <2>5, <2>6, <2>7 DEF Typed, TypeOK
<1>11. Owners(M)'
  <2>1. ASSUME NEW y \in Items
        PROVE  \/ OnList(M, y) \/ \E p \in Users : y \in held'[p]
               \/ \E o \in Contexts : pc'[o] # "idle" /\ item'[o] = y
    <3>1. CASE y = x
      BY <1>8, <3>1
    <3>2. CASE y # x /\ (OnList(L, y) \/ \E p \in Users : y \in held[p])
      BY <1>3, <1>8, <3>2
    <3>3. CASE y # x /\ \E o \in Contexts : pc[o] # "idle" /\ item[o] = y
      BY <1>9, <3>3 DEF Moves
    <3> QED BY <1>1, <3>1, <3>2, <3>3 DEF Owners
  <2>2. \A p \in Users : x \notin held[p]
    BY <1>2 DEF Loose
  <2> QED BY <1>1, <1>3, <1>8, <2>1, <2>2 DEF Owners
<1>12. Ends(M)'
  BY <1>1, <1>3, <1>5, <1>8, <1>9, EndsSame
<1>13. ListStep(c, M)' /\ QueueOperation(c, M)'
  BY <1>9 DEF ListStep, QueueOperation, Carries
<1>14. Spares(c, L, M) /\ TakesOwn(c, L)
  <2>1. Inside(c) = t
    BY <1>1, InsideIs
  <2>2. \A l \in Tables \ {t} : head'[l] = head[l]
    BY <1>1, <1>3 DEF TypeOK
  <2>3. \A y \in Items : Loose(L, y) /\ y # x => Loose(M, y)'
    BY <1>3, <1>8 DEF Loose
  <2>4. Spares(c, L, M)
    BY <1>2, <1>3, <1>5, <1>8, <2>1, <2>2, <2>3 DEF Spares
  <2> QED BY <1>9, <2>4 DEF TakesOwn, Carries
<1>15. Good(M)'
  BY <1>3, <1>8, <1>9, <1>10, <1>11, <1>12, <1>13, <1>14, Changed
<1> QED BY <1>3, <1>4, <1>5, <1>8, <1>15

(* What is hung where: node x behind m nodes of queue n.                   *)
Hung(L, n, m, x) ==
  /\ n \in QNames /\ m \in 0 .. Len(L[n]) /\ x \in NodeItems /\ ~OnList(L, x)
  /\ data[x] \in Data /\ key[x] \in KeysOf(n)
  /\ n \in Ordered => \A j \in 1 .. m : key[L[n][j]] <= key[x]
  /\ IF n \in Ordered THEN m < Len(L[n]) => key[L[n][m + 1]] > key[x] ELSE m = Len(L[n])

(* _q_insert hangs the new node into the queue.                            *)
LEMMA HangStep ==
  ASSUME NEW L, Good(L), NEW c \in Contexts, ~Meet', Hang(c)
  PROVE  /\ \E n, m, x : Hung(L, n, m, x) /\ Good(With(L, n, m, x))'
         /\ key' = key /\ data' = data /\ taken' = taken
<1> PICK n : n = call[c].queue
  OBVIOUS
<1> PICK x : x = item[c]
  OBVIOUS
<1> DEFINE s == L[n]
<1>1. /\ TypeOK /\ call \in [Contexts -> Calls] /\ Owners(L) /\ pc[c] = "hang"
      /\ ListStep(c, L) /\ QueueOperation(c, L) /\ L \in Orders /\ Wired(L, Starts, next)
  BY GoodFacts DEF Hang, Good, Shape
<1>2. /\ Loose(L, x) /\ TableOf(x) = "node" /\ table[c] = "node" /\ n \in QNames
      /\ Carries(c) /\ call[c].key \in KeysOf(n) /\ call[c].data \in Data /\ next[x] = curr[c]
      /\ data[x] = call[c].data /\ key[x] = (IF n \in Ordered THEN call[c].key ELSE 0)
      /\ \E m \in 0 .. Len(s) : Found(c, s, m)
  BY <1>1 DEF ListStep, QueueOperation, Carries
<1>3. PICK m \in 0 .. Len(s) : Found(c, s, m)
  BY <1>2
<1>4. /\ n \in Lists /\ Kind(n) = "node" /\ n \notin Tables /\ s \in Seq(Items) /\ Len(s) \in Nat
      /\ \A j \in 1 .. Len(s) : s[j] \in NodeItems
      /\ x \in NodeItems /\ x \in Items /\ x \in ItemsOf("node")
      /\ \A j \in 1 .. Len(s) : OnList(L, s[j])
  <2>1. n \in Lists /\ Kind(n) = "node" /\ n \notin Tables
    BY <1>1, <1>2, ListFacts
  <2>2. x \in Items /\ x \in NodeItems
    BY <1>1, <1>2, ListFacts DEF Loose
  <2> QED BY <1>1, <1>2, <2>1, <2>2, ListFacts, ItemFacts DEF OnList
<1>5. /\ prev[c] = (IF m = 0 THEN Null ELSE s[m])
      /\ curr[c] = (IF m = Len(s) THEN Null ELSE s[m + 1])
      /\ n \in Ordered => \A j \in 1 .. m : key[s[j]] <= key[x]
      /\ IF n \in Ordered THEN m < Len(s) => key[s[m + 1]] > key[x] ELSE m = Len(s)
  BY <1>1, <1>3 DEF Found
<1>6. /\ head' = head /\ held' = held /\ table' = table /\ item' = item /\ todo' = todo
      /\ key' = key /\ data' = data /\ last' = last /\ call' = call /\ prev' = prev
      /\ curr' = curr /\ taken' = taken /\ pc' = [pc EXCEPT ![c] = "tail"]
  BY DEF Hang, Goto, callVars
<1>7. Hung(L, n, m, x)
  BY <1>2, <1>4, <1>5 DEF Hung, Loose, KeysOf
<1>8. m # 0 => m \in 1 .. Len(s) /\ m > 0 /\ s[m] \in NodeItems /\ s[m] # Null /\ s[m] # x /\ s[m] \in Items
  BY <1>2, <1>4, ItemFacts DEF Loose
<1>9. /\ m # 0 => next' = [next EXCEPT ![s[m]] = x] /\ first' = first
      /\ m = 0 => next' = next /\ first' = [first EXCEPT ![n] = x]
  BY <1>5, <1>8 DEF Hang
<1>10. /\ \A y \in Items : next'[y] = IF m > 0 /\ y = s[m] THEN x ELSE next[y]
       /\ next'[x] = curr[c]
  <2>1. CASE m = 0
    BY <1>2, <1>9, <2>1
  <2>2. CASE m # 0
    BY <1>1, <1>2, <1>4, <1>8, <1>9, <2>2 DEF TypeOK
  <2> QED BY <2>1, <2>2
<1>11. \A l \in Lists : Starts'[l] = IF l = n /\ m = 0 THEN x ELSE Starts[l]
  BY <1>1, <1>2, <1>4, <1>6, <1>9 DEF Starts, Start, TypeOK, Lists
<1>12. HungIn(L, n, m, x, Starts, next, Starts', next')
  <2>1. ~OnList(L, x)
    BY <1>2 DEF Loose
  <2> QED BY <1>1, <1>4, <1>5, <1>10, <1>11, <2>1 DEF HungIn
<1> PICK M : M = With(L, n, m, x)
  OBVIOUS
<1>13. /\ M \in Orders /\ Wired(M, Starts', next')
       /\ \A y : OnList(M, y) <=> OnList(L, y) \/ y = x
       /\ \A l \in Lists \ {n} : M[l] = L[l]
       /\ M[n] = After(s, m, x)
  <2> DEFINE st == Starts
             st2 == Starts'
             link == next
             link2 == next'
  <2>1. HungIn(L, n, m, x, st, link, st2, link2)
    BY <1>12
  <2> HIDE DEF st, st2, link, link2
  <2>2. /\ M \in Orders /\ Wired(M, st2, link2)
        /\ \A y : OnList(M, y) <=> OnList(L, y) \/ y = x
        /\ \A l \in Lists \ {n} : M[l] = L[l]
        /\ M[n] = After(s, m, x)
    BY <2>1, WiredInsert
  <2> QED BY <2>2 DEF st2, link2
<1> HIDE DEF s
<1>14. /\ Len(M[n]) = Len(s) + 1 /\ m + 1 \in 1 .. Len(s) + 1 /\ M[n][m + 1] = x
       /\ m # Len(s) => M[n] # <<>> /\ s # <<>> /\ M[n][Len(M[n])] = s[Len(s)]
  <2>1. Len(M[n]) = Len(s) + 1 /\ m + 1 \in 1 .. Len(s) + 1
    BY <1>4, <1>13 DEF After
  <2>2. \A j \in 1 .. Len(s) + 1 : M[n][j] = IF j <= m THEN s[j] ELSE IF j = m + 1 THEN x ELSE s[j - 1]
    BY <1>4, <1>13 DEF After
  <2>3. ~(m + 1 <= m) /\ M[n][m + 1] = x
    BY <2>1, <2>2
  <2>4. ASSUME m # Len(s) PROVE M[n] # <<>> /\ s # <<>> /\ M[n][Len(M[n])] = s[Len(s)]
    <3>1. /\ Len(s) + 1 \in 1 .. Len(s) + 1 /\ ~(Len(s) + 1 <= m) /\ Len(s) + 1 # m + 1
          /\ (Len(s) + 1) - 1 = Len(s) /\ Len(s) # 0 /\ Len(s) + 1 # 0
      BY <1>4, <2>4
    <3>2. M[n][Len(s) + 1] = s[Len(s)]
      BY <2>2, <3>1
    <3> QED BY <2>1, <3>1, <3>2, EmptySeq
  <2> QED BY <2>1, <2>3, <2>4
<1>15. pc'[c] = "tail" /\ Moves(c)
  BY <1>1, <1>6 DEF TypeOK, Moves
<1>16. Typed'
  <2>1. next' \in [Items -> Items \cup {Null}]
    BY <1>1, <1>4, <1>9 DEF TypeOK
  <2>2. first' \in [QNames -> NodeItems \cup {Null}]
    BY <1>1, <1>4, <1>9 DEF TypeOK
  <2>3. pc' \in [Contexts -> {"idle", "take", "fill", "search", "join",
                          "hang", "tail", "unlink", "empty", "link", "put"}]
    BY <1>1, <1>6 DEF TypeOK
  <2> QED BY <1>1, <1>6, <2>1, <2>2, <2>3 DEF Typed, TypeOK
<1>17. Owners(M)'
  <2>1. ASSUME NEW y \in Items
        PROVE  \/ OnList(M, y) \/ \E p \in Users : y \in held'[p]
               \/ \E o \in Contexts : pc'[o] # "idle" /\ item'[o] = y
    <3>1. CASE OnList(L, y) \/ \E p \in Users : y \in held[p]
      BY <1>6, <1>13, <3>1
    <3>2. CASE \E o \in Contexts : pc[o] # "idle" /\ item[o] = y
      BY <1>6, <1>15, <3>2 DEF Moves
    <3> QED BY <1>1, <3>1, <3>2 DEF Owners
  <2>2. \A p \in Users : x \notin held[p]
    BY <1>2 DEF Loose
  <2> QED BY <1>1, <1>6, <1>13, <2>1, <2>2 DEF Owners
<1>23. Inside(c) = n
  BY <1>1, InsideIs
<1>18. Ends(M)'
  <2>1. last'[n] = LastOf(M[n]) \/ curr'[c] = Null
    <3>1. last[n] = LastOf(L[n])
      BY <1>1, <1>2, <1>23, EndsHere DEF Owes
    <3>2. CASE m # Len(s)
      BY <1>6, <1>14, <3>1, <3>2 DEF LastOf, s
    <3>3. CASE m = Len(s)
      BY <1>5, <1>6, <3>3
    <3> QED BY <3>2, <3>3
  <2>2. last'[n] = LastOf(M[n]) \/ Owes(c, n, M)'
    BY <1>6, <1>15, <2>1 DEF Owes
  <2>3. \A q \in QNames \ {n} : last'[q] = last[q] /\ M[q] = L[q]
    BY <1>1, <1>6, <1>13, ListFacts
  <2> QED BY <1>2, <1>15, <1>23, <2>2, <2>3, EndsInside
<1>19. QueueOperation(c, M)'
  <2>1. curr[c] = Null => m = Len(s)
    <3>1. ASSUME m # Len(s) PROVE curr[c] # Null
      <4>1. m + 1 \in 1 .. Len(s)
        BY <1>4, <3>1
      <4> QED BY <1>4, <1>5, <3>1, <4>1, ItemFacts
    <3> QED BY <3>1
  <2>2. \E k \in 1 .. Len(M[n]) : M[n][k] = x /\ (curr[c] = Null => k = Len(M[n]))
    BY <1>14, <2>1
  <2> QED BY <1>2, <1>6, <1>15, <2>2 DEF QueueOperation
<1>20. ListStep(c, M)'
  BY <1>15 DEF ListStep, Carries
<1>21. Spares(c, L, M) /\ TakesOwn(c, L)
  <2>1. \A q \in QNames \ {n} : first'[q] = first[q] /\ M[q] = L[q]
    BY <1>1, <1>2, <1>9, <1>13, ListFacts DEF TypeOK
  <2>2. ASSUME NEW y \in Items, Loose(L, y), y # x PROVE Loose(M, y)' /\ next'[y] = next[y]
    <3>1. m > 0 => y # s[m]
      BY <1>4, <1>8, <2>2 DEF Loose
    <3> QED BY <1>6, <1>10, <1>13, <2>2, <3>1 DEF Loose
  <2>3. Spares(c, L, M)
    BY <1>2, <1>6, <1>23, <2>1, <2>2 DEF Spares
  <2> QED BY <1>15, <2>3 DEF TakesOwn, Carries
<1>22. Good(M)'
  BY <1>2, <1>6, <1>13, <1>15, <1>16, <1>17, <1>18, <1>19, <1>20, <1>21, Changed
<1> QED BY <1>6, <1>7, <1>22

-----------------------------------------------------------------------------
(* The invariant.                                                          *)

(* The lists as _q_init and _disk_init build them.                         *)
FirstLists ==
  [l \in Lists |->
     IF l = "node" THEN [j \in 1 .. Nodes |-> Nodes + 1 - j]
     ELSE IF l = "request" THEN [j \in 1 .. Requests |-> Nodes + Requests + 1 - j]
     ELSE <<>>]

(* They are right.                                                         *)
LEMMA InitGood == Init => FirstLists \in Orders /\ Good(FirstLists)
<1> SUFFICES ASSUME Init PROVE FirstLists \in Orders /\ Good(FirstLists)
  OBVIOUS
<1> DEFINE L == FirstLists
           N == Nodes
           R == Requests
<1>1. N \in Nat /\ N # 0 /\ R \in Nat /\ R # 0 /\ Items = 1 .. N + R /\ NodeItems = 1 .. N /\ Null = 0
  BY FreeListAssumption DEF Items, NodeItems, Null
<1>2. \A x \in Items : TableOf(x) = IF x <= N THEN "node" ELSE "request"
  BY DEF TableOf
<1>3. ItemsOf("node") = 1 .. N /\ ItemsOf("request") = N + 1 .. N + R
  BY <1>1, <1>2 DEF ItemsOf
<1>4. /\ L["node"] = [j \in 1 .. N |-> N + 1 - j]
      /\ L["request"] = [j \in 1 .. R |-> N + R + 1 - j]
      /\ \A n \in QNames : L[n] = <<>>
      /\ \A l \in Lists : l = "node" \/ l = "request" \/ l \in QNames
      /\ "node" \in Lists /\ "request" \in Lists
      /\ \A n \in QNames : n \in Lists /\ n # "node" /\ n # "request"
  BY QueuesAssumption DEF FirstLists, Lists, Tables
<1> HIDE DEF N, R
<1>5. L["node"] \in Seq(1 .. N) /\ Len(L["node"]) = N /\ \A j \in 1 .. N : L["node"][j] = N + 1 - j
  <2>1. [j \in 1 .. N |-> N + 1 - j] \in [1 .. N -> 1 .. N]
    BY <1>1
  <2> QED BY <1>1, <1>4, <2>1
<1>6. /\ L["request"] \in Seq(N + 1 .. N + R) /\ Len(L["request"]) = R
      /\ \A j \in 1 .. R : L["request"][j] = N + R + 1 - j
  <2>1. [j \in 1 .. R |-> N + R + 1 - j] \in [1 .. R -> N + 1 .. N + R]
    BY <1>1
  <2> QED BY <1>1, <1>4, <2>1
<1>7. \A n \in QNames : L[n] = <<>> /\ Len(L[n]) = 0 /\ \A S : L[n] \in Seq(S)
  BY <1>4, EmptySeq
<1> HIDE DEF L
<1>8. ASSUME NEW l \in Lists PROVE L[l] \in Seq(Items) /\ L[l] \in Seq(ItemsOf(Kind(l)))
  <2>1. CASE l = "node"
    <3>1. L[l] \in Seq(ItemsOf(Kind(l)))
      BY <1>3, <1>5, <2>1 DEF Kind
    <3>2. ASSUME NEW u \in Seq(1 .. N) PROVE u \in Seq(Items)
      <4>1. Len(u) \in Nat /\ \A j \in 1 .. Len(u) : u[j] \in 1 .. N + R
        BY <1>1
      <4> QED BY <1>1, <4>1
    <3> QED BY <1>5, <2>1, <3>1, <3>2
  <2>2. CASE l = "request"
    <3>1. L[l] \in Seq(ItemsOf(Kind(l)))
      BY <1>3, <1>6, <2>2 DEF Kind
    <3>2. ASSUME NEW u \in Seq(N + 1 .. N + R) PROVE u \in Seq(Items)
      <4>1. Len(u) \in Nat /\ \A j \in 1 .. Len(u) : u[j] \in 1 .. N + R
        BY <1>1
      <4> QED BY <1>1, <4>1
    <3> QED BY <1>6, <2>2, <3>1, <3>2
  <2>3. CASE l \in QNames
    BY <1>7, <2>3
  <2> QED BY <1>4, <2>1, <2>2, <2>3
<1>9. L \in Orders
  <2>1. L \in [Lists -> Seq(Items)]
    BY <1>8 DEF FirstLists, L
  <2> QED BY <1>8, <2>1 DEF Orders
<1>10. /\ head["node"] = N /\ head["request"] = N + R
       /\ \A x \in Items : next[x] = IF x = N + 1 THEN Null ELSE x - 1
       /\ \A n \in QNames : first[n] = Null /\ last[n] = Null
       /\ \A c \in Contexts : pc[c] = "idle"
       /\ \A p \in Users : held[p] = {}
  BY DEF Init, ListInit, Tables, N, R
<1>11. TypeOK
  BY <1>1, FreeListAssumption DEF TypeOK, Init, ListInit, Tables, N, R
<1>12. call \in [Contexts -> Calls]
  BY DEF Init, NoCall, Calls, Null
<1>13. ~Meet /\ Requesters /\ Distinct
  <2>1. \A c \in Contexts : Inside(c) = "none"
    BY <1>10 DEF Inside
  <2> QED BY <1>10, <2>1 DEF Meet, Requesters, Distinct, Carries
<1>14. /\ Starts["node"] = N /\ Starts["request"] = N + R
       /\ \A n \in QNames : Starts[n] = Null
  BY <1>4, <1>10, QueuesAssumption DEF Starts, Start, Tables
<1>15. Wired(L, Starts, next)
  <2>1. IsPath(L["node"], Starts["node"], next)
    <3>1. L["node"] # <<>> /\ L["node"][1] = N
      BY <1>1, <1>5, EmptySeq
    <3>2. ASSUME NEW j \in 1 .. N
          PROVE  next[L["node"][j]] = IF j = N THEN Null ELSE L["node"][j + 1]
      <4>1. L["node"][j] = N + 1 - j /\ N + 1 - j \in Items /\ N + 1 - j # N + 1
        BY <1>1, <1>5
      <4>2. next[L["node"][j]] = (N + 1 - j) - 1
        BY <1>10, <4>1
      <4>3. CASE j = N
        BY <1>1, <4>2, <4>3
      <4>4. CASE j # N
        <5>1. j + 1 \in 1 .. N /\ N + 1 - (j + 1) = (N + 1 - j) - 1
          BY <1>1, <4>4
        <5> QED BY <1>5, <4>2, <4>4, <5>1
      <4> QED BY <4>3, <4>4
    <3> QED BY <1>5, <1>14, <3>1, <3>2 DEF IsPath
  <2>2. IsPath(L["request"], Starts["request"], next)
    <3>1. L["request"] # <<>> /\ L["request"][1] = N + R
      BY <1>1, <1>6, EmptySeq
    <3>2. ASSUME NEW j \in 1 .. R
          PROVE  next[L["request"][j]] = IF j = R THEN Null ELSE L["request"][j + 1]
      <4>1. L["request"][j] = N + R + 1 - j /\ N + R + 1 - j \in Items
        BY <1>1, <1>6
      <4>2. CASE j = R
        BY <1>1, <1>10, <4>1, <4>2
      <4>3. CASE j # R
        <5>1. /\ j + 1 \in 1 .. R /\ N + R + 1 - (j + 1) = (N + R + 1 - j) - 1
              /\ N + R + 1 - j # N + 1
          BY <1>1, <4>3
        <5> QED BY <1>6, <1>10, <4>1, <4>3, <5>1
      <4> QED BY <4>2, <4>3
    <3> QED BY <1>6, <1>14, <3>1, <3>2 DEF IsPath
  <2>3. ASSUME NEW n \in QNames PROVE IsPath(L[n], Starts[n], next)
    BY <1>7, <1>14 DEF IsPath
  <2>4. ASSUME NEW l \in Lists, NEW m \in Lists, NEW i \in 1 .. Len(L[l]),
               NEW j \in 1 .. Len(L[m]), L[l][i] = L[m][j]
        PROVE  l = m /\ i = j
    <3>0. l \notin QNames /\ m \notin QNames
      BY <1>7
    <3>1. CASE l = "node" /\ m = "node"
      BY <1>1, <1>5, <2>4, <3>1
    <3>2. CASE l = "request" /\ m = "request"
      BY <1>1, <1>6, <2>4, <3>2
    <3>3. CASE l = "node" /\ m = "request"
      <4>1. i \in 1 .. N /\ j \in 1 .. R /\ N + 1 - i = N + R + 1 - j
        BY <1>5, <1>6, <2>4, <3>3
      <4> QED BY <1>1, <4>1
    <3>4. CASE l = "request" /\ m = "node"
      <4>1. i \in 1 .. R /\ j \in 1 .. N /\ N + R + 1 - i = N + 1 - j
        BY <1>5, <1>6, <2>4, <3>4
      <4> QED BY <1>1, <4>1
    <3> QED BY <1>4, <3>0, <3>1, <3>2, <3>3, <3>4
  <2> QED BY <1>4, <2>1, <2>2, <2>3, <2>4 DEF Wired
<1>16. Owners(L)
  <2>1. ASSUME NEW x \in Items PROVE OnList(L, x)
    <3>1. CASE x <= N
      <4>1. N + 1 - x \in 1 .. N /\ N + 1 - (N + 1 - x) = x
        BY <1>1, <3>1
      <4>2. N + 1 - x \in 1 .. Len(L["node"]) /\ L["node"][N + 1 - x] = x
        BY <1>5, <4>1
      <4> QED BY <1>4, <4>2 DEF OnList
    <3>2. CASE ~(x <= N)
      <4>1. N + R + 1 - x \in 1 .. R /\ N + R + 1 - (N + R + 1 - x) = x
        BY <1>1, <3>2
      <4>2. N + R + 1 - x \in 1 .. Len(L["request"]) /\ L["request"][N + R + 1 - x] = x
        BY <1>6, <4>1
      <4> QED BY <1>4, <4>2 DEF OnList
    <3> QED BY <3>1, <3>2
  <2> QED BY <1>10, <2>1 DEF Owners
<1>17. Ends(L)
  BY <1>7, <1>10 DEF Ends, LastOf
<1>18. \A c \in Contexts : ListStep(c, L) /\ QueueOperation(c, L)
  BY <1>10 DEF ListStep, QueueOperation, Carries
<1>19. Good(L)
  BY <1>9, <1>11, <1>12, <1>13, <1>15, <1>16, <1>17, <1>18 DEF Good, Typed, Shape
<1> QED BY <1>9, <1>19 DEF L

(* The nodes of each queue: what AbstractQueues sees.                      *)
Content(L) ==
  [n \in QNames |-> [j \in 1 .. Len(L[n]) |-> [key |-> key[L[n][j]], data |-> data[L[n][j]]]]]

(* How a step changes the queues: not at all, by a removal or by an        *)
(* insertion.                                                              *)
KeepsQueues(L, M) ==
  /\ \A n \in QNames : M[n] = L[n]
  /\ \A n \in QNames : \A j \in 1 .. Len(L[n]) :
       key'[L[n][j]] = key[L[n][j]] /\ data'[L[n][j]] = data[L[n][j]]
  /\ taken' \in {taken, 0}

Removes(L, M) ==
  /\ key' = key /\ data' = data
  /\ \E n \in QNames : M = Without(L, n) /\ L[n] # <<>> /\ taken' = data[L[n][1]]

Inserts(L, M) ==
  /\ key' = key /\ data' = data /\ taken' = taken
  /\ \E n, m, x : M = With(L, n, m, x) /\ Hung(L, n, m, x)

(* Every step of a context leads from lists to lists.                      *)
LEMMA ContextStep ==
  ASSUME NEW L, Good(L), NEW c \in Contexts, ~Meet', ~PutsBackTwice(c),
         QueueCall(c) \/ QueueStep(c) \/ Alloc(c) \/ Dealloc(c) \/ (c \in Users /\ RequestCall(c))
  PROVE  \E M \in Orders : Good(M)' /\ (KeepsQueues(L, M) \/ Removes(L, M) \/ Inserts(L, M))
<1>1. L \in Orders
  BY DEF Good
<1>2. ASSUME Good(L)', key' = key, data' = data, taken' = taken
      PROVE  \E M \in Orders : Good(M)' /\ KeepsQueues(L, M)
  BY <1>1, <1>2 DEF KeepsQueues
<1>3. CASE QueueCall(c)
  <2>1. PICK n \in QNames : \/ \E k \in KeysOf(n), d \in Data : CallInsert(c, n, k, d)
                            \/ \E k \in Keys : CallRemoveIfLe(c, n, k)
                            \/ CallRemove(c, n)
    <3>1. CASE c \in Users /\ \E n \in Shared, d \in Data : CallInsert(c, n, 0, d)
      <4>1. \A n \in Shared : n \in QNames /\ 0 \in KeysOf(n)
        BY QueuesAssumption DEF QNames, KeysOf
      <4> QED BY <3>1, <4>1
    <3> QED BY <1>3, <3>1 DEF QueueCall
  <2>2. ASSUME NEW k \in KeysOf(n), NEW d \in Data, CallInsert(c, n, k, d)
        PROVE  \E M \in Orders : Good(M)' /\ KeepsQueues(L, M)
    BY <1>2, <2>2, CallInsertStep DEF CallInsert, nodeVars
  <2>3. ASSUME CallRemove(c, n)
        PROVE  \E M \in Orders : Good(M)' /\ KeepsQueues(L, M)
    BY <1>2, <2>3, CallRemoveStep DEF CallRemove, nodeVars
  <2> QED BY <2>1, <2>2, <2>3 DEF CallRemoveIfLe
<1>4. CASE Fill(c)
  <2>1. /\ Good(L)' /\ Loose(L, item[c])
        /\ \A y \in NodeItems \ {item[c]} : key'[y] = key[y] /\ data'[y] = data[y]
    BY <1>4, FillStep
  <2>2. ASSUME NEW n \in QNames, NEW j \in 1 .. Len(L[n])
        PROVE  L[n][j] \in NodeItems \ {item[c]}
    BY <1>1, <2>1, ListFacts DEF Loose, OnList
  <2>3. taken' = taken
    BY <1>4 DEF Fill
  <2> QED BY <1>1, <2>1, <2>2, <2>3 DEF KeepsQueues
<1>5. CASE Search(c)
  BY <1>2, <1>5, SearchStep DEF Search, nodeVars
<1>6. CASE Join(c)
  BY <1>2, <1>6, JoinStep DEF Join, nodeVars
<1>7. CASE Hang(c)
  <2>1. /\ key' = key /\ data' = data /\ taken' = taken
        /\ \E n, m, x : Hung(L, n, m, x) /\ Good(With(L, n, m, x))'
    BY <1>7, HangStep
  <2>2. PICK n, m, x : Hung(L, n, m, x) /\ Good(With(L, n, m, x))'
    BY <2>1
  <2>3. With(L, n, m, x) \in Orders /\ Inserts(L, With(L, n, m, x))
    BY <2>1, <2>2 DEF Good, Inserts
  <2> QED BY <2>2, <2>3
<1>8. CASE SetLast(c)
  BY <1>2, <1>8, SetLastStep DEF SetLast
<1>9. CASE Unlink(c)
  <2>1. PICK n \in QNames : /\ Good(Without(L, n))' /\ L[n] # <<>> /\ taken' = data[L[n][1]]
                            /\ key' = key /\ data' = data
    BY <1>9, UnlinkStep
  <2>2. Without(L, n) \in Orders /\ Removes(L, Without(L, n))
    BY <2>1 DEF Good, Removes
  <2> QED BY <2>1, <2>2
<1>10. CASE Emptied(c)
  BY <1>2, <1>10, EmptiedStep DEF Emptied
<1>11. CASE Alloc(c)
  <2>1. PICK M \in Orders : /\ Good(M)' /\ \A n \in QNames : M[n] = L[n]
                            /\ \A y \in NodeItems : OnList(M, y) =>
                                 key'[y] = key[y] /\ data'[y] = data[y]
    BY <1>11, AllocStep
  <2>2. ASSUME NEW n \in QNames, NEW j \in 1 .. Len(L[n])
        PROVE  L[n][j] \in NodeItems /\ OnList(M, L[n][j])
    BY <1>1, <2>1, ListFacts DEF OnList
  <2>3. taken' = taken
    BY <1>11 DEF Alloc
  <2> QED BY <2>1, <2>2, <2>3 DEF KeepsQueues
<1>12. CASE Dealloc(c) /\ Link(c)
  BY <1>2, <1>12, LinkStep DEF Dealloc, nodeVars
<1>13. CASE Dealloc(c) /\ Put(c)
  <2>1. PICK M \in Orders : /\ Good(M)' /\ \A n \in QNames : M[n] = L[n]
                            /\ key' = key /\ data' = data /\ taken' \in {taken, 0}
    BY <1>13, PutStep
  <2> QED BY <2>1 DEF KeepsQueues
<1>14. CASE c \in Users /\ RequestCall(c)
  <2>1. key' = key /\ data' = data /\ taken' = taken
    BY <1>14 DEF RequestCall, nodeVars
  <2>2. Good(L)'
    BY <1>14, ReadRequestStep, ReleaseStep DEF RequestCall
  <2> QED BY <1>2, <2>1, <2>2
<1> QED BY <1>3, <1>4, <1>5, <1>6, <1>7, <1>8, <1>9, <1>10, <1>11, <1>12, <1>13, <1>14
        DEF QueueStep, Dealloc

(* So does every step of the specification.                                *)
LEMMA NextStep ==
  ASSUME NEW L, Good(L), [Next]_vars, ~clash'
  PROVE  \E M \in Orders : Good(M)' /\ (KeepsQueues(L, M) \/ Removes(L, M) \/ Inserts(L, M))
<1>1. CASE Next
  <2>1. PICK c \in Contexts : /\ QueueCall(c) \/ QueueStep(c) \/ Alloc(c) \/ Dealloc(c)
                                 \/ (c \in Users /\ RequestCall(c))
                              /\ clash' = (clash \/ Meet' \/ PutsBackTwice(c))
    BY <1>1 DEF Next
  <2>2. ~Meet' /\ ~PutsBackTwice(c)
    BY <2>1
  <2> QED BY <2>1, <2>2, ContextStep
<1>2. CASE UNCHANGED vars
  <2>1. /\ UNCHANGED <<head, next, held, pc, table, item, todo>>
        /\ UNCHANGED <<key, data, first, last>> /\ UNCHANGED <<call, prev, curr, taken>>
    BY <1>2 DEF vars, listVars, nodeVars, callVars
  <2>2. L \in Orders /\ Typed' /\ ~Meet' /\ Requesters' /\ Distinct'
    BY <2>1 DEF Good, Shape, Typed, TypeOK, Meet, Inside, Requesters, Distinct, Carries
  <2>3. Starts' = Starts
    BY <2>1 DEF Starts, Start
  <2>4. Owners(L)' /\ Ends(L)'
    BY <2>1 DEF Good, Shape, Owners, Ends, Owes
  <2>5. ASSUME NEW c \in Contexts PROVE ListStep(c, L)' /\ QueueOperation(c, L)'
    <3>1. ListStep(c, L) /\ QueueOperation(c, L)
      BY DEF Good, Shape
    <3>2. ListStep(c, L)'
      BY <2>1, <3>1 DEF ListStep, Loose, Carries
    <3>3. QueueOperation(c, L)'
      BY <2>1, <3>1 DEF QueueOperation, Found
    <3> QED BY <3>2, <3>3
  <2>6. Good(L)'
    BY <2>1, <2>2, <2>3, <2>4, <2>5 DEF Good, Shape
  <2> QED BY <2>1, <2>2, <2>6 DEF KeepsQueues
<1> QED BY <1>1, <1>2

(* A clash is not forgotten.                                               *)
LEMMA ClashStays ==
  ASSUME clash \in BOOLEAN, [Next]_vars
  PROVE  clash' \in BOOLEAN /\ (~clash' => ~clash)
<1>1. CASE Next
  BY <1>1 DEF Next
<1>2. CASE UNCHANGED vars
  BY <1>2 DEF vars
<1> QED BY <1>1, <1>2

(* The inductive invariant: as long as no two contexts met inside of a list *)
(* and none put an item back twice, the links of every free list and queue *)
(* lead through a sequence of items, every item is at one place, no two    *)
(* contexts are inside of one list, and each operation under way has it    *)
(* right where its item goes, whatever the others do to other lists        *)
(* (queues.c, disk.c 23-45, device.c 62-99).                               *)
THEOREM QueuesInvariance == Spec => []QueuesInvariant
<1>1. Init => QueuesInvariant
  BY InitGood DEF QueuesInvariant, Init
<1>2. QueuesInvariant /\ [Next]_vars => QueuesInvariant'
  <2> SUFFICES ASSUME QueuesInvariant, [Next]_vars PROVE QueuesInvariant'
    OBVIOUS
  <2>1. clash' \in BOOLEAN /\ (~clash' => ~clash)
    BY ClashStays DEF QueuesInvariant
  <2>2. ASSUME ~clash' PROVE \E M \in Orders : Good(M)'
    <3>1. PICK L \in Orders : Good(L)
      BY <2>1, <2>2 DEF QueuesInvariant
    <3> QED BY <2>2, <3>1, NextStep
  <2> QED BY <2>1, <2>2 DEF QueuesInvariant
<1> QED BY <1>1, <1>2, PTL DEF Spec

(* Every node and every request is at exactly one place: on one list, in   *)
(* one queue, with one process or on its way, until two contexts are       *)
(* inside of one list (queues.c 70-96, disk.c 23-45) or an item is put     *)
(* back twice (device.c 77).                                               *)
THEOREM ItemsStayAccountedFor == Spec => []ItemsAccountedFor
<1>1. QueuesInvariant => ItemsAccountedFor
  <2> SUFFICES ASSUME QueuesInvariant, ~clash PROVE NoItemShared /\ NoItemLost
    BY DEF ItemsAccountedFor
  <2>1. PICK L \in Orders : Shape(L) /\ TypeOK
    BY DEF QueuesInvariant, Good, Typed
  <2>2. ASSUME NEW l \in Lists PROVE On(l) = {L[l][j] : j \in 1 .. Len(L[l])}
    <3>1. L[l] \in Seq(ItemsOf(Kind(l))) /\ IsPath(L[l], Start(l), next)
      BY <2>1 DEF Orders, Shape, Wired, Starts
    <3> QED BY <3>1, ChainIs DEF On, Kind
  <2>3. \A l \in Lists : \A y : y \in On(l) => OnList(L, y)
    BY <2>2 DEF OnList
  <2>4. NoItemShared
    <3>1. ASSUME NEW l \in Lists, NEW n \in QNames \ {l} PROVE On(l) \cap On(n) = {}
      BY <2>1, <2>2, ListFacts DEF Shape, Wired
    <3>2. ASSUME NEW l \in Lists, NEW p \in Users PROVE held[p] \cap On(l) = {}
      BY <2>1, <2>3 DEF Shape, Owners
    <3>3. ASSUME NEW p \in Users, NEW o \in Users, p # o PROVE held[p] \cap held[o] = {}
      BY <2>1, <3>3 DEF Shape, Owners
    <3> QED BY <3>1, <3>2, <3>3 DEF NoItemShared
  <2>5. NoItemLost
    <3>1. ASSUME NEW x \in Items
          PROVE  x \in (UNION {On(l) : l \in Lists}) \cup (UNION {held[p] : p \in Users}) \cup Moving
      <4>1. CASE OnList(L, x)
        BY <2>2, <4>1 DEF OnList
      <4>2. CASE \E p \in Users : x \in held[p]
        BY <4>2
      <4>3. CASE \E c \in Contexts : pc[c] # "idle" /\ item[c] = x
        BY <4>3 DEF Moving
      <4> QED BY <2>1, <4>1, <4>2, <4>3 DEF Shape, Owners
    <3>2. \A l \in Lists : On(l) \subseteq Items
      BY ItemFacts DEF On, Chain
    <3>3. \A p \in Users : held[p] \subseteq Items
      BY <2>1 DEF TypeOK
    <3>4. Moving \subseteq Items
      <4>1. ASSUME NEW c \in Contexts, pc[c] # "idle" PROVE item[c] \in Items
        <5>1. TypeOK /\ ListStep(c, L) /\ QueueOperation(c, L)
          BY <2>1 DEF Shape
        <5>2. item[c] \in Items \cup {Null}
          BY <5>1 DEF TypeOK
        <5>3. CASE pc[c] \in {"take", "unlink"}
          BY <5>1, <5>2, <5>3 DEF ListStep, QueueOperation
        <5>4. CASE pc[c] = "tail"
          <6>1. /\ call[c].queue \in QNames
                /\ \E m \in 1 .. Len(L[call[c].queue]) : L[call[c].queue][m] = item[c]
            BY <5>1, <5>4 DEF QueueOperation
          <6> QED BY <6>1, ListFacts, ItemFacts
        <5>5. CASE Carries(c)
          BY <5>1, <5>5 DEF ListStep, Loose
        <5> QED BY <4>1, <5>1, <5>3, <5>4, <5>5 DEF TypeOK, Carries
      <4> QED BY <4>1 DEF Moving
    <3> QED BY <3>1, <3>2, <3>3, <3>4 DEF NoItemLost
  <2> QED BY <2>4, <2>5
<1> QED BY <1>1, QueuesInvariance, PTL

-----------------------------------------------------------------------------
(* The refinement.                                                         *)

Queue == [n \in QNames |-> Listed(n)]

Node(x) == [key |-> key[x], data |-> data[x]]

(* What AbstractQueues sees are the nodes of the lists.                    *)
LEMMA QueueIs ==
  ASSUME NEW L
  PROVE  Good(L) => Queue = Content(L)
<1> SUFFICES ASSUME Good(L) PROVE Queue = Content(L)
  OBVIOUS
<1>1. ASSUME NEW n \in QNames PROVE PathFrom(first[n], next) = L[n]
  <2>1. L \in Orders /\ Wired(L, Starts, next)
    BY DEF Good, Shape
  <2>2. n \in Lists /\ L[n] \in Seq(NodeItems) /\ n \notin Tables
    <3>1. n \in Lists /\ Kind(n) = "node" /\ n \notin Tables
      BY <2>1, ListFacts
    <3> QED BY <2>1, <3>1, ItemFacts DEF Orders
  <2>3. Starts[n] = first[n]
    BY <2>2 DEF Starts, Start
  <2>4. IsPath(L[n], first[n], next) /\ \A i, j \in 1 .. Len(L[n]) : L[n][i] = L[n][j] => i = j
    BY <2>1, <2>2, <2>3 DEF Wired
  <2> QED BY <2>2, <2>4, PathFromIs
<1>2. \A n \in QNames : Listed(n) =
        [j \in 1 .. Len(L[n]) |-> [key |-> key[L[n][j]], data |-> data[L[n][j]]]]
  BY <1>1 DEF Listed
<1> QED BY <1>2 DEF Queue, Content

(* The same after a step.                                                  *)
LEMMA QueueIsNext ==
  ASSUME NEW M
  PROVE  (Good(M) => Queue = Content(M))'
<1>1. Good(M) => Queue = Content(M)
  BY QueueIs
<1> QED BY <1>1, PTL

(* The sequences of AbstractQueues.                                        *)
LEMMA ContentFacts ==
  ASSUME NEW L \in Orders, TypeOK, NEW n \in QNames
  PROVE  /\ L[n] \in Seq(Items) /\ Len(L[n]) \in Nat
         /\ Content(L)[n] \in Seq([key : Nat, data : Data \cup {0}])
         /\ Len(Content(L)[n]) = Len(L[n])
         /\ \A j \in 1 .. Len(L[n]) : Content(L)[n][j] = Node(L[n][j])
<1>1. L[n] \in Seq(Items) /\ Len(L[n]) \in Nat /\ \A j \in 1 .. Len(L[n]) : L[n][j] \in NodeItems
  BY ListFacts
<1>2. Content(L)[n] = [j \in 1 .. Len(L[n]) |-> Node(L[n][j])]
  BY DEF Content, Node
<1>3. \A x \in NodeItems : key[x] \in Nat /\ data[x] \in Data \cup {0}
  BY KeyFacts DEF TypeOK
<1>4. \A x \in NodeItems : Node(x) \in [key : Nat, data : Data \cup {0}]
  BY <1>3 DEF Node
<1>5. \A j \in 1 .. Len(L[n]) : Node(L[n][j]) \in [key : Nat, data : Data \cup {0}]
  BY <1>1, <1>4
<1> HIDE DEF Node
<1> DEFINE S == [key : Nat, data : Data \cup {0}]
           k == Len(L[n])
           f == [j \in 1 .. k |-> Node(L[n][j])]
<1>6. k \in Nat /\ \A j \in 1 .. k : Node(L[n][j]) \in S
  BY <1>1, <1>5
<1> HIDE DEF S, k
<1>7. f \in Seq(S) /\ Len(f) = k /\ \A j \in 1 .. k : f[j] = Node(L[n][j])
  BY <1>6
<1> QED BY <1>1, <1>2, <1>7 DEF S, k

(* A removal.                                                              *)
LEMMA ContentWithout ==
  ASSUME NEW L \in Orders, TypeOK, NEW n \in QNames, L[n] # <<>>
  PROVE  /\ Content(Without(L, n)) = [Content(L) EXCEPT ![n] = Tail(@)]
         /\ Content(L)[n] # <<>> /\ Head(Content(L)[n]).data = data[L[n][1]]
<1> DEFINE q == Content(L)
           s == L[n]
           M == Without(L, n)
           S == [key : Nat, data : Data \cup {0}]
<1>1. /\ s \in Seq(Items) /\ Len(s) \in Nat /\ q[n] \in Seq(S) /\ Len(q[n]) = Len(s)
      /\ \A j \in 1 .. Len(s) : q[n][j] = Node(s[j])
  BY ContentFacts
<1>2. Len(s) # 0 /\ q[n] # <<>>
  <2>1. Len(s) # 0
    BY <1>1
  <2> QED BY <1>1, <2>1, EmptySeq
<1>3. n \in Lists /\ \A r \in QNames : r \in Lists
  BY ListFacts
<1>4. M[n] = Tail(s) /\ \A r \in QNames \ {n} : M[r] = L[r]
  BY <1>3 DEF Without, Orders
<1>5. q = [r \in QNames |-> [j \in 1 .. Len(L[r]) |-> Node(L[r][j])]]
  BY DEF Content, Node
<1>6. Content(M) = [r \in QNames |-> [j \in 1 .. Len(M[r]) |-> Node(M[r][j])]]
  BY DEF Content, Node
<1> HIDE DEF S, q, M
<1>7. [j \in 1 .. Len(Tail(s)) |-> Node(Tail(s)[j])] = Tail(q[n])
  <2> DEFINE v == q[n]
             u == Tail(s)
  <2>0. v \in Seq(S) /\ v # <<>> /\ Len(v) = Len(s) /\ \A j \in 1 .. Len(s) : v[j] = Node(s[j])
    BY <1>1, <1>2
  <2>1. Len(u) = Len(s) - 1 /\ \A j \in 1 .. Len(s) - 1 : u[j] = s[j + 1]
    BY <1>1
  <2> HIDE DEF u, v
  <2>2. Tail(v) = [j \in 1 .. Len(s) - 1 |-> v[j + 1]]
    <3> DEFINE w == [j \in 1 .. Len(s) - 1 |-> v[j + 1]]
               k == Len(s)
    <3>1. /\ Tail(v) \in Seq(S) /\ Len(Tail(v)) = k - 1
          /\ \A j \in 1 .. k - 1 : Tail(v)[j] = v[j + 1]
      BY <2>0
    <3>2. k \in Nat /\ k # 0 /\ \A j \in 1 .. k - 1 : v[j + 1] \in S
      BY <1>1, <1>2, <2>0
    <3> HIDE DEF k
    <3>3. k - 1 \in Nat
      BY <3>2
    <3>4. [j \in 1 .. k - 1 |-> v[j + 1]] \in Seq(S)
      BY <3>2, <3>3
    <3>5. /\ Len([j \in 1 .. k - 1 |-> v[j + 1]]) = k - 1
          /\ \A j \in 1 .. k - 1 : [i \in 1 .. k - 1 |-> v[i + 1]][j] = v[j + 1]
      BY <3>3
    <3> QED BY <3>1, <3>4, <3>5, SeqEqual DEF k
  <2>3. ASSUME NEW j \in 1 .. Len(s) - 1 PROVE Node(u[j]) = v[j + 1]
    <3>1. j + 1 \in 1 .. Len(s)
      BY <1>1
    <3> QED BY <2>0, <2>1, <3>1
  <2> HIDE DEF s, Node
  <2>4. [j \in 1 .. Len(s) - 1 |-> Node(u[j])] = [j \in 1 .. Len(s) - 1 |-> v[j + 1]]
    BY <2>3
  <2> QED BY <2>1, <2>2, <2>4 DEF u, v
<1>8. Content(M) = [q EXCEPT ![n] = Tail(@)]
  <2> DEFINE A(r) == [j \in 1 .. Len(M[r]) |-> Node(M[r][j])]
             B(r) == [j \in 1 .. Len(L[r]) |-> Node(L[r][j])]
             w == Tail(q[n])
  <2>1. /\ Content(M) = [r \in QNames |-> A(r)] /\ q = [r \in QNames |-> B(r)] /\ A(n) = w
        /\ \A r \in QNames \ {n} : A(r) = B(r)
    BY <1>4, <1>5, <1>6, <1>7
  <2> HIDE DEF A, B, w
  <2>2. Content(M) = [q EXCEPT ![n] = w]
    BY <2>1
  <2> QED BY <2>2 DEF w
<1>9. Head(q[n]).data = data[s[1]]
  <2>1. 1 \in 1 .. Len(s) /\ q[n][1] = Node(s[1]) /\ Head(q[n]) = q[n][1]
    BY <1>1, <1>2
  <2> QED BY <2>1 DEF Node
<1> QED BY <1>2, <1>8, <1>9 DEF M, q

(* An insertion.                                                           *)
LEMMA ContentWith ==
  ASSUME NEW L \in Orders, TypeOK, NEW n \in QNames, NEW m \in 0 .. Len(L[n]), NEW x \in NodeItems
  PROVE  Content(With(L, n, m, x)) =
           [Content(L) EXCEPT ![n] = AbstractQueues!LinkAfter(@, m, Node(x))]
<1> DEFINE q == Content(L)
           s == L[n]
           M == With(L, n, m, x)
           S == [key : Nat, data : Data \cup {0}]
<1>1. /\ s \in Seq(Items) /\ Len(s) \in Nat /\ q[n] \in Seq(S) /\ Len(q[n]) = Len(s)
      /\ \A j \in 1 .. Len(s) : q[n][j] = Node(s[j])
  BY ContentFacts
<1>2. n \in Lists /\ \A r \in QNames : r \in Lists
  BY ListFacts
<1>3. M[n] = After(s, m, x) /\ \A r \in QNames \ {n} : M[r] = L[r]
  BY <1>2 DEF With, Orders
<1>4. q = [r \in QNames |-> [j \in 1 .. Len(L[r]) |-> Node(L[r][j])]]
  BY DEF Content, Node
<1>5. Content(M) = [r \in QNames |-> [j \in 1 .. Len(M[r]) |-> Node(M[r][j])]]
  BY DEF Content, Node
<1> HIDE DEF S, q, M, Node
<1>6. [j \in 1 .. Len(M[n]) |-> Node(M[n][j])] = AbstractQueues!LinkAfter(q[n], m, Node(x))
  <2> DEFINE v == q[n]
             u == M[n]
             k == Len(s)
  <2>1. /\ k \in Nat /\ Len(u) = k + 1
        /\ \A j \in 1 .. k + 1 : u[j] = IF j <= m THEN s[j] ELSE IF j = m + 1 THEN x ELSE s[j - 1]
    BY <1>1, <1>3 DEF After
  <2>2. Len(v) = k /\ \A j \in 1 .. k : v[j] = Node(s[j])
    BY <1>1
  <2>3. m \in 0 .. k
    OBVIOUS
  <2> HIDE DEF u, v, k, s
  <2>4. ASSUME NEW j \in 1 .. k + 1
        PROVE  Node(u[j]) = IF j <= m THEN v[j] ELSE IF j = m + 1 THEN Node(x) ELSE v[j - 1]
    <3>1. CASE j <= m
      <4>1. j \in 1 .. k /\ u[j] = s[j]
        BY <2>1, <2>3, <3>1
      <4> QED BY <2>2, <3>1, <4>1
    <3>2. CASE j = m + 1
      <4>1. ~(j <= m) /\ u[j] = x
        BY <2>1, <2>3, <3>2
      <4> QED BY <3>2, <4>1
    <3>3. CASE ~(j <= m) /\ j # m + 1
      <4>1. j - 1 \in 1 .. k /\ u[j] = s[j - 1]
        BY <2>1, <2>3, <3>3
      <4> QED BY <2>2, <3>3, <4>1
    <3> QED BY <3>1, <3>2, <3>3
  <2>5. AbstractQueues!LinkAfter(v, m, Node(x)) =
          [j \in 1 .. k + 1 |-> IF j <= m THEN v[j] ELSE IF j = m + 1 THEN Node(x) ELSE v[j - 1]]
    BY <2>2 DEF AbstractQueues!LinkAfter
  <2>6. [j \in 1 .. k + 1 |-> Node(u[j])] = AbstractQueues!LinkAfter(v, m, Node(x))
    BY <2>4, <2>5
  <2> QED BY <2>1, <2>6 DEF u, v, k
<1> DEFINE A(r) == [j \in 1 .. Len(M[r]) |-> Node(M[r][j])]
           B(r) == [j \in 1 .. Len(L[r]) |-> Node(L[r][j])]
           w == AbstractQueues!LinkAfter(q[n], m, Node(x))
<1>8. /\ Content(M) = [r \in QNames |-> A(r)] /\ q = [r \in QNames |-> B(r)] /\ A(n) = w
      /\ \A r \in QNames \ {n} : A(r) = B(r)
  BY <1>3, <1>4, <1>5, <1>6
<1> HIDE DEF A, B, w
<1>9. Content(M) = [q EXCEPT ![n] = w]
  BY <1>8
<1>7. Content(M) = [q EXCEPT ![n] = AbstractQueues!LinkAfter(@, m, Node(x))]
  BY <1>9 DEF w
<1> QED BY <1>7 DEF M, q

(* There is room in the sequences while a node is on no list.              *)
LEMMA Room ==
  ASSUME NEW L, Good(L), NEW x \in NodeItems, ~OnList(L, x)
  PROVE  Cardinality(UNION {{n} \X (1 .. Len(Content(L)[n])) : n \in QNames}) < Nodes
<1> DEFINE P == UNION {{n} \X (1 .. Len(L[n])) : n \in QNames}
           T == NodeItems \ {x}
           f == [p \in P |-> L[p[1]][p[2]]]
<1>1. L \in Orders /\ TypeOK /\ Wired(L, Starts, next)
  BY DEF Good, Typed, Shape
<1>2. ASSUME NEW p \in P PROVE p[1] \in QNames /\ p[2] \in 1 .. Len(L[p[1]]) /\ p = <<p[1], p[2]>>
  OBVIOUS
<1>3. ASSUME NEW p \in P PROVE f[p] \in T
  <2>1. L[p[1]][p[2]] \in NodeItems /\ OnList(L, L[p[1]][p[2]])
    BY <1>1, <1>2, ListFacts DEF OnList
  <2> QED BY <2>1
<1>4. ASSUME NEW p \in P, NEW r \in P, f[p] = f[r] PROVE p = r
  <2>1. p[1] \in Lists /\ r[1] \in Lists
    BY <1>1, <1>2, ListFacts
  <2>2. L[p[1]][p[2]] = L[r[1]][r[2]]
    BY <1>4
  <2>3. p[1] = r[1] /\ p[2] = r[2]
    BY <1>1, <1>2, <2>1, <2>2 DEF Wired
  <2> QED BY <1>2, <2>3
<1>5. f \in Injection(P, T)
  <2> HIDE DEF P, T
  <2>1. f \in [P -> T]
    BY <1>3
  <2> HIDE DEF f
  <2> QED BY <1>4, <2>1 DEF Injection, IsInjective
<1>6. IsFiniteSet(NodeItems) /\ Cardinality(NodeItems) = Nodes /\ Nodes \in Nat
  BY FS_Interval, ItemFacts DEF NodeItems
<1>7. IsFiniteSet(T) /\ Cardinality(T) = Nodes - 1
  BY <1>6, FS_RemoveElement
<1>8. IsFiniteSet(P) /\ Cardinality(P) <= Cardinality(T)
  <2> HIDE DEF f, P, T
  <2> QED BY <1>5, <1>7, FS_Injection
<1>9. Cardinality(P) \in Nat
  <2> HIDE DEF P
  <2> QED BY <1>8, FS_CardinalityType
<1>10. UNION {{n} \X (1 .. Len(Content(L)[n])) : n \in QNames} = P
  <2>1. \A n \in QNames : Len(Content(L)[n]) = Len(L[n])
    BY <1>1, ContentFacts
  <2> QED BY <2>1
<1> HIDE DEF P, T
<1>11. Cardinality(P) < Nodes
  BY <1>6, <1>7, <1>8, <1>9
<1> QED BY <1>10, <1>11

(* The search finds the place of an insertion.                             *)
LEMMA PlaceIs ==
  ASSUME NEW s, NEW k \in Nat, Len(s) \in Nat, \A j \in 1 .. Len(s) : s[j].key \in Nat,
         NEW m \in 0 .. Len(s),
         \A j \in 1 .. m : s[j].key <= k, m < Len(s) => s[m + 1].key > k
  PROVE  AbstractQueues!InsertionPoint(s, k) = m
<1> DEFINE P(i) == (\A j \in 1 .. i : s[j].key <= k) /\ (i < Len(s) => s[i + 1].key > k)
<1>1. ASSUME NEW i \in 0 .. Len(s), P(i) PROVE i = m
  <2>1. CASE i < m
    <3>1. i + 1 \in 1 .. m /\ i < Len(s) /\ i + 1 \in 1 .. Len(s)
      BY <2>1
    <3>2. s[i + 1].key <= k /\ s[i + 1].key > k /\ s[i + 1].key \in Nat
      BY <1>1, <3>1
    <3> QED BY <3>2
  <2>2. CASE m < i
    <3>1. m + 1 \in 1 .. i /\ m < Len(s) /\ m + 1 \in 1 .. Len(s)
      BY <2>2
    <3>2. s[m + 1].key <= k /\ s[m + 1].key > k /\ s[m + 1].key \in Nat
      BY <1>1, <3>1
    <3> QED BY <3>2
  <2> QED BY <2>1, <2>2
<1>2. P(m)
  OBVIOUS
<1>3. AbstractQueues!InsertionPoint(s, k) = CHOOSE i \in 0 .. Len(s) : P(i)
  BY DEF AbstractQueues!InsertionPoint
<1> HIDE DEF P
<1> QED BY <1>1, <1>2, <1>3

(* Every step is a step of AbstractQueues or leaves what it sees alone.    *)
LEMMA AbstractStep ==
  ASSUME NEW L, Good(L), NEW M \in Orders, Good(M)',
         KeepsQueues(L, M) \/ Removes(L, M) \/ Inserts(L, M)
  PROVE  [AbstractQueues!Next]_<<Queue, taken>>
<1>1. L \in Orders /\ TypeOK
  BY DEF Good, Typed
<1>2. Queue = Content(L) /\ Queue' = Content(M)'
  BY QueueIs, QueueIsNext
<1>3. AbstractQueues!Names = QNames
  BY DEF AbstractQueues!Names, QNames
<1>4. CASE KeepsQueues(L, M)
  <2>1. Content(M)' = Content(L)
    BY <1>4 DEF KeepsQueues, Content
  <2>2. CASE taken' = taken
    BY <1>2, <2>1, <2>2
  <2>3. CASE taken' = 0
    <3>1. AbstractQueues!Return
      BY <1>2, <2>1, <2>3 DEF AbstractQueues!Return, Queue
    <3> QED BY <3>1 DEF AbstractQueues!Next
  <2> QED BY <1>4, <2>2, <2>3 DEF KeepsQueues
<1>5. CASE Removes(L, M)
  <2>1. PICK n \in QNames : M = Without(L, n) /\ L[n] # <<>> /\ taken' = data[L[n][1]]
    BY <1>5 DEF Removes
  <2>2. Content(M)' = Content(M)
    BY <1>5 DEF Removes, Content
  <2>3. /\ Content(M) = [Content(L) EXCEPT ![n] = Tail(@)]
        /\ Content(L)[n] # <<>> /\ Head(Content(L)[n]).data = data[L[n][1]]
    BY <1>1, <2>1, ContentWithout
  <2>4. /\ Queue[n] # <<>> /\ taken' = Head(Queue[n]).data
        /\ Queue' = [Queue EXCEPT ![n] = Tail(@)]
    BY <1>2, <2>1, <2>2, <2>3
  <2>5. AbstractQueues!Remove(n)
    BY <2>4 DEF AbstractQueues!Remove, Queue
  <2> QED BY <1>3, <2>5 DEF AbstractQueues!Next
<1>6. CASE Inserts(L, M)
  <2>1. PICK n, m, x : M = With(L, n, m, x) /\ Hung(L, n, m, x)
    BY <1>6 DEF Inserts
  <2>2. /\ n \in QNames /\ m \in 0 .. Len(L[n]) /\ x \in NodeItems /\ ~OnList(L, x)
        /\ data[x] \in Data /\ key[x] \in AbstractQueues!KeysOf(n)
        /\ (n \in Ordered => key[x] \in Keys) /\ (n \notin Ordered => key[x] = 0)
        /\ n \in Ordered => \A j \in 1 .. m : key[L[n][j]] <= key[x]
        /\ IF n \in Ordered THEN m < Len(L[n]) => key[L[n][m + 1]] > key[x] ELSE m = Len(L[n])
    BY <2>1 DEF Hung, KeysOf, AbstractQueues!KeysOf
  <2>3. Content(M)' = Content(M) /\ taken' = taken
    BY <1>6 DEF Inserts, Content
  <2>4. Queue' = [Queue EXCEPT ![n] = AbstractQueues!LinkAfter(@, m, Node(x))]
    BY <1>1, <1>2, <2>1, <2>2, <2>3, ContentWith
  <2>5. Cardinality(UNION {{r} \X (1 .. Len(Queue[r])) : r \in QNames}) < Nodes
    BY <1>2, <2>2, Room
  <2>6. AbstractQueues!Size < Nodes
    <3>1. \A S : AbstractQueues!Cardinality(S) = Cardinality(S)
      BY DEF AbstractQueues!Cardinality, Cardinality
    <3> QED BY <2>5, <3>1 DEF AbstractQueues!Size, AbstractQueues!Names, QNames, Queue
  <2>7. CASE n \in Ordered
    <3>1. AbstractQueues!InsertionPoint(Queue[n], key[x]) = m
      <4> DEFINE q == Queue[n]
      <4>1. /\ Len(L[n]) \in Nat /\ Len(q) = Len(L[n])
            /\ \A j \in 1 .. Len(L[n]) : q[j] = Node(L[n][j]) /\ L[n][j] \in NodeItems
        BY <1>1, <1>2, <2>2, ContentFacts, ListFacts
      <4>2. key[x] \in Nat /\ \A j \in 1 .. Len(q) : q[j].key = key[L[n][j]] /\ q[j].key \in Nat
        <5>1. \A y \in NodeItems : key[y] \in Nat /\ Node(y).key = key[y]
          BY <1>1, KeyFacts DEF Node
        <5> QED BY <2>2, <4>1, <5>1
      <4>3. /\ m \in 0 .. Len(q) /\ \A j \in 1 .. m : q[j].key <= key[x]
            /\ m < Len(q) => q[m + 1].key > key[x]
        <5>1. m \in 0 .. Len(q) /\ \A j \in 1 .. m : j \in 1 .. Len(q)
          BY <2>2, <4>1
        <5>2. m < Len(q) => m + 1 \in 1 .. Len(q)
          BY <5>1
        <5> QED BY <2>2, <2>7, <4>1, <4>2, <5>1, <5>2
      <4> HIDE DEF q
      <4>4. Len(q) \in Nat
        BY <4>1
      <4>5. AbstractQueues!InsertionPoint(q, key[x]) = m
        BY <4>2, <4>3, <4>4, PlaceIs
      <4> QED BY <4>5 DEF q
    <3>2. Node(x) = AbstractQueues!QNode(key[x], data[x])
      BY DEF Node, AbstractQueues!QNode
    <3>3. AbstractQueues!InsertOrdered(Queue[n], key[x], data[x]) =
            AbstractQueues!LinkAfter(Queue[n], m, Node(x))
      BY <3>1, <3>2 DEF AbstractQueues!InsertOrdered
    <3>4. Queue' = [Queue EXCEPT ![n] = AbstractQueues!InsertOrdered(@, key[x], data[x])]
      BY <2>4, <3>3
    <3>5. AbstractQueues!Insert(n, key[x], data[x])
      BY <2>3, <2>7, <3>4 DEF AbstractQueues!Insert, Queue
    <3> QED BY <1>3, <2>2, <2>6, <3>5 DEF AbstractQueues!Next
  <2>8. CASE n \notin Ordered
    <3>1. Len(Queue[n]) = m /\ key[x] = 0
      BY <1>1, <1>2, <2>2, <2>8, ContentFacts
    <3>2. Node(x) = AbstractQueues!QNode(0, data[x])
      BY <3>1 DEF Node, AbstractQueues!QNode
    <3>3. AbstractQueues!InsertFifo(Queue[n], data[x]) = AbstractQueues!LinkAfter(Queue[n], m, Node(x))
      BY <3>1, <3>2 DEF AbstractQueues!InsertFifo
    <3>4. Queue' = [Queue EXCEPT ![n] = AbstractQueues!InsertFifo(@, data[x])]
      BY <2>4, <3>3
    <3>5. AbstractQueues!Insert(n, key[x], data[x])
      BY <2>3, <2>8, <3>4 DEF AbstractQueues!Insert, Queue
    <3> QED BY <1>3, <2>2, <2>6, <3>5 DEF AbstractQueues!Next
  <2> QED BY <2>7, <2>8
<1> QED BY <1>4, <1>5, <1>6

(* The linked lists of queues.c implement the sequences of QueueSpec until  *)
(* two contexts are inside of one list or one puts an item back twice:     *)
(* every insertion that hangs a node into a list is an insertion at the    *)
(* place of its kind, every removal takes the first, and nothing else that *)
(* a context does, with nodes or with requests, is seen.                   *)
THEOREM QueuesImplemented == Spec => ImplementsQueues
<1>1. Init => AbstractQueues!Init
  <2> SUFFICES ASSUME Init PROVE AbstractQueues!Init
    OBVIOUS
  <2>1. Good(FirstLists)
    BY InitGood
  <2>2. Queue = Content(FirstLists)
    BY <2>1, QueueIs
  <2>3. ASSUME NEW n \in QNames PROVE FirstLists[n] = <<>> /\ Len(FirstLists[n]) = 0
    <3>1. n \in Lists /\ n # "node" /\ n # "request"
      BY QueuesAssumption DEF Lists, Tables
    <3> QED BY <3>1, EmptySeq DEF FirstLists
  <2>4. Content(FirstLists) = [n \in QNames |-> <<>>]
    <3>1. ASSUME NEW n \in QNames
          PROVE  [j \in 1 .. Len(FirstLists[n]) |-> Node(FirstLists[n][j])] = <<>>
      <4> DEFINE u == [j \in 1 .. 0 |-> Node(FirstLists[n][j])]
      <4>1. u = <<>>
        OBVIOUS
      <4> QED BY <2>3, <4>1
    <3> QED BY <3>1 DEF Content, Node
  <2>5. Queue = [n \in QNames |-> <<>>] /\ taken = 0
    BY <2>2, <2>4 DEF Init
  <2> QED BY <2>5 DEF AbstractQueues!Init, AbstractQueues!Names, QNames, Queue
<1>2. QueuesInvariant /\ [Next]_vars => [clash' \/ AbstractQueues!Next]_<<Queue, taken>>
  <2> SUFFICES ASSUME QueuesInvariant, [Next]_vars, ~clash'
               PROVE  [AbstractQueues!Next]_<<Queue, taken>>
    OBVIOUS
  <2>0. ~clash
    BY ClashStays DEF QueuesInvariant
  <2>1. PICK L \in Orders : Good(L)
    BY <2>0 DEF QueuesInvariant
  <2>2. PICK M \in Orders : Good(M)' /\ (KeepsQueues(L, M) \/ Removes(L, M) \/ Inserts(L, M))
    BY <2>1, NextStep
  <2> QED BY <2>1, <2>2, AbstractStep
<1>3. ImplementsQueues <=>
        AbstractQueues!Init /\ [][clash' \/ AbstractQueues!Next]_<<Queue, taken>>
  BY PTL DEF ImplementsQueues, Queue
<1> QED BY <1>1, <1>2, <1>3, QueuesInvariance, PTL DEF Spec
=============================================================================

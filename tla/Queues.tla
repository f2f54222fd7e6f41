------------------------------- MODULE Queues -------------------------------
(***************************************************************************)
(* The kernel's queues (queues.c) as linked lists of nodes from the shared *)
(* free list, one step per access to a pointer that others share.  Handlers*)
(* and system calls work with interrupts masked; processes in the disk     *)
(* drivers insert their requests with interrupts enabled.                  *)
(***************************************************************************)
EXTENDS FreeList, TLC

CONSTANTS Ordered, Fifo,   \* queues with and without a hash function
          Keys,            \* what the hash function may return
          Data,            \* what is queued
          Shared           \* FIFO queues of the disk drivers, into which
                           \* processes insert

VARIABLES key, data,     \* fields of the nodes
          first, last,   \* queue headers
          call,          \* queue, key and datum of each context's call, if any
          prev, curr,    \* its local variables
          taken,         \* datum of the removal in progress, which it returns
          clash          \* history: two operations were inside one list at
                         \* the same time, or an item was put back twice

nodeVars == <<key, data, first, last>>
callVars == <<call, prev, curr>>
vars == <<listVars, nodeVars, callVars, taken, clash>>

QNames    == Ordered \cup Fifo
NodeItems == 1 .. Nodes

ASSUME QueuesAssumption ==
  /\ Ordered \cap Fifo = {} /\ QNames \cap Tables = {} /\ "none" \notin QNames
  /\ Keys \subseteq Nat /\ Null \notin Data
  /\ Shared \subseteq Fifo

NoCall == [queue |-> "none", key |-> 0, data |-> Null]

Note(c, n, k, d) ==
  call' = [call EXCEPT ![c] = [queue |-> n, key |-> k, data |-> d]]

(* _q_insert is called, with the key that the hash function will return;   *)
(* without a free node it fails.                                           *)
CallInsert(c, n, k, d) ==
  /\ ReadHead(c, "node")
  /\ IF head["node"] = Null THEN UNCHANGED call ELSE Note(c, n, k, d)
  /\ UNCHANGED <<nodeVars, prev, curr, taken>>

(* The second step of an allocation, for a queue or for a request.         *)
Alloc(c) ==
  /\ Take(c)
  /\ IF table[c] = "node"
     THEN /\ key' = [key EXCEPT ![item[c]] = 0]
          /\ data' = [data EXCEPT ![item[c]] = Null]
     ELSE UNCHANGED <<key, data>>
  /\ UNCHANGED <<first, last, callVars, taken>>

Dealloc(c) ==
  /\ Link(c) \/ Put(c)
  /\ call' = [call EXCEPT ![c] = IF pc[c] = "put" THEN NoCall ELSE @]
  /\ taken' = IF pc'[c] = "idle" /\ table[c] = "node" THEN Null ELSE taken
  /\ UNCHANGED <<nodeVars, prev, curr>>

(* The datum and the key are stored; the search starts at the first node,  *)
(* a FIFO queue needs none.                                                *)
Fill(c) ==
  LET r == call[c] IN
  /\ pc[c] = "fill"
  /\ data' = [data EXCEPT ![item[c]] = r.data]
  /\ key' = [key EXCEPT ![item[c]] = IF r.queue \in Ordered THEN r.key ELSE 0]
  /\ prev' = [prev EXCEPT ![c] = IF r.queue \in Ordered THEN Null
                                 ELSE last[r.queue]]
  /\ curr' = [curr EXCEPT ![c] = IF r.queue \in Ordered THEN first[r.queue]
                                 ELSE Null]
  /\ Goto(c, IF r.queue \in Ordered THEN "search" ELSE "join")
  /\ UNCHANGED <<head, next, held, table, item, todo, first, last, call, taken>>

(* Mutant: a node goes before the nodes with the same key.                 *)
WalksOnStrictly(c) == curr[c] # Null /\ key[curr[c]] < key[item[c]]

(* The condition of the search.                                            *)
WalksOn(c) == curr[c] # Null /\ key[curr[c]] <= key[item[c]]

Search(c) ==
  /\ pc[c] = "search"
  /\ IF WalksOn(c)
     THEN /\ prev' = [prev EXCEPT ![c] = curr[c]]
          /\ curr' = [curr EXCEPT ![c] = next[curr[c]]]
          /\ UNCHANGED pc
     ELSE UNCHANGED <<prev, curr>> /\ Goto(c, "join")
  /\ UNCHANGED <<head, next, held, table, item, todo, nodeVars, call, taken>>

(* The new node is linked to its successor...                              *)
Join(c) ==
  /\ pc[c] = "join"
  /\ next' = [next EXCEPT ![item[c]] = curr[c]]
  /\ Goto(c, "hang")
  /\ UNCHANGED <<head, held, table, item, todo, nodeVars, callVars, taken>>

(* ...hung behind its predecessor, or made the first...                    *)
Hang(c) ==
  /\ pc[c] = "hang"
  /\ IF prev[c] # Null
     THEN next' = [next EXCEPT ![prev[c]] = item[c]] /\ UNCHANGED first
     ELSE first' = [first EXCEPT ![call[c].queue] = item[c]] /\ UNCHANGED next
  /\ Goto(c, "tail")
  /\ UNCHANGED <<head, held, table, item, todo, key, data, last, callVars, taken>>

(* ...and made the last one if nothing follows.                            *)
SetLast(c) ==
  /\ pc[c] = "tail"
  /\ last' = [last EXCEPT ![call[c].queue] =
                IF curr[c] = Null THEN item[c] ELSE @]
  /\ item' = [item EXCEPT ![c] = Null]
  /\ prev' = [prev EXCEPT ![c] = Null]
  /\ curr' = [curr EXCEPT ![c] = Null]
  /\ call' = [call EXCEPT ![c] = NoCall]
  /\ Goto(c, "idle")
  /\ UNCHANGED <<head, next, held, table, todo, key, data, first, taken>>

(* _q_remove: the first node is read...                                    *)
CallRemove(c, n) ==
  /\ pc[c] = "idle" /\ first[n] # Null
  /\ Note(c, n, 0, Null)
  /\ table' = [table EXCEPT ![c] = "node"]
  /\ item' = [item EXCEPT ![c] = first[n]]
  /\ Goto(c, "unlink")
  /\ UNCHANGED <<head, next, held, todo, nodeVars, prev, curr, taken>>

(* _q_remove_if_le: nothing is removed unless the first key is due.        *)
CallRemoveIfLe(c, n, k) ==
  /\ first[n] # Null /\ key[first[n]] <= k
  /\ CallRemove(c, n)

(* ...taken off the front...                                               *)
Unlink(c) ==
  /\ pc[c] = "unlink"
  /\ first' = [first EXCEPT ![call[c].queue] = next[item[c]]]
  /\ taken' = data[item[c]]
  /\ Goto(c, "empty")
  /\ UNCHANGED <<head, next, held, table, item, todo, key, data, last, callVars>>

(* ...and given back, the last pointer being cleared when it was the only  *)
(* one.                                                                    *)
Emptied(c) ==
  /\ pc[c] = "empty"
  /\ last' = [last EXCEPT ![call[c].queue] =
                IF first[call[c].queue] = Null THEN Null ELSE @]
  /\ todo' = [todo EXCEPT ![c] = 1]
  /\ Goto(c, "link")
  /\ UNCHANGED <<head, next, held, table, item, key, data, first, callVars, taken>>

----------------------------------------------------------------------------

(* _q_init and _q_reset of every queue.                                    *)
Init ==
  /\ ListInit
  /\ key = [i \in NodeItems |-> 0]
  /\ data = [i \in NodeItems |-> 0]
  /\ first = [n \in QNames |-> Null]
  /\ last = [n \in QNames |-> Null]
  /\ call = [c \in Contexts |-> NoCall]
  /\ prev = [c \in Contexts |-> Null]
  /\ curr = [c \in Contexts |-> Null]
  /\ taken = 0
  /\ clash = FALSE

(* A queue without a hash function asks for no key.                        *)
KeysOf(n) == IF n \in Ordered THEN Keys ELSE {0}

(* The kernel uses every queue, a process inserts into the drivers'.       *)
QueueCall(c) ==
  \/ /\ c = Kernel
     /\ \E n \in QNames :
          \/ \E k \in KeysOf(n), d \in Data : CallInsert(c, n, k, d)
          \/ \E k \in Keys : CallRemoveIfLe(c, n, k)
          \/ CallRemove(c, n)
  \/ /\ c \in Users
     /\ \E n \in Shared, d \in Data : CallInsert(c, n, 0, d)

QueueStep(c) ==
  \/ Fill(c) \/ Search(c) \/ Join(c) \/ Hang(c) \/ SetLast(c)
  \/ Unlink(c) \/ Emptied(c)

RequestCall(p) ==
  /\ ReadHead(p, "request") \/ \E i \in Items : Release(p, i)
  /\ UNCHANGED <<nodeVars, callVars, taken>>

(* The list whose pointers a context has read and is about to write: a     *)
(* free list from the reading of its head to the writing of it, a queue    *)
(* from the reading of its first or last node to the end of the operation. *)
Inside(c) ==
  CASE pc[c] \in {"take", "put"} -> table[c]
    [] pc[c] \in {"search", "join", "hang", "tail", "unlink", "empty"} ->
         call[c].queue
    [] OTHER -> "none"

Meet == \E a, b \in Contexts :
          a # b /\ Inside(a) = Inside(b) /\ Inside(a) # "none"

(* The item that is put back will be put back once more.                   *)
PutsBackTwice(c) == pc[c] = "put" /\ todo[c] > 1

Next ==
  \E c \in Contexts :
    /\ MayRun(c)
    /\ \/ QueueCall(c) \/ QueueStep(c) \/ Alloc(c) \/ Dealloc(c)
       \/ c \in Users /\ RequestCall(c)
    /\ clash' = (clash \/ Meet' \/ PutsBackTwice(c))

Spec == Init /\ [][Next]_vars

----------------------------------------------------------------------------
(* Properties.                                                             *)

(* Every variable keeps its type (clash is a history).                     *)
TypeOK ==
  /\ head \in [Tables -> Items \cup {Null}]
  /\ next \in [Items -> Items \cup {Null}]
  /\ held \in [Users -> SUBSET Items]
  /\ table \in [Contexts -> Tables] /\ item \in [Contexts -> Items \cup {Null}]
  /\ todo \in [Contexts -> 0 .. Releases]
  /\ pc \in [Contexts -> {"idle", "take", "fill", "search", "join",
                          "hang", "tail", "unlink", "empty", "link", "put"}]
  /\ key \in [NodeItems -> Keys \cup {0}] /\ data \in [NodeItems -> Data \cup {0}]
  /\ first \in [QNames -> NodeItems \cup {Null}]
  /\ last \in [QNames -> NodeItems \cup {Null}]
  /\ prev \in [Contexts -> NodeItems \cup {Null}]
  /\ curr \in [Contexts -> NodeItems \cup {Null}]
  /\ taken \in Data \cup {0}

(* The free lists and the queues.                                          *)
Lists == Tables \cup QNames

Start(l) == IF l \in Tables THEN head[l] ELSE first[l]

(* The items on each of them.                                              *)
On(l) == Chain(IF l = "request" THEN "request" ELSE "node", Start(l))

(* An item belongs to one list, queue or process, never to two of them     *)
(* (queues.c 70-96, disk.c 23-45), however operations of the kernel fall   *)
(* between the steps of a process that allocates a request.                *)
NoItemShared ==
  /\ \A l \in Lists :
       LET on == On(l) IN
       /\ \A n \in QNames \ {l} : on \cap On(n) = {}
       /\ \A p \in Users : held[p] \cap on = {}
  /\ \A p, o \in Users : p # o => held[p] \cap held[o] = {}

(* No item is lost: one that nobody has and nobody is moving is on its     *)
(* free list or in a queue, so that a table is used up only when all of it *)
(* is in use.                                                              *)
NoItemLost ==
  Items = (UNION {On(l) : l \in Lists}) \cup (UNION {held[p] : p \in Users}) \cup Moving

(* However the operations of processes and of the kernel interleave, on    *)
(* different lists or one after the other on the same, every queue node    *)
(* and request stays at exactly one place (queues.c 70-96, disk.c 23-45),  *)
(* until two of them are between the reading and the writing of the same   *)
(* list or an item is put back twice: nothing else can damage a list.      *)
ItemsAccountedFor == ~clash => NoItemShared /\ NoItemLost

(* The items of s lead from item i to the end of its list.                 *)
IsPath(s, i, link) ==
  /\ i = IF s = <<>> THEN Null ELSE s[1]
  /\ \A j \in 1 .. Len(s) : link[s[j]] = IF j = Len(s) THEN Null ELSE s[j + 1]

NodeSeqs == UNION {[1 .. m -> NodeItems] : m \in 0 .. Nodes}

(* The path from node i.                                                   *)
PathFrom(i, link) == CHOOSE s \in NodeSeqs : IsPath(s, i, link)

(* The nodes of a queue in their order.                                    *)
Listed(n) ==
  LET s == PathFrom(first[n], next)
  IN  [j \in 1 .. Len(s) |-> [key |-> key[s[j]], data |-> data[s[j]]]]

(* As long as no list is damaged in one of these two ways, the linked      *)
(* lists of queues.c implement the sequences that the models of the kernel *)
(* use: every insertion comes after the nodes whose keys are not larger,   *)
(* or at the end, and every removal takes the first node and returns its   *)
(* datum.                                                                  *)
AbstractQueues == INSTANCE QueueSpec
  WITH queue <- [n \in QNames |-> Listed(n)], Capacity <- Nodes

ImplementsQueues ==
  /\ AbstractQueues!Init
  /\ [][clash' \/ AbstractQueues!Next]_<<[n \in QNames |-> Listed(n)], taken>>

(* Bounds of the run.  What the properties leave open is not explored; and *)
(* the fields of a free node are written before anybody reads them, so     *)
(* that states which differ in them alone are explored once.               *)
Undamaged == ~clash

Fields ==
  [i \in NodeItems |-> IF i \in On("node") THEN <<>> ELSE <<key[i], data[i]>>]

Seen == <<listVars, first, last, Fields, callVars, taken, clash>>

(* Data are told apart by nothing but equality, and so are processes.      *)
Permuted == Permutations(Data) \cup Permutations(Users)

=============================================================================

------------------------------ MODULE FreeList ------------------------------
(***************************************************************************)
(* The free lists of queue nodes (queues.c), disk requests (disk.c) and    *)
(* device handles (device.c): single lists linked through the free items   *)
(* themselves.  All three have the same code; a list is a table here, and  *)
(* requests and handles, which differ only in how often a release puts     *)
(* them back, are one table.  Requests are allocated by processes with     *)
(* interrupts enabled, so that a step of another context may come between  *)
(* reading the head of the list and changing it.                           *)
(***************************************************************************)
EXTENDS Integers, Sequences, FiniteSets

CONSTANTS Users,         \* processes that use the disk drivers
          Nodes,         \* queue nodes
          Requests,      \* disk requests, 256 in disk.c
          Releases,      \* times a request or handle is put back
          Interruptible  \* tables a process uses with interrupts enabled

Kernel   == "kernel"     \* handlers and system calls, interrupts masked
Contexts == Users \cup {Kernel}
Tables   == {"node", "request"}
Null     == 0
Items    == 1 .. Nodes + Requests
TableOf(i) == IF i <= Nodes THEN "node" ELSE "request"

ASSUME FreeListAssumption ==
  /\ Nodes \in Nat \ {0} /\ Requests \in Nat \ {0} /\ Releases \in {1, 2}
  /\ Kernel \notin Users /\ Interruptible \subseteq Tables

VARIABLES head,   \* first free item of each table, or Null
          next,   \* the next field of every item
          held,   \* requests each process has
          pc,     \* where each context is
          table,  \* the table it works on, "node" outside operations
          item,   \* its local variable, Null outside operations
          todo    \* releases still to do

listVars == <<head, next, held, pc, table, item, todo>>

(* One processor: a context moves when no other is inside an operation     *)
(* with interrupts masked.                                                 *)
MayRun(c) ==
  \A o \in Contexts \ {c} :
    \/ pc[o] = "idle"
    \/ o # Kernel /\ table[o] \in Interruptible

----------------------------------------------------------------------------

Goto(c, l) == pc' = [pc EXCEPT ![c] = l]

(* _qn_alloc, _disk_alloc_request, _dev_alloc_handle: the head is read; an *)
(* empty list ends the operation that needs the item...                    *)
ReadHead(c, t) ==
  /\ pc[c] = "idle"
  /\ IF head[t] = Null THEN UNCHANGED <<table, item, pc>>
     ELSE /\ table' = [table EXCEPT ![c] = t]
          /\ item' = [item EXCEPT ![c] = head[t]]
          /\ Goto(c, "take")
  /\ UNCHANGED <<head, next, held, todo>>

(* The allocated request belongs to the process.                           *)
Keep(c) ==
  /\ held' = [held EXCEPT ![c] = @ \cup {item[c]}]
  /\ item' = [item EXCEPT ![c] = Null]
  /\ table' = [table EXCEPT ![c] = "node"]
  /\ Goto(c, "idle")

(* Mutant: the list is not advanced.                                       *)
TakeKeepsHead(c) ==
  /\ pc[c] = "take"
  /\ next' = [next EXCEPT ![item[c]] = Null]
  /\ IF table[c] = "request"
     THEN Keep(c) ELSE UNCHANGED <<held, item, table>> /\ Goto(c, "fill")
  /\ UNCHANGED <<head, todo>>

(* ...then the list goes on behind it, and its fields are cleared.         *)
Take(c) ==
  /\ pc[c] = "take"
  /\ head' = [head EXCEPT ![table[c]] = next[item[c]]]
  /\ next' = [next EXCEPT ![item[c]] = Null]
  /\ IF table[c] = "request"
     THEN Keep(c) ELSE UNCHANGED <<held, item, table>> /\ Goto(c, "fill")
  /\ UNCHANGED todo

(* _qn_dealloc, _disk_dealloc_request, _dev_dealloc_handle: the item is    *)
(* linked to the list...                                                   *)
Link(c) ==
  /\ pc[c] = "link"
  /\ next' = [next EXCEPT ![item[c]] = head[table[c]]]
  /\ Goto(c, "put")
  /\ UNCHANGED <<head, held, table, item, todo>>

(* ...and becomes its head.                                                *)
Put(c) ==
  /\ pc[c] = "put"
  /\ head' = [head EXCEPT ![table[c]] = item[c]]
  /\ todo' = [todo EXCEPT ![c] = @ - 1]
  /\ item' = [item EXCEPT ![c] = IF todo[c] > 1 THEN @ ELSE Null]
  /\ table' = [table EXCEPT ![c] = IF todo[c] > 1 THEN @ ELSE "node"]
  /\ Goto(c, IF todo[c] > 1 THEN "link" ELSE "idle")
  /\ UNCHANGED <<next, held>>

(* A process gives a request or handle back; _dev_close does so once more  *)
(* after _rd_close or _ata_close has done it.                              *)
Release(p, i) ==
  /\ pc[p] = "idle" /\ i \in held[p]
  /\ held' = [held EXCEPT ![p] = @ \ {i}]
  /\ item' = [item EXCEPT ![p] = i]
  /\ table' = [table EXCEPT ![p] = "request"]
  /\ todo' = [todo EXCEPT ![p] = Releases]
  /\ Goto(p, "link")
  /\ UNCHANGED <<head, next>>

----------------------------------------------------------------------------

(* The lists that _q_init, _dev_init and _disk_init build by giving back   *)
(* one item after the other: the last item comes first.                    *)
ListInit ==
  /\ head = [t \in Tables |-> IF t = "node" THEN Nodes ELSE Nodes + Requests]
  /\ next = [i \in Items |-> IF i = Nodes + 1 THEN Null ELSE i - 1]
  /\ held = [p \in Users |-> {}]
  /\ pc = [c \in Contexts |-> "idle"]
  /\ table = [c \in Contexts |-> "node"]
  /\ item = [c \in Contexts |-> Null]
  /\ todo = [c \in Contexts |-> 0]

(* The items of a table.                                                   *)
ItemsOf(t) == {i \in Items : TableOf(i) = t}

(* The items on a list of table t that starts with i: the least set that   *)
(* has i and what follows each of its items.                               *)
Chain(t, i) ==
  LET closed == {S \in SUBSET ItemsOf(t) :
                   i \in S \cup {Null} /\ \A k \in S : next[k] \in S \cup {Null}}
  IN  {j \in ItemsOf(t) : \A S \in closed : j \in S}

(* Items between a list and their place.                                   *)
Moving == {item[c] : c \in {o \in Contexts : pc[o] # "idle"}}

============================================================================

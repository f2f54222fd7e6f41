------------------------------- MODULE KQueue -------------------------------
(***************************************************************************)
(* The kernel's generic queue (src/queues.c) as a sequence of queue nodes. *)
(* A queue is FIFO, or ordered by the key its hash function computes when  *)
(* the datum is inserted; the key of a FIFO node stays 0.                  *)
(***************************************************************************)
EXTENDS Naturals, Sequences

(* A queue node: the key computed at insertion and the datum it carries. *)
QNode(key, data) == [key |-> key, data |-> data]

(* Mutant: an ordered queue is filled like a FIFO one. *)
InsertionPointAtEnd(s, key) == Len(s)

(* How many nodes precede the new one in an ordered queue: the search      *)
(* walks over every leading node whose key is at most the new key.         *)
InsertionPoint(s, key) ==
  CHOOSE i \in 0 .. Len(s) : /\ \A j \in 1 .. i : s[j].key <= key
                             /\ i < Len(s) => s[i + 1].key > key

(* Link node n behind the first i nodes of s. *)
LinkAfter(s, i, n) ==
  [j \in 1 .. Len(s) + 1 |-> IF j <= i THEN s[j]
                             ELSE IF j = i + 1 THEN n ELSE s[j - 1]]

(* Mutant: the new node becomes the first. *)
InsertFifoAtFront(s, data) == LinkAfter(s, 0, QNode(0, data))

(* _q_insert without and with a hash function. *)
InsertFifo(s, data) == LinkAfter(s, Len(s), QNode(0, data))

InsertOrdered(s, key, data) ==
  LinkAfter(s, InsertionPoint(s, key), QNode(key, data))

(* Mutant: a node is due only after its key has passed. *)
FirstIsLt(s, key) == s # <<>> /\ Head(s).key < key

(* The test of _q_remove_if_le: the first node is due at `key'. *)
FirstIsLe(s, key) == s # <<>> /\ Head(s).key <= key
=============================================================================

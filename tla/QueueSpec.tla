----------------------------- MODULE QueueSpec -----------------------------
(***************************************************************************)
(* What the queues of queues.c promise: each is a sequence of nodes that   *)
(* grows by an insertion at the place of its kind and shrinks at its head, *)
(* and all of them together hold no more than Capacity nodes.  The other   *)
(* modules use queues in this form, through KQueue.                        *)
(***************************************************************************)
EXTENDS KQueue, FiniteSets

CONSTANTS Ordered, Fifo,   \* queues with and without a hash function
          Keys, Data, Capacity

VARIABLES queue,   \* queue[n] is the contents of queue n
          taken    \* datum of the removal in progress, which it returns

Names == Ordered \cup Fifo

Size == Cardinality(UNION {{n} \X (1 .. Len(queue[n])) : n \in Names})

(* What the hash function of queue n may return, if it has one.            *)
KeysOf(n) == IF n \in Ordered THEN Keys ELSE {0}

Insert(n, k, d) ==
  /\ queue' = [queue EXCEPT ![n] = IF n \in Ordered THEN InsertOrdered(@, k, d)
                                                    ELSE InsertFifo(@, d)]
  /\ UNCHANGED taken

Remove(n) ==
  /\ queue[n] # <<>>
  /\ taken' = Head(queue[n]).data
  /\ queue' = [queue EXCEPT ![n] = Tail(@)]

Return == taken' = 0 /\ UNCHANGED queue

Init == queue = [n \in Names |-> <<>>] /\ taken = 0

Next == \/ Return
        \/ \E n \in Names : Remove(n)
        \/ /\ Size < Capacity
           /\ \E n \in Names : \E k \in KeysOf(n), d \in Data : Insert(n, k, d)

Spec == Init /\ [][Next]_<<queue, taken>>
=============================================================================

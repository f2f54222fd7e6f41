------------------------------ MODULE KeyQueue ------------------------------
(***************************************************************************)
(* What console input promises (c_io.h): characters typed are kept in      *)
(* order until a program calls for them, and discarded only when the       *)
(* queue is full.                                                          *)
(***************************************************************************)
EXTENDS Naturals, Sequences

CONSTANTS Codes,    \* characters
          Capacity  \* of the queue

VARIABLES keys,  \* characters not yet read
          last,  \* the character read last
          lost   \* the character typed last was discarded

Init == keys = <<>> /\ last = "none" /\ lost = FALSE

Type(c) == /\ Len(keys) < Capacity
           /\ keys' = Append(keys, c) /\ lost' = FALSE
           /\ UNCHANGED last

Discard == /\ Len(keys) = Capacity
           /\ lost' = TRUE
           /\ UNCHANGED <<keys, last>>

Read == /\ keys # <<>>
        /\ last' = Head(keys) /\ keys' = Tail(keys)
        /\ UNCHANGED lost

Next == (\E c \in Codes : Type(c)) \/ Discard \/ Read

Spec == Init /\ [][Next]_<<keys, last, lost>>
============================================================================

----------------------------- MODULE SerialSpec -----------------------------
(***************************************************************************)
(* What the serial line promises its users: read() and write() are two     *)
(* FIFO character streams.  Input that arrives while nobody waits is kept, *)
(* up to BUF_SIZE characters; the rest is ignored.  Output is sent in the  *)
(* order in which it was written, with LF expanded to CR LF.               *)
(***************************************************************************)
EXTENDS Naturals, Sequences

CONSTANTS
  BUF_SIZE,  \* characters kept for later readers
  Chars,     \* characters that arrive and are written
  Readers    \* processes that read

VARIABLES
  inq,       \* input that nobody has read yet
  waiting,   \* processes that wait for input, first come first served
  given,     \* the reads answered so far: who got which character
  outq,      \* output that has not been sent yet
  sent       \* output on the line

vars == <<inq, waiting, given, outq, sent>>

Input(c) == IF c = "cr" THEN "lf" ELSE c
Output(c) == IF c = "lf" THEN <<"cr", "lf">> ELSE <<c>>

Init == inq = <<>> /\ waiting = <<>> /\ given = <<>> /\ outq = <<>> /\ sent = <<>>

(* A character arrives. *)
Arrive(c) ==
  /\ IF waiting # <<>>
     THEN /\ given' = Append(given, <<Head(waiting), Input(c)>>)
          /\ waiting' = Tail(waiting)
          /\ UNCHANGED inq
     ELSE /\ inq' = IF Len(inq) < BUF_SIZE THEN Append(inq, Input(c)) ELSE inq
          /\ UNCHANGED <<given, waiting>>
  /\ UNCHANGED <<outq, sent>>

Read(p) ==
  /\ IF inq # <<>>
     THEN /\ given' = Append(given, <<p, Head(inq)>>)
          /\ inq' = Tail(inq)
          /\ UNCHANGED waiting
     ELSE /\ waiting' = Append(waiting, p)
          /\ UNCHANGED <<given, inq>>
  /\ UNCHANGED <<outq, sent>>

Write(c) == /\ outq' = outq \o Output(c)
            /\ UNCHANGED <<inq, waiting, given, sent>>

Send == /\ outq # <<>>
        /\ sent' = Append(sent, Head(outq))
        /\ outq' = Tail(outq)
        /\ UNCHANGED <<inq, waiting, given>>

Next == \/ \E c \in Chars : Arrive(c) \/ Write(c)
        \/ \E p \in Readers : Read(p)
        \/ Send

Spec == Init /\ [][Next]_vars
=============================================================================

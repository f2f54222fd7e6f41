------------------------------ MODULE Keyboard ------------------------------
(***************************************************************************)
(* Console input (c_io.c): the keyboard handler, the circular buffer, and  *)
(* c_gets in the processes, which take characters out with interrupts      *)
(* enabled, or poll the keyboard themselves when they are disabled.        *)
(***************************************************************************)
EXTENDS Screen

CONSTANTS Readers,    \* processes that read
          Keys,       \* keys, among "d", "enter" and "f1", which has no character
          Sizes,      \* sizes of their buffers
          C_BUFSIZE,  \* size of the circular buffer, 200 in the code
          MaxScans    \* scan codes that arrive

ASSUME KeyboardAssumption ==
  Sizes \subseteq Nat \ {0} /\ C_BUFSIZE \in Nat \ {0, 1} /\ MaxScans \in Nat

VARIABLES ring, next_char, next_space,   \* __c_input_buffer and its pointers
          shift, ctrl,                   \* of __c_input_scan_code
          pc, ch, size, line,            \* c_gets and c_getchar in each process
          masked,                        \* who reads with interrupts disabled
          last, lost,                    \* character read last; the last one typed was discarded
          scans                          \* scan codes so far

keyVars == <<ring, next_char, next_space, shift, ctrl, lost, scans>>
readVars == <<pc, ch, size, line, masked, last>>
vars == <<keyVars, readVars, screenVars>>

Codes == {"d", "D", "eot", "nl", "ff", "us"}

None == "none"

----------------------------------------------------------------------------

(* __c_increment: the buffer is circular.                                  *)
Increment(i) == IF i + 1 >= C_BUFSIZE THEN 0 ELSE i + 1

(* c_input_queue.                                                          *)
InputQueue == IF next_space < next_char THEN next_space - next_char + C_BUFSIZE
                                        ELSE next_space - next_char

(* scan_code under the shift and control keys.  The entries for keys that  *)
(* have no character, \377, are stored as well: they are 255 in the table, *)
(* and the constant they are compared with is -1, as char is signed.       *)
CodeOf(k) ==
  CASE k = "enter" -> "nl"
    [] k = "d"  -> IF ctrl THEN "eot" ELSE IF shift THEN "D" ELSE "d"
    [] OTHER    -> IF ctrl THEN "us" ELSE "ff"

(* Mutant: the free cell that tells full from empty is filled.             *)
StoreFills(c) ==
  LET next == Increment(next_space)
  IN /\ ring' = [ring EXCEPT ![next_space] = c] /\ next_space' = next
     /\ lost' = FALSE

(* A character is stored if there is room.                                 *)
Store(c) ==
  LET next == Increment(next_space)
  IN IF next # next_char
     THEN /\ ring' = [ring EXCEPT ![next_space] = c] /\ next_space' = next
          /\ lost' = FALSE
     ELSE lost' = TRUE /\ UNCHANGED <<ring, next_space>>

(* A scan code is read by the handler, or by the reader that polls while   *)
(* interrupts are disabled.                                                *)
Arrives ==
  /\ scans < MaxScans /\ scans' = scans + 1
  /\ masked # None => pc[masked] = "wait" /\ next_char = next_space

(* Other keys count when they are pressed; their release changes nothing.  *)
Press(k) ==
  /\ Arrives /\ Store(CodeOf(k))
  /\ UNCHANGED <<next_char, shift, ctrl, readVars, screenVars>>

Shift(down) ==
  /\ Arrives /\ shift' = down
  /\ UNCHANGED <<ring, next_char, next_space, ctrl, lost, readVars, screenVars>>

Control(down) ==
  /\ Arrives /\ ctrl' = down
  /\ UNCHANGED <<ring, next_char, next_space, shift, lost, readVars, screenVars>>

----------------------------------------------------------------------------

(* Nobody else runs while interrupts are disabled.                         *)
Runs(p) == masked \in {None, p}

(* c_gets is called; c_getchar alone is c_gets with a buffer of two.       *)
Gets(p, n, enabled) ==
  /\ pc[p] = "user" /\ masked = None
  /\ size' = [size EXCEPT ![p] = n] /\ line' = [line EXCEPT ![p] = <<>>]
  /\ pc' = [pc EXCEPT ![p] = IF n > 1 THEN "wait" ELSE "user"]
  /\ masked' = IF n > 1 /\ ~enabled THEN p ELSE None
  /\ UNCHANGED <<ch, last, keyVars, screenVars>>

(* c_getchar: the next character is read...                                *)
Take(p) ==
  /\ pc[p] = "wait" /\ Runs(p) /\ next_char # next_space
  /\ ch' = [ch EXCEPT ![p] = ring[next_char]]
  /\ pc' = [pc EXCEPT ![p] = "advance"]
  /\ UNCHANGED <<size, line, masked, last, keyVars, screenVars>>

(* ...taken out...                                                         *)
Advance(p) ==
  /\ pc[p] = "advance" /\ Runs(p)
  /\ next_char' = Increment(next_char) /\ last' = ch[p]
  /\ pc' = [pc EXCEPT ![p] = "echo"]
  /\ UNCHANGED <<ring, next_space, shift, ctrl, lost, scans, ch, size, line, masked, screenVars>>

(* Mutant: end of file is waited for in vain.                              *)
EndsAtNewline(p) ==
  ch[p] = "nl" \/ size[p] - (Len(line[p]) + 1) <= 1

(* When c_gets returns after this character.                               *)
Ends(p) ==
  ch[p] \in {"eot", "nl"} \/ size[p] - (Len(line[p]) + 1) <= 1

(* ...and, unless it is the end of file, echoed; c_gets stores it.         *)
Echo(p) ==
  /\ pc[p] = "echo" /\ Runs(p)
  /\ IF ch[p] = "eot"
     THEN UNCHANGED <<line, screenVars>>
     ELSE /\ line' = [line EXCEPT ![p] = Append(@, ch[p])]
          /\ PutChar(ch[p])
  /\ pc' = [pc EXCEPT ![p] = IF Ends(p) THEN "user" ELSE "wait"]
  /\ masked' = IF Ends(p) THEN None ELSE masked
  /\ UNCHANGED <<ch, size, last, keyVars>>

----------------------------------------------------------------------------

Init ==
  /\ ring = [i \in 0 .. C_BUFSIZE - 1 |-> None] /\ next_char = 0 /\ next_space = 0
  /\ shift = FALSE /\ ctrl = FALSE /\ scans = 0
  /\ pc = [p \in Readers |-> "user"] /\ ch = [p \in Readers |-> None]
  /\ size = [p \in Readers |-> 1] /\ line = [p \in Readers |-> <<>>]
  /\ masked = None /\ last = None /\ lost = FALSE
  /\ ScreenInit

Step(p) == Take(p) \/ Advance(p) \/ Echo(p)

Next ==
  \/ \E k \in Keys : Press(k)
  \/ \E down \in BOOLEAN : Shift(down) \/ Control(down)
  \/ \E p \in Readers :
       \/ \E n \in Sizes, enabled \in BOOLEAN : Gets(p, n, enabled)
       \/ Step(p)

Spec == Init /\ [][Next]_vars

(* The scheduler gives a process in c_gets the CPU again and again.        *)
FairSpec == Spec /\ \A p \in Readers : WF_vars(Step(p))

----------------------------------------------------------------------------
(* Properties.                                                             *)

(* Every variable keeps its type, and c_putchar finds the cursor where it  *)
(* may be.                                                                 *)
TypeOK ==
  /\ ring \in [0 .. C_BUFSIZE - 1 -> Codes \cup {None}]
  /\ next_char \in 0 .. C_BUFSIZE - 1 /\ next_space \in 0 .. C_BUFSIZE - 1
  /\ {shift, ctrl, lost} \subseteq BOOLEAN
  /\ pc \in [Readers -> {"user", "wait", "advance", "echo"}]
  /\ ch \in [Readers -> Codes \cup {None}] /\ size \in [Readers -> Sizes \cup {1}]
  /\ line \in [Readers -> Seq(Codes)] /\ masked \in Readers \cup {None}
  /\ last \in Codes \cup {None} /\ scans \in 0 .. MaxScans
  /\ cursor.y \in region.min_y .. region.max_y + 1

(* The characters in the buffer.                                           *)
Held == [i \in 1 .. InputQueue |-> ring[(next_char + i - 1) % C_BUFSIZE]]

Queue == INSTANCE KeyQueue WITH keys <- Held, Capacity <- C_BUFSIZE - 1

(* The buffer, shared by the handler and a reader that the handler         *)
(* interrupts between reading a cell and giving it free (c_io.c 552-645),  *)
(* is the queue that c_io.h promises: it wraps, fills and empties without  *)
(* losing, repeating or reordering characters.                             *)
ImplementsQueue == Queue!Spec

(* c_gets returns once a newline or an end of file is in the buffer,       *)
(* whether interrupts are enabled or not (c_io.c 623-665).                 *)
LineEnds ==
  \A p \in Readers :
    (pc[p] \in {"wait", "advance"} /\ \E i \in 1 .. InputQueue : Held[i] \in {"nl", "eot"})
      ~> (pc[p] = "user")

----------------------------------------------------------------------------
(* What the code's comments promise and the code does not keep.            *)

(* "Ignore undefined scan codes" (c_io.c 599).                             *)
UndefinedIgnored == \A i \in 1 .. InputQueue : Held[i] \notin {"ff", "us"}

============================================================================

---------------------------- MODULE ConsoleProofs ----------------------------
(***************************************************************************)
(* Proofs about the console: the circular buffer of the keyboard driver is *)
(* the bounded queue of KeyQueue, for a buffer of any size, any keys and   *)
(* any sizes of lines; and output shows what was put, on screens and in    *)
(* regions of any size.                                                    *)
(***************************************************************************)
EXTENDS Keyboard, Console, TLAPS, WellFoundedInduction

(* c_getchar is in one process at a time: two that read at once may get    *)
(* the same character.                                                     *)
OneReader == \A p, r \in Readers : p = r

(* The cells, the pointers, and how far each reader is. *)
BufferTyped ==
  /\ ring \in [0 .. C_BUFSIZE - 1 -> Codes \cup {None}]
  /\ next_char \in 0 .. C_BUFSIZE - 1 /\ next_space \in 0 .. C_BUFSIZE - 1
  /\ pc \in [Readers -> {"user", "wait", "advance", "echo"}]
  /\ ch \in [Readers -> Codes \cup {None}]

(* A reader between reading a cell and giving it free still holds what is  *)
(* in the cell, whatever the handler stored in the meantime.               *)
CellKept ==
  \A p \in Readers :
    pc[p] = "advance" => next_char # next_space /\ ch[p] = ring[next_char]

BufferInvariant == BufferTyped /\ CellKept

-----------------------------------------------------------------------------

(* The remainder of a position less than two rounds on. *)
LEMMA Remainder ==
  ASSUME NEW n \in Nat \ {0}, NEW a \in 0 .. 2 * n - 1
  PROVE  a % n = IF a < n THEN a ELSE a - n
OBVIOUS

(* The cell of character i, of those held from cell n on. *)
Cell(n, i) == IF n + i - 1 < C_BUFSIZE THEN n + i - 1 ELSE n + i - 1 - C_BUFSIZE

(* The characters held, without the remainder. *)
CellsHeld ==
  /\ InputQueue \in 0 .. C_BUFSIZE - 1
  /\ Held = [i \in 1 .. InputQueue |-> ring[Cell(next_char, i)]]

(* The buffer holds less than a round. *)
LEMMA HeldCells == BufferTyped => CellsHeld
<1> SUFFICES ASSUME BufferTyped
             PROVE  CellsHeld
  OBVIOUS
<1>1. InputQueue \in 0 .. C_BUFSIZE - 1
  BY KeyboardAssumption DEF BufferTyped, InputQueue
<1>2. ASSUME NEW i \in 1 .. InputQueue
      PROVE  (next_char + i - 1) % C_BUFSIZE = Cell(next_char, i)
  <2>1. C_BUFSIZE \in Nat \ {0} /\ next_char + i - 1 \in 0 .. 2 * C_BUFSIZE - 1
    BY <1>1, KeyboardAssumption DEF BufferTyped
  <2> DEFINE a == next_char + i - 1
  <2> HIDE DEF a
  <2>2. a % C_BUFSIZE = IF a < C_BUFSIZE THEN a ELSE a - C_BUFSIZE
    BY <2>1, Remainder DEF a
  <2>3. Cell(next_char, i) = IF a < C_BUFSIZE THEN a ELSE a - C_BUFSIZE
    BY <1>1, KeyboardAssumption DEF a, Cell, BufferTyped
  <2> QED BY <2>2, <2>3 DEF a
<1> QED BY <1>1, <1>2 DEF Held, CellsHeld

(* The same after a step. *)
LEMMA HeldCellsNext == BufferTyped' => CellsHeld'
BY HeldCells, PTL

(* At the start nothing is held. *)
LEMMA Starts == Init => BufferInvariant /\ Queue!Init
<1> SUFFICES ASSUME Init
             PROVE  BufferInvariant /\ Queue!Init
  OBVIOUS
<1>1. BufferInvariant
  BY KeyboardAssumption DEF Init, BufferInvariant, BufferTyped, CellKept
<1>2. InputQueue = 0
  BY DEF Init, InputQueue
<1>3. Held = <<>>
  BY <1>2 DEF Held
<1> QED BY <1>1, <1>3 DEF Init, Queue!Init, None

(* What keeps the buffer and makes no reader take a character changes      *)
(* nothing that KeyQueue speaks of.                                        *)
LEMMA Silent ==
  ASSUME UNCHANGED <<ring, next_char, next_space, last, lost>>
  PROVE  UNCHANGED <<Held, last, lost>>
BY DEF Held, InputQueue

(* A key is stored behind the characters held, or discarded if the buffer  *)
(* is full; a reader that has read a cell is not disturbed.                *)
LEMMA PressStep ==
  ASSUME BufferInvariant, NEW k \in Keys, Press(k)
  PROVE  BufferInvariant' /\ Queue!Next
<1> DEFINE c == CodeOf(k)
           next == Increment(next_space)
<1>1. c \in Codes
  BY DEF CodeOf, Codes
<1>2. BufferTyped /\ CellKept /\ C_BUFSIZE \in Nat \ {0, 1}
  BY KeyboardAssumption DEF BufferInvariant
<1>3. Store(c) /\ UNCHANGED <<next_char, pc, ch, last>>
  BY DEF Press, readVars
<1>4. next \in 0 .. C_BUFSIZE - 1
  BY <1>2 DEF Increment, BufferTyped
<1>5. InputQueue \in 0 .. C_BUFSIZE - 1
  BY <1>2, HeldCells DEF CellsHeld
<1> HIDE DEF c
<1>6. CASE next # next_char
  <2>1. ring' = [ring EXCEPT ![next_space] = c] /\ next_space' = next /\ ~lost'
    BY <1>3, <1>6 DEF Store
  <2>2. BufferTyped'
    BY <1>1, <1>2, <1>3, <1>4, <2>1 DEF BufferTyped
  <2>3. CellKept'
    BY <1>2, <1>3, <1>6, <2>1 DEF BufferTyped, CellKept
  <2>4. InputQueue' = InputQueue + 1 /\ InputQueue < C_BUFSIZE - 1
    BY <1>2, <1>3, <1>6, <2>1 DEF BufferTyped, InputQueue, Increment
  <2>5. Len(Held) = InputQueue
    BY <1>5 DEF Held
  <2>6. Held' = Append(Held, c)
    <3> DEFINE cell(i) == Cell(next_char, i)
    <3>1. Held = [i \in 1 .. InputQueue |-> ring[cell(i)]]
      BY <1>2, HeldCells DEF CellsHeld
    <3>2. Held' = [i \in 1 .. InputQueue + 1 |-> ring'[cell(i)]]
      BY <1>3, <2>2, <2>4, HeldCellsNext DEF CellsHeld
    <3>3. cell(InputQueue + 1) = next_space
      BY <1>2 DEF BufferTyped, InputQueue, Cell
    <3>4. ASSUME NEW i \in 1 .. InputQueue
          PROVE  cell(i) # next_space /\ cell(i) \in 0 .. C_BUFSIZE - 1
      BY <1>2, <1>5 DEF BufferTyped, InputQueue, Cell
    <3>5. ring'[next_space] = c /\ \A i \in 1 .. InputQueue : ring'[cell(i)] = ring[cell(i)]
      BY <1>2, <2>1, <3>4 DEF BufferTyped
    <3> HIDE DEF cell
    <3>6. Append(Held, c) = [i \in 1 .. InputQueue + 1 |-> IF i <= InputQueue THEN ring[cell(i)] ELSE c]
      BY <1>5, <2>5, <3>1
    <3>7. \A i \in 1 .. InputQueue + 1 :
            ring'[cell(i)] = IF i <= InputQueue THEN ring[cell(i)] ELSE c
      BY <1>5, <3>3, <3>5
    <3> QED BY <3>2, <3>6, <3>7
  <2>7. Queue!Type(c)
    BY <1>3, <2>1, <2>4, <2>5, <2>6 DEF Queue!Type
  <2> QED BY <1>1, <2>2, <2>3, <2>7 DEF BufferInvariant, Queue!Next
<1>7. CASE next = next_char
  <2>1. lost' /\ UNCHANGED <<ring, next_space>>
    BY <1>3, <1>7 DEF Store
  <2>2. BufferInvariant'
    BY <1>2, <1>3, <2>1 DEF BufferInvariant, BufferTyped, CellKept
  <2>3. InputQueue = C_BUFSIZE - 1
    BY <1>2, <1>7 DEF BufferTyped, InputQueue, Increment
  <2>4. Len(Held) = C_BUFSIZE - 1
    BY <1>2, <2>3 DEF Held
  <2>5. UNCHANGED Held
    BY <1>3, <2>1 DEF Held, InputQueue
  <2>6. Queue!Discard
    BY <1>3, <2>1, <2>4, <2>5 DEF Queue!Discard
  <2> QED BY <2>2, <2>6 DEF Queue!Next
<1> QED BY <1>6, <1>7

(* The reader takes the first character held. *)
LEMMA AdvanceStep ==
  ASSUME OneReader, BufferInvariant, NEW p \in Readers, Advance(p)
  PROVE  BufferInvariant' /\ Queue!Read
<1>1. BufferTyped /\ CellKept /\ C_BUFSIZE \in Nat \ {0, 1}
  BY KeyboardAssumption DEF BufferInvariant
<1>2. /\ next_char' = Increment(next_char) /\ last' = ch[p]
      /\ pc' = [pc EXCEPT ![p] = "echo"]
      /\ UNCHANGED <<ring, next_space, lost, ch>>
  BY DEF Advance
<1>3. next_char # next_space /\ ch[p] = ring[next_char]
  BY <1>1 DEF Advance, CellKept
<1>4. BufferTyped'
  BY <1>1, <1>2 DEF BufferTyped, Increment
<1>5. CellKept'
  BY <1>1, <1>2 DEF OneReader, BufferTyped, CellKept
<1>6. InputQueue' = InputQueue - 1 /\ InputQueue \in 1 .. C_BUFSIZE - 1
  BY <1>1, <1>2, <1>3 DEF BufferTyped, InputQueue, Increment
<1>7. Held = [i \in 1 .. InputQueue |-> ring[Cell(next_char, i)]]
  BY <1>1, HeldCells DEF CellsHeld
<1>8. Held' = [i \in 1 .. InputQueue - 1 |-> ring[Cell(next_char', i)]]
  BY <1>2, <1>4, <1>6, HeldCellsNext DEF CellsHeld
<1>9. Cell(next_char, 1) = next_char
  BY <1>1 DEF BufferTyped, Cell
<1>10. ASSUME NEW i \in 1 .. InputQueue - 1
       PROVE  Cell(next_char', i) = Cell(next_char, i + 1)
  BY <1>1, <1>2, <1>6 DEF BufferTyped, Increment, Cell
<1>11. Held # <<>> /\ Head(Held) = ring[next_char]
  BY <1>6, <1>7, <1>9
<1>12. Tail(Held) = [i \in 1 .. InputQueue - 1 |-> ring[Cell(next_char, i + 1)]]
  BY <1>6, <1>7
<1>13. Held' = Tail(Held)
  BY <1>8, <1>10, <1>12
<1> QED BY <1>2, <1>3, <1>4, <1>5, <1>11, <1>13 DEF BufferInvariant, Queue!Read

(* Every step keeps the invariant and is a step of the queue. *)
LEMMA Steps ==
  ASSUME OneReader, BufferInvariant, [Next]_vars
  PROVE  BufferInvariant' /\ [Queue!Next]_<<Held, last, lost>>
<1>1. CASE \E k \in Keys : Press(k)
  BY <1>1, PressStep
<1>2. CASE \E down \in BOOLEAN : Shift(down) \/ Control(down)
  <2>1. UNCHANGED <<ring, next_char, next_space, last, lost, pc, ch>>
    BY <1>2 DEF Shift, Control, readVars
  <2> QED BY <2>1, Silent DEF BufferInvariant, BufferTyped, CellKept
<1>3. ASSUME NEW p \in Readers, NEW n \in Sizes, NEW enabled \in BOOLEAN, Gets(p, n, enabled)
      PROVE  BufferInvariant' /\ [Queue!Next]_<<Held, last, lost>>
  <2>1. /\ UNCHANGED <<ring, next_char, next_space, last, lost, ch>>
        /\ pc' = [pc EXCEPT ![p] = IF n > 1 THEN "wait" ELSE "user"]
    BY <1>3 DEF Gets, keyVars
  <2>2. BufferInvariant'
    BY <2>1 DEF BufferInvariant, BufferTyped, CellKept
  <2> QED BY <2>1, <2>2, Silent
<1>4. ASSUME NEW p \in Readers, Take(p)
      PROVE  BufferInvariant' /\ [Queue!Next]_<<Held, last, lost>>
  <2>1. /\ UNCHANGED <<ring, next_char, next_space, last, lost>>
        /\ pc' = [pc EXCEPT ![p] = "advance"] /\ ch' = [ch EXCEPT ![p] = ring[next_char]]
        /\ next_char # next_space
    BY <1>4 DEF Take, keyVars
  <2>2. BufferInvariant'
    BY <2>1 DEF BufferInvariant, BufferTyped, CellKept
  <2> QED BY <2>1, <2>2, Silent
<1>5. ASSUME NEW p \in Readers, Advance(p)
      PROVE  BufferInvariant' /\ [Queue!Next]_<<Held, last, lost>>
  BY <1>5, AdvanceStep DEF Queue!Next
<1>6. ASSUME NEW p \in Readers, Echo(p)
      PROVE  BufferInvariant' /\ [Queue!Next]_<<Held, last, lost>>
  <2>1. /\ UNCHANGED <<ring, next_char, next_space, last, lost, ch>>
        /\ pc' = [pc EXCEPT ![p] = IF Ends(p) THEN "user" ELSE "wait"]
    BY <1>6 DEF Echo, keyVars
  <2>2. BufferInvariant'
    BY <2>1 DEF BufferInvariant, BufferTyped, CellKept
  <2> QED BY <2>1, <2>2, Silent
<1>7. CASE UNCHANGED vars
  <2>1. UNCHANGED <<ring, next_char, next_space, last, lost, pc, ch>>
    BY <1>7 DEF vars, keyVars, readVars
  <2> QED BY <2>1, Silent DEF BufferInvariant, BufferTyped, CellKept
<1> QED BY <1>1, <1>2, <1>3, <1>4, <1>5, <1>6, <1>7 DEF Next, Step

-----------------------------------------------------------------------------

(* While one process reads, the cell it read stays as it was until its     *)
(* pointer is advanced, although the handler stores characters (c_io.c     *)
(* 623-645).                                                               *)
THEOREM Invariance ==
  ASSUME OneReader
  PROVE  Spec => []BufferInvariant
<1>1. Init => BufferInvariant
  BY Starts
<1>2. BufferInvariant /\ [Next]_vars => BufferInvariant'
  BY Steps
<1> QED BY <1>1, <1>2, PTL DEF Spec

(* The circular buffer is the queue of characters that c_io.h promises, as *)
(* long as one process reads: none is lost, repeated or reordered, and one *)
(* is discarded only if the buffer is full.                                *)
THEOREM QueueImplemented ==
  ASSUME OneReader
  PROVE  Spec => ImplementsQueue
<1>1. Init => Queue!Init
  BY Starts
<1>2. BufferInvariant /\ [Next]_vars => [Queue!Next]_<<Held, last, lost>>
  BY Steps
<1> QED BY <1>1, <1>2, Invariance, PTL DEF Spec, ImplementsQueue, Queue!Spec

-----------------------------------------------------------------------------
(* Induction.                                                              *)

(* A set of numbers that is not empty has a least element.                 *)
LEMMA LeastNumber ==
  ASSUME NEW T, T \subseteq Nat, T # {}
  PROVE  \E n \in T : \A m \in T : n <= m
<1> DEFINE R == OpToRel(<, Nat)
<1>1. \A x, y \in Nat : <<y, x>> \in R <=> y < x
  BY DEF OpToRel
<1>2. IsWellFoundedOn(R, Nat)
  BY NatLessThanWellFounded
<1> HIDE DEF R
<1>3. PICK n \in T : \A y \in T : ~ (<<y, n>> \in R)
  BY <1>2, WFMin
<1>4. ASSUME NEW m \in T PROVE n <= m
  <2>1. m \in Nat /\ n \in Nat /\ ~ (<<m, n>> \in R)
    BY <1>3
  <2>2. ~(m < n)
    BY <1>1, <2>1
  <2> QED BY <2>1, <2>2
<1> QED BY <1>4

-----------------------------------------------------------------------------
(* Numbers and texts of c_printf.                                          *)

(* The width of an integer is a multiple of four.                          *)
LEMMA BitsNumber == Bits \in Nat /\ Bits % 4 = 0 /\ Bits >= 8
BY FormatAssumption

(* What the recursive definition of the powers computes.                   *)
LEMMA PowerRuns ==
  Power2[0] = 1 /\ \A n \in 1 .. Bits : Power2[n] = 2 * Power2[n - 1]
<1> DEFINE Follows(f, n) == f = [i \in 0 .. n |-> IF i = 0 THEN 1 ELSE 2 * f[i - 1]]
<1>1. \A n \in Nat : \E f : Follows(f, n)
  <2> DEFINE T == {n \in Nat : ~\E f : Follows(f, n)}
  <2>1. SUFFICES ASSUME T # {} PROVE FALSE
    OBVIOUS
  <2>2. PICK n \in T : \A m \in T : n <= m
    <3>1. T \subseteq Nat
      OBVIOUS
    <3> QED BY <3>1, <2>1, LeastNumber
  <2>3. CASE n = 0
    <3>1. Follows([i \in 0 .. 0 |-> 1], 0)
      OBVIOUS
    <3> QED BY <3>1, <2>2, <2>3
  <2>4. CASE n # 0
    <3>1. n - 1 \in Nat /\ n - 1 \notin T
      <4>1. n \in Nat
        OBVIOUS
      <4> HIDE DEF T
      <4> QED BY <4>1, <2>2, <2>4
    <3>2. PICK f : Follows(f, n - 1)
      BY <3>1
    <3> DEFINE g == [i \in 0 .. n |-> IF i < n THEN f[i] ELSE 2 * f[n - 1]]
    <3>3. \A i \in 0 .. n : g[i] = IF i = 0 THEN 1 ELSE 2 * g[i - 1]
      BY <3>1, <3>2, <2>2, <2>4
    <3>4. Follows(g, n)
      <4>1. g = [i \in 0 .. n |-> g[i]]
        OBVIOUS
      <4> HIDE DEF g
      <4> QED BY <4>1, <3>3
    <3> QED BY <3>4, <2>2
  <2> QED BY <2>3, <2>4
<1>2. \E f : Follows(f, Bits)
  BY <1>1, BitsNumber
<1>3. Follows(Power2, Bits)
  BY <1>2 DEF Power2
<1> QED BY <1>3, BitsNumber

(* Powers are positive.                                                    *)
LEMMA PowerPositive == \A n \in 0 .. Bits : Power2[n] \in Nat \ {0}
<1> DEFINE T == {n \in 0 .. Bits : Power2[n] \notin Nat \ {0}}
<1>1. SUFFICES ASSUME T # {} PROVE FALSE
  OBVIOUS
<1>2. PICK n \in T : \A m \in T : n <= m
  <2>1. T \subseteq Nat
    BY BitsNumber
  <2> QED BY <2>1, <1>1, LeastNumber
<1>3. n \in 1 .. Bits
  BY <1>2, PowerRuns, BitsNumber
<1>4. n - 1 \in 0 .. Bits /\ n - 1 \notin T
  BY <1>2, <1>3, BitsNumber
<1>5. Power2[n - 1] \in Nat \ {0} /\ Power2[n] = 2 * Power2[n - 1]
  BY <1>3, <1>4, PowerRuns
<1> QED BY <1>2, <1>5

(* Four bits are a factor of sixteen.                                      *)
LEMMA PowerOfFour == \A n \in 0 .. Bits - 4 : Power2[n + 4] = 16 * Power2[n]
<1> SUFFICES ASSUME NEW n \in 0 .. Bits - 4 PROVE Power2[n + 4] = 16 * Power2[n]
  OBVIOUS
<1>1. /\ n \in Nat /\ n \in 0 .. Bits /\ n + 1 \in 1 .. Bits /\ n + 2 \in 1 .. Bits
      /\ n + 3 \in 1 .. Bits /\ n + 4 \in 1 .. Bits
  BY BitsNumber
<1>2. /\ (n + 1) - 1 = n /\ (n + 2) - 1 = n + 1 /\ (n + 3) - 1 = n + 2 /\ (n + 4) - 1 = n + 3
  BY <1>1
<1>3. /\ Power2[n + 1] = 2 * Power2[n] /\ Power2[n + 2] = 2 * Power2[n + 1]
      /\ Power2[n + 3] = 2 * Power2[n + 2] /\ Power2[n + 4] = 2 * Power2[n + 3]
  BY <1>1, <1>2, PowerRuns
<1>4. Power2[n] \in Nat
  BY <1>1, PowerPositive
<1> QED BY <1>3, <1>4

(* The least number ends in 8, whatever the width.                         *)
LEMMA PowerEnds == Power2[Bits - 1] % 10 = 8 /\ Power2[Bits - 1] >= 128
<1> DEFINE Good(n) == Power2[n] % 10 = 8 /\ Power2[n] >= 8 /\ (n > 3 => Power2[n] >= 128)
           T == {n \in 0 .. Bits - 1 : n % 4 = 3 /\ ~Good(n)}
<1>1. Bits - 1 \in 0 .. Bits - 1 /\ (Bits - 1) % 4 = 3 /\ Bits - 1 > 3
  BY BitsNumber
<1>2. SUFFICES ASSUME T # {} PROVE FALSE
  BY <1>1
<1>3. PICK n \in T : \A m \in T : n <= m
  <2>1. T \subseteq Nat
    BY BitsNumber
  <2> QED BY <2>1, <1>2, LeastNumber
<1>4. n \in Nat /\ n <= Bits - 1 /\ n % 4 = 3
  BY <1>3, BitsNumber
<1>5. CASE n = 3
  <2>1. 0 \in 0 .. Bits /\ 1 \in 1 .. Bits /\ 2 \in 1 .. Bits /\ 3 \in 1 .. Bits
    BY BitsNumber
  <2>2. Power2[1] = 2 * Power2[1 - 1] /\ Power2[2] = 2 * Power2[2 - 1] /\ Power2[3] = 2 * Power2[3 - 1]
    BY <2>1, PowerRuns
  <2>3. Power2[3] = 8
    BY <2>2, PowerRuns
  <2> QED BY <1>3, <1>5, <2>3
<1>6. CASE n # 3
  <2>1. n - 4 \in 0 .. Bits - 4 /\ n - 4 \in 0 .. Bits - 1 /\ (n - 4) % 4 = 3 /\ (n - 4) + 4 = n
    BY <1>4, <1>6, BitsNumber
  <2>2. Good(n - 4)
    BY <1>3, <1>4, <2>1
  <2>3. Power2[n - 4] \in Nat /\ Power2[n] = 16 * Power2[n - 4]
    BY <2>1, PowerOfFour, PowerPositive, BitsNumber
  <2>4. Good(n)
    BY <2>2, <2>3
  <2> QED BY <1>3, <2>4
<1> QED BY <1>5, <1>6

(* What the recursive definition of cvtdec0 computes.                      *)
LEMMA Dec0Runs ==
  \A v \in 0 .. MaxInt :
    Dec0[v] = IF v \div 10 = 0 THEN <<Glyph(v % 10)>> ELSE Append(Dec0[v \div 10], Glyph(v % 10))
<1> DEFINE Division(f, i) == IF i \div 10 = 0 THEN <<Glyph(i % 10)>>
                         ELSE Append(f[i \div 10], Glyph(i % 10))
           Follows(f, n) == f = [i \in 0 .. n |-> Division(f, i)]
<1>1. \A n \in Nat : \E f : Follows(f, n)
  <2> DEFINE T == {n \in Nat : ~\E f : Follows(f, n)}
  <2>1. SUFFICES ASSUME T # {} PROVE FALSE
    OBVIOUS
  <2>2. PICK n \in T : \A m \in T : n <= m
    <3>1. T \subseteq Nat
      OBVIOUS
    <3> QED BY <3>1, <2>1, LeastNumber
  <2>3. n \in Nat
    OBVIOUS
  <2>4. CASE n = 0
    <3> DEFINE g == [i \in 0 .. 0 |-> <<Glyph(i % 10)>>]
    <3>1. \A i \in 0 .. 0 : i \div 10 = 0
      OBVIOUS
    <3>2. \A i \in 0 .. 0 : g[i] = Division(g, i)
      BY <3>1
    <3>3. g = [i \in 0 .. 0 |-> g[i]]
      OBVIOUS
    <3> HIDE DEF g, Division
    <3>4. Follows(g, 0)
      BY <3>2, <3>3
    <3> QED BY <3>4, <2>2, <2>4
  <2>5. CASE n # 0
    <3>1. n - 1 \in Nat /\ n - 1 \notin T
      <4> HIDE DEF T
      <4> QED BY <2>2, <2>3, <2>5
    <3>2. PICK f : Follows(f, n - 1)
      BY <3>1
    <3> DEFINE g == [i \in 0 .. n |-> IF i < n THEN f[i] ELSE Division(f, n)]
    <3>3. \A i \in 0 .. n : g[i] = Division(g, i)
      <4> SUFFICES ASSUME NEW i \in 0 .. n PROVE g[i] = Division(g, i)
        OBVIOUS
      <4>1. i \div 10 # 0 => i \div 10 \in 0 .. n - 1
        BY <2>3
      <4>2. i \div 10 # 0 => g[i \div 10] = f[i \div 10]
        BY <4>1, <2>3
      <4>3. Division(f, i) = Division(g, i)
        BY <4>2
      <4>4. g[i] = IF i < n THEN f[i] ELSE Division(f, n)
        OBVIOUS
      <4>5. i < n => f[i] = Division(f, i)
        <5>1. i < n => i \in 0 .. n - 1
          BY <2>3
        <5> HIDE DEF Division
        <5> QED BY <5>1, <3>2
      <4>6. ~(i < n) => i = n
        BY <2>3
      <4> HIDE DEF g, Division
      <4> QED BY <4>3, <4>4, <4>5, <4>6
    <3>4. Follows(g, n)
      <4>1. g = [i \in 0 .. n |-> g[i]]
        OBVIOUS
      <4> HIDE DEF g, Division
      <4> QED BY <4>1, <3>3
    <3> QED BY <3>4, <2>2
  <2> QED BY <2>4, <2>5
<1>2. MaxInt \in Nat
  BY PowerPositive, BitsNumber DEF MaxInt
<1>3. \E f : Follows(f, MaxInt)
  BY <1>1, <1>2
<1>4. Follows(Dec0, MaxInt)
  BY <1>3 DEF Dec0
<1>5. \A v \in 0 .. MaxInt : Dec0[v] = Division(Dec0, v)
  <2> HIDE DEF Division
  <2> QED BY <1>4
<1> QED BY <1>5

(* No two digits look alike.                                               *)
LEMMA GlyphsDiffer ==
  \A n \in 0 .. 15 : DigitOf(Glyph(n)) = n /\ (Glyph(n) = Glyph(0) => n = 0)
<1>1. ASSUME NEW m \in 0 .. 15, NEW n \in 0 .. 15, Glyph(m) = Glyph(n) PROVE m = n
  <2>1. \/ m = 0 \/ m = 1 \/ m = 2 \/ m = 3 \/ m = 4 \/ m = 5 \/ m = 6 \/ m = 7
        \/ m = 8 \/ m = 9 \/ m = 10 \/ m = 11 \/ m = 12 \/ m = 13 \/ m = 14 \/ m = 15
    OBVIOUS
  <2>2. \/ n = 0 \/ n = 1 \/ n = 2 \/ n = 3 \/ n = 4 \/ n = 5 \/ n = 6 \/ n = 7
        \/ n = 8 \/ n = 9 \/ n = 10 \/ n = 11 \/ n = 12 \/ n = 13 \/ n = 14 \/ n = 15
    OBVIOUS
  <2>3. /\ Glyph(0) = "0" /\ Glyph(1) = "1" /\ Glyph(2) = "2" /\ Glyph(3) = "3"
        /\ Glyph(4) = "4" /\ Glyph(5) = "5" /\ Glyph(6) = "6" /\ Glyph(7) = "7"
        /\ Glyph(8) = "8" /\ Glyph(9) = "9" /\ Glyph(10) = "A" /\ Glyph(11) = "B"
        /\ Glyph(12) = "C" /\ Glyph(13) = "D" /\ Glyph(14) = "E" /\ Glyph(15) = "F"
    BY DEF Glyph, HexDigits
  <2> QED BY <1>1, <2>1, <2>2, <2>3
<1>2. ASSUME NEW n \in 0 .. 15 PROVE DigitOf(Glyph(n)) = n
  <2>1. DigitOf(Glyph(n)) \in 0 .. 15 /\ Glyph(DigitOf(Glyph(n))) = Glyph(n)
    BY DEF DigitOf
  <2> QED BY <1>1, <2>1
<1> QED BY <1>1, <1>2

(* What the recursive definition of the value of a text computes.          *)
LEMMA ValuesRun ==
  ASSUME NEW text, Len(text) \in Nat, NEW base
  PROVE  LET V == Values(text, base) IN
         V[0] = 0 /\ \A i \in 1 .. Len(text) : V[i] = base * V[i - 1] + DigitOf(text[i])
<1> DEFINE Follows(f, n) ==
             f = [i \in 0 .. n |-> IF i = 0 THEN 0 ELSE base * f[i - 1] + DigitOf(text[i])]
<1>1. \A n \in Nat : \E f : Follows(f, n)
  <2> DEFINE T == {n \in Nat : ~\E f : Follows(f, n)}
  <2>1. SUFFICES ASSUME T # {} PROVE FALSE
    OBVIOUS
  <2>2. PICK n \in T : \A m \in T : n <= m
    <3>1. T \subseteq Nat
      OBVIOUS
    <3> QED BY <3>1, <2>1, LeastNumber
  <2>3. n \in Nat
    OBVIOUS
  <2>4. CASE n = 0
    <3>1. Follows([i \in 0 .. 0 |-> 0], 0)
      OBVIOUS
    <3> QED BY <3>1, <2>2, <2>4
  <2>5. CASE n # 0
    <3>1. n - 1 \in Nat /\ n - 1 \notin T
      <4> HIDE DEF T
      <4> QED BY <2>2, <2>3, <2>5
    <3>2. PICK f : Follows(f, n - 1)
      BY <3>1
    <3> DEFINE g == [i \in 0 .. n |-> IF i < n THEN f[i] ELSE base * f[n - 1] + DigitOf(text[n])]
    <3>3. \A i \in 0 .. n : g[i] = IF i = 0 THEN 0 ELSE base * g[i - 1] + DigitOf(text[i])
      BY <3>1, <3>2, <2>3, <2>5
    <3>4. Follows(g, n)
      <4>1. g = [i \in 0 .. n |-> g[i]]
        OBVIOUS
      <4> HIDE DEF g
      <4> QED BY <4>1, <3>3
    <3> QED BY <3>4, <2>2
  <2> QED BY <2>4, <2>5
<1>2. \E f : Follows(f, Len(text))
  BY <1>1
<1>3. Follows(Values(text, base), Len(text))
  BY <1>2 DEF Values
<1> QED BY <1>3

(* Texts that begin alike stand for the same numbers so far.               *)
LEMMA ValuesOfPrefix ==
  ASSUME NEW s, NEW t, Len(s) \in Nat, Len(t) \in Nat, Len(s) <= Len(t),
         \A i \in 1 .. Len(s) : s[i] = t[i], NEW base
  PROVE  \A i \in 0 .. Len(s) : Values(s, base)[i] = Values(t, base)[i]
<1> DEFINE V == Values(s, base)
           W == Values(t, base)
           T == {i \in 0 .. Len(s) : V[i] # W[i]}
<1>1. /\ V[0] = 0 /\ \A i \in 1 .. Len(s) : V[i] = base * V[i - 1] + DigitOf(s[i])
      /\ W[0] = 0 /\ \A i \in 1 .. Len(t) : W[i] = base * W[i - 1] + DigitOf(t[i])
  BY ValuesRun
<1> HIDE DEF V, W
<1>2. SUFFICES ASSUME T # {} PROVE FALSE
  BY DEF V, W
<1>3. PICK n \in T : \A m \in T : n <= m
  <2>1. T \subseteq Nat
    OBVIOUS
  <2> QED BY <2>1, <1>2, LeastNumber
<1>4. n \in 1 .. Len(s) /\ n \in 1 .. Len(t)
  BY <1>1, <1>3
<1>5. n - 1 \in 0 .. Len(s) /\ n - 1 \notin T
  BY <1>3, <1>4
<1>6. V[n - 1] = W[n - 1] /\ s[n] = t[n]
  BY <1>4, <1>5
<1>7. V[n] = W[n]
  BY <1>1, <1>4, <1>6
<1> QED BY <1>3, <1>7

(* The glyphs that are put.                                                *)
Glyphs == {Glyph(n) : n \in 0 .. 15} \cup {"-", "blank"} \cup STRING

(* One more digit makes the numeral of ten times the number and the digit. *)
LEMMA OneMoreDigit ==
  ASSUME NEW s \in Seq(Glyphs), NEW q \in Nat \ {0}, IsNumeral(s, q, 10), NEW n \in 0 .. 9
  PROVE  Append(s, Glyph(n)) \in Seq(Glyphs) /\ IsNumeral(Append(s, Glyph(n)), 10 * q + n, 10)
<1> DEFINE t == Append(s, Glyph(n))
           m == Len(s)
           V == Values(s, 10)
           W == Values(t, 10)
<1>1. Glyph(n) \in Glyphs /\ n \in 0 .. 15
  BY DEF Glyphs
<1>2. /\ m \in Nat /\ t \in Seq(Glyphs) /\ Len(t) = m + 1 /\ t[m + 1] = Glyph(n)
      /\ \A i \in 1 .. m : t[i] = s[i]
  BY <1>1
<1>3. m > 0 /\ (\A i \in 1 .. m : s[i] \in {Glyph(k) : k \in 0 .. 9})
      /\ (m > 1 => s[1] # Glyph(0)) /\ V[m] = q
  BY DEF IsNumeral
<1> HIDE DEF t
<1>4. W[m] = V[m]
  <2>1. m \in 0 .. m /\ m <= Len(t) /\ Len(t) \in Nat /\ \A i \in 1 .. m : s[i] = t[i]
    BY <1>2
  <2> QED BY <1>2, <2>1, ValuesOfPrefix
<1>5. W[m + 1] = 10 * W[(m + 1) - 1] + DigitOf(t[m + 1])
  <2>1. m + 1 \in 1 .. Len(t) /\ Len(t) \in Nat
    BY <1>2
  <2> QED BY <2>1, ValuesRun
<1>6. DigitOf(Glyph(n)) = n /\ (m + 1) - 1 = m
  BY <1>1, <1>2, GlyphsDiffer
<1>7. W[m + 1] = 10 * q + n
  BY <1>2, <1>3, <1>4, <1>5, <1>6
<1>8. t[1] # Glyph(0)
  <2>1. CASE m > 1
    BY <1>2, <1>3, <2>1
  <2>2. CASE m = 1
    <3>1. V[0] = 0 /\ V[1] = 10 * V[1 - 1] + DigitOf(s[1])
      <4>1. 1 \in 1 .. Len(s) /\ Len(s) \in Nat
        BY <1>2, <2>2
      <4> QED BY <4>1, ValuesRun
    <3>2. V[1] = DigitOf(s[1]) \/ DigitOf(s[1]) # 0
      BY <3>1
    <3>3. s[1] # Glyph(0)
      <4>1. s[1] = Glyph(0) => DigitOf(s[1]) = 0
        BY GlyphsDiffer
      <4> QED BY <1>3, <2>2, <3>2, <4>1
    <3> QED BY <1>2, <2>2, <3>3
  <2>3. m > 1 \/ m = 1
    <3> HIDE DEF m
    <3> QED BY <1>2, <1>3
  <2> QED BY <2>1, <2>2, <2>3
<1>9. ASSUME NEW i \in 1 .. Len(t) PROVE t[i] \in {Glyph(k) : k \in 0 .. 9}
  <2>1. i \in 1 .. m \/ i = m + 1
    <3> HIDE DEF m
    <3> QED BY <1>2
  <2>2. Glyph(n) \in {Glyph(k) : k \in 0 .. 9}
    OBVIOUS
  <2> QED BY <1>2, <1>3, <2>1, <2>2
<1>10. IsNumeral(t, 10 * q + n, 10)
  BY <1>2, <1>7, <1>8, <1>9 DEF IsNumeral
<1> QED BY <1>2, <1>10 DEF t

(* cvtdec0 writes the numeral of a number that is not negative.            *)
LEMMA Dec0Numeral ==
  \A v \in 0 .. MaxInt : Dec0[v] \in Seq(Glyphs) /\ IsNumeral(Dec0[v], v, 10)
<1> DEFINE Good(v) == Dec0[v] \in Seq(Glyphs) /\ IsNumeral(Dec0[v], v, 10)
           T == {v \in 0 .. MaxInt : ~Good(v)}
<1>1. SUFFICES ASSUME T # {} PROVE FALSE
  OBVIOUS
<1>2. PICK v \in T : \A m \in T : v <= m
  <2>1. T \subseteq Nat
    OBVIOUS
  <2> QED BY <2>1, <1>1, LeastNumber
<1>3. v \in Nat /\ v \in 0 .. MaxInt /\ ~Good(v) /\ MaxInt \in Nat
  BY PowerPositive, BitsNumber DEF MaxInt
<1>4. CASE v \div 10 = 0
  <2> DEFINE t == <<Glyph(v % 10)>>
             W == Values(t, 10)
  <2>1. v % 10 = v /\ v \in 0 .. 9 /\ v \in 0 .. 15
    BY <1>3, <1>4
  <2>2. Dec0[v] = t
    BY <1>3, <1>4, Dec0Runs
  <2>3. t \in Seq(Glyphs) /\ Len(t) = 1 /\ t[1] = Glyph(v)
    BY <2>1 DEF Glyphs
  <2> HIDE DEF t
  <2>4. W[0] = 0 /\ W[1] = 10 * W[1 - 1] + DigitOf(t[1])
    <3>1. 1 \in 1 .. Len(t) /\ Len(t) \in Nat
      BY <2>3
    <3> QED BY <3>1, ValuesRun
  <2>5. W[1] = v
    BY <2>1, <2>3, <2>4, GlyphsDiffer
  <2>6. IsNumeral(t, v, 10)
    BY <2>1, <2>3, <2>5 DEF IsNumeral
  <2> QED BY <1>3, <2>2, <2>3, <2>6
<1>5. CASE v \div 10 # 0
  <2> DEFINE q == v \div 10
             n == v % 10
  <2>1. /\ q \in Nat \ {0} /\ q \in 0 .. MaxInt /\ q < v /\ n \in 0 .. 9 /\ v = 10 * q + n
    BY <1>3, <1>5
  <2>2. q \notin T
    <3> HIDE DEF T, q
    <3> QED BY <1>2, <1>3, <2>1
  <2>3. Dec0[v] = Append(Dec0[q], Glyph(n))
    BY <1>3, <1>5, Dec0Runs
  <2> HIDE DEF q, n
  <2>4. Good(q)
    BY <2>1, <2>2
  <2>5. Good(v)
    BY <2>1, <2>3, <2>4, OneMoreDigit
  <2> QED BY <1>3, <2>5
<1> QED BY <1>4, <1>5

(* So does it with the least number.                                       *)
LEMMA MagnitudeNumeral ==
  ASSUME NEW v \in MinInt .. MaxInt
  PROVE  /\ CvtMagnitude(v) \in Seq(Glyphs)
         /\ IsNumeral(CvtMagnitude(v), IF v < 0 THEN -v ELSE v, 10)
<1> DEFINE p == Power2[Bits - 1]
<1>1. p \in Nat /\ p >= 128 /\ p % 10 = 8 /\ MinInt = -p /\ MaxInt = p - 1
  BY PowerEnds, PowerPositive, BitsNumber DEF MinInt, MaxInt
<1> HIDE DEF p
<1>2. CASE v = MinInt
  <2> DEFINE q == p \div 10
  <2>1. q \in 0 .. MaxInt /\ 10 * q + 8 = p /\ -v = p /\ v < 0
    BY <1>1, <1>2
  <2>2. CvtMagnitude(v) = Append(Dec0[q], Glyph(8))
    BY <1>2 DEF CvtMagnitude, p
  <2>3. q # 0
    BY <1>1
  <2> HIDE DEF q
  <2>4. /\ Append(Dec0[q], Glyph(8)) \in Seq(Glyphs)
        /\ IsNumeral(Append(Dec0[q], Glyph(8)), 10 * q + 8, 10)
    BY <1>1, <2>1, <2>3, Dec0Numeral, OneMoreDigit
  <2> QED BY <2>1, <2>2, <2>4
<1>3. CASE v # MinInt
  <2>1. (IF v < 0 THEN -v ELSE v) \in 0 .. MaxInt
    BY <1>1, <1>3
  <2>2. CvtMagnitude(v) = Dec0[IF v < 0 THEN -v ELSE v]
    BY <1>3 DEF CvtMagnitude
  <2> QED BY <2>1, <2>2, Dec0Numeral
<1> QED BY <1>2, <1>3

(* Quotient and remainder are determined by what they make up.             *)
LEMMA Quotient ==
  ASSUME NEW w \in Nat, NEW a \in Nat \ {0}, NEW q \in Nat, NEW r \in 0 .. a - 1, w = a * q + r
  PROVE  w \div a = q
<1> DEFINE p == w \div a
           s == w % a
<1>1. p \in Int /\ s \in 0 .. a - 1 /\ w = a * p + s
  OBVIOUS
<1> HIDE DEF p, s
<1>2. a * (q - p) = s - r
  BY <1>1
<1>3. q - p < 1
  <2>1. SUFFICES ASSUME q - p >= 1 PROVE FALSE
    BY <1>1
  <2>2. a * (q - p) >= a
    <3>1. a * ((q - p) - 1) >= 0
      BY <1>1, <2>1
    <3> QED BY <1>1, <3>1
  <2> QED BY <1>1, <1>2, <2>2
<1>4. q - p > -1
  <2>1. SUFFICES ASSUME p - q >= 1 PROVE FALSE
    BY <1>1
  <2>2. a * (p - q) >= a
    <3>1. a * ((p - q) - 1) >= 0
      BY <1>1, <2>1
    <3> QED BY <1>1, <3>1
  <2>3. a * (p - q) = r - s
    BY <1>1
  <2> QED BY <1>1, <2>2, <2>3
<1>5. p = q
  BY <1>1, <1>3, <1>4
<1> QED BY <1>5 DEF p

(* Division by sixteen times a number.                                     *)
LEMMA Sixteenths ==
  ASSUME NEW w \in Nat, NEW a \in Nat \ {0}
  PROVE  (w * 16) \div (16 * a) = w \div a /\ w \div (16 * a) = (w \div a) \div 16 /\ w \div a \in Nat
<1> DEFINE q == w \div a
           r == w % a
<1>1. q \in Int /\ r \in 0 .. a - 1 /\ w = a * q + r
  OBVIOUS
<1>2. q \in Nat
  <2> HIDE DEF q, r
  <2>1. SUFFICES ASSUME q <= -1 PROVE FALSE
    BY <1>1
  <2>2. a * (-1 - q) >= 0
    BY <1>1, <2>1
  <2>3. a * q <= -a
    BY <1>1, <2>2
  <2> QED BY <1>1, <2>3
<1> HIDE DEF q, r
<1>3. (w * 16) \div (16 * a) = q
  <2>1. w * 16 = (16 * a) * q + 16 * r
    BY <1>1, <1>2
  <2>2. w * 16 \in Nat /\ 16 * a \in Nat \ {0} /\ 16 * r \in 0 .. 16 * a - 1
    BY <1>1
  <2> QED BY <1>2, <2>1, <2>2, Quotient
<1> DEFINE p == q \div 16
           s == q % 16
<1>4. p \in Nat /\ s \in 0 .. 15 /\ q = 16 * p + s
  BY <1>2
<1> HIDE DEF p, s
<1>5. w = (16 * a) * p + (a * s + r)
  <2>1. a * q = a * (16 * p + s)
    BY <1>4
  <2>2. a * (16 * p + s) = (16 * a) * p + a * s
    BY <1>4
  <2> QED BY <1>1, <1>2, <1>4, <2>1, <2>2
<1>6. a * s + r \in 0 .. 16 * a - 1 /\ 16 * a \in Nat \ {0}
  <2>1. a * s >= 0 /\ a * (15 - s) >= 0
    BY <1>4
  <2>2. a * (15 - s) = 15 * a - a * s
    BY <1>4
  <2>3. a * s \in Int
    BY <1>4
  <2> QED BY <1>1, <2>1, <2>2, <2>3
<1>7. w \div (16 * a) = p
  BY <1>4, <1>5, <1>6, Quotient
<1> QED BY <1>2, <1>3, <1>7 DEF q, p

(* What is stored of a sequence of digits is their text without the zeros  *)
(* in front.                                                               *)
LEMMA StoredParts ==
  ASSUME NEW digits, NEW n \in Nat \ {0}, Len(digits) = n, \A i \in 1 .. n : digits[i] \in 0 .. 15
  PROVE  \E first \in 1 .. n :
           /\ Stored(digits) \in Seq(Glyphs) /\ Len(Stored(digits)) = n - first + 1
           /\ \A i \in 1 .. n - first + 1 : Stored(digits)[i] = Glyph(digits[first + i - 1])
           /\ \A i \in 1 .. first - 1 : digits[i] = 0
           /\ first < n => digits[first] # 0
<1> DEFINE T == {i \in 1 .. n : digits[i] # 0} \cup {n}
           first == Min(T)
           t == Stored(digits)
<1>1. PICK m \in T : \A k \in T : m <= k
  <2>1. T \subseteq Nat /\ T # {}
    OBVIOUS
  <2> QED BY <2>1, LeastNumber
<1>2. first \in T /\ \A k \in T : first <= k
  <2>1. \E x \in T : \A y \in T : x <= y
    BY <1>1
  <2> QED BY <2>1 DEF Min
<1>3. t = [i \in 1 .. n - first + 1 |-> Glyph(digits[first + i - 1])]
  BY DEF Stored
<1>4. first \in 1 .. n /\ (first < n => digits[first] # 0)
  BY <1>2
<1>5. \A i \in 1 .. first - 1 : digits[i] = 0
  <2> SUFFICES ASSUME NEW i \in 1 .. first - 1, digits[i] # 0 PROVE FALSE
    OBVIOUS
  <2>1. i \in T
    BY <1>4
  <2> HIDE DEF T, first
  <2> QED BY <1>2, <1>4, <2>1
<1> HIDE DEF T, first, t
<1>6. \A i \in 1 .. n - first + 1 : Glyph(digits[first + i - 1]) \in Glyphs
  <2> SUFFICES ASSUME NEW i \in 1 .. n - first + 1 PROVE Glyph(digits[first + i - 1]) \in Glyphs
    OBVIOUS
  <2>1. first + i - 1 \in 1 .. n
    BY <1>4
  <2>2. digits[first + i - 1] \in 0 .. 15
    BY <2>1
  <2> QED BY <2>2 DEF Glyphs
<1>7. n - first + 1 \in Nat
  BY <1>4
<1>8. t \in Seq(Glyphs) /\ Len(t) = n - first + 1
  BY <1>3, <1>6, <1>7
<1>9. \A i \in 1 .. n - first + 1 : t[i] = Glyph(digits[first + i - 1])
  BY <1>3
<1> QED BY <1>4, <1>5, <1>8, <1>9 DEF t

(* cvthex writes the numeral of its argument's bits.                       *)
LEMMA HexNumeral ==
  ASSUME NEW v \in Int
  PROVE  CvtHex(v) \in Seq(Glyphs) /\ IsNumeral(CvtHex(v), v % Power2[Bits], 16)
<1> DEFINE n == Bits \div 4
           w == v % Power2[Bits]
           digits == [i \in 1 .. n |-> Group(v, Bits - 1 - 4 * (i - 1), 4)]
           U(j) == w \div Power2[Bits - 4 * j]
<1>1. n \in Nat \ {0} /\ Bits = 4 * n /\ Bits \in Nat
  BY BitsNumber
<1>2. w \in Nat /\ w < Power2[Bits] /\ Power2[Bits] \in Nat \ {0}
  <2>1. Power2[Bits] \in Nat \ {0}
    BY <1>1, PowerPositive
  <2> QED BY <2>1
<1>3. Power2[4] = 16
  <2>1. 0 \in 0 .. Bits - 4
    BY BitsNumber
  <2>2. Power2[0 + 4] = 16 * Power2[0]
    BY <2>1, PowerOfFour
  <2> QED BY <2>2, PowerRuns
<1> HIDE DEF n, w
<1>4. ASSUME NEW j \in 1 .. n
      PROVE  /\ U(j) \in Nat /\ U(j - 1) \in Nat /\ U(j) = 16 * U(j - 1) + digits[j]
             /\ digits[j] \in 0 .. 15
  <2> DEFINE a == Power2[Bits - 4 * j]
  <2>1. /\ Bits - 4 * j \in 0 .. Bits - 4 /\ (Bits - 4 * j) + 4 = Bits - 4 * (j - 1)
        /\ (Bits - 1 - 4 * (j - 1)) + 1 = Bits - 4 * (j - 1) /\ Bits - 4 * j \in 0 .. Bits
    BY <1>1
  <2>2. a \in Nat \ {0} /\ Power2[Bits - 4 * (j - 1)] = 16 * a
    BY <2>1, PowerPositive, PowerOfFour
  <2>3. digits[j] = ((w * Power2[4]) \div Power2[(Bits - 1 - 4 * (j - 1)) + 1]) % Power2[4]
    BY DEF Group, w
  <2>4. digits[j] = ((w * 16) \div (16 * a)) % 16
    BY <1>3, <2>1, <2>2, <2>3
  <2>5. U(j - 1) = w \div (16 * a)
    BY <2>2
  <2>6. U(j) = w \div a
    OBVIOUS
  <2> HIDE DEF a, U, digits
  <2>7. /\ (w * 16) \div (16 * a) = w \div a /\ w \div (16 * a) = (w \div a) \div 16
        /\ w \div a \in Nat
    BY <1>2, <2>2, Sixteenths
  <2> DEFINE q == w \div a
  <2>8. q \in Nat /\ digits[j] = q % 16 /\ U(j) = q /\ U(j - 1) = q \div 16
    BY <2>4, <2>5, <2>6, <2>7
  <2> HIDE DEF q
  <2> QED BY <2>8
<1>5. U(0) = 0
  <2>1. Bits - 4 * 0 = Bits
    BY <1>1
  <2>2. w \div Power2[Bits] = 0
    <3>1. w = Power2[Bits] * 0 + w /\ w \in 0 .. Power2[Bits] - 1 /\ 0 \in Nat
      BY <1>2
    <3> QED BY <1>2, <3>1, Quotient
  <2> QED BY <2>1, <2>2
<1>6. U(n) = w
  <2>1. Bits - 4 * n = 0
    BY <1>1
  <2> QED BY <1>2, <2>1, PowerRuns
<1>7. Len(digits) = n /\ CvtHex(v) = Stored(digits)
  BY <1>1 DEF CvtHex, n
<1> HIDE DEF digits, U
<1>8. PICK first \in 1 .. n :
        /\ CvtHex(v) \in Seq(Glyphs) /\ Len(CvtHex(v)) = n - first + 1
        /\ \A i \in 1 .. n - first + 1 : CvtHex(v)[i] = Glyph(digits[first + i - 1])
        /\ \A i \in 1 .. first - 1 : digits[i] = 0
        /\ first < n => digits[first] # 0
  <2>1. \A i \in 1 .. n : digits[i] \in 0 .. 15
    BY <1>4
  <2>2. \E first \in 1 .. n :
          /\ Stored(digits) \in Seq(Glyphs) /\ Len(Stored(digits)) = n - first + 1
          /\ \A i \in 1 .. n - first + 1 : Stored(digits)[i] = Glyph(digits[first + i - 1])
          /\ \A i \in 1 .. first - 1 : digits[i] = 0
          /\ first < n => digits[first] # 0
    BY <1>1, <1>7, <2>1, StoredParts
  <2> QED BY <1>7, <2>2
<1> DEFINE t == CvtHex(v)
           m == n - first + 1
           V == Values(t, 16)
<1>9. m \in Nat /\ m > 0 /\ \A i \in 1 .. m : first + i - 1 \in 1 .. n
  BY <1>1
(* Before the first digit that is not zero the number so far is zero.      *)
<1>10. U(first - 1) = 0
  <2> DEFINE T == {j \in 0 .. first - 1 : U(j) # 0}
  <2>1. SUFFICES ASSUME T # {} PROVE FALSE
    BY <1>1
  <2>2. PICK j \in T : \A k \in T : j <= k
    <3>1. T \subseteq Nat
      OBVIOUS
    <3> QED BY <3>1, <2>1, LeastNumber
  <2>3. j \in 1 .. first - 1 /\ j \in 1 .. n /\ j - 1 \in 0 .. first - 1
    BY <1>1, <1>5, <2>2
  <2>4. U(j - 1) = 0
    BY <2>2, <2>3
  <2>5. digits[j] = 0 /\ U(j) = 16 * U(j - 1) + digits[j]
    BY <1>4, <1>8, <2>3
  <2> QED BY <2>2, <2>4, <2>5
<1>11. V[0] = 0 /\ \A i \in 1 .. m : V[i] = 16 * V[i - 1] + DigitOf(t[i])
  BY <1>8, <1>9, ValuesRun
<1> HIDE DEF V, t
<1>12. \A i \in 1 .. m : t[i] = Glyph(digits[first + i - 1]) /\ digits[first + i - 1] \in 0 .. 15
  BY <1>4, <1>8, <1>9 DEF t
(* The text stands for the bits down to its last digit.                    *)
<1>13. V[m] = U(first + m - 1)
  <2> DEFINE T == {i \in 0 .. m : V[i] # U(first + i - 1)}
  <2> HIDE DEF m
  <2>1. SUFFICES ASSUME T # {} PROVE FALSE
    BY <1>9
  <2>2. PICK i \in T : \A k \in T : i <= k
    <3>1. T \subseteq Nat
      BY <1>9
    <3> QED BY <3>1, <2>1, LeastNumber
  <2>3. i \in 1 .. m /\ i - 1 \in 0 .. m
    <3>1. first + 0 - 1 = first - 1
      BY <1>1
    <3>2. i # 0
      BY <1>10, <1>11, <2>2, <3>1
    <3> QED BY <1>9, <2>2, <3>2
  <2>4. i - 1 \notin T
    BY <2>2, <2>3
  <2>5. V[i - 1] = U(first + (i - 1) - 1)
    BY <2>3, <2>4
  <2>6. first + (i - 1) - 1 = (first + i - 1) - 1 /\ first + i - 1 \in 1 .. n
    BY <1>1, <1>9, <2>3
  <2>7. U(first + i - 1) = 16 * U((first + i - 1) - 1) + digits[first + i - 1]
    BY <1>4, <2>6
  <2>8. DigitOf(t[i]) = digits[first + i - 1]
    BY <1>12, <2>3, GlyphsDiffer
  <2>9. V[i] = U(first + i - 1)
    BY <1>11, <2>3, <2>5, <2>6, <2>7, <2>8
  <2> QED BY <2>2, <2>9
<1>14. V[m] = w
  <2>1. first + m - 1 = n
    BY <1>1
  <2> QED BY <1>6, <1>13, <2>1
<1>15. m > 1 => t[1] # Glyph(0)
  <2>1. SUFFICES ASSUME m > 1 PROVE t[1] # Glyph(0)
    OBVIOUS
  <2>2. first < n /\ 1 \in 1 .. m /\ first + 1 - 1 = first
    BY <1>1, <1>9, <2>1
  <2>3. t[1] = Glyph(digits[first]) /\ digits[first] \in 0 .. 15 /\ digits[first] # 0
    BY <1>8, <1>12, <2>2
  <2> QED BY <2>3, GlyphsDiffer
<1>16. Len(t) = m /\ t \in Seq(Glyphs)
  BY <1>8 DEF t
<1> HIDE DEF m
<1>17. \A i \in 1 .. m : t[i] \in {Glyph(k) : k \in 0 .. 16 - 1}
  <2>1. 16 - 1 = 15
    OBVIOUS
  <2> QED BY <1>12, <2>1
<1>18. IsNumeral(t, w, 16)
  BY <1>9, <1>14, <1>15, <1>16, <1>17 DEF IsNumeral, V
<1> QED BY <1>16, <1>18 DEF t, w

(* A group of bits is a number of as many bits.                            *)
LEMMA GroupBits ==
  ASSUME NEW v \in Int, NEW hi \in Int, hi + 1 \in 0 .. Bits, NEW k \in 0 .. Bits
  PROVE  Group(v, hi, k) \in 0 .. Power2[k] - 1
<1> DEFINE P == Power2[Bits]
           Q == Power2[hi + 1]
           K == Power2[k]
<1>1. P \in Nat \ {0} /\ Q \in Nat \ {0} /\ K \in Nat \ {0}
  BY PowerPositive, BitsNumber
<1>2. Group(v, hi, k) = (((v % P) * K) \div Q) % K
  BY DEF Group
<1> HIDE DEF P, Q, K
<1>3. v % P \in Int
  BY <1>1
<1>4. (v % P) * K \in Int
  BY <1>1, <1>3
<1> DEFINE x == (v % P) * K
<1> HIDE DEF x
<1>5. x \div Q \in Int
  BY <1>1, <1>4 DEF x
<1>6. (x \div Q) % K \in 0 .. K - 1
  BY <1>1, <1>5
<1> QED BY <1>2, <1>6 DEF x, K

(* cvtoct writes a text, if not the right one.                             *)
LEMMA OctText ==
  ASSUME NEW v \in Int
  PROVE  CvtOct(v) \in Seq(Glyphs)
<1> DEFINE n == (Bits + 1) \div 3
           top == Group(v, Bits - 1, 2)
           digits == [i \in 1 .. n |-> IF i = 1 THEN IF top >= 2 THEN top + 4 ELSE top
                                       ELSE Group(v, Bits - 1 - 3 * (i - 1), 3)]
<1>1. n \in Nat \ {0} /\ Bits \in Nat /\ Bits >= 8 /\ 3 * n <= Bits + 1
  BY BitsNumber
<1>2. Power2[2] = 4 /\ Power2[3] = 8
  <2>1. 1 \in 1 .. Bits /\ 2 \in 1 .. Bits /\ 3 \in 1 .. Bits
    BY <1>1
  <2>2. Power2[1] = 2 * Power2[1 - 1] /\ Power2[2] = 2 * Power2[2 - 1] /\ Power2[3] = 2 * Power2[3 - 1]
    BY <2>1, PowerRuns
  <2> QED BY <2>2, PowerRuns
<1>3. top \in 0 .. 3
  <2>1. (Bits - 1) + 1 \in 0 .. Bits /\ 2 \in 0 .. Bits
    BY <1>1
  <2>2. Bits - 1 \in Int
    BY <1>1
  <2>3. Group(v, Bits - 1, 2) \in 0 .. Power2[2] - 1
    BY <2>1, <2>2, GroupBits
  <2> QED BY <1>2, <2>3
<1> HIDE DEF n, top
<1>4. ASSUME NEW i \in 1 .. n PROVE digits[i] \in 0 .. 15
  <2>1. CASE i = 1
    BY <1>3, <2>1
  <2>2. CASE i # 1
    <3>1. (Bits - 1 - 3 * (i - 1)) + 1 \in 0 .. Bits /\ 3 \in 0 .. Bits
      BY <1>1, <2>2
    <3>2. Bits - 1 - 3 * (i - 1) \in Int
      BY <1>1
    <3>3. Group(v, Bits - 1 - 3 * (i - 1), 3) \in 0 .. Power2[3] - 1
      BY <3>1, <3>2, GroupBits
    <3> QED BY <1>2, <2>2, <3>3
  <2> QED BY <2>1, <2>2
<1>5. Len(digits) = n /\ CvtOct(v) = Stored(digits)
  BY <1>1 DEF CvtOct, n, top
<1> HIDE DEF digits
<1>6. \A i \in 1 .. n : digits[i] \in 0 .. 15
  BY <1>4
<1>7. \E first \in 1 .. n : Stored(digits) \in Seq(Glyphs)
  BY <1>1, <1>5, <1>6, StoredParts
<1> QED BY <1>5, <1>7

(* Two texts, one behind the other.                                        *)
LEMMA Joined ==
  ASSUME NEW S, NEW a \in Seq(S), NEW b \in Seq(S)
  PROVE  /\ a \o b \in Seq(S) /\ Len(a \o b) = Len(a) + Len(b)
         /\ \A i \in 1 .. Len(a) : (a \o b)[i] = a[i]
         /\ \A i \in 1 .. Len(b) : (a \o b)[Len(a) + i] = b[i]
OBVIOUS

(* Part of a text.                                                         *)
LEMMA PartOf ==
  ASSUME NEW S, NEW a \in Seq(S), NEW k \in Nat, NEW n \in Nat, k + n <= Len(a)
  PROVE  SubSeq(a, k + 1, k + n) = [i \in 1 .. n |-> a[k + i]]
<1>1. SubSeq(a, k + 1, k + n) = [i \in 1 .. ((k + n) - (k + 1)) + 1 |-> a[(k + 1) + i - 1]]
  OBVIOUS
<1>2. ((k + n) - (k + 1)) + 1 = n /\ \A i \in 1 .. n : (k + 1) + i - 1 = k + i
  OBVIOUS
<1> QED BY <1>1, <1>2

(* padstr makes a field of what renders the argument.                      *)
LEMMA PaddedField ==
  ASSUME NEW d, d.width \in Nat, NEW text \in Seq(Glyphs)
  PROVE  /\ Padded(d, text) \in Seq(Glyphs)
         /\ Renders(d, text) => IsField(d, Padded(d, text))
<1> DEFINE m == Len(text)
           extra == d.width - m
           F == Fill(d, extra)
           fill == IF d.zero THEN "0" ELSE "blank"
           t == Padded(d, text)
<1>1. m \in Nat /\ extra \in Int
  OBVIOUS
<1>2. fill \in Glyphs
  <2>1. Glyph(0) = "0" /\ Glyph(0) \in Glyphs /\ "blank" \in Glyphs
    BY DEF Glyph, HexDigits, Glyphs
  <2> QED BY <2>1
<1>3. CASE extra <= 0
  <2>1. t = text
    BY <1>3 DEF Padded
  <2>2. SubSeq(text, 0 + 1, 0 + m) = text
    BY <1>1
  <2>3. ASSUME Renders(d, text) PROVE IsField(d, text)
    <3>1. m \in 0 .. Len(text) /\ Len(text) - m = 0 /\ ~(m < d.width)
      BY <1>1, <1>3
    <3>2. (IF d.left THEN 0 ELSE Len(text) - m) = 0
      BY <3>1
    <3>3. \A i \in 1 .. Len(text) : i \in 0 + 1 .. 0 + m
      BY <1>1
    <3> QED BY <2>2, <2>3, <3>1, <3>2, <3>3 DEF IsField
  <2> QED BY <2>1, <2>3
<1>4. CASE ~(extra <= 0)
  <2>1. /\ F \in Seq(Glyphs) /\ Len(F) = extra /\ extra \in Nat
        /\ \A i \in 1 .. extra : F[i] = fill
    <3>1. F = [i \in 1 .. extra |-> fill]
      BY DEF Fill
    <3> HIDE DEF fill
    <3> QED BY <1>1, <1>2, <1>4, <3>1
  <2> HIDE DEF F, fill
  <2>2. CASE d.left
    <3>1. t = text \o F
      BY <1>4, <2>2 DEF Padded, F
    <3>2. /\ t \in Seq(Glyphs) /\ Len(t) = m + extra /\ \A i \in 1 .. m : t[i] = text[i]
          /\ \A i \in 1 .. extra : t[m + i] = F[i]
      <4>1. /\ text \o F \in Seq(Glyphs) /\ Len(text \o F) = Len(text) + Len(F)
            /\ \A i \in 1 .. Len(text) : (text \o F)[i] = text[i]
            /\ \A i \in 1 .. Len(F) : (text \o F)[Len(text) + i] = F[i]
        <5>1. F \in Seq(Glyphs) /\ text \in Seq(Glyphs)
          BY <2>1
        <5> QED BY ONLY <5>1, Joined
      <4> HIDE DEF t, extra
      <4> QED BY <2>1, <3>1, <4>1
    <3> HIDE DEF t
    <3>3. SubSeq(t, 0 + 1, 0 + m) = text
      BY <1>1, <2>1, <3>2
    <3>4. ASSUME NEW i \in 1 .. Len(t), i \notin 0 + 1 .. 0 + m PROVE t[i] = fill
      <4>1. i - m \in 1 .. extra /\ m + (i - m) = i
        BY <1>1, <2>1, <3>2, <3>4
      <4> QED BY <2>1, <3>2, <4>1
    <3>5. m \in 0 .. Len(t) /\ m < d.width /\ Len(t) = d.width
      BY <1>1, <1>4, <2>1, <3>2
    <3>6. Renders(d, text) => IsField(d, t)
      BY <2>2, <3>3, <3>4, <3>5 DEF IsField, fill
    <3> QED BY <3>2, <3>6 DEF t
  <2>3. CASE ~d.left
    <3>1. t = F \o text
      BY <1>4, <2>3 DEF Padded, F
    <3>2. /\ t \in Seq(Glyphs) /\ Len(t) = extra + m /\ \A i \in 1 .. extra : t[i] = F[i]
          /\ \A i \in 1 .. m : t[extra + i] = text[i]
      <4>1. /\ F \o text \in Seq(Glyphs) /\ Len(F \o text) = Len(F) + Len(text)
            /\ \A i \in 1 .. Len(F) : (F \o text)[i] = F[i]
            /\ \A i \in 1 .. Len(text) : (F \o text)[Len(F) + i] = text[i]
        <5>1. F \in Seq(Glyphs) /\ text \in Seq(Glyphs)
          BY <2>1
        <5> QED BY ONLY <5>1, Joined
      <4> HIDE DEF t, extra
      <4> QED BY <2>1, <3>1, <4>1
    <3> HIDE DEF t
    <3>3. SubSeq(t, extra + 1, extra + m) = text
      <4>1. SubSeq(t, extra + 1, extra + m) = [i \in 1 .. m |-> t[extra + i]]
        <5>1. extra + m <= Len(t) /\ t \in Seq(Glyphs)
          BY <1>1, <2>1, <3>2
        <5> HIDE DEF m, extra
        <5> QED BY <1>1, <2>1, <5>1, PartOf
      <4>2. text = [i \in 1 .. m |-> text[i]]
        OBVIOUS
      <4> QED BY <3>2, <4>1, <4>2
    <3>4. ASSUME NEW i \in 1 .. Len(t), i \notin extra + 1 .. extra + m PROVE t[i] = fill
      <4>1. i \in 1 .. extra
        BY <1>1, <2>1, <3>2, <3>4
      <4> QED BY <2>1, <3>2, <4>1
    <3>5. m \in 0 .. Len(t) /\ m < d.width /\ Len(t) = d.width /\ Len(t) - m = extra
      BY <1>1, <1>4, <2>1, <3>2
    <3>6. Renders(d, text) => IsField(d, t)
      BY <2>3, <3>3, <3>4, <3>5 DEF IsField, fill
    <3> QED BY <3>2, <3>6 DEF t
  <2> QED BY <2>2, <2>3
<1> QED BY <1>3, <1>4

(* A text without its first character.                                     *)
LEMMA Rest ==
  ASSUME NEW S, NEW a \in Seq(S), a # <<>>
  PROVE  Tail(a) = [i \in 1 .. Len(a) - 1 |-> a[i + 1]]
<1>1. /\ Tail(a) \in Seq(S) /\ Len(Tail(a)) = Len(a) - 1
      /\ \A i \in 1 .. Len(Tail(a)) : Tail(a)[i] = a[i + 1]
  OBVIOUS
<1> DEFINE b == Tail(a)
<1> HIDE DEF b
<1>2. b \in Seq(S) /\ Len(b) = Len(a) - 1 /\ \A i \in 1 .. Len(b) : b[i] = a[i + 1]
  BY <1>1 DEF b
<1>3. b = [i \in 1 .. Len(b) |-> b[i]]
  BY <1>2
<1>4. b = [i \in 1 .. Len(a) - 1 |-> a[i + 1]]
  BY <1>2, <1>3
<1> QED BY <1>4 DEF b

(* cvtdec writes the numeral of its argument, after a sign.                *)
LEMMA DecRenders ==
  ASSUME NEW v \in MinInt .. MaxInt
  PROVE  /\ CvtDec(v) \in Seq(Glyphs)
         /\ v >= 0 => IsNumeral(CvtDec(v), v, 10)
         /\ v < 0 => /\ Len(CvtDec(v)) > 0 /\ CvtDec(v)[1] = "-"
                     /\ IsNumeral(Tail(CvtDec(v)), -v, 10)
<1> DEFINE M == CvtMagnitude(v)
<1>1. M \in Seq(Glyphs) /\ IsNumeral(M, IF v < 0 THEN -v ELSE v, 10)
  BY MagnitudeNumeral
<1>2. v \in Int
  BY PowerPositive, BitsNumber DEF MinInt, MaxInt
<1> HIDE DEF M
<1>3. CASE v < 0
  <2>1. CvtDec(v) = <<"-">> \o M
    BY <1>3 DEF CvtDec, M
  <2>2. <<"-">> \in Seq(Glyphs) /\ Len(<<"-">>) = 1
    BY DEF Glyphs
  <2>3. /\ <<"-">> \o M \in Seq(Glyphs) /\ Len(<<"-">> \o M) = Len(<<"-">>) + Len(M)
        /\ \A i \in 1 .. Len(<<"-">>) : (<<"-">> \o M)[i] = <<"-">>[i]
        /\ \A i \in 1 .. Len(M) : (<<"-">> \o M)[Len(<<"-">>) + i] = M[i]
    BY ONLY <1>1, <2>2, Joined
  <2> DEFINE t == <<"-">> \o M
  <2>4. t \in Seq(Glyphs) /\ Len(t) = 1 + Len(M) /\ t[1] = "-" /\ \A i \in 1 .. Len(M) : t[1 + i] = M[i]
    BY <2>2, <2>3
  <2> HIDE DEF t
  <2>5. Tail(t) = M
    <3>1. Tail(t) = [i \in 1 .. Len(t) - 1 |-> t[i + 1]]
      <4>1. t # <<>>
        BY <1>1, <2>4
      <4> QED BY ONLY <2>4, <4>1, Rest
    <3>2. Len(t) - 1 = Len(M) /\ \A i \in 1 .. Len(M) : t[i + 1] = M[i]
      BY <1>1, <2>4
    <3>3. M = [i \in 1 .. Len(M) |-> M[i]]
      BY <1>1
    <3> QED BY <3>1, <3>2, <3>3
  <2>6. Len(t) > 0
    BY <1>1, <2>4
  <2>7. CvtDec(v) = t
    BY <2>1 DEF t
  <2>8. IsNumeral(M, -v, 10)
    BY <1>1, <1>3
  <2>9. ~(v >= 0)
    BY <1>2, <1>3
  <2> QED BY <2>4, <2>5, <2>6, <2>7, <2>8, <2>9
<1>4. CASE ~(v < 0)
  <2>1. CvtDec(v) = <<>> \o M
    BY <1>4 DEF CvtDec, M
  <2>2. CvtDec(v) = M
    BY <1>1, <2>1
  <2> QED BY <1>1, <1>2, <1>4, <2>2
<1> QED BY <1>3, <1>4

(* A directive prints a text; one for a number in decimal or hexadecimal,  *)
(* a character or a string prints its field.                               *)
LEMMA FormattedField ==
  ASSUME NEW d, d.num \in MinInt .. MaxInt, d.width \in Nat, d.text \in Seq(STRING)
  PROVE  /\ Formatted(d) \in Seq(Glyphs)
         /\ d.conv \in {"c", "s", "d", "x"} => IsField(d, Formatted(d))
<1>1. d.num \in Int
  BY PowerPositive, BitsNumber DEF MinInt, MaxInt
<1>2. CASE d.conv = "d"
  <2>1. Converted(d) = CvtDec(d.num)
    BY <1>2 DEF Converted
  <2>2. Converted(d) \in Seq(Glyphs) /\ Renders(d, Converted(d))
    BY <1>1, <1>2, <2>1, DecRenders DEF Renders
  <2>3. Formatted(d) = Padded(d, Converted(d))
    BY <1>2 DEF Formatted
  <2> QED BY <2>2, <2>3, PaddedField
<1>3. CASE d.conv = "x"
  <2>1. Converted(d) = CvtHex(d.num)
    BY <1>3 DEF Converted
  <2>2. Converted(d) \in Seq(Glyphs) /\ Renders(d, Converted(d))
    BY <1>1, <1>3, <2>1, HexNumeral DEF Renders
  <2>3. Formatted(d) = Padded(d, Converted(d))
    BY <1>3 DEF Formatted
  <2> QED BY <2>2, <2>3, PaddedField
<1>4. CASE d.conv = "o"
  <2>1. Converted(d) = CvtOct(d.num)
    BY <1>4 DEF Converted
  <2>2. Converted(d) \in Seq(Glyphs)
    BY <1>1, <2>1, OctText
  <2>3. Formatted(d) = Padded(d, Converted(d))
    BY <1>4 DEF Formatted
  <2> QED BY <1>4, <2>2, <2>3, PaddedField
<1>5. CASE d.conv \in {"c", "s"}
  <2>1. Converted(d) = d.text
    BY <1>5 DEF Converted
  <2>2. Converted(d) \in Seq(Glyphs) /\ Renders(d, Converted(d))
    <3>1. d.text \in Seq(Glyphs)
      BY DEF Glyphs
    <3> QED BY <1>5, <2>1, <3>1 DEF Renders
  <2>3. Formatted(d) = Padded(d, Converted(d))
    BY <1>5 DEF Formatted
  <2> QED BY <2>2, <2>3, PaddedField
<1>6. CASE d.conv \notin {"c", "s", "d", "x", "o"}
  BY <1>6 DEF Formatted
<1> QED BY <1>2, <1>3, <1>4, <1>5, <1>6

(* All texts have a length.                                                *)
TextsPrinted == \A d \in Fields \cup FixedFields : Len(Formatted(d)) \in Nat

-----------------------------------------------------------------------------
(* Console output.                                                         *)

(* What the constants must satisfy.                                        *)
ConsoleSizes == ScreenSizes /\ CallSizes /\ TextsPrinted

(* They do.                                                                *)
LEMMA SizesHold == ConsoleSizes /\ PaperLasts
<1>1. ASSUME NEW d \in Fields \cup FixedFields PROVE Len(Formatted(d)) \in Nat
  <2>1. d.num \in MinInt .. MaxInt /\ d.width \in Nat /\ d.text \in Seq(STRING)
    BY ConsoleAssumption DEF FieldsTyped
  <2>2. Formatted(d) \in Seq(Glyphs)
    BY <2>1, FormattedField
  <2> QED BY <2>2
<1> QED BY <1>1, ScreenAssumption, ConsoleAssumption DEF ConsoleSizes, TextsPrinted

(* The region lies on the screen.                                          *)
RegionOn(r) ==
  /\ r.min_x \in Nat /\ r.max_x \in r.min_x .. Width - 1
  /\ r.min_y \in Nat /\ r.max_y \in r.min_y .. Height - 1

(* The states after each character of a text follow one another.           *)
LEMMA TextRuns ==
  ASSUME NEW text, Len(text) \in Nat
  PROVE  LET A == AfterText(text) IN
         /\ A[0] = [screen |-> screen, cursor |-> cursor, paper |-> paper]
         /\ \A i \in 1 .. Len(text) : A[i] = AfterChar(A[i - 1], region, text[i])
<1> DEFINE s0 == [screen |-> screen, cursor |-> cursor, paper |-> paper]
           Follows(f, n) == f = [i \in 0 .. n |-> IF i = 0 THEN s0
                                                  ELSE AfterChar(f[i - 1], region, text[i])]
<1>1. \A n \in Nat : \E f : Follows(f, n)
  <2> DEFINE T == {n \in Nat : ~\E f : Follows(f, n)}
  <2>1. SUFFICES ASSUME T # {} PROVE FALSE
    OBVIOUS
  <2>2. PICK n \in T : \A m \in T : n <= m
    <3>1. T \subseteq Nat
      OBVIOUS
    <3> QED BY <3>1, <2>1, LeastNumber
  <2>3. CASE n = 0
    <3>1. Follows([i \in 0 .. 0 |-> s0], 0)
      OBVIOUS
    <3> QED BY <3>1, <2>2, <2>3
  <2>4. CASE n # 0
    <3>1. n - 1 \in Nat /\ n - 1 \notin T
      BY <2>2, <2>4
    <3>2. PICK f : Follows(f, n - 1)
      BY <3>1
    <3> DEFINE g == [i \in 0 .. n |-> IF i < n THEN f[i]
                                      ELSE AfterChar(f[n - 1], region, text[n])]
    <3>3. \A i \in 0 .. n : g[i] = IF i = 0 THEN s0 ELSE AfterChar(g[i - 1], region, text[i])
      BY <3>1, <3>2, <2>2, <2>4
    <3>4. Follows(g, n)
      <4> HIDE DEF s0
      <4>1. g = [i \in 0 .. n |-> g[i]]
        OBVIOUS
      <4> HIDE DEF g
      <4> QED BY <4>1, <3>3
    <3> QED BY <3>4, <2>2
  <2> QED BY <2>3, <2>4
<1>2. \E f : Follows(f, Len(text))
  BY <1>1
<1>3. Follows(AfterText(text), Len(text))
  BY <1>2 DEF AfterText
<1> QED BY <1>3

(* The same of output at fixed positions.                                  *)
LEMMA FixedTextRuns ==
  ASSUME NEW text, Len(text) \in Nat, NEW x, NEW y
  PROVE  LET A == AfterTextAt(x, y, text) IN
         /\ A[0] = [screen |-> screen, x |-> x, y |-> y]
         /\ \A i \in 1 .. Len(text) : A[i] = AfterCharAt(A[i - 1], text[i])
<1> DEFINE s0 == [screen |-> screen, x |-> x, y |-> y]
           Follows(f, n) == f = [i \in 0 .. n |-> IF i = 0 THEN s0
                                                  ELSE AfterCharAt(f[i - 1], text[i])]
<1>1. \A n \in Nat : \E f : Follows(f, n)
  <2> DEFINE T == {n \in Nat : ~\E f : Follows(f, n)}
  <2>1. SUFFICES ASSUME T # {} PROVE FALSE
    OBVIOUS
  <2>2. PICK n \in T : \A m \in T : n <= m
    <3>1. T \subseteq Nat
      OBVIOUS
    <3> QED BY <3>1, <2>1, LeastNumber
  <2>3. CASE n = 0
    <3>1. Follows([i \in 0 .. 0 |-> s0], 0)
      OBVIOUS
    <3> QED BY <3>1, <2>2, <2>3
  <2>4. CASE n # 0
    <3>1. n - 1 \in Nat /\ n - 1 \notin T
      BY <2>2, <2>4
    <3>2. PICK f : Follows(f, n - 1)
      BY <3>1
    <3> DEFINE g == [i \in 0 .. n |-> IF i < n THEN f[i] ELSE AfterCharAt(f[n - 1], text[n])]
    <3>3. \A i \in 0 .. n : g[i] = IF i = 0 THEN s0 ELSE AfterCharAt(g[i - 1], text[i])
      BY <3>1, <3>2, <2>2, <2>4
    <3>4. Follows(g, n)
      <4> HIDE DEF s0
      <4>1. g = [i \in 0 .. n |-> g[i]]
        OBVIOUS
      <4> HIDE DEF g
      <4> QED BY <4>1, <3>3
    <3> QED BY <3>4, <2>2
  <2> QED BY <2>3, <2>4
<1>2. \E f : Follows(f, Len(text))
  BY <1>1
<1>3. Follows(AfterTextAt(x, y, text), Len(text))
  BY <1>2 DEF AfterTextAt
<1> QED BY <1>3

-----------------------------------------------------------------------------
(* The cursor.                                                             *)

(* A cursor in the region, or so far right or below as d and e allow.      *)
Near(c, r, d, e) ==
  c.x \in r.min_x .. r.max_x + d /\ c.y \in r.min_y .. r.max_y + e

(* Where the cursor is in the midst of c_putchar; a handler may have moved *)
(* it.                                                                     *)
CursorNear ==
  /\ part = "none" => Near(cursor, region, 0, 2)
  /\ part = "stored" => Near(cursor, region, 0, 1)
  /\ part \in {"moved", "wrap"} => Near(cursor, region, 1, 1)

(* What holds of region and cursor, whoever prints.                        *)
CursorInvariant ==
  /\ RegionOn(region) /\ CursorNear
  /\ part \in {"none", "stored", "moved", "wrap"} /\ puts \in Nat

(* The first part of c_putchar brings the cursor back to the last line.    *)
LEMMA CatchUpCursor ==
  ASSUME NEW s, NEW c, NEW r, RegionOn(r), NEW d \in {0, 1}, Near(c, r, d, 2), Width \in Nat, Height \in Nat
  PROVE  /\ Near(CatchUp(s, c, r).cursor, r, d, 0)
         /\ c.y <= r.max_y => CatchUp(s, c, r) = [screen |-> s, cursor |-> c]
         /\ c.y > r.max_y => /\ CatchUp(s, c, r).screen = Scrolled(s, r, c.y - r.max_y)
                             /\ CatchUp(s, c, r).cursor.y = r.max_y
                             /\ CatchUp(s, c, r).cursor.x \in {c.x, r.min_x}
                             /\ (c.x = r.min_x \/ c.y - r.max_y <= r.max_y - r.min_y)
                                  => CatchUp(s, c, r).cursor.x = c.x
BY DEF RegionOn, Near, CatchUp, ScrolledCursor, At

(* After c_putchar the cursor is in the region, or in the first column     *)
(* below it.                                                               *)
LEMMA PutCharCursor ==
  ASSUME NEW s, NEW c, NEW r, RegionOn(r), NEW d \in {0, 1}, Near(c, r, d, 2), NEW k,
         Width \in Nat, Height \in Nat
  PROVE  LET n == PutCharOn(s, c, r, k).cursor IN
         Near(n, r, 0, 1) /\ (n.y > r.max_y => n.x = r.min_x)
<1> DEFINE pos == CatchUp(s, c, r).cursor
           n == PutCharOn(s, c, r, k).cursor
<1>1. Near(pos, r, d, 0)
  BY CatchUpCursor
<1>2. n = IF k = "nl" THEN At(r.min_x, pos.y + 1)
          ELSE IF k = "cr" THEN At(r.min_x, pos.y) ELSE Advanced(pos, r)
  BY DEF PutCharOn
<1> HIDE DEF n, pos
<1>3. Near(n, r, 0, 1) /\ (n.y > r.max_y => n.x = r.min_x)
  BY <1>1, <1>2 DEF RegionOn, Near, At, Advanced
<1> QED BY <1>3 DEF n

(* So it is after a text.                                                  *)
LEMMA PutTextCursor ==
  ASSUME ConsoleSizes, RegionOn(region), Near(cursor, region, 0, 2), NEW text, Len(text) \in Nat
  PROVE  \A i \in 0 .. Len(text) : Near(AfterText(text)[i].cursor, region, 0, 2)
<1> DEFINE A == AfterText(text)
           T == {i \in 0 .. Len(text) : ~Near(A[i].cursor, region, 0, 2)}
<1>1. SUFFICES ASSUME T # {} PROVE FALSE
  OBVIOUS
<1>2. PICK n \in T : \A m \in T : n <= m
  <2>1. T \subseteq Nat
    OBVIOUS
  <2> QED BY <2>1, <1>1, LeastNumber
<1>3. A[0].cursor = cursor
  BY TextRuns
<1>4. n \in 1 .. Len(text)
  BY <1>2, <1>3
<1>5. n - 1 \in 0 .. Len(text) /\ n - 1 \notin T
  BY <1>2, <1>4
<1>6. A[n] = AfterChar(A[n - 1], region, text[n])
  BY <1>4, TextRuns
<1> HIDE DEF A
<1>7. Near(A[n - 1].cursor, region, 0, 2)
  BY <1>5
<1>8. A[n].cursor = PutCharOn(A[n - 1].screen, A[n - 1].cursor, region, text[n]).cursor
  BY <1>6 DEF AfterChar
<1>9. Near(A[n].cursor, region, 0, 1)
  BY <1>7, <1>8, PutCharCursor DEF ConsoleSizes, ScreenSizes
<1>10. Near(A[n].cursor, region, 0, 2)
  BY <1>9 DEF Near, RegionOn
<1> QED BY <1>10, <1>2

(* The calls that do not interrupt one another leave the cursor in the     *)
(* region, or where it was.                                                *)
LEMMA OtherKeepsCursor ==
  ASSUME ConsoleSizes, CursorInvariant, Other
  PROVE  CursorInvariant'
<1> USE DEF ConsoleSizes, ScreenSizes, CallSizes
<1>1. part = "none" /\ part' = "none" /\ puts' = puts
  BY DEF Other, Call
<1>2. RegionOn(region) /\ Near(cursor, region, 0, 2) /\ puts \in Nat
  BY <1>1 DEF CursorInvariant, CursorNear
<1>3. SUFFICES RegionOn(region)' /\ Near(cursor, region, 0, 2)'
  BY <1>1, <1>2 DEF CursorInvariant, CursorNear
<1>4. ASSUME NEW d \in Fields, Printf(d)
      PROVE  RegionOn(region)' /\ Near(cursor, region, 0, 2)'
  <2>1. Len(Formatted(d)) \in Nat
    BY DEF TextsPrinted
  <2>2. Near(AfterText(Formatted(d))[Len(Formatted(d))].cursor, region, 0, 2)
    BY <2>1, <1>2, PutTextCursor
  <2>3. region' = region /\ cursor' = AfterText(Formatted(d))[Len(Formatted(d))].cursor
    BY <1>4 DEF Printf, PutText
  <2> QED BY <1>2, <2>2, <2>3 DEF RegionOn, Near
<1>5. ASSUME NEW n \in Args, Scroll(n)
      PROVE  RegionOn(region)' /\ Near(cursor, region, 0, 2)'
  <2>1. region' = region /\ cursor' = ScrolledCursor(cursor, region, n)
    BY <1>5 DEF Scroll
  <2> QED BY <1>2, <2>1 DEF RegionOn, Near, ScrolledCursor, At
<1>6. ASSUME NEW x1 \in Args, NEW y1 \in Args, NEW x2 \in Args, NEW y2 \in Args,
             SetScroll(x1, y1, x2, y2)
      PROVE  RegionOn(region)' /\ Near(cursor, region, 0, 2)'
  <2>1. Width - 1 \in Nat /\ Height - 1 \in Nat /\ x1 \in Nat /\ y1 \in Nat /\ x2 \in Nat /\ y2 \in Nat
    OBVIOUS
  <2> DEFINE mx == Bound(0, x1, Width - 1)
             my == Bound(0, y1, Height - 1)
  <2>2. mx \in 0 .. Width - 1 /\ my \in 0 .. Height - 1
    BY <2>1 DEF Bound
  <2>3. /\ region' = [min_x |-> mx, min_y |-> my, max_x |-> Bound(mx, x2, Width - 1),
                      max_y |-> Bound(my, y2, Height - 1)]
        /\ cursor' = [x |-> mx, y |-> my]
    BY <1>6 DEF SetScroll, At
  <2> HIDE DEF mx, my
  <2>4. Bound(mx, x2, Width - 1) \in mx .. Width - 1 /\ Bound(my, y2, Height - 1) \in my .. Height - 1
    BY <2>1, <2>2 DEF Bound
  <2> QED BY <2>2, <2>3, <2>4 DEF RegionOn, Near
<1>7. ASSUME NEW x \in Args, NEW y \in Args, MoveTo(x, y)
      PROVE  RegionOn(region)' /\ Near(cursor, region, 0, 2)'
  <2>1. region' = region
        /\ cursor' = [x |-> Bound(region.min_x, x + region.min_x, region.max_x),
                      y |-> Bound(region.min_y, y + region.min_y, region.max_y)]
    BY <1>7 DEF MoveTo, At
  <2> QED BY <1>2, <2>1 DEF RegionOn, Near, Bound
<1>8. ASSUME region' = region, cursor' = cursor
      PROVE  RegionOn(region)' /\ Near(cursor, region, 0, 2)'
  BY <1>2, <1>8 DEF RegionOn, Near
<1>9. ASSUME NEW x, NEW y, NEW text, PutTextAt(x, y, text)
      PROVE  region' = region /\ cursor' = cursor
  BY <1>9 DEF PutTextAt
<1>10. ASSUME Clear \/ ClearScreen PROVE region' = region /\ cursor' = cursor
  BY <1>10 DEF Clear, ClearScreen
<1>11. ASSUME NEW x, NEW y, NEW d, PrintfAt(x, y, d) PROVE region' = region /\ cursor' = cursor
  BY <1>9, <1>11 DEF PrintfAt
<1> HIDE DEF ConsoleSizes, ScreenSizes, CallSizes
<1> QED BY <1>4, <1>5, <1>6, <1>7, <1>8, <1>9, <1>10, <1>11 DEF Other

(* Every step keeps region and cursor in order.                            *)
LEMMA StepKeepsCursor ==
  ASSUME ConsoleSizes, CursorInvariant, [ConsoleNext]_consoleVars
  PROVE  CursorInvariant'
<1> USE DEF ConsoleSizes, ScreenSizes
<1>1. CASE HandlerPuts
  <2>1. PICK k \in Chars : PutChar(k)
    BY <1>1 DEF HandlerPuts
  <2>2. /\ region' = region /\ part' = part /\ puts' = puts + 1
        /\ cursor' = PutCharOn(screen, cursor, region, k).cursor
    BY <1>1, <2>1 DEF HandlerPuts, Put, PutChar
  <2>3. RegionOn(region) /\ \E d \in {0, 1} : Near(cursor, region, d, 2)
    BY DEF CursorInvariant, CursorNear, Near, RegionOn
  <2>4. Near(PutCharOn(screen, cursor, region, k).cursor, region, 0, 1)
    BY <2>3, PutCharCursor
  <2>5. Near(cursor, region, 0, 1)' /\ RegionOn(region)'
    BY <2>2, <2>3, <2>4 DEF Near, RegionOn
  <2>6. CursorNear'
    BY <2>5 DEF CursorNear, Near, RegionOn
  <2> QED BY <2>2, <2>5, <2>6 DEF CursorInvariant
<1>2. CASE ProcessPuts
  <2>1. PICK k \in Chars : StoreChar(k)
    BY <1>2 DEF ProcessPuts
  <2>2. /\ region' = region /\ part = "none" /\ part' = "stored" /\ puts' = puts + 1
        /\ cursor' = CatchUp(screen, cursor, region).cursor
    BY <1>2, <2>1 DEF ProcessPuts, Put, StoreChar
  <2>3. RegionOn(region) /\ Near(cursor, region, 0, 2)
    BY <2>2 DEF CursorInvariant, CursorNear
  <2>4. Near(CatchUp(screen, cursor, region).cursor, region, 0, 0)
    BY <2>3, CatchUpCursor
  <2> QED BY <2>2, <2>3, <2>4 DEF CursorInvariant, CursorNear, Near, RegionOn
<1>3. CASE ProcessGoesOn
  <2>1. region' = region /\ puts' = puts
    BY <1>3 DEF ProcessGoesOn, MoveRight, TestEnd, Wrap
  <2>2. CASE MoveRight
    BY <2>1, <2>2 DEF MoveRight, At, CursorInvariant, CursorNear, Near, RegionOn
  <2>3. CASE TestEnd
    BY <2>1, <2>3 DEF TestEnd, CursorInvariant, CursorNear, Near, RegionOn
  <2>4. CASE Wrap
    BY <2>1, <2>4 DEF Wrap, At, CursorInvariant, CursorNear, Near, RegionOn
  <2> QED BY <1>3, <2>2, <2>3, <2>4 DEF ProcessGoesOn
<1>4. CASE Other
  BY <1>4, OtherKeepsCursor
<1>5. CASE UNCHANGED consoleVars
  BY <1>5 DEF consoleVars, screenVars, CursorInvariant, CursorNear, Near, RegionOn
<1> QED BY <1>1, <1>2, <1>3, <1>4, <1>5 DEF ConsoleNext

(* Region and cursor start in order.                                       *)
LEMMA CursorStarts ==
  ASSUME ConsoleSizes, ConsoleInit
  PROVE  CursorInvariant
BY DEF ConsoleSizes, ScreenSizes, ConsoleInit, ScreenInit, At, CursorInvariant, CursorNear, Near,
       RegionOn

(* However handlers print inside a process's c_putchar (c_io.c 163-200),   *)
(* on a screen of any size and for any calls in between, the cursor is     *)
(* back in the region, or at most two lines below, when the call ends.     *)
THEOREM CursorComesBack ==
  ConsoleSpec => []CursorRecovers
<1>0. ConsoleSizes
  BY SizesHold
<1> USE <1>0
<1>1. ConsoleInit => CursorInvariant
  BY CursorStarts
<1>2. CursorInvariant /\ [ConsoleNext]_consoleVars => CursorInvariant'
  BY StepKeepsCursor
<1>3. CursorInvariant => CursorRecovers
  BY DEF CursorInvariant, CursorNear, Near, RegionOn, CursorRecovers
<1> QED BY <1>1, <1>2, <1>3, PTL DEF ConsoleSpec

-----------------------------------------------------------------------------
(* The video memory.                                                       *)

(* Rows of characters.                                                     *)
IsScreen(s) == DOMAIN s = Rows /\ \A y \in Rows : DOMAIN s[y] = Cols

(* What is outside the region r is as it was.                              *)
KeptOutside(s, t, r) ==
  \A x \in Cols, y \in Rows : ~InRegion(r, x, y) => t[y][x] = s[y][x]

(* Clearing and scrolling rewrite the region alone.                        *)
LEMMA ScrollsInRegion ==
  ASSUME NEW s, IsScreen(s), NEW r, RegionOn(r), NEW n \in Nat, Width \in Nat, Height \in Nat
  PROVE  /\ IsScreen(ClearScroll(s, r)) /\ KeptOutside(s, ClearScroll(s, r), r)
         /\ IsScreen(Scrolled(s, r, n)) /\ KeptOutside(s, Scrolled(s, r, n), r)
<1>1. IsScreen(ClearScroll(s, r)) /\ KeptOutside(s, ClearScroll(s, r), r)
  <2>1. ClearScroll(s, r) = [y \in Rows |-> [x \in Cols |->
                                 IF InRegion(r, x, y) THEN "blank" ELSE s[y][x]]]
    BY DEF ClearScroll, Redraw
  <2> QED BY <2>1 DEF IsScreen, KeptOutside
<1>2. CASE n > r.max_y - r.min_y
  BY <1>1, <1>2 DEF Scrolled
<1>3. CASE ~(n > r.max_y - r.min_y)
  <2>1. Scrolled(s, r, n) = [y \in Rows |-> [x \in Cols |->
          IF InRegion(r, x, y) THEN (IF y + n <= r.max_y THEN s[y + n][x] ELSE "blank")
          ELSE s[y][x]]]
    BY <1>3 DEF Scrolled, Redraw
  <2>4. IsScreen(Scrolled(s, r, n))
    BY <2>1 DEF IsScreen
  <2>5. KeptOutside(s, Scrolled(s, r, n), r)
    BY <2>1 DEF KeptOutside
  <2> QED BY <1>1, <2>4, <2>5
<1> QED BY <1>1, <1>2, <1>3

(* A character drawn changes one position at most.                         *)
LEMMA DrawsOne ==
  ASSUME NEW s, IsScreen(s), NEW c, NEW k
  PROVE  /\ IsScreen(Drawn(s, c, k))
         /\ \A x \in Cols, y \in Rows :
              Drawn(s, c, k)[y][x] = IF c.x = x /\ c.y = y THEN k ELSE s[y][x]
BY DEF IsScreen, Drawn

(* The first part of c_putchar rewrites the region alone.                  *)
LEMMA CatchUpInRegion ==
  ASSUME NEW s, IsScreen(s), NEW c, NEW r, RegionOn(r), NEW d \in {0, 1}, Near(c, r, d, 2),
         Width \in Nat, Height \in Nat
  PROVE  IsScreen(CatchUp(s, c, r).screen) /\ KeptOutside(s, CatchUp(s, c, r).screen, r)
<1>1. CASE c.y <= r.max_y
  BY <1>1, CatchUpCursor DEF KeptOutside
<1>2. CASE c.y > r.max_y
  <2>1. c.y - r.max_y \in Nat
    BY <1>2 DEF RegionOn, Near
  <2>2. CatchUp(s, c, r).screen = Scrolled(s, r, c.y - r.max_y)
    BY <1>2, CatchUpCursor
  <2> QED BY <2>1, <2>2, ScrollsInRegion
<1> QED BY <1>1, <1>2 DEF RegionOn, Near

(* c_putchar keeps the video memory, and rewrites the region alone if the  *)
(* cursor is in one of its columns.                                        *)
LEMMA PutCharInRegion ==
  ASSUME NEW s, IsScreen(s), NEW c, NEW r, RegionOn(r), NEW d \in {0, 1}, Near(c, r, d, 2),
         NEW k, Width \in Nat, Height \in Nat
  PROVE  /\ IsScreen(PutCharOn(s, c, r, k).screen)
         /\ d = 0 => KeptOutside(s, PutCharOn(s, c, r, k).screen, r)
<1> DEFINE old == CatchUp(s, c, r).screen
           pos == CatchUp(s, c, r).cursor
           new == PutCharOn(s, c, r, k).screen
<1>1. IsScreen(old) /\ KeptOutside(s, old, r)
  BY CatchUpInRegion
<1>2. Near(pos, r, d, 0)
  BY CatchUpCursor
<1>3. /\ k = "nl" => new = [old EXCEPT ![pos.y] = [x \in Cols |->
                              IF x \in pos.x .. r.max_x THEN "blank" ELSE @[x]]]
      /\ k = "cr" => new = old
      /\ k \notin {"nl", "cr"} => new = Drawn(old, pos, k)
  BY DEF PutCharOn
<1> HIDE DEF old, pos, new
<1>4. CASE k = "nl"
  <2> DEFINE row == [x \in Cols |-> IF x \in pos.x .. r.max_x THEN "blank" ELSE old[pos.y][x]]
  <2>1. pos.y \in Rows
    BY <1>2 DEF Near, RegionOn, Rows
  <2>2. new = [old EXCEPT ![pos.y] = row]
    BY <1>3, <1>4
  <2>3. DOMAIN row = Cols
    OBVIOUS
  <2>4. \A x \in Cols : row[x] = IF x \in pos.x .. r.max_x THEN "blank" ELSE old[pos.y][x]
    OBVIOUS
  <2> HIDE DEF row
  <2>5. IsScreen(new) /\ \A y \in Rows : new[y] = IF y = pos.y THEN row ELSE old[y]
    BY <1>1, <2>1, <2>2, <2>3 DEF IsScreen
  <2>6. ASSUME d = 0, NEW x \in Cols, NEW y \in Rows, ~InRegion(r, x, y)
        PROVE  new[y][x] = s[y][x]
    BY <1>1, <1>2, <2>4, <2>5, <2>6 DEF KeptOutside, InRegion, Near, RegionOn, Cols
  <2> QED BY <2>5, <2>6 DEF KeptOutside, new
<1>5. CASE k = "cr"
  BY <1>1, <1>3, <1>5 DEF new
<1>6. CASE k \notin {"nl", "cr"}
  <2>1. IsScreen(new) /\ \A x \in Cols, y \in Rows :
          new[y][x] = IF pos.x = x /\ pos.y = y THEN k ELSE old[y][x]
    BY <1>1, <1>3, <1>6, DrawsOne
  <2>2. ASSUME d = 0, NEW x \in Cols, NEW y \in Rows, ~InRegion(r, x, y)
        PROVE  new[y][x] = s[y][x]
    BY <1>1, <1>2, <2>1, <2>2 DEF KeptOutside, InRegion, Near, RegionOn
  <2> QED BY <2>1, <2>2 DEF KeptOutside, new
<1> QED BY <1>4, <1>5, <1>6

(* A text keeps the video memory.                                          *)
LEMMA PutTextScreen ==
  ASSUME ConsoleSizes, RegionOn(region), Near(cursor, region, 0, 2), IsScreen(screen),
         NEW text, Len(text) \in Nat
  PROVE  \A i \in 0 .. Len(text) : IsScreen(AfterText(text)[i].screen)
<1> DEFINE A == AfterText(text)
           T == {i \in 0 .. Len(text) : ~IsScreen(A[i].screen)}
<1>1. SUFFICES ASSUME T # {} PROVE FALSE
  OBVIOUS
<1>2. PICK n \in T : \A m \in T : n <= m
  <2>1. T \subseteq Nat
    OBVIOUS
  <2> QED BY <2>1, <1>1, LeastNumber
<1>3. A[0].screen = screen
  BY TextRuns
<1>4. n \in 1 .. Len(text)
  BY <1>2, <1>3
<1>5. n - 1 \in 0 .. Len(text) /\ n - 1 \notin T
  BY <1>2, <1>4
<1>6. A[n] = AfterChar(A[n - 1], region, text[n])
  BY <1>4, TextRuns
<1>7. Near(A[n - 1].cursor, region, 0, 2)
  BY <1>5, PutTextCursor
<1> HIDE DEF A
<1>8. IsScreen(A[n - 1].screen)
  BY <1>5
<1>9. A[n].screen = PutCharOn(A[n - 1].screen, A[n - 1].cursor, region, text[n]).screen
  BY <1>6 DEF AfterChar
<1>10. IsScreen(A[n].screen)
  BY <1>7, <1>8, <1>9, PutCharInRegion DEF ConsoleSizes, ScreenSizes
<1> QED BY <1>10, <1>2

(* So does a text at a fixed position.                                     *)
LEMMA PutTextAtScreen ==
  ASSUME IsScreen(screen), NEW x, NEW y, NEW text, Len(text) \in Nat
  PROVE  \A i \in 0 .. Len(text) : IsScreen(AfterTextAt(x, y, text)[i].screen)
<1> DEFINE A == AfterTextAt(x, y, text)
           T == {i \in 0 .. Len(text) : ~IsScreen(A[i].screen)}
<1>0. /\ A[0] = [screen |-> screen, x |-> x, y |-> y]
      /\ \A i \in 1 .. Len(text) : A[i] = AfterCharAt(A[i - 1], text[i])
  BY FixedTextRuns
<1>1. SUFFICES ASSUME T # {} PROVE FALSE
  OBVIOUS
<1>2. PICK n \in T : \A m \in T : n <= m
  <2>1. T \subseteq Nat
    OBVIOUS
  <2> QED BY <2>1, <1>1, LeastNumber
<1>3. A[0].screen = screen
  BY <1>0
<1>4. n \in 1 .. Len(text)
  BY <1>2, <1>3
<1>5. n - 1 \in 0 .. Len(text) /\ n - 1 \notin T
  BY <1>2, <1>4
<1>6. A[n] = AfterCharAt(A[n - 1], text[n])
  BY <1>0, <1>4
<1> HIDE DEF A
<1>7. IsScreen(A[n - 1].screen)
  BY <1>5
<1>8. A[n].screen = PutCharAtOn(A[n - 1].screen, A[n - 1].x, A[n - 1].y, text[n].ch)
  BY <1>6 DEF AfterCharAt
<1>9. IsScreen(A[n].screen)
  <2>1. CASE text[n].ch = "nl"
    BY <1>8, <2>1 DEF PutCharAtOn, IsScreen
  <2>2. CASE text[n].ch # "nl"
    BY <1>7, <1>8, <2>2, DrawsOne DEF PutCharAtOn
  <2> QED BY <2>1, <2>2
<1> QED BY <1>9, <1>2

(* Every step keeps the video memory.                                      *)
LEMMA StepKeepsScreen ==
  ASSUME ConsoleSizes, CursorInvariant, IsScreen(screen), [ConsoleNext]_consoleVars
  PROVE  IsScreen(screen)'
<1> SUFFICES IsScreen(screen')
  BY DEF IsScreen
<1>0. Width \in Nat /\ Height \in Nat /\ Args \subseteq Nat /\ RegionOn(region)
  BY DEF ConsoleSizes, ScreenSizes, CallSizes, CursorInvariant
<1>1. CASE HandlerPuts
  <2>1. PICK k \in Chars : screen' = PutCharOn(screen, cursor, region, k).screen
    BY <1>1 DEF HandlerPuts, PutChar
  <2>2. \E d \in {0, 1} : Near(cursor, region, d, 2)
    BY DEF CursorInvariant, CursorNear, Near, RegionOn
  <2> QED BY <1>0, <2>1, <2>2, PutCharInRegion
<1>2. CASE ProcessPuts
  <2>1. PICK k \in Chars : /\ part = "none"
                            /\ screen' = Drawn(CatchUp(screen, cursor, region).screen,
                                                 CatchUp(screen, cursor, region).cursor, k)
    BY <1>2 DEF ProcessPuts, StoreChar
  <2>2. Near(cursor, region, 0, 2)
    BY <2>1 DEF CursorInvariant, CursorNear
  <2> QED BY <1>0, <2>1, <2>2, CatchUpInRegion, DrawsOne
<1>3. CASE ProcessGoesOn \/ UNCHANGED consoleVars
  BY <1>3 DEF ProcessGoesOn, MoveRight, TestEnd, Wrap, consoleVars, screenVars
<1>4. CASE Other
  <2>1. Near(cursor, region, 0, 2)
    BY <1>4 DEF Other, CursorInvariant, CursorNear
  <2>2. ASSUME NEW d \in Fields, Printf(d) PROVE IsScreen(screen')
    <3>1. Len(Formatted(d)) \in Nat
      BY DEF ConsoleSizes, TextsPrinted
    <3>2. screen' = AfterText(Formatted(d))[Len(Formatted(d))].screen
      BY <2>2 DEF Printf, PutText
    <3> QED BY <1>0, <2>1, <3>1, <3>2, PutTextScreen
  <2>3. ASSUME NEW n \in Args, Scroll(n) PROVE IsScreen(screen')
    BY <1>0, <2>3, ScrollsInRegion DEF Scroll
  <2>4. ASSUME Clear PROVE IsScreen(screen')
    <3>1. 0 \in Nat
      OBVIOUS
    <3> QED BY <1>0, <2>4, <3>1, ScrollsInRegion DEF Clear
  <2>5. ASSUME NEW x, NEW y, MoveTo(x, y) PROVE IsScreen(screen')
    BY <2>5 DEF MoveTo
  <2>6. ASSUME NEW x1, NEW y1, NEW x2, NEW y2, SetScroll(x1, y1, x2, y2) PROVE IsScreen(screen')
    BY <2>6 DEF SetScroll
  <2>7. ASSUME ClearScreen PROVE IsScreen(screen')
    BY <2>7 DEF ClearScreen, IsScreen
  <2>8. ASSUME NEW x, NEW y, NEW text, Len(text) \in Nat, PutTextAt(x, y, text)
        PROVE  IsScreen(screen')
    BY <2>8, PutTextAtScreen DEF PutTextAt
  <2>9. ASSUME NEW x, NEW y, NEW d \in FixedFields, PrintfAt(x, y, d) PROVE IsScreen(screen')
    <3> DEFINE body == [i \in 1 .. Len(Formatted(d)) |-> [ch |-> Formatted(d)[i], literal |-> FALSE]]
               rest == <<[ch |-> "nl", literal |-> TRUE], [ch |-> "a", literal |-> TRUE]>>
    <3>1. Len(Formatted(d)) \in Nat
      BY DEF ConsoleSizes, TextsPrinted
    <3>2. body \in Seq([ch : {Formatted(d)[i] : i \in 1 .. Len(Formatted(d))}, literal : BOOLEAN])
      BY <3>1
    <3>3. Len(body) = Len(Formatted(d)) /\ Len(rest) = 2
      BY <3>1
    <3>4. Len(body \o rest) \in Nat
      BY <3>1, <3>2, <3>3
    <3> QED BY <2>8, <2>9, <3>4 DEF PrintfAt
  <2>10. ASSUME NEW x, NEW y, NEW e, PutTextAt(x, y, <<e>>) PROVE IsScreen(screen')
    <3>1. Len(<<e>>) \in Nat
      OBVIOUS
    <3> QED BY <2>8, <2>10, <3>1
  <2> QED BY <1>4, <2>2, <2>3, <2>4, <2>5, <2>6, <2>7, <2>9, <2>10 DEF Other
<1> QED BY <1>1, <1>2, <1>3, <1>4 DEF ConsoleNext

(* A newline put beside the region clears nothing inside it.               *)
LEMMA NewLineBeside ==
  ASSUME ConsoleSizes, RegionOn(region), NEW x \in Args, NEW y \in Args,
         PutTextAt(x, y, <<[ch |-> "nl", literal |-> FALSE]>>),
         x \notin region.min_x .. region.max_x, NEW u \in Cols, NEW v \in Rows,
         InRegion(region, u, v)
  PROVE  screen'[v][u] = screen[v][u]
<1> DEFINE text == <<[ch |-> "nl", literal |-> FALSE]>>
           A == AfterTextAt(x, y, text)
<1>1. Len(text) = 1 /\ text[1].ch = "nl"
  OBVIOUS
<1> HIDE DEF text
<1>2. A[0] = [screen |-> screen, x |-> x, y |-> y] /\ A[1] = AfterCharAt(A[0], text[1])
  BY <1>1, FixedTextRuns
<1>3. screen' = A[1].screen
  BY <1>1 DEF PutTextAt, text
<1> HIDE DEF A
<1>4. screen' = PutCharAtOn(screen, x, y, "nl")
  BY <1>1, <1>2, <1>3 DEF AfterCharAt
<1>5. screen'[v][u] = IF v = y /\ u \in x .. Limit(x, region) THEN "blank" ELSE screen[v][u]
  BY <1>4 DEF PutCharAtOn
<1>6. x \in Nat /\ Width \in Nat
  BY DEF ConsoleSizes, CallSizes, ScreenSizes
<1>7. u \notin x .. Limit(x, region)
  BY <1>6 DEF Limit, InRegion, RegionOn, Cols
<1> QED BY <1>5, <1>7

(* Region, cursor and video memory in order.                               *)
OutputInvariant == CursorInvariant /\ IsScreen(screen)

(* Output into the region that does not interrupt c_putchar, and newlines  *)
(* beside the region, keep apart in every step.                            *)
LEMMA StepKeepsApart ==
  ASSUME ConsoleSizes, OutputInvariant, [ConsoleNext]_consoleVars
  PROVE  /\ (part = "none" /\ puts' > puts) =>
              \A x \in Cols, y \in Rows :
                ~InRegion(region, x, y) => screen'[y][x] = screen[y][x]
         /\ \A x, y \in Args :
              /\ PutTextAt(x, y, <<[ch |-> "nl", literal |-> FALSE]>>)
              /\ x \notin region.min_x .. region.max_x
              => \A u \in Cols, v \in Rows :
                   InRegion(region, u, v) => screen'[v][u] = screen[v][u]
<1>0. Width \in Nat /\ Height \in Nat /\ RegionOn(region) /\ puts \in Nat /\ IsScreen(screen)
  BY DEF ConsoleSizes, ScreenSizes, OutputInvariant, CursorInvariant
<1>1. ASSUME part = "none", puts' > puts PROVE KeptOutside(screen, screen', region)
  <2>1. Near(cursor, region, 0, 2)
    BY <1>1 DEF OutputInvariant, CursorInvariant, CursorNear
  <2>2. CASE HandlerPuts
    <3>1. PICK k \in Chars : screen' = PutCharOn(screen, cursor, region, k).screen
      BY <2>2 DEF HandlerPuts, PutChar
    <3> QED BY <1>0, <2>1, <3>1, PutCharInRegion
  <2>3. CASE ProcessPuts
    <3> DEFINE old == CatchUp(screen, cursor, region).screen
               pos == CatchUp(screen, cursor, region).cursor
    <3>1. PICK k \in Chars : screen' = Drawn(old, pos, k)
      BY <2>3 DEF ProcessPuts, StoreChar
    <3>2. IsScreen(old) /\ KeptOutside(screen, old, region)
      BY <1>0, <2>1, CatchUpInRegion
    <3>3. Near(pos, region, 0, 0)
      BY <1>0, <2>1, CatchUpCursor
    <3> HIDE DEF old, pos
    <3>4. \A x \in Cols, y \in Rows : screen'[y][x] = IF pos.x = x /\ pos.y = y THEN k ELSE old[y][x]
      BY <3>1, <3>2, DrawsOne
    <3> QED BY <1>0, <3>2, <3>3, <3>4 DEF KeptOutside, Near, RegionOn, InRegion
  <2>4. ~ProcessGoesOn /\ ~Other /\ ~UNCHANGED consoleVars
    BY <1>0, <1>1 DEF ProcessGoesOn, Other, Call, consoleVars
  <2> QED BY <2>2, <2>3, <2>4 DEF ConsoleNext
<1>2. ASSUME NEW x \in Args, NEW y \in Args,
             PutTextAt(x, y, <<[ch |-> "nl", literal |-> FALSE]>>),
             x \notin region.min_x .. region.max_x
      PROVE  \A u \in Cols, v \in Rows :
               InRegion(region, u, v) => screen'[v][u] = screen[v][u]
  BY <1>0, <1>2, NewLineBeside
<1> QED BY <1>1, <1>2 DEF KeptOutside

(* Output that scrolls and output at fixed positions do not disturb one    *)
(* another (c_io.c 134-160, 163-200), whatever the sizes of screen and     *)
(* region.                                                                 *)
THEOREM OutputsKeptApart ==
  ConsoleSpec => RegionKeptApart
<1>0. ConsoleSizes
  BY SizesHold
<1> USE <1>0
<1>1. ConsoleInit => OutputInvariant
  <2>1. ConsoleInit => IsScreen(screen)
    BY DEF ConsoleInit, ScreenInit, IsScreen
  <2> QED BY <2>1, CursorStarts DEF OutputInvariant
<1>2. OutputInvariant /\ [ConsoleNext]_consoleVars => OutputInvariant'
  BY StepKeepsCursor, StepKeepsScreen DEF OutputInvariant
<1>3. OutputInvariant /\ [ConsoleNext]_consoleVars =>
        [/\ (part = "none" /\ puts' > puts) =>
              \A x \in Cols, y \in Rows :
                ~InRegion(region, x, y) => screen'[y][x] = screen[y][x]
         /\ \A x, y \in Args :
              /\ PutTextAt(x, y, <<[ch |-> "nl", literal |-> FALSE]>>)
              /\ x \notin region.min_x .. region.max_x
              => \A u \in Cols, v \in Rows :
                   InRegion(region, u, v) => screen'[v][u] = screen[v][u]]_consoleVars
  BY StepKeepsApart
<1> QED BY <1>1, <1>2, <1>3, PTL DEF ConsoleSpec, RegionKeptApart

-----------------------------------------------------------------------------
(* The typewriter.                                                         *)

(* A sheet of paper, typed on at a line that it has.                       *)
IsPaper(p) ==
  /\ p = [line |-> p.line, col |-> p.col, last |-> p.last, text |-> p.text]
  /\ p.line \in Nat /\ p.last \in Nat /\ p.last <= p.line
  /\ DOMAIN p.text = Lines /\ \A l \in Lines : DOMAIN p.text[l] = Cols

(* What typing a character does to each part of the paper.                 *)
LEMMA TypedParts ==
  ASSUME NEW p, IsPaper(p), NEW r, NEW k
  PROVE  LET q == Typed(p, r, k)
             full == p.col + 1 = r.max_x - r.min_x + 1
         IN /\ q = [line |-> q.line, col |-> q.col, last |-> q.last, text |-> q.text]
            /\ q.last = p.line
            /\ k = "cr" => q.line = p.line /\ q.col = 0 /\ q.text = p.text
            /\ k = "nl" => /\ q.line = p.line + 1 /\ q.col = 0
                           /\ q.text = [p.text EXCEPT ![p.line] =
                                [x \in Cols |-> IF x >= p.col THEN "blank" ELSE p.text[p.line][x]]]
            /\ k \notin {"cr", "nl"} =>
                 /\ full => q.line = p.line + 1 /\ q.col = 0
                 /\ ~full => q.line = p.line /\ q.col = p.col + 1
                 /\ q.text = [p.text EXCEPT ![p.line] = [p.text[p.line] EXCEPT ![p.col] = k]]
<1> DEFINE q == Typed(p, r, k)
           L == p.line
           K == p.col
           X == p.text
           full == K + 1 = r.max_x - r.min_x + 1
<1>1. p = [line |-> L, col |-> K, last |-> p.last, text |-> X]
  BY DEF IsPaper
<1>2. CASE k = "cr"
  <2>1. q = [line |-> L, col |-> 0, last |-> L, text |-> X]
    BY <1>1, <1>2 DEF Typed
  <2> QED BY <1>2, <2>1
<1>3. CASE k = "nl"
  <2>1. q = [line |-> L + 1, col |-> 0, last |-> L,
             text |-> [X EXCEPT ![L] = [x \in Cols |-> IF x >= K THEN "blank" ELSE X[L][x]]]]
    BY <1>1, <1>3 DEF Typed
  <2> QED BY <1>3, <2>1
<1>4. CASE k \notin {"cr", "nl"}
  <2>1. full => q = [line |-> L + 1, col |-> 0, last |-> L,
             text |-> [X EXCEPT ![L] = [X[L] EXCEPT ![K] = k]]]
    BY <1>1, <1>4 DEF Typed
  <2>2. ~full => q = [line |-> L, col |-> K + 1, last |-> L,
             text |-> [X EXCEPT ![L] = [X[L] EXCEPT ![K] = k]]]
    BY <1>1, <1>4 DEF Typed
  <2> QED BY <1>4, <2>1, <2>2
<1> QED BY <1>2, <1>3, <1>4

(* The line typed on is the last one typed on.                             *)
LEMMA TypedLast ==
  ASSUME NEW p, IsPaper(p), NEW r, NEW k
  PROVE  Typed(p, r, k).last = p.line
<1>1. p = [line |-> p.line, col |-> p.col, last |-> p.last, text |-> p.text]
  BY DEF IsPaper
<1>2. CASE k = "cr"
  BY <1>1, <1>2 DEF Typed
<1>3. CASE k = "nl"
  BY <1>1, <1>3 DEF Typed
<1>4. CASE k \notin {"cr", "nl"}
  BY <1>1, <1>4 DEF Typed
<1> QED BY <1>2, <1>3, <1>4

(* The line of the paper p at the top of the region.                       *)
First(p, r) ==
  IF p.last < r.max_y - r.min_y + 1 THEN 0 ELSE p.last - (r.max_y - r.min_y + 1) + 1

(* The region shows the paper from line f on.                              *)
ShowsFrom(s, r, p, f) ==
  \A y \in r.min_y .. r.max_y, x \in r.min_x .. r.max_x :
    p.text[f + y - r.min_y][x - r.min_x] # "open" => s[y][x] = p.text[f + y - r.min_y][x - r.min_x]

(* Cursor and typewriter are at the same place if line f is at the top.    *)
SamePlace(c, r, p, f) == c.x - r.min_x = p.col /\ c.y - r.min_y = p.line - f

(* Nothing was typed yet on the lines that have not been in the region.    *)
BlankBelow(r, p) ==
  \A l \in Lines, x \in Cols :
    l > p.last /\ l > r.max_y - r.min_y => p.text[l][x] = "blank"

(* A cursor in the region, or in the first column below.                   *)
Resting(c, r) == Near(c, r, 0, 1) /\ (c.y > r.max_y => c.x = r.min_x)

(* Screen and cursor agree with the typewriter.                            *)
Matches(s, c, r, p) ==
  /\ IsPaper(p) /\ Resting(c, r) /\ SamePlace(c, r, p, First(p, r))
  /\ ShowsFrom(s, r, p, First(p, r)) /\ BlankBelow(r, p)

(* After the delayed scroll the line that is typed on next is in the       *)
(* region.                                                                 *)
LEMMA CatchUpMatches ==
  ASSUME ConsoleSizes, NEW s, IsScreen(s), NEW c, NEW r, RegionOn(r), NEW p, Matches(s, c, r, p),
         p.line \in Lines, NEW q, q.last = p.line
  PROVE  LET new == CatchUp(s, c, r) IN
         /\ Near(new.cursor, r, 0, 0) /\ SamePlace(new.cursor, r, p, First(q, r))
         /\ ShowsFrom(new.screen, r, p, First(q, r)) /\ First(q, r) \in Nat
<1> DEFINE new == CatchUp(s, c, r)
           f == First(p, r)
           g == First(q, r)
           h == r.max_y - r.min_y
<1>0. /\ Width \in Nat /\ Height \in Nat /\ r.min_x \in Nat /\ r.max_x \in r.min_x .. Width - 1
      /\ r.min_y \in Nat /\ r.max_y \in r.min_y .. Height - 1
      /\ p.line \in Nat /\ p.last \in Nat /\ p.last <= p.line
  BY DEF ConsoleSizes, ScreenSizes, RegionOn, Matches, IsPaper
<1>1. Near(c, r, 0, 1) /\ (c.y > r.max_y => c.x = r.min_x) /\ SamePlace(c, r, p, f)
  BY DEF Matches, Resting
<1>2. Near(c, r, 0, 2)
  BY <1>0, <1>1 DEF Near
<1>3. CASE c.y <= r.max_y
  <2>1. new = [screen |-> s, cursor |-> c] /\ Near(new.cursor, r, 0, 0)
    BY <1>0, <1>2, <1>3, CatchUpCursor
  <2>2. g = f /\ f \in Nat
    BY <1>0, <1>1, <1>3 DEF SamePlace, Near, First
  <2> QED BY <1>1, <2>1, <2>2 DEF Matches
<1>4. CASE c.y > r.max_y
  <2>1. /\ c.y = r.max_y + 1 /\ c.x = r.min_x
        /\ f \in Nat /\ g = f + 1 /\ p.line = g + h /\ p.line > p.last /\ p.line > h
    BY <1>0, <1>1, <1>4 DEF SamePlace, Near, First
  <2>2. /\ Near(new.cursor, r, 0, 0) /\ new.screen = Scrolled(s, r, 1)
        /\ new.cursor.y = r.max_y /\ new.cursor.x = c.x
    <3>1. c.y - r.max_y = 1
      BY <1>0, <2>1
    <3> QED BY <1>0, <1>2, <1>4, <2>1, <3>1, CatchUpCursor
  <2>3. SamePlace(new.cursor, r, p, g)
    BY <1>0, <1>1, <2>1, <2>2 DEF SamePlace
  <2>4. ASSUME NEW y \in r.min_y .. r.max_y, NEW x \in r.min_x .. r.max_x
        PROVE  new.screen[y][x] = IF y = r.max_y THEN "blank" ELSE s[y + 1][x]
    <3>1. y \in Rows /\ x \in Cols /\ InRegion(r, x, y)
      BY <1>0 DEF Rows, Cols, InRegion
    <3>2. CASE h = 0
      <4>1. Scrolled(s, r, 1)[y][x] = "blank"
        BY <1>0, <3>1, <3>2 DEF Scrolled, ClearScroll, Redraw
      <4> QED BY <1>0, <2>2, <3>2, <4>1
    <3>3. CASE h # 0
      <4>1. Scrolled(s, r, 1)[y][x] = IF y + 1 <= r.max_y THEN s[y + 1][x] ELSE "blank"
        BY <1>0, <3>1, <3>3 DEF Scrolled, Redraw
      <4> QED BY <1>0, <2>2, <4>1
    <3> QED BY <3>2, <3>3
  <2>5. ASSUME NEW y \in r.min_y .. r.max_y, NEW x \in r.min_x .. r.max_x,
               p.text[g + y - r.min_y][x - r.min_x] # "open"
        PROVE  new.screen[y][x] = p.text[g + y - r.min_y][x - r.min_x]
    <3>1. CASE y = r.max_y
      <4>1. g + y - r.min_y = p.line /\ x - r.min_x \in Cols
        BY <1>0, <2>1, <3>1 DEF Cols
      <4>2. p.text[p.line][x - r.min_x] = "blank"
        BY <2>1, <4>1 DEF Matches, BlankBelow
      <4> QED BY <2>4, <3>1, <4>1, <4>2
    <3>2. CASE y # r.max_y
      <4>1. y + 1 \in r.min_y .. r.max_y /\ g + y - r.min_y = f + (y + 1) - r.min_y
        BY <1>0, <2>1, <3>2
      <4>2. s[y + 1][x] = p.text[f + (y + 1) - r.min_y][x - r.min_x]
        BY <2>5, <4>1 DEF Matches, ShowsFrom
      <4> QED BY <2>4, <3>2, <4>1, <4>2
    <3> QED BY <3>1, <3>2
  <2>6. ShowsFrom(new.screen, r, p, g)
    BY <2>5 DEF ShowsFrom
  <2> QED BY <2>1, <2>2, <2>3, <2>6
<1> QED BY <1>0, <1>1, <1>3, <1>4 DEF Near

(* c_putchar and the typewriter put a character at the same place, and go  *)
(* on to the same place.                                                   *)
LEMMA PutCharMatches ==
  ASSUME ConsoleSizes, NEW s, IsScreen(s), NEW c, NEW r, RegionOn(r), NEW p, Matches(s, c, r, p),
         p.line \in Lines, NEW k
  PROVE  LET q == Typed(p, r, k) IN
         /\ Matches(PutCharOn(s, c, r, k).screen, PutCharOn(s, c, r, k).cursor, r, q)
         /\ q.line <= p.line + 1
<1> DEFINE old == CatchUp(s, c, r).screen
           pos == CatchUp(s, c, r).cursor
           new == PutCharOn(s, c, r, k)
           q == Typed(p, r, k)
           f == First(q, r)
<1>0. /\ Width \in Nat /\ Height \in Nat /\ r.min_x \in Nat /\ r.max_x \in r.min_x .. Width - 1
      /\ r.min_y \in Nat /\ r.max_y \in r.min_y .. Height - 1
      /\ p.line \in Nat /\ p.last \in Nat /\ p.last <= p.line /\ IsPaper(p)
  BY DEF ConsoleSizes, ScreenSizes, RegionOn, Matches, IsPaper
<1>1. Near(c, r, 0, 2)
  BY <1>0 DEF Matches, Resting, Near
<1>2. IsScreen(old)
  BY <1>0, <1>1, CatchUpInRegion
<1>3. Resting(new.cursor, r)
  BY <1>0, <1>1, PutCharCursor DEF Resting
<1>4. q.last = p.line
  BY <1>0, TypedLast
<1>5. Near(pos, r, 0, 0) /\ SamePlace(pos, r, p, f) /\ ShowsFrom(old, r, p, f) /\ f \in Nat
  BY <1>4, CatchUpMatches
<1>6. /\ pos.x \in r.min_x .. r.max_x /\ pos.y \in r.min_y .. r.max_y /\ pos.y \in Rows
      /\ p.col = pos.x - r.min_x /\ p.line = f + pos.y - r.min_y /\ p.col \in Cols
  BY <1>0, <1>5 DEF Near, SamePlace, Cols, Rows
<1>7. /\ q = [line |-> q.line, col |-> q.col, last |-> q.last, text |-> q.text]
      /\ k = "cr" => q.line = p.line /\ q.col = 0 /\ q.text = p.text
      /\ k = "nl" => /\ q.line = p.line + 1 /\ q.col = 0
                     /\ q.text = [p.text EXCEPT ![p.line] =
                          [x \in Cols |-> IF x >= p.col THEN "blank" ELSE p.text[p.line][x]]]
      /\ k \notin {"cr", "nl"} =>
           /\ p.col = r.max_x - r.min_x => q.line = p.line + 1 /\ q.col = 0
           /\ p.col # r.max_x - r.min_x => q.line = p.line /\ q.col = p.col + 1
           /\ q.text = [p.text EXCEPT ![p.line] = [p.text[p.line] EXCEPT ![p.col] = k]]
  <2>1. p.col + 1 = r.max_x - r.min_x + 1 <=> p.col = r.max_x - r.min_x
    BY <1>0, <1>6
  <2> QED BY <1>0, <2>1, TypedParts
<1>8. /\ k = "nl" => /\ new.cursor = At(r.min_x, pos.y + 1)
                     /\ new.screen = [old EXCEPT ![pos.y] = [x \in Cols |->
                                        IF x \in pos.x .. r.max_x THEN "blank" ELSE old[pos.y][x]]]
      /\ k = "cr" => new.cursor = At(r.min_x, pos.y) /\ new.screen = old
      /\ k \notin {"cr", "nl"} => new.cursor = Advanced(pos, r) /\ new.screen = Drawn(old, pos, k)
  BY DEF PutCharOn
<1>9. DOMAIN p.text = Lines /\ \A l \in Lines : DOMAIN p.text[l] = Cols
  BY <1>0 DEF IsPaper
<1>10. \A y \in r.min_y .. r.max_y : f + y - r.min_y \in Lines /\ y \in Rows
  <2>1. f <= p.line /\ p.line <= Height + Feeds /\ Feeds \in Nat
    BY <1>0, <1>5, <1>6 DEF Lines, ConsoleSizes, ScreenSizes
  <2>2. f = 0 \/ f + r.max_y - r.min_y = p.line
    BY <1>0, <1>4 DEF First
  <2> QED BY <1>0, <1>5, <2>1, <2>2 DEF Lines, Rows
<1>11. \A x \in r.min_x .. r.max_x : x \in Cols /\ x - r.min_x \in Cols
  BY <1>0 DEF Cols
<1> HIDE DEF old, pos, new, q, f
<1>12. /\ DOMAIN q.text = Lines /\ \A l \in Lines : DOMAIN q.text[l] = Cols
       /\ \A l \in Lines : l # p.line => q.text[l] = p.text[l]
  <2>1. CASE k = "cr"
    BY <1>7, <1>9, <2>1
  <2>2. CASE k = "nl"
    BY <1>7, <1>9, <2>2
  <2>3. CASE k \notin {"cr", "nl"}
    BY <1>7, <1>9, <2>3
  <2> QED BY <2>1, <2>2, <2>3
<1>13. q.line \in Nat /\ q.last <= q.line /\ q.line <= p.line + 1
  BY <1>0, <1>4, <1>7
<1>14. IsPaper(q)
  BY <1>0, <1>4, <1>7, <1>12, <1>13 DEF IsPaper
<1>15. SamePlace(new.cursor, r, q, f)
  BY <1>0, <1>5, <1>6, <1>7, <1>8 DEF SamePlace, At, Advanced
<1>16. BlankBelow(r, q)
  <2>1. ASSUME NEW l \in Lines, NEW x \in Cols, l > q.last, l > r.max_y - r.min_y
        PROVE  q.text[l][x] = "blank"
    <3>1. l # p.line /\ l > p.last
      BY <1>0, <1>4, <2>1 DEF Lines
    <3> QED BY <1>12, <2>1, <3>1 DEF Matches, BlankBelow
  <2> QED BY <2>1 DEF BlankBelow
<1>17. ASSUME NEW y \in r.min_y .. r.max_y, NEW x \in r.min_x .. r.max_x,
              q.text[f + y - r.min_y][x - r.min_x] # "open"
       PROVE  new.screen[y][x] = q.text[f + y - r.min_y][x - r.min_x]
  <2> DEFINE l == f + y - r.min_y
             u == x - r.min_x
  <2>1. l \in Lines /\ y \in Rows /\ x \in Cols /\ u \in Cols
    BY <1>10, <1>11
  <2>2. (l = p.line <=> y = pos.y) /\ (u = p.col <=> x = pos.x) /\ (u >= p.col <=> x >= pos.x)
    BY <1>0, <1>5, <1>6
  <2>3. p.text[l][u] # "open" => old[y][x] = p.text[l][u]
    BY <1>5 DEF ShowsFrom
  <2> HIDE DEF l, u
  <2>4. q.text[l][u] # "open" => new.screen[y][x] = q.text[l][u]
    <3>1. CASE k = "cr"
      BY <1>7, <1>8, <2>3, <3>1
    <3>2. CASE k = "nl"
      <4>1. new.screen[y][x] = IF y = pos.y /\ x \in pos.x .. r.max_x THEN "blank" ELSE old[y][x]
        <5> DEFINE row == [v \in Cols |->
                             IF v \in pos.x .. r.max_x THEN "blank" ELSE old[pos.y][v]]
        <5>1. new.screen = [old EXCEPT ![pos.y] = row]
          BY <1>8, <3>2
        <5>2. row[x] = IF x \in pos.x .. r.max_x THEN "blank" ELSE old[pos.y][x]
          BY <2>1
        <5> HIDE DEF row
        <5>3. new.screen[y] = IF y = pos.y THEN row ELSE old[y]
          BY <1>2, <1>6, <2>1, <5>1 DEF IsScreen
        <5> QED BY <5>2, <5>3
      <4>2. q.text[l][u] = IF l = p.line /\ u >= p.col THEN "blank" ELSE p.text[l][u]
        BY <1>7, <1>9, <2>1, <3>2
      <4>3. x \in pos.x .. r.max_x <=> x >= pos.x
        BY <1>0, <1>6
      <4> QED BY <2>2, <2>3, <4>1, <4>2, <4>3
    <3>3. CASE k \notin {"cr", "nl"}
      <4>1. new.screen[y][x] = IF y = pos.y /\ x = pos.x THEN k ELSE old[y][x]
        BY <1>2, <1>8, <2>1, <3>3, DrawsOne
      <4>2. q.text[l][u] = IF l = p.line /\ u = p.col THEN k ELSE p.text[l][u]
        BY <1>6, <1>7, <1>9, <2>1, <3>3
      <4> QED BY <2>2, <2>3, <4>1, <4>2
    <3> QED BY <3>1, <3>2, <3>3
  <2> QED BY <1>17, <2>4 DEF l, u
<1>18. ShowsFrom(new.screen, r, q, f)
  BY <1>17 DEF ShowsFrom
<1>19. Matches(new.screen, new.cursor, r, q)
  BY <1>3, <1>14, <1>15, <1>16, <1>18 DEF Matches, f
<1> QED BY <1>13, <1>19 DEF new, q

(* A text and the typewriter agree character by character.                 *)
LEMMA PutTextMatches ==
  ASSUME ConsoleSizes, RegionOn(region), IsScreen(screen), Matches(screen, cursor, region, paper),
         NEW text, Len(text) \in Nat, paper.line + Len(text) <= Height + Feeds
  PROVE  \A i \in 0 .. Len(text) :
           /\ Matches(AfterText(text)[i].screen, AfterText(text)[i].cursor, region,
                      AfterText(text)[i].paper)
           /\ AfterText(text)[i].paper.line <= paper.line + i
<1> DEFINE A == AfterText(text)
           Good(i) == /\ Matches(A[i].screen, A[i].cursor, region, A[i].paper)
                      /\ A[i].paper.line <= paper.line + i
           T == {i \in 0 .. Len(text) : ~Good(i)}
<1>1. SUFFICES ASSUME T # {} PROVE FALSE
  OBVIOUS
<1>2. PICK n \in T : \A m \in T : n <= m
  <2>1. T \subseteq Nat
    OBVIOUS
  <2> QED BY <2>1, <1>1, LeastNumber
<1>3. A[0].screen = screen /\ A[0].cursor = cursor /\ A[0].paper = paper
  BY TextRuns
<1>4. paper.line \in Nat /\ Near(cursor, region, 0, 2)
  BY DEF Matches, IsPaper, Resting, Near, RegionOn
<1>5. n \in 1 .. Len(text)
  <2>1. Good(0)
    BY <1>3, <1>4
  <2> QED BY <1>2, <2>1
<1>6. n - 1 \in 0 .. Len(text) /\ n - 1 \notin T
  BY <1>2, <1>5
<1>7. A[n] = AfterChar(A[n - 1], region, text[n])
  BY <1>5, TextRuns
<1>8. IsScreen(A[n - 1].screen)
  BY <1>4, <1>6, PutTextScreen
<1> HIDE DEF A
<1>9. Good(n - 1)
  BY <1>6
<1>10. /\ A[n].screen = PutCharOn(A[n - 1].screen, A[n - 1].cursor, region, text[n]).screen
       /\ A[n].cursor = PutCharOn(A[n - 1].screen, A[n - 1].cursor, region, text[n]).cursor
       /\ A[n].paper = Typed(A[n - 1].paper, region, text[n])
  BY <1>7 DEF AfterChar
<1>11. A[n - 1].paper.line \in Nat
  BY <1>9 DEF Matches, IsPaper
<1>12. A[n - 1].paper.line \in Lines
  BY <1>4, <1>5, <1>9, <1>11 DEF Lines, ConsoleSizes, ScreenSizes
<1>13. /\ Matches(A[n].screen, A[n].cursor, region, A[n].paper)
       /\ A[n].paper.line <= A[n - 1].paper.line + 1
  BY <1>8, <1>9, <1>10, <1>12, PutCharMatches
<1>14. A[n].paper.line \in Nat
  BY <1>13 DEF Matches, IsPaper
<1>15. Good(n)
  BY <1>4, <1>5, <1>9, <1>11, <1>13, <1>14
<1> QED BY <1>15, <1>2

(* A new sheet agrees with every cursor that rests.                        *)
LEMMA NewPaperMatches ==
  ASSUME ConsoleSizes, NEW s, NEW c, NEW r, RegionOn(r), Resting(c, r)
  PROVE  Matches(s, c, r, NewPaper(r, c)) /\ NewPaper(r, c).line <= Height
<1> DEFINE p == NewPaper(r, c)
<1>0. /\ Width \in Nat /\ Height \in Nat /\ Feeds \in Nat
      /\ r.min_x \in Nat /\ r.max_x \in r.min_x .. Width - 1
      /\ r.min_y \in Nat /\ r.max_y \in r.min_y .. Height - 1
      /\ c.y \in r.min_y .. r.max_y + 1 /\ c.x \in r.min_x .. r.max_x
  BY DEF ConsoleSizes, ScreenSizes, RegionOn, Resting, Near
<1>1. /\ p = [line |-> p.line, col |-> p.col, last |-> p.last, text |-> p.text]
      /\ p.line = c.y - r.min_y /\ p.col = c.x - r.min_x /\ p.last = 0
      /\ p.text = [l \in Lines |->
              [x \in Cols |-> IF l <= r.max_y - r.min_y THEN "open" ELSE "blank"]]
  BY DEF NewPaper
<1> HIDE DEF p
<1>2. p.line \in Nat /\ p.line <= Height /\ First(p, r) = 0
  BY <1>0, <1>1 DEF First
<1>3. IsPaper(p)
  BY <1>1, <1>2 DEF IsPaper
<1>4. SamePlace(c, r, p, 0)
  BY <1>0, <1>1 DEF SamePlace
<1>5. ShowsFrom(s, r, p, 0)
  <2>1. ASSUME NEW y \in r.min_y .. r.max_y, NEW x \in r.min_x .. r.max_x
        PROVE  p.text[0 + y - r.min_y][x - r.min_x] = "open"
    <3>1. /\ 0 + y - r.min_y \in Lines /\ x - r.min_x \in Cols
          /\ 0 + y - r.min_y <= r.max_y - r.min_y
      BY <1>0 DEF Lines, Cols
    <3> QED BY <1>1, <3>1
  <2> QED BY <2>1 DEF ShowsFrom
<1>6. BlankBelow(r, p)
  <2>1. ASSUME NEW l \in Lines, NEW x \in Cols, l > r.max_y - r.min_y PROVE p.text[l][x] = "blank"
    <3>1. ~(l <= r.max_y - r.min_y)
      BY <1>0, <2>1 DEF Lines
    <3> QED BY <1>1, <3>1
  <2> QED BY <2>1 DEF BlankBelow
<1>7. Matches(s, c, r, p)
  BY <1>2, <1>3, <1>4, <1>5, <1>6 DEF Matches
<1> QED BY <1>2, <1>7 DEF p

-----------------------------------------------------------------------------

(* The longest text of a directive.                                        *)
Most == CHOOSE most \in 0 .. Feeds : /\ \A d \in Fields : Len(Formatted(d)) <= most
                                     /\ MaxChars + MaxCalls * most <= Feeds

(* Where the cursor will be when the process has left c_putchar.           *)
Coming ==
  CASE part = "none" -> cursor
    [] part = "stored" -> Advanced(cursor, region)
    [] part = "moved" -> IF cursor.x > region.max_x THEN At(region.min_x, cursor.y + 1) ELSE cursor
    [] OTHER -> At(region.min_x, cursor.y + 1)

(* Undisturbed output: screen and typewriter agree, the end of a call that *)
(* is in progress included, and there is paper left.                       *)
Typing ==
  /\ Matches(screen, Coming, region, paper)
  /\ paper.line <= Height + puts + calls * Most
  /\ part = "none" => shown = SetCursor(cursor, region)

(* The inductive invariant of the console.                                 *)
ConsoleInvariant ==
  /\ OutputInvariant /\ puts \in 0 .. MaxChars /\ calls \in 0 .. MaxCalls /\ torn \in BOOLEAN
  /\ ~torn => Typing

(* The paper lasts for what may still be put.                              *)
LEMMA RoomOnPaper ==
  ASSUME ConsoleSizes, PaperLasts, NEW a \in 0 .. MaxChars, NEW b \in 0 .. MaxCalls
  PROVE  /\ Most \in Nat /\ a + b * Most <= Feeds /\ b * Most \in Nat
         /\ b < MaxCalls => /\ (b + 1) * Most = b * Most + Most
                            /\ a + b * Most + Most <= Feeds
         /\ \A d \in Fields : Len(Formatted(d)) <= Most
<1>1. /\ Most \in 0 .. Feeds /\ \A d \in Fields : Len(Formatted(d)) <= Most
      /\ MaxChars + MaxCalls * Most <= Feeds
  BY DEF PaperLasts, Most
<1>2. MaxChars \in Nat /\ MaxCalls \in Nat /\ Feeds \in Nat /\ Most \in Nat
  BY <1>1 DEF ConsoleSizes, CallSizes, ScreenSizes
<1>3. \A i, j, m \in Nat : i <= j => i * m <= j * m /\ i * m \in Nat /\ j * m \in Nat
  <2>1. ASSUME NEW i \in Nat, NEW j \in Nat, NEW m \in Nat, i <= j
        PROVE  i * m <= j * m /\ i * m \in Nat /\ j * m \in Nat
    <3>1. (j - i) * m \in Nat /\ j * m = i * m + (j - i) * m /\ i * m \in Nat
      BY <2>1
    <3> QED BY <3>1
  <2> QED BY <2>1
<1>4. \A i, m \in Nat : (i + 1) * m = i * m + m
  OBVIOUS
<1> HIDE DEF Most
<1>5. b \in Nat /\ b * Most <= MaxCalls * Most /\ b * Most \in Nat /\ MaxCalls * Most \in Nat
  BY <1>2, <1>3
<1>6. b < MaxCalls => (b + 1) * Most <= MaxCalls * Most /\ (b + 1) * Most = b * Most + Most
  BY <1>2, <1>3, <1>4, <1>5
<1> QED BY <1>1, <1>2, <1>5, <1>6

(* Paper that is typed on has the line.                                    *)
LEMMA LineOnPaper ==
  ASSUME ConsoleSizes, PaperLasts, ConsoleInvariant, Typing
  PROVE  paper.line \in Lines /\ paper.line \in Nat
<1>1. paper.line \in Nat /\ paper.line <= Height + puts + calls * Most
  BY DEF Typing, Matches, IsPaper
<1>2. puts + calls * Most <= Feeds /\ calls * Most \in Nat /\ puts \in Nat
  BY RoomOnPaper DEF ConsoleInvariant
<1>3. Height \in Nat /\ Feeds \in Nat
  BY DEF ConsoleSizes, ScreenSizes
<1> HIDE DEF Most
<1> QED BY <1>1, <1>2, <1>3 DEF Lines

(* Output of a handler keeps the invariant.                                *)
LEMMA HandlerKeepsTyping ==
  ASSUME ConsoleSizes, PaperLasts, ConsoleInvariant, HandlerPuts, ~torn'
  PROVE  Typing'
<1>1. part = "none" /\ part' = "none" /\ Typing /\ puts' = puts + 1 /\ calls' = calls
  BY DEF HandlerPuts, Put, ConsoleInvariant
<1>2. PICK k \in Chars : PutChar(k)
  BY DEF HandlerPuts
<1>3. /\ screen' = PutCharOn(screen, cursor, region, k).screen
      /\ cursor' = PutCharOn(screen, cursor, region, k).cursor
      /\ shown' = SetCursor(cursor', region) /\ region' = region
      /\ paper' = Typed(paper, region, k)
  BY <1>2 DEF PutChar
<1>4. Matches(screen, cursor, region, paper) /\ RegionOn(region) /\ IsScreen(screen)
  BY <1>1 DEF Typing, Coming, ConsoleInvariant, OutputInvariant, CursorInvariant
<1>5. paper.line \in Lines /\ paper.line \in Nat
  BY <1>1, LineOnPaper
<1>6. Matches(screen', cursor', region, paper') /\ paper'.line <= paper.line + 1
  BY <1>3, <1>4, <1>5, PutCharMatches
<1>7. paper'.line <= Height + puts' + calls' * Most
  <2>1. /\ paper.line <= Height + puts + calls * Most /\ puts \in Nat /\ Height \in Nat
        /\ calls * Most \in Nat
    BY <1>1, RoomOnPaper DEF Typing, ConsoleInvariant, ConsoleSizes, ScreenSizes
  <2>2. paper'.line \in Nat
    BY <1>6 DEF Matches, IsPaper
  <2> HIDE DEF Most
  <2> QED BY <1>1, <1>5, <1>6, <2>1, <2>2
<1>8. Coming' = cursor'
  BY <1>1 DEF Coming
<1>9. Matches(screen', Coming', region', paper')
  BY <1>3, <1>6, <1>8
<1> QED BY <1>1, <1>3, <1>7, <1>9 DEF Typing

(* So does the first part of c_putchar in a process.                       *)
LEMMA StoreKeepsTyping ==
  ASSUME ConsoleSizes, PaperLasts, ConsoleInvariant, ProcessPuts, ~torn'
  PROVE  Typing'
<1>1. PICK k \in Chars \ {"nl", "cr"} : StoreChar(k)
  BY DEF ProcessPuts
<1>2. part = "none" /\ part' = "stored" /\ Typing /\ puts' = puts + 1 /\ calls' = calls
  BY <1>1 DEF ProcessPuts, Put, StoreChar, ConsoleInvariant
<1>3. /\ screen' = Drawn(CatchUp(screen, cursor, region).screen,
                           CatchUp(screen, cursor, region).cursor, k)
      /\ cursor' = CatchUp(screen, cursor, region).cursor /\ region' = region
      /\ paper' = Typed(paper, region, k)
  BY <1>1 DEF StoreChar
<1>4. Matches(screen, cursor, region, paper) /\ RegionOn(region) /\ IsScreen(screen)
  BY <1>2 DEF Typing, Coming, ConsoleInvariant, OutputInvariant, CursorInvariant
<1>5. paper.line \in Lines /\ paper.line \in Nat
  BY <1>2, LineOnPaper
<1>6. /\ screen' = PutCharOn(screen, cursor, region, k).screen
      /\ Advanced(cursor', region) = PutCharOn(screen, cursor, region, k).cursor
  BY <1>3 DEF PutCharOn
<1>7. Matches(screen', Advanced(cursor', region), region, paper') /\ paper'.line <= paper.line + 1
  BY <1>3, <1>4, <1>5, <1>6, PutCharMatches
<1>8. paper'.line <= Height + puts' + calls' * Most
  <2>1. /\ paper.line <= Height + puts + calls * Most /\ puts \in Nat /\ Height \in Nat
        /\ calls * Most \in Nat
    BY <1>2, RoomOnPaper DEF Typing, ConsoleInvariant, ConsoleSizes, ScreenSizes
  <2>2. paper'.line \in Nat
    BY <1>7 DEF Matches, IsPaper
  <2> HIDE DEF Most
  <2> QED BY <1>2, <1>5, <1>7, <2>1, <2>2
<1>9. Coming' = Advanced(cursor', region)
  BY <1>2, <1>3 DEF Coming
<1>10. Matches(screen', Coming', region', paper')
  BY <1>3, <1>7, <1>9
<1> QED BY <1>2, <1>8, <1>10 DEF Typing

(* The rest of c_putchar goes where it was expected to.                    *)
LEMMA GoingOnKeepsTyping ==
  ASSUME ConsoleInvariant, ProcessGoesOn, ~torn'
  PROVE  Typing'
<1>1. /\ Typing /\ puts' = puts /\ calls' = calls /\ screen' = screen /\ region' = region
      /\ paper' = paper
  BY DEF ProcessGoesOn, MoveRight, TestEnd, Wrap, ConsoleInvariant
<1>2. Coming' = Coming /\ (part' = "none" => shown' = SetCursor(cursor', region))
  <2>1. CASE MoveRight
    BY <1>1, <2>1 DEF MoveRight, Coming, Advanced, At
  <2>2. CASE TestEnd
    BY <1>1, <2>2 DEF TestEnd, Coming
  <2>3. CASE Wrap
    BY <1>1, <2>3 DEF Wrap, Coming
  <2> QED BY <2>1, <2>2, <2>3 DEF ProcessGoesOn
<1>3. Matches(screen', Coming', region', paper')
  BY <1>1, <1>2 DEF Typing
<1>4. paper'.line <= Height + puts' + calls' * Most
  BY <1>1 DEF Typing
<1> QED BY <1>1, <1>2, <1>3, <1>4 DEF Typing

(* c_printf keeps the invariant.                                           *)
LEMMA PrintfKeepsTyping ==
  ASSUME ConsoleSizes, PaperLasts, ConsoleInvariant, Typing, part = "none", part' = "none",
         puts' = puts, calls < MaxCalls, calls' = calls + 1, NEW d \in Fields, Printf(d)
  PROVE  Typing'
<1> DEFINE text == Formatted(d)
           A == AfterText(text)
           end == Len(text)
<1>1. end \in Nat
  BY DEF ConsoleSizes, TextsPrinted
<1>2. Matches(screen, cursor, region, paper) /\ RegionOn(region) /\ IsScreen(screen)
  BY DEF Typing, Coming, ConsoleInvariant, OutputInvariant, CursorInvariant
<1>3. /\ Most \in Nat /\ (calls + 1) * Most = calls * Most + Most /\ calls * Most \in Nat
      /\ puts + calls * Most + Most <= Feeds /\ end <= Most /\ puts \in Nat
  BY RoomOnPaper DEF ConsoleInvariant
<1>4. /\ paper.line \in Nat /\ paper.line <= Height + puts + calls * Most
      /\ Height \in Nat /\ Feeds \in Nat
  BY DEF Typing, Matches, IsPaper, ConsoleSizes, ScreenSizes
<1>5. /\ screen' = A[end].screen /\ cursor' = A[end].cursor /\ paper' = A[end].paper
      /\ region' = region /\ shown' = IF text = <<>> THEN shown ELSE SetCursor(cursor', region)
  BY DEF Printf, PutText
<1>6. paper.line + end <= Height + Feeds
  <2> HIDE DEF Most, text
  <2> QED BY <1>1, <1>3, <1>4
<1>7. Matches(screen', cursor', region, paper') /\ paper'.line <= paper.line + end
  <2>1. end \in 0 .. Len(text)
    BY <1>1
  <2>2. \A i \in 0 .. Len(text) : /\ Matches(A[i].screen, A[i].cursor, region, A[i].paper)
                                  /\ A[i].paper.line <= paper.line + i
    BY <1>1, <1>2, <1>6, PutTextMatches
  <2> QED BY <1>5, <2>1, <2>2
<1>8. paper'.line <= Height + puts' + calls' * Most
  <2>1. paper'.line \in Nat
    BY <1>7 DEF Matches, IsPaper
  <2> HIDE DEF Most, text
  <2> QED BY <1>1, <1>3, <1>4, <1>7, <2>1
<1>9. shown' = SetCursor(cursor', region)
  <2>1. CASE text = <<>>
    <3>1. end = 0
      BY <2>1
    <3>2. A[0].cursor = cursor
      BY <1>1, TextRuns
    <3>3. cursor' = cursor /\ shown = SetCursor(cursor, region) /\ shown' = shown
      BY <1>5, <2>1, <3>1, <3>2 DEF Typing
    <3> QED BY <3>3
  <2> QED BY <1>5, <2>1
<1>10. Coming' = cursor'
  BY DEF Coming
<1>11. Matches(screen', Coming', region', paper')
  BY <1>5, <1>7, <1>10
<1> QED BY <1>5, <1>8, <1>9, <1>11 DEF Typing

(* The calls that print no text into the region.                           *)
Rearranges ==
  \/ \E n \in Args : Scroll(n)
  \/ Clear
  \/ \E x1, y1, x2, y2 \in Args : SetScroll(x1, y1, x2, y2)
  \/ \E x, y \in Args : MoveTo(x, y)
  \/ ClearScreen
  \/ \E x, y \in Args, d \in FixedFields : PrintfAt(x, y, d)
  \/ \E x, y \in Args, k \in Chars : PutTextAt(x, y, <<[ch |-> k, literal |-> FALSE]>>)

(* They leave the cursor alone, or put it into the region and tell the     *)
(* hardware.                                                               *)
LEMMA RearrangedCursor ==
  ASSUME ConsoleSizes, RegionOn(region), Rearranges, RegionOn(region')
  PROVE  \/ region' = region /\ cursor' = cursor /\ shown' = shown
         \/ Near(cursor', region', 0, 0) /\ shown' = SetCursor(cursor', region')
<1>0. Width \in Nat /\ Height \in Nat /\ Args \subseteq Nat
  BY DEF ConsoleSizes, ScreenSizes, CallSizes
<1>1. ASSUME NEW n \in Args, Scroll(n), n > region.max_y - region.min_y
      PROVE  Near(cursor', region', 0, 0) /\ shown' = SetCursor(cursor', region')
  BY <1>0, <1>1 DEF Scroll, ScrolledCursor, RegionOn, Near, At
<1>2. ASSUME NEW n \in Args, Scroll(n), ~(n > region.max_y - region.min_y)
      PROVE  region' = region /\ cursor' = cursor /\ shown' = shown
  BY <1>2 DEF Scroll, ScrolledCursor
<1>3. ASSUME Clear \/ ClearScreen
      PROVE  region' = region /\ cursor' = cursor /\ shown' = shown
  BY <1>3 DEF Clear, ClearScreen
<1>4. ASSUME NEW x, NEW y, NEW text, PutTextAt(x, y, text)
      PROVE  region' = region /\ cursor' = cursor /\ shown' = shown
  BY <1>4 DEF PutTextAt
<1>5. ASSUME NEW x, NEW y, NEW d, PrintfAt(x, y, d)
      PROVE  region' = region /\ cursor' = cursor /\ shown' = shown
  BY <1>4, <1>5 DEF PrintfAt
<1>6. ASSUME NEW x1, NEW y1, NEW x2, NEW y2, SetScroll(x1, y1, x2, y2)
      PROVE  Near(cursor', region', 0, 0) /\ shown' = SetCursor(cursor', region')
  <2>1. cursor' = At(region'.min_x, region'.min_y) /\ shown' = SetCursor(cursor', region')
    BY <1>6 DEF SetScroll
  <2> QED BY <1>0, <2>1 DEF RegionOn, Near, At
<1>7. ASSUME NEW x \in Args, NEW y \in Args, MoveTo(x, y)
      PROVE  Near(cursor', region', 0, 0) /\ shown' = SetCursor(cursor', region')
  <2>1. /\ region' = region /\ shown' = SetCursor(cursor', region)
        /\ cursor' = [x |-> Bound(region.min_x, x + region.min_x, region.max_x),
                      y |-> Bound(region.min_y, y + region.min_y, region.max_y)]
    BY <1>7 DEF MoveTo, At
  <2>2. Near(cursor', region, 0, 0)
    BY <1>0, <2>1 DEF RegionOn, Near, Bound
  <2> QED BY <2>1, <2>2
<1> QED BY <1>1, <1>2, <1>3, <1>4, <1>5, <1>6, <1>7 DEF Rearranges

(* They go on with the paper, or take a new sheet.                         *)
LEMMA RearrangingKeepsTyping ==
  ASSUME ConsoleSizes, PaperLasts, ConsoleInvariant, RegionOn(region'), Rearranges, Resume,
         torn' = (torn /\ UNCHANGED <<region, cursor>>), ~torn',
         part = "none", part' = "none", puts' = puts, calls < MaxCalls, calls' = calls + 1
  PROVE  Typing'
<1>0. RegionOn(region)
  BY DEF ConsoleInvariant, OutputInvariant, CursorInvariant
<1>1. /\ (region' = region /\ cursor' = cursor) => ~torn
      /\ ~torn => Matches(screen, cursor, region, paper) /\ shown = SetCursor(cursor, region)
  BY DEF ConsoleInvariant, Typing, Coming
<1>2. Resting(cursor', region') /\ shown' = SetCursor(cursor', region')
  <2>1. CASE region' = region /\ cursor' = cursor /\ shown' = shown
    BY <1>1, <2>1 DEF Matches
  <2>2. CASE Near(cursor', region', 0, 0) /\ shown' = SetCursor(cursor', region')
    BY <2>2 DEF Near, Resting, RegionOn
  <2> QED BY <1>0, <2>1, <2>2, RearrangedCursor
<1>3. /\ Most \in Nat /\ (calls + 1) * Most = calls * Most + Most /\ calls * Most \in Nat
      /\ puts \in Nat /\ Height \in Nat /\ Width \in Nat
  BY RoomOnPaper DEF ConsoleInvariant, ConsoleSizes, ScreenSizes
<1>4. Coming' = cursor'
  BY DEF Coming
<1>5. CASE paper' = NewPaper(region', cursor')
  <2>1. Matches(screen', cursor', region', paper') /\ paper'.line <= Height
    BY <1>2, <1>5, NewPaperMatches
  <2>2. paper'.line \in Nat
    BY <2>1 DEF Matches, IsPaper
  <2>3. paper'.line <= Height + puts' + calls' * Most
    <3> HIDE DEF Most
    <3> QED BY <1>3, <2>1, <2>2
  <2>4. Matches(screen', Coming', region', paper')
    BY <1>4, <2>1
  <2> QED BY <1>2, <2>3, <2>4 DEF Typing
<1>6. CASE paper' # NewPaper(region', cursor')
  <2>1. /\ region' = region /\ cursor' = cursor /\ paper' = paper
        /\ \A x \in Cols, y \in Rows :
             InRegion(region, x, y) => screen'[y][x] = screen[y][x]
    BY <1>6 DEF Resume
  <2>2. Matches(screen, cursor, region, paper)
    BY <1>1, <2>1
  <2>3. ASSUME NEW y \in region.min_y .. region.max_y, NEW x \in region.min_x .. region.max_x
        PROVE  screen'[y][x] = screen[y][x]
    <3>1. x \in Cols /\ y \in Rows /\ InRegion(region, x, y)
      BY <1>0, <1>3 DEF RegionOn, Cols, Rows, InRegion
    <3> QED BY <2>1, <3>1
  <2>4. ShowsFrom(screen', region, paper, First(paper, region))
    BY <2>2, <2>3 DEF Matches, ShowsFrom
  <2>5. Matches(screen', cursor, region, paper)
    BY <2>2, <2>4 DEF Matches
  <2>6. Matches(screen', Coming', region', paper')
    BY <1>4, <2>1, <2>5
  <2>7. paper'.line <= Height + puts' + calls' * Most
    <3>1. /\ paper.line <= Height + puts + calls * Most /\ paper.line \in Nat
      BY <1>1, <2>1, <2>2 DEF ConsoleInvariant, Typing, Matches, IsPaper
    <3> HIDE DEF Most
    <3> QED BY <1>3, <2>1, <3>1
  <2> QED BY <1>2, <2>6, <2>7 DEF Typing
<1> QED BY <1>5, <1>6

(* Every step keeps the invariant.                                         *)
LEMMA StepKeepsConsole ==
  ASSUME ConsoleSizes, PaperLasts, ConsoleInvariant, [ConsoleNext]_consoleVars
  PROVE  ConsoleInvariant'
<1>1. OutputInvariant'
  BY StepKeepsCursor, StepKeepsScreen DEF ConsoleInvariant, OutputInvariant
<1>2. /\ puts \in 0 .. MaxChars /\ calls \in 0 .. MaxCalls /\ torn \in BOOLEAN
      /\ MaxChars \in Nat /\ MaxCalls \in Nat
  BY DEF ConsoleInvariant, ConsoleSizes, CallSizes
<1>3. SUFFICES puts' \in 0 .. MaxChars /\ calls' \in 0 .. MaxCalls /\ torn' \in BOOLEAN
               /\ (~torn' => Typing')
  BY <1>1 DEF ConsoleInvariant
<1>4. CASE HandlerPuts
  <2>1. puts' \in 0 .. MaxChars /\ calls' \in 0 .. MaxCalls
    BY <1>2, <1>4 DEF HandlerPuts, Put
  <2>2. torn' \in BOOLEAN
    BY <1>4 DEF HandlerPuts
  <2> QED BY <1>4, <2>1, <2>2, HandlerKeepsTyping
<1>5. CASE ProcessPuts
  <2>1. puts' \in 0 .. MaxChars /\ calls' \in 0 .. MaxCalls /\ torn' = torn
    BY <1>2, <1>5 DEF ProcessPuts, Put, StoreChar
  <2> QED BY <1>2, <1>5, <2>1, StoreKeepsTyping
<1>6. CASE ProcessGoesOn
  <2>1. puts' = puts /\ calls' = calls /\ torn' = torn
    BY <1>6 DEF ProcessGoesOn, MoveRight, TestEnd, Wrap
  <2> QED BY <1>2, <1>6, <2>1, GoingOnKeepsTyping
<1>7. CASE Other
  <2>1. /\ part = "none" /\ part' = "none" /\ puts' = puts /\ calls < MaxCalls
        /\ calls' = calls + 1 /\ calls' \in 0 .. MaxCalls
    BY <1>2, <1>7 DEF Other, Call
  <2>2. ASSUME NEW d \in Fields, Printf(d), torn' = torn
        PROVE  torn' \in BOOLEAN /\ (~torn' => Typing')
    BY <1>2, <2>1, <2>2, PrintfKeepsTyping DEF ConsoleInvariant
  <2>3. ASSUME Rearranges, Resume, torn' = (torn /\ UNCHANGED <<region, cursor>>)
        PROVE  torn' \in BOOLEAN /\ (~torn' => Typing')
    <3>1. RegionOn(region')
      BY <1>1 DEF OutputInvariant, CursorInvariant, RegionOn
    <3>2. torn' \in BOOLEAN
      BY <2>3
    <3> QED BY <2>1, <2>3, <3>1, <3>2, RearrangingKeepsTyping
  <2>4. \/ \E d \in Fields : Printf(d) /\ torn' = torn
        \/ Rearranges /\ Resume /\ torn' = (torn /\ UNCHANGED <<region, cursor>>)
    BY <1>7 DEF Other, Rearranges
  <2> QED BY <1>2, <2>1, <2>2, <2>3, <2>4
<1>8. CASE UNCHANGED consoleVars
  <2>1. /\ puts' = puts /\ calls' = calls /\ torn' = torn /\ screen' = screen /\ region' = region
        /\ cursor' = cursor /\ shown' = shown /\ paper' = paper /\ part' = part
    BY <1>8 DEF consoleVars, screenVars
  <2>2. Coming' = Coming
    BY <2>1 DEF Coming
  <2>3. Typing => Typing'
    BY <2>1, <2>2 DEF Typing
  <2> QED BY <1>2, <2>1, <2>3 DEF ConsoleInvariant
<1> QED BY <1>4, <1>5, <1>6, <1>7, <1>8 DEF ConsoleNext

(* The console starts in order.                                            *)
LEMMA ConsoleStarts ==
  ASSUME ConsoleSizes, PaperLasts, ConsoleInit
  PROVE  ConsoleInvariant
<1>1. CursorInvariant
  BY CursorStarts
<1>2. IsScreen(screen)
  BY DEF ConsoleInit, ScreenInit, IsScreen
<1>3. puts = 0 /\ calls = 0 /\ torn = FALSE /\ part = "none" /\ paper = NewPaper(region, cursor)
      /\ MaxChars \in Nat /\ MaxCalls \in Nat
  BY DEF ConsoleInit, ScreenInit, ConsoleSizes, CallSizes
<1>4. Resting(cursor, region) /\ shown = SetCursor(cursor, region) /\ RegionOn(region)
  BY DEF ConsoleSizes, ScreenSizes, ConsoleInit, ScreenInit, At, SetCursor, Resting, Near,
         RegionOn
<1>5. Matches(screen, cursor, region, paper) /\ paper.line <= Height
  BY <1>3, <1>4, NewPaperMatches
<1>6. paper.line <= Height + puts + calls * Most
  <2>1. calls * Most \in Nat /\ Height \in Nat /\ paper.line \in Nat
    BY <1>3, <1>5, RoomOnPaper DEF ConsoleSizes, ScreenSizes, Matches, IsPaper
  <2> HIDE DEF Most
  <2> QED BY <1>3, <1>5, <2>1
<1>7. Typing
  BY <1>3, <1>4, <1>5, <1>6 DEF Typing, Coming
<1>8. puts \in 0 .. MaxChars /\ calls \in 0 .. MaxCalls
  BY <1>3
<1>9. torn \in BOOLEAN
  BY <1>3
<1> QED BY <1>1, <1>2, <1>7, <1>8, <1>9 DEF ConsoleInvariant, OutputInvariant

(* The invariant of the console holds in every reachable state.            *)
THEOREM ConsoleInvariance ==
  ConsoleSpec => []ConsoleInvariant
<1>0. ConsoleSizes /\ PaperLasts
  BY SizesHold
<1> USE <1>0
<1>1. ConsoleInit => ConsoleInvariant
  BY ConsoleStarts
<1>2. ConsoleInvariant /\ [ConsoleNext]_consoleVars => ConsoleInvariant'
  BY StepKeepsConsole
<1> QED BY <1>1, <1>2, PTL DEF ConsoleSpec

(* On a screen of any size, with regions of any size, the region shows the *)
(* end of what was put since the cursor was last moved, and the cursor is  *)
(* where the next character belongs, unless a handler printed inside a     *)
(* process's c_putchar (c_io.c 163-200, 250-284).                          *)
THEOREM TextShown ==
  ConsoleSpec => []ShowsText
<1>0. ConsoleSizes /\ PaperLasts
  BY SizesHold
<1> USE <1>0
<1>1. ConsoleInvariant => ShowsText
  <2>1. SUFFICES ASSUME ConsoleInvariant, part = "none", ~torn
                 PROVE  /\ shown = SetCursor(cursor, region)
                        /\ cursor.x - region.min_x = paper.col
                        /\ cursor.y - region.min_y = paper.line - FirstLine
                        /\ \A y \in region.min_y .. region.max_y, x \in region.min_x .. region.max_x :
                             paper.text[FirstLine + y - region.min_y][x - region.min_x] # "open" =>
                               screen[y][x] = paper.text[FirstLine + y - region.min_y][x - region.min_x]
    BY DEF ShowsText
  <2>2. Matches(screen, cursor, region, paper) /\ shown = SetCursor(cursor, region)
    BY <2>1 DEF ConsoleInvariant, Typing, Coming
  <2>3. FirstLine = First(paper, region)
    BY DEF FirstLine, First
  <2> QED BY <2>2, <2>3 DEF Matches, SamePlace, ShowsFrom
<1> QED BY <1>1, ConsoleInvariance, PTL

-----------------------------------------------------------------------------

(* What was printed last is what a directive prints.                       *)
PrintedLast ==
  \/ printed = NoText
  \/ \E d \in Fields \cup FixedFields : printed = [field |-> d, text |-> Formatted(d)]

(* Every step keeps it so.                                                 *)
LEMMA StepKeepsPrinted ==
  ASSUME PrintedLast, [ConsoleNext]_consoleVars
  PROVE  PrintedLast'
<1>1. \/ printed' = NoText
      \/ printed' = printed
      \/ \E d \in Fields \cup FixedFields : printed' = [field |-> d, text |-> Formatted(d)]
  <2>1. CASE HandlerPuts \/ ProcessPuts
    BY <2>1 DEF HandlerPuts, ProcessPuts, Put
  <2>2. CASE ProcessGoesOn \/ UNCHANGED consoleVars
    BY <2>2 DEF ProcessGoesOn, consoleVars
  <2>3. CASE Other
    <3>1. \/ printed' = NoText
          \/ \E d \in Fields : Printf(d)
          \/ \E x, y \in Args, d \in FixedFields : PrintfAt(x, y, d)
      BY <2>3 DEF Other
    <3> QED BY <3>1 DEF Printf, PrintfAt
  <2> QED BY <2>1, <2>2, <2>3 DEF ConsoleNext
<1> QED BY <1>1 DEF PrintedLast, NoText

(* For integers of any width that is a multiple of four, c_printf prints   *)
(* the numerals of all numbers in decimal and hexadecimal, the least one   *)
(* included, in their fields (c_io.c 285-500).                             *)
THEOREM ArgumentsPrinted ==
  ConsoleSpec => []PrintsArguments
<1>1. ConsoleInit => PrintedLast
  BY DEF ConsoleInit, PrintedLast
<1>2. PrintedLast /\ [ConsoleNext]_consoleVars => PrintedLast'
  BY StepKeepsPrinted
<1>3. PrintedLast => PrintsArguments
  <2>1. ASSUME printed = NoText PROVE PrintsArguments
    <3>1. printed.field.conv = "none"
      BY <2>1 DEF NoText, Directive
    <3> QED BY <3>1 DEF PrintsArguments
  <2>2. ASSUME NEW d \in Fields \cup FixedFields, printed = [field |-> d, text |-> Formatted(d)]
        PROVE  PrintsArguments
    <3>1. d.num \in MinInt .. MaxInt /\ d.width \in Nat /\ d.text \in Seq(STRING)
      BY ConsoleAssumption DEF FieldsTyped
    <3>2. d.conv \in {"c", "s", "d", "x"} => IsField(d, Formatted(d))
      BY <3>1, FormattedField
    <3>3. printed.field = d /\ printed.text = Formatted(d)
      BY <2>2
    <3> QED BY <3>2, <3>3 DEF PrintsArguments
  <2> QED BY <2>1, <2>2 DEF PrintedLast
<1> QED BY <1>1, <1>2, <1>3, PTL DEF ConsoleSpec

=============================================================================

------------------------------ MODULE SioProofs ------------------------------
(***************************************************************************)
(* Proofs about the serial driver, for every size of its buffers, every    *)
(* set of characters and every number of readers: its type invariant, that *)
(* a transmit sequence never stalls, and that the buffers, pointers and    *)
(* flags implement the two streams of SerialSpec.                          *)
(***************************************************************************)
EXTENDS Sio, TLAPS, SequenceTheorems

-----------------------------------------------------------------------------
(* The inductive invariant.                                                *)

(* The pointers and the counter of a buffer agree, and the cells between   *)
(* the pointers hold characters.                                           *)
Buffered(buffer, next, count, last) ==
  /\ next + count = last
  /\ \A i \in Offsets : next <= i /\ i < last => buffer[i] \in Codes

(* The transmitter's event is pending only when it is idle; when nothing   *)
(* is being sent the transmitter and the buffer are empty.                 *)
Transmitter ==
  /\ txint => txd = "none"
  /\ ~sending => txd = "none" /\ outlast = 0

InductiveInvariant ==
  /\ TypeOK
  /\ Buffered(inbuffer, innext, incount, inlast)
  /\ Buffered(outbuffer, outnext, outcount, outlast)
  /\ Transmitter
  /\ EventToCome

-----------------------------------------------------------------------------
(* What a buffer holds.                                                    *)

(* The absence of a character is not a character. *)
LEMMA NoneNotCode == "none" \notin Codes
BY SioAssumption DEF Codes

(* The contents of a buffer are a sequence of characters as long as its    *)
(* counter says.                                                           *)
LEMMA HeldType ==
  ASSUME NEW b \in Cells, NEW n \in Nat, NEW c \in Nat, NEW l \in 0 .. BUF_SIZE,
         Buffered(b, n, c, l)
  PROVE  /\ Held(b, n, c) \in Seq(Codes)
         /\ Len(Held(b, n, c)) = c
         /\ \A i \in 1 .. c : Held(b, n, c)[i] = b[n + i - 1]
<1>1. \A i \in 1 .. c : b[n + i - 1] \in Codes
  BY SioAssumption DEF Buffered, Offsets
<1>2. Held(b, n, c) \in [1 .. c -> Codes]
  BY <1>1 DEF Held
<1>3. Held(b, n, c) \in Seq(Codes)
  BY <1>2, SeqDef
<1>4. DOMAIN Held(b, n, c) = 1 .. c
  BY DEF Held
<1>5. Len(Held(b, n, c)) = c
  BY <1>3, <1>4, LenProperties
<1> QED BY <1>3, <1>5 DEF Held

(* A character stored at the last pointer is appended to the contents. *)
LEMMA HeldStore ==
  ASSUME NEW b \in Cells, NEW n \in Nat, NEW c \in Nat, NEW l \in 0 .. BUF_SIZE,
         Buffered(b, n, c, l), l < BUF_SIZE, NEW x \in Codes
  PROVE  /\ [b EXCEPT ![l] = x] \in Cells
         /\ Buffered([b EXCEPT ![l] = x], n, c + 1, l + 1)
         /\ Held([b EXCEPT ![l] = x], n, c + 1) = Append(Held(b, n, c), x)
<1> DEFINE d == [b EXCEPT ![l] = x]
<1>1. d \in Cells /\ l \in Offsets
  BY SioAssumption DEF Cells, Offsets
<1>2. \A i \in Offsets : d[i] = IF i = l THEN x ELSE b[i]
  BY DEF Cells
<1>3. Buffered(d, n, c + 1, l + 1)
  BY <1>2, SioAssumption DEF Buffered, Offsets
<1> HIDE DEF d
<1>4. l + 1 \in 0 .. BUF_SIZE /\ c + 1 \in Nat
  BY SioAssumption
<1>5. /\ Held(d, n, c + 1) \in Seq(Codes)
      /\ Len(Held(d, n, c + 1)) = c + 1
      /\ \A i \in 1 .. c + 1 : Held(d, n, c + 1)[i] = d[n + i - 1]
  BY <1>1, <1>3, <1>4, HeldType
<1>6. /\ Held(b, n, c) \in Seq(Codes)
      /\ Len(Held(b, n, c)) = c
      /\ \A i \in 1 .. c : Held(b, n, c)[i] = b[n + i - 1]
  BY HeldType
<1>7. /\ Append(Held(b, n, c), x) \in Seq(Codes)
      /\ Len(Append(Held(b, n, c), x)) = c + 1
      /\ \A i \in 1 .. c : Append(Held(b, n, c), x)[i] = b[n + i - 1]
      /\ Append(Held(b, n, c), x)[c + 1] = x
  BY <1>6, AppendProperties
<1>8. ASSUME NEW i \in 1 .. c + 1
      PROVE  Held(d, n, c + 1)[i] = Append(Held(b, n, c), x)[i]
  <2>1. n + c = l /\ n + i - 1 \in Offsets /\ (n + i - 1 = l <=> i = c + 1)
    BY SioAssumption DEF Buffered, Offsets
  <2>2. CASE i = c + 1
    BY <1>2, <1>5, <1>7, <2>1, <2>2
  <2>3. CASE i # c + 1
    BY <1>2, <1>5, <1>7, <2>1, <2>3
  <2> QED BY <2>2, <2>3
<1>9. Held(d, n, c + 1) = Append(Held(b, n, c), x)
  BY <1>5, <1>7, <1>8, SeqEqual
<1> QED BY <1>1, <1>3, <1>9 DEF d

(* The character at the next pointer is the first of the contents, and     *)
(* advancing the pointer leaves the others.                                *)
LEMMA HeldAdvance ==
  ASSUME NEW b \in Cells, NEW n \in Nat, NEW c \in Nat, NEW l \in 0 .. BUF_SIZE,
         Buffered(b, n, c, l), c > 0
  PROVE  /\ b[n] \in Codes
         /\ Buffered(b, n + 1, c - 1, l)
         /\ Held(b, n, c) # <<>>
         /\ Head(Held(b, n, c)) = b[n]
         /\ Tail(Held(b, n, c)) = Held(b, n + 1, c - 1)
<1>1. Buffered(b, n + 1, c - 1, l) /\ n + 1 \in Nat /\ c - 1 \in Nat
  BY SioAssumption DEF Buffered, Offsets
<1>2. b[n] \in Codes
  BY SioAssumption DEF Buffered, Offsets
<1>3. /\ Held(b, n, c) \in Seq(Codes)
      /\ Len(Held(b, n, c)) = c
      /\ \A i \in 1 .. c : Held(b, n, c)[i] = b[n + i - 1]
  BY HeldType
<1>4. /\ Held(b, n + 1, c - 1) \in Seq(Codes)
      /\ Len(Held(b, n + 1, c - 1)) = c - 1
      /\ \A i \in 1 .. c - 1 : Held(b, n + 1, c - 1)[i] = b[n + 1 + i - 1]
  BY <1>1, HeldType
<1>5. Held(b, n, c) # <<>>
  BY <1>3
<1>6. Head(Held(b, n, c)) = b[n]
  BY <1>3
<1>7. /\ Tail(Held(b, n, c)) \in Seq(Codes)
      /\ Len(Tail(Held(b, n, c))) = c - 1
      /\ \A i \in 1 .. c - 1 : Tail(Held(b, n, c))[i] = Held(b, n, c)[i + 1]
  BY <1>3, <1>5, HeadTailProperties
<1>8. ASSUME NEW i \in 1 .. c - 1
      PROVE  Tail(Held(b, n, c))[i] = Held(b, n + 1, c - 1)[i]
  <2>1. i + 1 \in 1 .. c /\ n + (i + 1) - 1 = n + 1 + i - 1
    OBVIOUS
  <2> QED BY <1>3, <1>4, <1>7, <2>1
<1>9. Tail(Held(b, n, c)) = Held(b, n + 1, c - 1)
  BY <1>4, <1>7, <1>8, SeqEqual
<1> QED BY <1>1, <1>2, <1>5, <1>6, <1>9

(* A buffer whose counter is zero holds nothing. *)
LEMMA HeldNothing ==
  ASSUME NEW b, NEW n
  PROVE  Held(b, n, 0) = <<>>
BY DEF Held

-----------------------------------------------------------------------------
(* The initial states, and one lemma per action: it keeps the invariant    *)
(* and is a step of the two streams, or none.                              *)

(* The driver as _sio_init leaves it. *)
LEMMA InitHolds == Init => InductiveInvariant /\ Serial!Init
<1> SUFFICES ASSUME Init PROVE InductiveInvariant /\ Serial!Init
  OBVIOUS
<1>1. TypeOK
  <2>1. [i \in Offsets |-> "none"] \in Cells
    BY DEF Cells
  <2>2. 0 \in 0 .. BUF_SIZE /\ 0 \in 0 .. MaxIn /\ 0 \in 0 .. MaxOut
    BY SioAssumption
  <2>3. /\ <<>> \in Seq(Readers) /\ <<>> \in Seq(Chars)
        /\ <<>> \in Seq(Readers \X Codes) /\ <<>> \in Seq(Codes)
    OBVIOUS
  <2> QED BY <2>1, <2>2, <2>3 DEF Init, TypeOK
<1>2. /\ Buffered(inbuffer, innext, incount, inlast)
      /\ Buffered(outbuffer, outnext, outcount, outlast)
  BY SioAssumption DEF Init, Buffered, Offsets
<1>3. Transmitter /\ EventToCome
  BY DEF Init, Transmitter, EventToCome
<1>4. Held(inbuffer, innext, incount) = <<>> /\ Held(outbuffer, outnext, outcount) = <<>>
  BY HeldNothing DEF Init
<1>5. Serial!Init
  BY <1>4 DEF Init, Serial!Init
<1> QED BY <1>1, <1>2, <1>3, <1>5 DEF InductiveInvariant

(* Steps of the UART and of the processor that move no character between   *)
(* the streams.                                                            *)
LEMMA SilentStep ==
  ASSUME InductiveInvariant,
         UNCHANGED <<inVars, outVars, reading, txd, txint, given, sent>>,
         isr' \in BOOLEAN, wild' \in BOOLEAN, rx' \in Seq(Chars),
         nin' \in 0 .. MaxIn, nout' \in 0 .. MaxOut
  PROVE  InductiveInvariant' /\ UNCHANGED Serial!vars
<1>1. TypeOK'
  BY DEF InductiveInvariant, TypeOK, inVars, outVars
<1>2. InductiveInvariant'
  BY <1>1 DEF InductiveInvariant, Buffered, Transmitter, EventToCome, inVars, outVars
<1>3. UNCHANGED Serial!vars
  BY DEF Serial!vars, inVars, outVars
<1> QED BY <1>2, <1>3

(* A character reaches the UART. *)
LEMMA ArriveStep ==
  ASSUME InductiveInvariant, NEW c \in Chars, Arrive(c)
  PROVE  InductiveInvariant' /\ UNCHANGED Serial!vars
<1>1. rx' \in Seq(Chars)
  BY AppendProperties DEF InductiveInvariant, TypeOK, Arrive
<1>2. nin' \in 0 .. MaxIn
  BY SioAssumption DEF InductiveInvariant, TypeOK, Arrive
<1> QED BY <1>1, <1>2, SilentStep DEF InductiveInvariant, TypeOK, Arrive

(* The processor takes the interrupt. *)
LEMMA InterruptStep ==
  ASSUME InductiveInvariant, Interrupt
  PROVE  InductiveInvariant' /\ UNCHANGED Serial!vars
BY SilentStep DEF InductiveInvariant, TypeOK, Interrupt

(* The handler returns. *)
LEMMA IsrReturnStep ==
  ASSUME InductiveInvariant, IsrReturn
  PROVE  InductiveInvariant' /\ UNCHANGED Serial!vars
BY SilentStep DEF InductiveInvariant, TypeOK, IsrReturn

(* The character being transmitted, as a sequence. *)
OnLine(t) == IF t = "none" THEN <<>> ELSE <<t>>

(* The output stream: the character being transmitted, then the buffer. *)
OutStream == OnLine(txd) \o Held(outbuffer, outnext, outcount)

(* The contents of the two buffers in a state of the driver. *)
LEMMA Contents ==
  ASSUME InductiveInvariant
  PROVE  /\ Held(inbuffer, innext, incount) \in Seq(Codes)
         /\ Len(Held(inbuffer, innext, incount)) = incount
         /\ Held(outbuffer, outnext, outcount) \in Seq(Codes)
         /\ Len(Held(outbuffer, outnext, outcount)) = outcount
         /\ OnLine(txd) \in Seq(Codes)
<1>1. /\ inbuffer \in Cells /\ innext \in Nat /\ incount \in Nat /\ inlast \in 0 .. BUF_SIZE
      /\ outbuffer \in Cells /\ outnext \in Nat /\ outcount \in Nat
      /\ outlast \in 0 .. BUF_SIZE /\ txd \in Codes \cup {"none"}
  BY SioAssumption DEF InductiveInvariant, TypeOK
<1>2. OnLine(txd) \in Seq(Codes)
  BY <1>1 DEF OnLine
<1> QED BY <1>1, <1>2, HeldType DEF InductiveInvariant

(* The UART transmits a character: the first of the output stream. *)
LEMMA TransmitStep ==
  ASSUME InductiveInvariant, Transmit
  PROVE  InductiveInvariant' /\ Serial!Send
<1> DEFINE h == Held(outbuffer, outnext, outcount)
<1>1. txd \in Codes /\ txd # "none" /\ sending
  BY DEF InductiveInvariant, TypeOK, Transmit, Transmitter
<1>2. TypeOK'
  <2>1. sent' \in Seq(Codes)
    BY <1>1, AppendProperties DEF InductiveInvariant, TypeOK, Transmit
  <2> QED BY <2>1 DEF InductiveInvariant, TypeOK, Transmit, inVars, outVars
<1>3. InductiveInvariant'
  BY <1>1, <1>2 DEF InductiveInvariant, Transmit, Buffered, Transmitter, EventToCome,
                    inVars, outVars
<1>4. h \in Seq(Codes) /\ <<txd>> \in Seq(Codes) /\ h' = h
  BY <1>1, Contents DEF Transmit, outVars
<1>5. OutStream = <<txd>> \o h /\ OutStream' = <<>> \o h /\ <<>> \o h = h
  BY <1>1, <1>4, ConcatEmptySeq DEF OutStream, OnLine, Transmit, outVars
<1> HIDE DEF h
<1>6. <<txd>> \o h # <<>> /\ Head(<<txd>> \o h) = txd /\ Tail(<<txd>> \o h) = h
  BY <1>1, <1>4, SeqEqual, ConcatProperties, HeadTailProperties
<1>7. Serial!Send
  BY <1>1, <1>5, <1>6 DEF Serial!Send, OutStream, OnLine, Transmit, inVars, outVars
<1> QED BY <1>3, <1>7

(* What a received character becomes. *)
LEMMA MapCRType ==
  ASSUME NEW c \in Chars
  PROVE  MapCR(c) \in Codes /\ Serial!Input(c) = MapCR(c)
BY DEF MapCR, Codes, Serial!Input

(* The handler receives a character: the input stream takes it, or a store *)
(* misses the buffer and the driver is done for.                           *)
LEMMA IsrReceiveStep ==
  ASSUME InductiveInvariant, IsrReceive
  PROVE  InductiveInvariant' /\ [Serial!Next]_(Serial!vars)
<1> DEFINE r == Head(rx)
           c == MapCR(r)
<1>1. r \in Chars /\ rx' \in Seq(Chars) /\ c \in Codes /\ Serial!Input(r) = c
  BY HeadTailProperties, MapCRType DEF InductiveInvariant, TypeOK, IsrReceive
<1>2. UNCHANGED <<outVars, isr, txd, txint, sent, nin, nout>>
  BY DEF IsrReceive
<1>3. /\ inbuffer \in Cells /\ innext \in Nat /\ incount \in Nat /\ inlast \in 0 .. BUF_SIZE
      /\ innext + incount = inlast /\ Buffered(inbuffer, innext, incount, inlast)
  BY SioAssumption DEF InductiveInvariant, TypeOK, Buffered
<1>4. OutStream' = OutStream
  BY <1>2 DEF OutStream, OnLine, outVars
<1>5. ASSUME TypeOK', Buffered(inbuffer, innext, incount, inlast)'
      PROVE  InductiveInvariant'
  BY <1>2, <1>5 DEF InductiveInvariant, Buffered, Transmitter, EventToCome, outVars
<1>6. CASE reading # <<>>
  <2>1. GiveToReader(c)
    BY <1>6 DEF IsrReceive
  <2>2. Head(reading) \in Readers /\ reading' \in Seq(Readers)
    BY <1>6, <2>1, HeadTailProperties DEF InductiveInvariant, TypeOK, GiveToReader
  <2>3. given' \in Seq(Readers \X Codes)
    BY <1>1, <2>1, <2>2, AppendProperties DEF InductiveInvariant, TypeOK, GiveToReader
  <2>4. TypeOK'
    BY <1>1, <1>2, <2>1, <2>2, <2>3
       DEF InductiveInvariant, TypeOK, GiveToReader, inVars, outVars
  <2>5. Buffered(inbuffer, innext, incount, inlast)'
    BY <2>1 DEF InductiveInvariant, Buffered, GiveToReader, inVars
  <2>6. Serial!Arrive(r)
    BY <1>1, <1>2, <1>4, <1>6, <2>1
       DEF Serial!Arrive, GiveToReader, OutStream, OnLine, inVars
  <2> QED BY <1>1, <1>5, <2>4, <2>5, <2>6 DEF Serial!Next
<1>7. CASE reading = <<>>
  <2>1. Store(c)
    BY <1>7 DEF IsrReceive
  <2>2. CASE incount >= BUF_SIZE
    <3>1. UNCHANGED <<inVars, wild, reading, given>>
      BY <2>1, <2>2, <1>3, SioAssumption DEF Store
    <3>2. TypeOK' /\ Buffered(inbuffer, innext, incount, inlast)'
      BY <1>1, <1>2, <3>1 DEF InductiveInvariant, TypeOK, Buffered, inVars, outVars
    <3>3. Serial!vars' = Serial!vars
      BY <1>2, <3>1 DEF Serial!vars, inVars, outVars
    <3> QED BY <1>5, <3>2, <3>3
  <2>3. CASE incount < BUF_SIZE /\ inlast < BUF_SIZE
    <3>1. /\ inbuffer' = [inbuffer EXCEPT ![inlast] = c]
          /\ inlast' = inlast + 1 /\ incount' = incount + 1
          /\ UNCHANGED <<innext, wild, reading, given>>
      BY <1>3, <2>1, <2>3, SioAssumption DEF Store
    <3>2. /\ inbuffer' \in Cells /\ Buffered(inbuffer, innext, incount, inlast)'
          /\ Held(inbuffer, innext, incount)' = Append(Held(inbuffer, innext, incount), c)
      BY <1>1, <1>3, <2>3, <3>1, HeldStore
    <3>3. inlast' \in 0 .. BUF_SIZE /\ incount' \in 0 .. BUF_SIZE
      BY <1>3, <2>3, <3>1, SioAssumption
    <3>4. TypeOK'
      BY <1>1, <1>2, <3>1, <3>2, <3>3 DEF InductiveInvariant, TypeOK, outVars
    <3>5. Len(Held(inbuffer, innext, incount)) < BUF_SIZE
      BY <2>3, Contents
    <3>6. Serial!Arrive(r)
      BY <1>1, <1>2, <1>4, <1>7, <3>1, <3>2, <3>5 DEF Serial!Arrive, OutStream, OnLine
    <3> QED BY <1>1, <1>5, <3>2, <3>4, <3>6 DEF Serial!Next
  <2>4. CASE incount < BUF_SIZE /\ ~(inlast < BUF_SIZE)
    <3>1. wild' = TRUE /\ UNCHANGED <<inVars, reading, given>>
      BY <1>3, <2>1, <2>4, SioAssumption DEF Store
    <3>2. TypeOK' /\ Buffered(inbuffer, innext, incount, inlast)'
      BY <1>1, <1>2, <3>1 DEF InductiveInvariant, TypeOK, Buffered, inVars, outVars
    <3>3. Serial!vars' = Serial!vars
      BY <1>2, <3>1 DEF Serial!vars, inVars, outVars
    <3> QED BY <1>5, <3>2, <3>3
  <2> QED BY <1>3, <2>2, <2>3, <2>4, SioAssumption
<1> QED BY <1>6, <1>7

(* The handler sees the transmitter's event: the next character moves from *)
(* the buffer to the line, or the sequence ends with an empty buffer.      *)
LEMMA IsrTransmitStep ==
  ASSUME InductiveInvariant, IsrTransmit
  PROVE  InductiveInvariant' /\ UNCHANGED Serial!vars
<1>1. /\ outbuffer \in Cells /\ outnext \in Nat /\ outcount \in Nat
      /\ outlast \in 0 .. BUF_SIZE /\ outnext + outcount = outlast
      /\ Buffered(outbuffer, outnext, outcount, outlast)
  BY SioAssumption DEF InductiveInvariant, TypeOK, Buffered
<1>2. txd = "none" /\ txint' = FALSE
      /\ UNCHANGED <<inVars, reading, isr, wild, rx, given, sent, nin, nout>>
  BY DEF InductiveInvariant, Transmitter, IsrTransmit
<1>3. OutStream = Held(outbuffer, outnext, outcount)
  BY <1>2, Contents, ConcatEmptySeq DEF OutStream, OnLine
<1>4. ASSUME TypeOK', Buffered(outbuffer, outnext, outcount, outlast)',
             EventToCome', Transmitter', OutStream' = OutStream
      PROVE  InductiveInvariant' /\ UNCHANGED Serial!vars
  <2>1. Buffered(inbuffer, innext, incount, inlast)'
    BY <1>2 DEF InductiveInvariant, Buffered, inVars
  <2> QED BY <1>2, <1>4, <2>1 DEF InductiveInvariant, Serial!vars, OutStream, OnLine, inVars
<1>5. CASE sending /\ outcount > 0
  <2>1. SendNext
    BY <1>5 DEF IsrTransmit
  <2>2. /\ outbuffer[outnext] \in Codes
        /\ Buffered(outbuffer, outnext + 1, outcount - 1, outlast)
        /\ Held(outbuffer, outnext, outcount) # <<>>
        /\ Head(Held(outbuffer, outnext, outcount)) = outbuffer[outnext]
        /\ Tail(Held(outbuffer, outnext, outcount)) = Held(outbuffer, outnext + 1, outcount - 1)
    BY <1>1, <1>5, HeldAdvance
  <2>3. outnext + 1 \in 0 .. BUF_SIZE /\ outcount - 1 \in 0 .. BUF_SIZE
    BY <1>1, <1>5, SioAssumption
  <2>4. TypeOK'
    BY <1>2, <2>1, <2>2, <2>3 DEF InductiveInvariant, TypeOK, SendNext, inVars
  <2>5. Buffered(outbuffer, outnext, outcount, outlast)'
    BY <2>1, <2>2 DEF SendNext, Buffered
  <2>6. txd' # "none"
    BY <2>1, <2>2, NoneNotCode DEF SendNext
  <2>7. EventToCome' /\ Transmitter'
    BY <1>2, <1>5, <2>1, <2>6 DEF EventToCome, Transmitter, SendNext
  <2>8. OutStream' = <<outbuffer[outnext]>> \o Held(outbuffer, outnext + 1, outcount - 1)
    BY <2>1, <2>6 DEF OutStream, OnLine, SendNext
  <2>9. OutStream' = OutStream
    <3> DEFINE h == Held(outbuffer, outnext, outcount)
    <3>1. h \in Seq(Codes) /\ h # <<>> /\ OutStream = h
      BY <1>3, <2>2, Contents
    <3>2. OutStream' = <<Head(h)>> \o Tail(h)
      BY <2>2, <2>8
    <3> HIDE DEF h
    <3>3. <<Head(h)>> \o Tail(h) = h
      BY <3>1, HeadTailProperties, SeqEqual, ConcatProperties
    <3> QED BY <3>1, <3>2, <3>3
  <2> QED BY <1>4, <2>4, <2>5, <2>7, <2>9
<1>6. CASE ~(sending /\ outcount > 0)
  <2>1. EndSending
    BY <1>6 DEF IsrTransmit
  <2>2. outcount = 0
    BY <1>1, <1>6, SioAssumption DEF InductiveInvariant, Transmitter
  <2>3. TypeOK'
    <3>1. 0 \in 0 .. BUF_SIZE
      BY SioAssumption
    <3> QED BY <1>2, <2>1, <3>1 DEF InductiveInvariant, TypeOK, EndSending, inVars
  <2>4. Buffered(outbuffer, outnext, outcount, outlast)'
    BY <2>1, SioAssumption DEF EndSending, Buffered, Offsets
  <2>5. EventToCome' /\ Transmitter'
    BY <1>2, <2>1 DEF EventToCome, Transmitter, EndSending
  <2>6. OutStream' = OutStream
    BY <2>1, <2>2, HeldNothing DEF OutStream, OnLine, EndSending
  <2> QED BY <1>4, <2>3, <2>4, <2>5, <2>6
<1> QED BY <1>5, <1>6

(* read(): a character from the buffer, or a place in the queue. *)
LEMMA SysReadStep ==
  ASSUME InductiveInvariant, NEW p \in Readers, SysRead(p)
  PROVE  InductiveInvariant' /\ Serial!Read(p)
<1>1. /\ inbuffer \in Cells /\ innext \in Nat /\ incount \in Nat /\ inlast \in 0 .. BUF_SIZE
      /\ innext + incount = inlast /\ Buffered(inbuffer, innext, incount, inlast)
  BY SioAssumption DEF InductiveInvariant, TypeOK, Buffered
<1>2. UNCHANGED <<outVars, isr, wild, rx, txd, txint, sent, nin, nout>>
  BY DEF SysRead
<1>3. OutStream' = OutStream
  BY <1>2 DEF OutStream, OnLine, outVars
<1>4. ASSUME TypeOK', Buffered(inbuffer, innext, incount, inlast)'
      PROVE  InductiveInvariant'
  BY <1>2, <1>4 DEF InductiveInvariant, Buffered, Transmitter, EventToCome, outVars
<1>5. CASE incount > 0
  <2>1. SioRead(p)
    BY <1>5 DEF SysRead
  <2>2. /\ inbuffer[innext] \in Codes
        /\ Buffered(inbuffer, innext + 1, incount - 1, inlast)
        /\ Held(inbuffer, innext, incount) # <<>>
        /\ Head(Held(inbuffer, innext, incount)) = inbuffer[innext]
        /\ Tail(Held(inbuffer, innext, incount)) = Held(inbuffer, innext + 1, incount - 1)
    BY <1>1, <1>5, HeldAdvance
  <2>3. given' \in Seq(Readers \X Codes)
    BY <2>1, <2>2, AppendProperties DEF InductiveInvariant, TypeOK, SioRead
  <2>4. /\ inlast' \in 0 .. BUF_SIZE /\ innext' \in 0 .. BUF_SIZE
        /\ incount' \in 0 .. BUF_SIZE
    BY <1>1, <1>5, <2>1, SioAssumption DEF SioRead
  <2>5. TypeOK'
    BY <1>2, <2>1, <2>3, <2>4 DEF InductiveInvariant, TypeOK, SioRead, outVars
  <2>6. /\ Buffered(inbuffer, innext, incount, inlast)'
        /\ Held(inbuffer, innext, incount)' = Held(inbuffer, innext + 1, incount - 1)
    <3>1. CASE incount = 1
      <4>1. innext' = 0 /\ inlast' = 0 /\ incount' = 0
        BY <2>1, <3>1 DEF SioRead
      <4>2. Held(inbuffer, innext, incount)' = <<>>
        BY <4>1, HeldNothing
      <4>3. Held(inbuffer, innext + 1, incount - 1) = <<>>
        BY <3>1, HeldNothing
      <4> QED BY <4>1, <4>2, <4>3, SioAssumption DEF Buffered, Offsets
    <3>2. CASE incount # 1
      <4>1. /\ innext' = innext + 1 /\ inlast' = inlast /\ incount' = incount - 1
            /\ inbuffer' = inbuffer
        BY <2>1, <3>2 DEF SioRead
      <4> QED BY <2>2, <4>1 DEF Buffered
    <3> QED BY <3>1, <3>2
  <2>7. Serial!Read(p)
    BY <1>2, <1>3, <2>1, <2>2, <2>6 DEF Serial!Read, SioRead, OutStream, OnLine
  <2> QED BY <1>4, <2>5, <2>6, <2>7
<1>6. CASE ~(incount > 0)
  <2>1. reading' = Append(reading, p) /\ UNCHANGED <<inVars, given>>
    BY <1>6 DEF SysRead
  <2>2. reading' \in Seq(Readers)
    BY <2>1, AppendProperties DEF InductiveInvariant, TypeOK
  <2>3. TypeOK' /\ Buffered(inbuffer, innext, incount, inlast)'
    BY <1>2, <2>1, <2>2 DEF InductiveInvariant, TypeOK, Buffered, inVars, outVars
  <2>4. Held(inbuffer, innext, incount) = <<>>
    BY <1>1, <1>6, HeldNothing
  <2>5. Serial!Read(p)
    BY <1>2, <1>3, <2>1, <2>4 DEF Serial!Read, OutStream, OnLine, inVars
  <2> QED BY <1>4, <2>3, <2>5
<1> QED BY <1>5, <1>6

(* A run of characters stored from the last pointer on is appended to the  *)
(* contents.                                                               *)
LEMMA HeldRun ==
  ASSUME NEW b \in Cells, NEW n \in Nat, NEW c \in Nat, NEW l \in 0 .. BUF_SIZE,
         Buffered(b, n, c, l), NEW s \in Seq(Codes), l + Len(s) <= BUF_SIZE
  PROVE  /\ Stored(b, l, s) \in Cells
         /\ Buffered(Stored(b, l, s), n, c + Len(s), l + Len(s))
         /\ Held(Stored(b, l, s), n, c + Len(s)) = Held(b, n, c) \o s
<1> DEFINE d == Stored(b, l, s)
<1>0. Len(s) \in Nat
  OBVIOUS
<1>1. \A i \in l .. l + Len(s) - 1 : s[i - l + 1] \in Codes
  <2> SUFFICES ASSUME NEW i \in l .. l + Len(s) - 1 PROVE s[i - l + 1] \in Codes
    OBVIOUS
  <2>1. i - l + 1 \in 1 .. Len(s)
    BY <1>0
  <2> QED BY <2>1, ElementOfSeq
<1>2. d \in Cells
  BY <1>1 DEF Cells, Stored
<1>3. n + c = l
  BY DEF Buffered
<1>cells. \A i \in Offsets : d[i] = IF i \in l .. l + Len(s) - 1 THEN s[i - l + 1] ELSE b[i]
  BY DEF Stored
<1> HIDE DEF d
<1>4. Buffered(d, n, c + Len(s), l + Len(s))
  <2>1. n + (c + Len(s)) = l + Len(s)
    BY <1>0, <1>3
  <2>2. ASSUME NEW i \in Offsets, n <= i, i < l + Len(s) PROVE d[i] \in Codes
    <3>1. CASE i < l
      BY <1>0, <1>cells, <2>2, <3>1, SioAssumption DEF Buffered, Offsets
    <3>2. CASE ~(i < l)
      BY <1>0, <1>1, <1>cells, <2>2, <3>2, SioAssumption DEF Offsets
    <3> QED BY <3>1, <3>2
  <2> QED BY <2>1, <2>2 DEF Buffered
<1>5. l + Len(s) \in 0 .. BUF_SIZE /\ c + Len(s) \in Nat
  BY <1>0, SioAssumption
<1>6. /\ Held(d, n, c + Len(s)) \in Seq(Codes)
      /\ Len(Held(d, n, c + Len(s))) = c + Len(s)
      /\ \A i \in 1 .. c + Len(s) : Held(d, n, c + Len(s))[i] = d[n + i - 1]
  BY <1>2, <1>4, <1>5, HeldType
<1>7. /\ Held(b, n, c) \in Seq(Codes)
      /\ Len(Held(b, n, c)) = c
      /\ \A i \in 1 .. c : Held(b, n, c)[i] = b[n + i - 1]
  BY HeldType
<1>8. /\ Held(b, n, c) \o s \in Seq(Codes)
      /\ Len(Held(b, n, c) \o s) = c + Len(s)
      /\ \A i \in 1 .. c + Len(s) : (Held(b, n, c) \o s)[i] =
                                       IF i <= c THEN Held(b, n, c)[i] ELSE s[i - c]
  <2> DEFINE h == Held(b, n, c)
  <2> HIDE DEF h
  <2>1. h \in Seq(Codes) /\ Len(h) = c
    BY <1>7 DEF h
  <2>2. /\ h \o s \in Seq(Codes)
        /\ Len(h \o s) = Len(h) + Len(s)
        /\ \A i \in 1 .. Len(h) + Len(s) :
             (h \o s)[i] = IF i <= Len(h) THEN h[i] ELSE s[i - Len(h)]
    BY <2>1, ConcatProperties
  <2> QED BY <2>1, <2>2 DEF h
<1>9. ASSUME NEW i \in 1 .. c + Len(s)
      PROVE  Held(d, n, c + Len(s))[i] = (Held(b, n, c) \o s)[i]
  <2>1. n + i - 1 \in Offsets
    BY <1>0, <1>3, SioAssumption DEF Offsets
  <2>2. CASE i <= c
    <3>1. i \in 1 .. c /\ ~(n + i - 1 \in l .. l + Len(s) - 1)
      BY <1>0, <1>3, <2>2
    <3>2. Held(b, n, c)[i] = b[n + i - 1] /\ d[n + i - 1] = b[n + i - 1]
      BY <1>7, <1>cells, <2>1, <3>1
    <3> QED BY <1>6, <1>8, <2>2, <3>2
  <2>3. CASE ~(i <= c)
    <3>1. n + i - 1 \in l .. l + Len(s) - 1 /\ (n + i - 1) - l + 1 = i - c
      BY <1>0, <1>3, <2>3
    <3>2. d[n + i - 1] = s[i - c]
      BY <1>cells, <2>1, <3>1
    <3> QED BY <1>6, <1>8, <2>3, <3>2
  <2> QED BY <2>2, <2>3
<1>10. Held(d, n, c + Len(s)) = Held(b, n, c) \o s
  BY <1>6, <1>8, <1>9, SeqEqual
<1> QED BY <1>2, <1>4, <1>10 DEF d

(* _sio_write: the characters are appended to the output stream, whether   *)
(* the first of them goes to the line or all of them to the buffer; or a   *)
(* store misses the buffer.                                                *)
LEMMA PutStep ==
  ASSUME InductiveInvariant, NEW cs \in Seq(Codes), cs # <<>>, Put(cs),
         ~wild, UNCHANGED <<inVars, reading, isr, rx, given, sent, nin>>,
         nout' \in 0 .. MaxOut
  PROVE  /\ InductiveInvariant'
         /\ \/ OutStream' = OutStream \o cs
            \/ OutStream' = OutStream
<1> DEFINE rest == IF sending THEN cs ELSE Tail(cs)
           h == Held(outbuffer, outnext, outcount)
<1>1. /\ outbuffer \in Cells /\ outnext \in Nat /\ outcount \in Nat
      /\ outlast \in 0 .. BUF_SIZE /\ outnext + outcount = outlast
      /\ Buffered(outbuffer, outnext, outcount, outlast)
      /\ txd \in Codes \cup {"none"}
  BY SioAssumption DEF InductiveInvariant, TypeOK, Buffered
<1>2. /\ rest \in Seq(Codes) /\ Len(rest) \in Nat
      /\ Head(cs) \in Codes /\ Tail(cs) \in Seq(Codes)
  BY HeadTailProperties
<1>3. ASSUME TypeOK', Buffered(outbuffer, outnext, outcount, outlast)',
             EventToCome', Transmitter'
      PROVE  InductiveInvariant'
  BY <1>3 DEF InductiveInvariant, Buffered, inVars
<1>0. IF outlast + Len(rest) > BUF_SIZE
      THEN wild' = TRUE /\ UNCHANGED <<outVars, txd, txint>>
      ELSE /\ outbuffer' = Stored(outbuffer, outlast, rest)
           /\ outlast' = outlast + Len(rest)
           /\ outcount' = outcount + Len(rest)
           /\ sending' = TRUE
           /\ txd' = (IF sending THEN txd ELSE Head(cs))
           /\ txint' = (txint /\ sending)
           /\ UNCHANGED <<outnext, wild>>
  BY DEF Put
<1>4. CASE outlast + Len(rest) > BUF_SIZE
  <2>1. wild' = TRUE /\ UNCHANGED <<outVars, txd, txint>>
    BY <1>0, <1>4
  <2>2. TypeOK'
    BY <2>1 DEF InductiveInvariant, TypeOK, inVars, outVars
  <2>3. /\ Buffered(outbuffer, outnext, outcount, outlast)'
        /\ EventToCome' /\ Transmitter'
    BY <2>1 DEF InductiveInvariant, Buffered, EventToCome, Transmitter, outVars
  <2>4. OutStream' = OutStream
    BY <2>1 DEF OutStream, OnLine, outVars
  <2> QED BY <1>3, <2>2, <2>3, <2>4
<1>5. CASE ~(outlast + Len(rest) > BUF_SIZE)
  <2> HIDE DEF rest
  <2>1. /\ outbuffer' = Stored(outbuffer, outlast, rest)
        /\ outlast' = outlast + Len(rest) /\ outcount' = outcount + Len(rest)
        /\ sending' = TRUE /\ txd' = (IF sending THEN txd ELSE Head(cs))
        /\ txint' = (txint /\ sending)
        /\ UNCHANGED <<outnext, wild>>
    BY <1>0, <1>5
  <2>2. outlast + Len(rest) <= BUF_SIZE
    BY <1>1, <1>2, <1>5, SioAssumption
  <2>3. /\ outbuffer' \in Cells
        /\ Buffered(outbuffer', outnext, outcount + Len(rest), outlast + Len(rest))
        /\ Held(outbuffer', outnext, outcount + Len(rest)) = h \o rest
    BY <1>1, <1>2, <2>1, <2>2, HeldRun
  <2>4. outlast' \in 0 .. BUF_SIZE /\ outcount' \in 0 .. BUF_SIZE
    BY <1>1, <1>2, <2>1, <2>2, SioAssumption
  <2>5. txd' \in Codes \cup {"none"} /\ txint' \in BOOLEAN
    BY <1>1, <1>2, <2>1
  <2>6. TypeOK'
    BY <2>1, <2>3, <2>4, <2>5 DEF InductiveInvariant, TypeOK, inVars
  <2>7. Buffered(outbuffer, outnext, outcount, outlast)'
    BY <2>1, <2>3 DEF Buffered
  <2>8. EventToCome' /\ Transmitter'
    BY <1>2, <2>1, NoneNotCode DEF InductiveInvariant, EventToCome, Transmitter
  <2>9. /\ Held(outbuffer, outnext, outcount)' = h \o rest
        /\ h \in Seq(Codes) /\ OnLine(txd) \in Seq(Codes)
    BY <2>1, <2>3, Contents
  <2>10. CASE sending
    <3>1. OutStream' = OnLine(txd) \o (h \o cs)
      BY <2>1, <2>9, <2>10 DEF OutStream, rest
    <3> HIDE DEF h
    <3>2. OnLine(txd) \o (h \o cs) = (OnLine(txd) \o h) \o cs
      BY <2>9, ConcatAssociative
    <3>3. OutStream = OnLine(txd) \o h
      BY DEF OutStream, h
    <3> QED BY <1>3, <2>6, <2>7, <2>8, <3>1, <3>2, <3>3
  <2>11. CASE ~sending
    <3>1. txd = "none" /\ outcount = 0 /\ h = <<>>
      BY <1>1, <2>11, HeldNothing, SioAssumption DEF InductiveInvariant, Transmitter
    <3>2. OutStream = <<>>
      BY <3>1 DEF OutStream, OnLine
    <3>3. Held(outbuffer, outnext, outcount)' = Tail(cs) /\ <<>> \o cs = cs
      BY <1>2, <2>9, <2>11, <3>1, ConcatEmptySeq DEF rest
    <3>4. OutStream' = <<Head(cs)>> \o Tail(cs)
      BY <1>2, <2>1, <2>11, <3>3, NoneNotCode DEF OutStream, OnLine
    <3>5. <<Head(cs)>> \o Tail(cs) = cs
      BY HeadTailProperties, SeqEqual, ConcatProperties
    <3> QED BY <1>3, <2>6, <2>7, <2>8, <3>2, <3>3, <3>4, <3>5
  <2> QED BY <2>10, <2>11
<1> QED BY <1>4, <1>5

(* write(): LF is expanded, and the characters go to the output stream. *)
LEMMA SysWriteStep ==
  ASSUME InductiveInvariant, NEW c \in Chars, SysWrite(c)
  PROVE  InductiveInvariant' /\ [Serial!Write(c)]_(Serial!vars)
<1> DEFINE cs == IF c = "lf" THEN <<"cr", "lf">> ELSE <<c>>
<1>1. cs \in Seq(Codes) /\ cs # <<>> /\ cs = Serial!Output(c)
  <2>1. cs = Serial!Output(c)
    BY DEF Serial!Output
  <2>2. c \in Codes /\ "cr" \in Codes /\ "lf" \in Codes
    BY DEF Codes
  <2>3. CASE c = "lf"
    BY <2>1, <2>2, <2>3
  <2>4. CASE c # "lf"
    BY <2>1, <2>2, <2>4
  <2> QED BY <2>3, <2>4
<1>2. /\ Put(cs) /\ ~wild
      /\ UNCHANGED <<inVars, reading, isr, rx, given, sent, nin>>
  BY DEF SysWrite
<1>3. nout' \in 0 .. MaxOut
  BY SioAssumption DEF InductiveInvariant, TypeOK, SysWrite
<1> HIDE DEF cs
<1>4. InductiveInvariant' /\ (OutStream' = OutStream \o cs \/ OutStream' = OutStream)
  BY <1>1, <1>2, <1>3, PutStep
<1>5. CASE OutStream' = OutStream \o cs
  BY <1>1, <1>2, <1>4, <1>5 DEF Serial!Write, OutStream, OnLine, inVars
<1>6. CASE OutStream' = OutStream
  BY <1>2, <1>4, <1>6 DEF Serial!vars, OutStream, OnLine, inVars
<1> QED BY <1>4, <1>5, <1>6

-----------------------------------------------------------------------------
(* The theorems.                                                           *)

(* Every step keeps the invariant and is a step of the two streams. *)
LEMMA Step ==
  ASSUME InductiveInvariant, [Next]_vars
  PROVE  InductiveInvariant' /\ [Serial!Next]_(Serial!vars)
<1>1. ASSUME NEW c \in Chars, Arrive(c) \/ SysWrite(c)
      PROVE  InductiveInvariant' /\ [Serial!Next]_(Serial!vars)
  <2>1. CASE Arrive(c)
    BY <2>1, ArriveStep
  <2>2. CASE SysWrite(c)
    BY <2>2, SysWriteStep DEF Serial!Next
  <2> QED BY <1>1, <2>1, <2>2
<1>2. ASSUME NEW p \in Readers, SysRead(p)
      PROVE  InductiveInvariant' /\ [Serial!Next]_(Serial!vars)
  BY <1>2, SysReadStep DEF Serial!Next
<1>3. CASE Transmit
  BY <1>3, TransmitStep DEF Serial!Next
<1>4. CASE Interrupt
  BY <1>4, InterruptStep
<1>5. CASE IsrReceive
  BY <1>5, IsrReceiveStep
<1>6. CASE IsrTransmit
  BY <1>6, IsrTransmitStep
<1>7. CASE IsrReturn
  BY <1>7, IsrReturnStep
<1>8. CASE UNCHANGED vars
  BY <1>8, SilentStep DEF vars, InductiveInvariant, TypeOK
<1> QED BY <1>1, <1>2, <1>3, <1>4, <1>5, <1>6, <1>7, <1>8 DEF Next

(* The driver's variables keep their types, its pointers and counters      *)
(* agree and stay in their buffers (sio.c 42-61).                          *)
THEOREM Invariance == Spec => []InductiveInvariant
<1>1. Init => InductiveInvariant
  BY InitHolds
<1>2. InductiveInvariant /\ [Next]_vars => InductiveInvariant'
  BY Step
<1> QED BY <1>1, <1>2, PTL DEF Spec

(* Every variable of the driver and of the UART keeps its type. *)
THEOREM TypeCorrect == Spec => []TypeOK
BY Invariance, PTL DEF InductiveInvariant

(* A transmit sequence never stalls: while _sending is set, a character is *)
(* on the line or the transmitter's event is pending (sio.c 233-262).      *)
THEOREM NeverStalls == Spec => []EventToCome
BY Invariance, PTL DEF InductiveInvariant

(* The driver implements the two character streams of SerialSpec.          *)
THEOREM StreamsImplemented == Spec => ImplementsSerial
<1>1. Init => Serial!Init
  BY InitHolds
<1>2. InductiveInvariant /\ [Next]_vars => [Serial!Next]_(Serial!vars)
  BY Step
<1> QED BY <1>1, <1>2, Invariance, PTL DEF Spec, ImplementsSerial, Serial!Spec

=============================================================================

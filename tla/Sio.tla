--------------------------------- MODULE Sio ---------------------------------
(***************************************************************************)
(* The serial driver, src/sio.c: the input and output buffers, their       *)
(* pointers and counters, the "sending" flag, the interrupt handler and    *)
(* the routines behind read() and write().                                 *)
(*                                                                         *)
(* The handler is a loop over the UART's pending events, one step per      *)
(* event.  It and the system calls run with interrupts masked, so a system *)
(* call is one step and happens only while the handler is not running.     *)
(* The UART is not part of the repository: it holds characters received    *)
(* and not read yet (rx), the character it is transmitting (txd) and the   *)
(* pending transmitter event (txint), which reading the event register and *)
(* writing a character both clear.                                         *)
(*                                                                         *)
(* Pointers into a buffer are offsets.  A store at or behind offset        *)
(* BUF_SIZE hits whatever the linker placed there; what the program does   *)
(* next is not defined, so the model stops there with wild = TRUE.         *)
(***************************************************************************)
EXTENDS Naturals, Sequences, FiniteSets

CONSTANTS
  BUF_SIZE,  \* size of _inbuffer and of _outbuffer
  Chars,     \* characters that are received and written
  Readers,   \* processes that read
  RxDepth,   \* bound: characters the UART holds
  MaxIn,     \* bound: characters received
  MaxOut     \* bound: calls of write()

ASSUME SioAssumption == /\ BUF_SIZE \in Nat \ {0} /\ RxDepth \in Nat \ {0}
                        /\ MaxIn \in Nat /\ MaxOut \in Nat
                        /\ "none" \notin Chars

VARIABLES
  inbuffer, inlast, innext, incount,       \* _inbuffer, _inlast, ...
  outbuffer, outlast, outnext, outcount,   \* _outbuffer, _outlast, ...
  sending,                                 \* _sending
  reading,                                 \* _reading: processes that wait
  isr,                                     \* _isr_sio is running
  wild,                                    \* a store missed its buffer
  rx, txd, txint,                          \* the UART
  given, sent,                             \* reads answered, line output
  nin, nout                                \* characters received, write()s

inVars == <<inbuffer, inlast, innext, incount>>
outVars == <<outbuffer, outlast, outnext, outcount, sending>>
vars == <<inVars, outVars, reading, isr, wild, rx, txd, txint, given, sent,
          nin, nout>>

Offsets == 0 .. BUF_SIZE - 1
Codes == Chars \cup {"cr", "lf"}   \* what reaches the buffers: cr becomes lf, lf cr lf
Cells == [Offsets -> Codes \cup {"none"}]

(* _sio_init, then _sio_enable(1,1): enabling the idle transmitter may     *)
(* raise its event at once. *)
Init ==
  /\ inbuffer = [i \in Offsets |-> "none"] /\ inlast = 0 /\ innext = 0 /\ incount = 0
  /\ outbuffer = [i \in Offsets |-> "none"] /\ outlast = 0 /\ outnext = 0 /\ outcount = 0
  /\ sending = FALSE
  /\ reading = <<>>
  /\ isr = FALSE /\ wild = FALSE
  /\ rx = <<>> /\ txd = "none" /\ txint \in BOOLEAN
  /\ given = <<>> /\ sent = <<>>
  /\ nin = 0 /\ nout = 0

(***************************************************************************)
(* The UART.                                                               *)
(***************************************************************************)
Arrive(c) == /\ nin < MaxIn /\ Len(rx) < RxDepth
             /\ rx' = Append(rx, c)
             /\ nin' = nin + 1
             /\ UNCHANGED <<inVars, outVars, reading, isr, wild, txd, txint, given,
                            sent, nout>>

Transmit == /\ txd # "none"
            /\ sent' = Append(sent, txd)
            /\ txd' = "none"
            /\ txint' = TRUE
            /\ UNCHANGED <<inVars, outVars, reading, isr, wild, rx, given, nin, nout>>

(***************************************************************************)
(* _isr_sio.                                                               *)
(***************************************************************************)
InterruptTxOnly == \* Mutant: the receiver's interrupt is not enabled.
  /\ ~isr /\ ~wild /\ txint
  /\ isr' = TRUE
  /\ UNCHANGED <<inVars, outVars, reading, wild, rx, txd, txint, given, sent, nin, nout>>

(* The events _sio_enable(1,1) lets through interrupt the processor. *)
Interrupt == /\ ~isr /\ ~wild
             /\ rx # <<>> \/ txint
             /\ isr' = TRUE
             /\ UNCHANGED <<inVars, outVars, reading, wild, rx, txd, txint, given,
                            sent, nin, nout>>

MapCR(c) == IF c = "cr" THEN "lf" ELSE c

(* A character for the process that has waited longest. *)
GiveToReader(c) == /\ given' = Append(given, <<Head(reading), c>>)
                   /\ reading' = Tail(reading)
                   /\ UNCHANGED <<inVars, wild>>

(* Nobody waits: buffer the character, or ignore it when there is no room. *)
Store(c) ==
  /\ CASE incount >= BUF_SIZE -> UNCHANGED <<inVars, wild>>
       [] incount < BUF_SIZE /\ inlast < BUF_SIZE ->
            /\ inbuffer' = [inbuffer EXCEPT ![inlast] = c]
            /\ inlast' = inlast + 1
            /\ incount' = incount + 1
            /\ UNCHANGED <<innext, wild>>
       [] OTHER -> wild' = TRUE /\ UNCHANGED inVars
  /\ UNCHANGED <<reading, given>>

IsrReceive ==
  /\ isr /\ ~wild
  /\ rx # <<>>
  /\ rx' = Tail(rx)
  /\ IF reading # <<>> THEN GiveToReader(MapCR(Head(rx))) ELSE Store(MapCR(Head(rx)))
  /\ UNCHANGED <<outVars, isr, txd, txint, sent, nin, nout>>

(* Send the next character of the buffer. *)
SendNext == /\ txd' = outbuffer[outnext]
            /\ outnext' = outnext + 1
            /\ outcount' = outcount - 1
            /\ UNCHANGED <<outbuffer, outlast, sending>>

(* The end of a transmit sequence. *)
EndSendingStuck == \* Mutant: _sending is not cleared.
  /\ outcount' = 0 /\ outlast' = 0 /\ outnext' = 0
  /\ UNCHANGED <<outbuffer, sending, txd>>

EndSending == /\ outcount' = 0 /\ outlast' = 0 /\ outnext' = 0
              /\ sending' = FALSE
              /\ UNCHANGED <<outbuffer, txd>>

IsrTransmitDropsLast == \* Mutant: the sequence ends one character early.
  /\ isr /\ ~wild
  /\ rx = <<>> /\ txint
  /\ IF sending /\ outcount > 1 THEN SendNext ELSE EndSending
  /\ txint' = FALSE
  /\ UNCHANGED <<inVars, reading, isr, wild, rx, given, sent, nin, nout>>

IsrTransmit ==
  /\ isr /\ ~wild
  /\ rx = <<>> /\ txint
  /\ IF sending /\ outcount > 0 THEN SendNext ELSE EndSending
  /\ txint' = FALSE
  /\ UNCHANGED <<inVars, reading, isr, wild, rx, given, sent, nin, nout>>

IsrReturn == /\ isr /\ ~wild
             /\ rx = <<>> /\ ~txint
             /\ isr' = FALSE
             /\ UNCHANGED <<inVars, outVars, reading, wild, rx, txd, txint, given,
                            sent, nin, nout>>

(***************************************************************************)
(* System calls.                                                           *)
(***************************************************************************)
IsWaiting(p) == \E i \in 1 .. Len(reading) : reading[i] = p

SioReadKeepsNext(p) == \* Mutant: only one of the pointers is reset.
  /\ given' = Append(given, <<p, inbuffer[innext]>>)
  /\ incount' = incount - 1
  /\ inlast' = IF incount = 1 THEN 0 ELSE inlast
  /\ innext' = innext + 1
  /\ UNCHANGED <<inbuffer, reading>>

(* _sio_read: the pointers are reset with the last character, and only then. *)
SioRead(p) == /\ given' = Append(given, <<p, inbuffer[innext]>>)
              /\ incount' = incount - 1
              /\ inlast' = IF incount = 1 THEN 0 ELSE inlast
              /\ innext' = IF incount = 1 THEN 0 ELSE innext + 1
              /\ UNCHANGED <<inbuffer, reading>>

(* _sys_read: take a buffered character, or wait for one. *)
SysRead(p) ==
  /\ ~isr /\ ~wild
  /\ ~IsWaiting(p)
  /\ IF incount > 0
     THEN SioRead(p)
     ELSE /\ reading' = Append(reading, p)
          /\ UNCHANGED <<inVars, given>>
  /\ UNCHANGED <<outVars, isr, wild, rx, txd, txint, sent, nin, nout>>

(* A buffer with the characters of s stored from an offset on. *)
Stored(buffer, at, s) ==
  [i \in Offsets |-> IF i \in at .. at + Len(s) - 1 THEN s[i - at + 1] ELSE buffer[i]]

(* _sio_write of the characters cs: when nothing is being sent the first   *)
(* one primes the pump; the others go to the buffer, which nobody checks   *)
(* for room. *)
Put(cs) ==
  LET rest == IF sending THEN cs ELSE Tail(cs)
      end == outlast + Len(rest)
  IN IF end > BUF_SIZE
     THEN wild' = TRUE /\ UNCHANGED <<outVars, txd, txint>>
     ELSE /\ outbuffer' = Stored(outbuffer, outlast, rest)
          /\ outlast' = end
          /\ outcount' = outcount + Len(rest)
          /\ sending' = TRUE
          /\ txd' = IF sending THEN txd ELSE Head(cs)
          /\ txint' = (txint /\ sending)
          /\ UNCHANGED <<outnext, wild>>

(* _sys_write: LF is preceded by CR. *)
SysWrite(c) ==
  /\ ~isr /\ ~wild
  /\ nout < MaxOut /\ nout' = nout + 1
  /\ Put(IF c = "lf" THEN <<"cr", "lf">> ELSE <<c>>)
  /\ UNCHANGED <<inVars, reading, isr, rx, given, sent, nin>>

Next == \/ \E c \in Chars : Arrive(c) \/ SysWrite(c)
        \/ \E p \in Readers : SysRead(p)
        \/ Transmit
        \/ Interrupt
        \/ IsrReceive
        \/ IsrTransmit
        \/ IsrReturn

Spec == Init /\ [][Next]_vars

(* The UART transmits what it is given and interrupts the processor, and a *)
(* handler that has been entered runs to its end. *)
FairSpec == Spec /\ WF_vars(Transmit) /\ SF_vars(Interrupt)
                 /\ WF_vars(IsrReceive \/ IsrTransmit \/ IsrReturn)
-----------------------------------------------------------------------------
(***************************************************************************)
(* Properties.                                                             *)
(***************************************************************************)

(* Type invariant of the driver and the UART. *)
TypeOK ==
  /\ inbuffer \in Cells /\ outbuffer \in Cells
  /\ inlast \in 0 .. BUF_SIZE /\ innext \in 0 .. BUF_SIZE /\ incount \in 0 .. BUF_SIZE
  /\ outlast \in 0 .. BUF_SIZE /\ outnext \in 0 .. BUF_SIZE
  /\ outcount \in 0 .. BUF_SIZE
  /\ reading \in Seq(Readers) /\ rx \in Seq(Chars)
  /\ txd \in Codes \cup {"none"}
  /\ sending \in BOOLEAN /\ txint \in BOOLEAN /\ isr \in BOOLEAN /\ wild \in BOOLEAN
  /\ given \in Seq(Readers \X Codes) /\ sent \in Seq(Codes)
  /\ nin \in 0 .. MaxIn /\ nout \in 0 .. MaxOut

(* What the buffers hold: the cells from the next to the last pointer.  *)
Held(buffer, next, count) == [i \in 1 .. count |-> buffer[next + i - 1]]

(* The driver implements the two streams that SerialSpec promises: no      *)
(* character is lost, duplicated or reordered by the pointer resets, the   *)
(* direct hand-over to a waiting reader or the switch between sending      *)
(* directly and through the buffer. *)
Serial == INSTANCE SerialSpec
            WITH inq <- Held(inbuffer, innext, incount),
                 waiting <- reading,
                 outq <- (IF txd = "none" THEN <<>> ELSE <<txd>>)
                           \o Held(outbuffer, outnext, outcount)

ImplementsSerial == Serial!Spec

(* While the driver believes it is sending, a transmitter event is still   *)
(* to come: otherwise the output would stay in the buffer for good. *)
EventToCome == sending => txd # "none" \/ txint

(* How many characters were written: sent, being sent or in the buffer. *)
Written == Len(sent) + (IF txd = "none" THEN 0 ELSE 1) + outcount

(* Everything written is sent in the end, unless a buffer was overrun: the *)
(* transmit sequence does not stop between the last buffered character and *)
(* a write() that still saw _sending set. *)
OutputSent ==
  \A n \in 1 .. 2 * MaxOut : Written >= n ~> (Len(sent) >= n \/ wild)

(* The process that has waited longest gets the next character received.   *)
FirstReaderServed ==
  \A p \in Readers : (reading # <<>> /\ Head(reading) = p /\ rx # <<>>)
                       ~> (~IsWaiting(p) \/ wild)
-----------------------------------------------------------------------------
(* What the comments promise and the code does not keep. *)

(* "Nobody waiting - add to the input buffer if there is room": a store    *)
(* never misses the input buffer. *)
InputStaysInBuffer == [][wild' /\ ~wild => ~isr]_vars

(* "just add this to the buffer": a store never misses the output buffer. *)
OutputStaysInBuffer == [][wild' /\ ~wild => isr]_vars
=============================================================================

-------------------------------- MODULE Ata --------------------------------
(***************************************************************************)
(* The ATA disk driver (ata.c): requests that processes make, the          *)
(* interrupt handler, and the drive.  _ata_request runs inside the calling *)
(* process with interrupts enabled, so other processes and the handler     *)
(* come between any two of its steps.  The handler is one step, and comes  *)
(* before the next instruction of a process; only the polling loop of      *)
(* _ata_flush_cache masks it.                                              *)
(*                                                                         *)
(* A request is named by the process that owns it.  The drive takes a      *)
(* command only when it is neither busy nor transferring, raises its       *)
(* request line when a sector is ready to be read, when a written one is   *)
(* stored and when a flush ends, and lowers it when a command is written;  *)
(* the interrupt controller latches its rising edges.  The drive may fail  *)
(* a command: it sets its error bit, which the driver prints and ignores.  *)
(*                                                                         *)
(* The code counts on processes that take turns, and on a drive that needs *)
(* longer than a few instructions: turns says whether the first is so,     *)
(* calm whether both are.                                                  *)
(***************************************************************************)
EXTENDS Integers, Sequences, FiniteSets

CONSTANTS Procs,         \* processes that use the disk
          Lbas,          \* block addresses they ask for
          Counts,        \* values of nblocks in their requests
          Blocks,        \* lengths of data they read or write in one call, if in turns
          MaxCalls,      \* bound on calls, if they take turns
          MaxRacing,     \* bound on calls, if not
          MaxErrors,     \* bound on the calls that the drive fails at a time
          QNodes         \* queue nodes left for this driver

ASSUME AtaAssumption ==
  /\ Procs # {} /\ "none" \notin Procs /\ Lbas # {} /\ Counts # {}
  /\ Lbas \subseteq Nat /\ Counts \subseteq Nat \ {0} /\ Blocks \subseteq Nat \ {0}
  /\ MaxCalls \in Nat /\ MaxRacing \in Nat /\ MaxErrors \in Nat /\ QNodes \in Nat

VARIABLES pc,        \* where each process is in the driver
          dr,        \* the request of each process
          left,      \* blocks each process will ask for after this one
          seen,      \* its local variable alt_status
          pendq,     \* _ata_io_pending
          request,   \* _current_pending_request
          transfer,  \* _ata_transfer
          pointer,   \* whether _current_pending_transfer points at it
          wild,      \* a null pointer was used
          nIEN,      \* the drive's interrupt-disable bit
          lbaReg,    \* the drive's address registers
          drive,     \* what the drive does, and to which sector
          intrq,     \* the drive's request line, before nIEN masks it
          irq,       \* an edge is latched in the interrupt controller
          sectors,   \* contents of the disk
          turns,     \* whether processes take turns, chosen at the start
          calm,      \* whether the drive is slow besides
          made,      \* calls made so far
          hit        \* history: processes of whose call the drive failed a command

driverVars == <<dr, left, seen, pendq, request, transfer, pointer, wild>>
driveVars  == <<nIEN, lbaReg, drive, intrq, irq, sectors>>
history    == <<turns, calm, made, hit>>
vars       == <<pc, driverVars, driveVars, history>>

----------------------------------------------------------------------------
(* Data.                                                                   *)

None == "none"

MaxUint == 2^16 - 1   \* stands for 2^32 - 1

Commands == {"read", "write"}

(* The outcomes of a request: two pending states, success, two errors.     *)
Statuses == {"new", "read_pending", "write_pending", "success",
             "no_node", "invalid_cmd"}

(* The address the registers get: `(uint8_t) dr->lba >> 8` casts before    *)
(* it shifts, so the middle and high registers are always 0.               *)
Addressed(lba) == (lba % 256) + ((lba \div 2^24) % 16) * 2^24

Addresses == Lbas \cup {Addressed(lba) : lba \in Lbas}

(* Contents of a sector: at first its own address, then the number of the  *)
(* request that wrote it.  <<>> is whatever was in a buffer.               *)
Contents == (Addresses \X {0}) \cup (Lbas \X (1 .. MaxCalls + MaxRacing))

Requests ==
  [cmd : Commands \cup {"other"}, lba : Lbas, nblocks : Counts, status : Statuses,
   buffer : Contents \cup {<<>>}]

Steps == {"idle", "enable", "ready", "address", "command", "record", "point",
          "status", "poll", "data", "count", "finish", "wait", "flush", "flushing",
          "again"}

DriveStates ==
  [st : {"idle", "busy", "drq"}, cmd : Commands \cup {"store", "flush", "none"},
   addr : Addresses, data : Contents \cup {<<>>}, by : Procs]

----------------------------------------------------------------------------
(* The drive (external).                                                   *)

(* A new state of the request line and its mask: an edge that gets through *)
(* is latched.                                                             *)
Line(line, mask) ==
  /\ intrq' = line /\ nIEN' = mask
  /\ irq' = (irq \/ (line /\ ~mask /\ ~(intrq /\ ~nIEN)))

(* A process writes the command register: ignored by a drive at work.      *)
Command(p, c) ==
  IF drive.st = "idle"
  THEN /\ drive' = [st |-> "busy", cmd |-> c, addr |-> lbaReg, data |-> <<>>, by |-> p]
       /\ intrq' = FALSE
  ELSE UNCHANGED <<drive, intrq>>

(* Steps in which the code counts on the drive being slow.                 *)
Window == {"record", "point", "count", "finish"}

Answers == calm => \A p \in Procs : pc[p] \notin Window

DriveReads ==
  /\ drive.st = "busy" /\ drive.cmd = "read" /\ Answers
  /\ drive' = [drive EXCEPT !.st = "drq", !.data = sectors[drive.addr]]
  /\ Line(TRUE, nIEN)
  /\ UNCHANGED <<pc, driverVars, lbaReg, sectors, history>>

DriveAsksForData ==
  /\ drive.st = "busy" /\ drive.cmd = "write"
  /\ drive' = [drive EXCEPT !.st = "drq"]
  /\ UNCHANGED <<pc, driverVars, nIEN, intrq, irq, lbaReg, sectors, history>>

DriveFinishes ==
  /\ drive.st = "busy" /\ drive.cmd \in {"store", "flush"} /\ Answers
  /\ drive' = [drive EXCEPT !.st = "idle"]
  /\ sectors' = IF drive.cmd = "store" THEN [sectors EXCEPT ![drive.addr] = drive.data]
                ELSE sectors
  /\ Line(TRUE, nIEN)
  /\ UNCHANGED <<pc, driverVars, lbaReg, history>>

(* The command fails: no data, and the error bit.                          *)
DriveFails ==
  /\ drive.st = "busy" /\ Answers
  /\ Cardinality(hit) < MaxErrors /\ hit' = hit \cup {drive.by}
  /\ drive' = [drive EXCEPT !.st = "idle"]
  /\ Line(TRUE, nIEN)
  /\ UNCHANGED <<pc, driverVars, lbaReg, sectors, turns, calm, made>>

----------------------------------------------------------------------------
(* The process side: _ata_request and _ata_do_pio_data.                    *)

(* A process runs when no interrupt is latched and no other process has    *)
(* masked interrupts.                                                      *)
MayRun(p) ==
  /\ ~irq \/ pc[p] = "flushing"
  /\ \A o \in Procs \ {p} : pc[o] # "flushing"

At(p, here, next) == MayRun(p) /\ pc[p] = here /\ pc' = [pc EXCEPT ![p] = next]

(* _ata_request up to its switch: the request is queued, and goes on       *)
(* without a node if there is none.                                        *)
Request(p, c, lba, n, here, mark) ==
  /\ At(p, here, IF c \in Commands THEN "enable" ELSE "idle")
  /\ LET status == IF c = "other" THEN "invalid_cmd"
                   ELSE IF Len(pendq) >= QNodes THEN "no_node"
                   ELSE IF c = "read" THEN "read_pending" ELSE "write_pending"
     IN /\ dr' = [dr EXCEPT ![p] =
                    [cmd |-> c, lba |-> lba, nblocks |-> n, status |-> status,
                     buffer |-> IF c = "write" THEN <<lba, mark>> ELSE <<>>]]
        /\ pendq' = IF status \in {"read_pending", "write_pending"}
                    THEN Append(pendq, p) ELSE pendq
  /\ UNCHANGED <<seen, request, transfer, pointer, wild, driveVars, turns, calm>>

(* A process whose command failed waits for a success that nobody reports. *)
Stuck(p) ==
  p \in hit /\ pc[p] = "wait" /\ dr[p].status # "success" /\ drive.st = "idle" /\ ~irq

(* Processes that take turns do not call while another one is served.      *)
TakesTurn(p) ==
  IF turns
  THEN /\ made < MaxCalls
       /\ \A o \in Procs \ {p} : pc[o] = "idle" \/ (calm /\ Stuck(o))
  ELSE made < MaxRacing

(* A call of _ata_ctrl with a request of its own, or of _ata_read_data and *)
(* _ata_write_data, which ask for one block after the other.               *)
Call(p, c, lba, n, blocks) ==
  /\ TakesTurn(p) /\ made' = made + 1
  /\ blocks > 1 => c \in Commands /\ n = 1 /\ turns
  /\ lba .. lba + blocks - 1 \subseteq Lbas
  /\ left' = [left EXCEPT ![p] = blocks - 1]
  /\ hit' = hit \ {p}
  /\ Request(p, c, lba, n, "idle", made')

(* The next block of such a call, with the same request structure.         *)
AskAgain(p) ==
  /\ left' = [left EXCEPT ![p] = @ - 1]
  /\ Request(p, dr[p].cmd, dr[p].lba + 1, 1, "again", dr[p].buffer[2])
  /\ UNCHANGED <<made, hit>>

(* nIEN is cleared: a request line still up gives an interrupt now.        *)
EnableInterrupts(p) ==
  /\ At(p, "enable", "ready")
  /\ Line(intrq, FALSE)
  /\ UNCHANGED <<driverVars, lbaReg, drive, sectors, history>>

(* Mutant: the sense of the loop is reversed.                              *)
WaitReadyReversed(p) ==
  /\ At(p, "ready", "address")
  /\ drive.st = "busy"
  /\ UNCHANGED <<driverVars, driveVars, history>>

(* The loop on BSY, before the registers are written.                      *)
WaitReady(p) ==
  /\ At(p, "ready", "address")
  /\ drive.st # "busy"
  /\ UNCHANGED <<driverVars, driveVars, history>>

SetAddress(p) ==
  /\ At(p, "address", "command")
  /\ lbaReg' = Addressed(dr[p].lba)
  /\ UNCHANGED <<driverVars, nIEN, drive, intrq, irq, sectors, history>>

IssueCommand(p) ==
  /\ At(p, "command", "record")
  /\ Command(p, dr[p].cmd)
  /\ UNCHANGED <<driverVars, nIEN, lbaReg, irq, sectors, history>>

(* The transfer and _current_pending_request are recorded; the pointer to  *)
(* the transfer comes after.                                               *)
RecordRequest(p) ==
  /\ At(p, "record", "point")
  /\ transfer' = [request |-> p, left |-> dr[p].nblocks]
  /\ request' = p
  /\ UNCHANGED <<dr, left, seen, pendq, pointer, wild, driveVars, history>>

(* Mutant: the pointer is not set.                                         *)
PointAtTransferMissing(p) ==
  /\ At(p, "point", "status")
  /\ UNCHANGED <<driverVars, driveVars, history>>

PointAtTransfer(p) ==
  /\ At(p, "point", "status")
  /\ pointer' = TRUE
  /\ UNCHANGED <<dr, left, seen, pendq, request, transfer, wild, driveVars, history>>

(* alt_status is read before the sleep of two seconds and used after it.   *)
ReadStatus(p) ==
  /\ At(p, "status", IF dr[p].cmd = "write" THEN "poll" ELSE "wait")
  /\ seen' = [seen EXCEPT ![p] = drive.st]
  /\ UNCHANGED <<dr, left, pendq, request, transfer, pointer, wild, driveVars, history>>

(* The loop on BSY, then the test of DRQ.                                  *)
PollStatus(p) ==
  /\ LET last == IF seen[p] = "busy" THEN drive.st ELSE seen[p]
     IN /\ last # "busy"
        /\ At(p, "poll", IF last = "drq" THEN "data" ELSE "wait")
        /\ seen' = [seen EXCEPT ![p] = last]
  /\ UNCHANGED <<dr, left, pendq, request, transfer, pointer, wild, driveVars, history>>

(* The drive takes the words of one block, if it asked for them.           *)
TakeBlock(content) ==
  IF drive.st = "drq" /\ drive.cmd = "write"
  THEN drive' = [drive EXCEPT !.st = "busy", !.cmd = "store", !.data = content]
  ELSE UNCHANGED drive

(* _ata_write_block in the process: the words, then the count.             *)
SendBlock(p) ==
  /\ At(p, "data", "count")
  /\ wild' = (wild \/ ~pointer)
  /\ TakeBlock(dr[transfer.request].buffer)
  /\ UNCHANGED <<dr, left, seen, pendq, request, transfer, pointer, nIEN, lbaReg, intrq, irq,
                 sectors, history>>

(* One block less; the pointer is reset after the last one.  The count is  *)
(* unsigned: a block too many makes it huge.                               *)
CountBlock ==
  /\ transfer' = [transfer EXCEPT !.left = IF @ = 0 THEN MaxUint ELSE @ - 1]
  /\ pointer' = (transfer.left # 1)

BlockSent(p) ==
  /\ At(p, "count", "finish")
  /\ wild' = (wild \/ ~pointer)
  /\ CountBlock
  /\ UNCHANGED <<dr, left, seen, pendq, request, driveVars, history>>

(* Mutant: the request stays pending.                                      *)
FinishWriteKeepsRequest(p) ==
  /\ At(p, "finish", "wait")
  /\ IF pointer THEN UNCHANGED <<dr, wild>>
     ELSE /\ wild' = (wild \/ request = None)
          /\ dr' = IF request = None THEN dr ELSE [dr EXCEPT ![request].status = "success"]
  /\ UNCHANGED <<left, seen, pendq, request, transfer, pointer, driveVars, history>>

(* All blocks sent: the process itself declares success, through           *)
(* _current_pending_request.                                               *)
FinishWrite(p) ==
  /\ At(p, "finish", "wait")
  /\ IF pointer THEN UNCHANGED <<dr, request, wild>>
     ELSE /\ wild' = (wild \/ request = None)
          /\ dr' = IF request = None THEN dr ELSE [dr EXCEPT ![request].status = "success"]
          /\ request' = None
  /\ UNCHANGED <<left, seen, pendq, transfer, pointer, driveVars, history>>

Returned(p) == IF left[p] > 0 THEN "again" ELSE "idle"

(* The loop on the status of the request.                                  *)
Wait(p) ==
  /\ dr[p].status = "success"
  /\ At(p, "wait", IF dr[p].cmd = "write" THEN "flush" ELSE Returned(p))
  /\ UNCHANGED <<driverVars, driveVars, history>>

(* Mutant: the flush does not wait.                                        *)
FlushCacheReturns(p) ==
  /\ At(p, "flush", Returned(p))
  /\ Command(p, "flush")
  /\ UNCHANGED <<driverVars, nIEN, lbaReg, irq, sectors, history>>

(* _ata_flush_cache masks interrupts, sends its command (or not, if the    *)
(* drive is not ready, which comes to the same), polls, unmasks.           *)
FlushCache(p) ==
  /\ At(p, "flush", "flushing")
  /\ Command(p, "flush")
  /\ UNCHANGED <<driverVars, nIEN, lbaReg, irq, sectors, history>>

(* Mutant: the command is sent after the poll.                             *)
FlushDoneSendsCommand(p) ==
  /\ At(p, "flushing", Returned(p))
  /\ drive.st # "busy"
  /\ Command(p, "flush")
  /\ UNCHANGED <<driverVars, nIEN, lbaReg, irq, sectors, history>>

FlushDone(p) ==
  /\ At(p, "flushing", Returned(p))
  /\ drive.st # "busy"
  /\ UNCHANGED <<driverVars, driveVars, history>>

----------------------------------------------------------------------------
(* The interrupt handler.                                                  *)

Interrupted == irq /\ \A p \in Procs : pc[p] # "flushing"

(* No request is current: nIEN is cleared, the busy loop waits, and the    *)
(* oldest queued request is dropped; with none, nIEN is set.               *)
IsrNothingPending ==
  /\ Interrupted /\ request = None /\ drive.st # "busy"
  /\ irq' = (intrq /\ nIEN)
  /\ nIEN' = (pendq = <<>>)
  /\ pendq' = IF pendq = <<>> THEN pendq ELSE Tail(pendq)
  /\ UNCHANGED <<pc, dr, left, seen, request, transfer, pointer, wild, lbaReg, drive, intrq,
                 sectors, history>>

(* All blocks of a write are sent: it is done.                             *)
IsrWriteDone ==
  /\ Interrupted /\ request # None
  /\ dr[request].cmd = "write" /\ ~pointer
  /\ dr' = [dr EXCEPT ![request].status = "success"]
  /\ request' = None /\ irq' = FALSE
  /\ UNCHANGED <<pc, left, seen, pendq, transfer, pointer, wild, nIEN, lbaReg, drive, intrq,
                 sectors, history>>

(* The drive has or wants no data: nothing but the last test.              *)
IsrNoData ==
  /\ Interrupted /\ request # None
  /\ ~(dr[request].cmd = "write" /\ ~pointer)
  /\ drive.st # "drq"
  /\ irq' = FALSE /\ request' = IF pointer THEN request ELSE None
  /\ UNCHANGED <<pc, dr, left, seen, pendq, transfer, pointer, wild, nIEN, lbaReg, drive, intrq,
                 sectors, history>>

(* A block is read into the buffer the transfer names, or written from it; *)
(* after the last one the request has succeeded and is no longer current.  *)
IsrTransfer ==
  /\ Interrupted /\ request # None
  /\ ~(dr[request].cmd = "write" /\ ~pointer)
  /\ drive.st = "drq"
  /\ irq' = FALSE
  /\ wild' = (wild \/ ~pointer)
  /\ CountBlock
  /\ request' = IF pointer' THEN request ELSE None
  /\ LET to   == transfer.request
         read == dr[request].cmd = "read"
         got  == IF read THEN [dr EXCEPT ![to].buffer = drive.data] ELSE dr
     IN /\ dr' = IF pointer' THEN got ELSE [got EXCEPT ![request].status = "success"]
        /\ IF read
           THEN drive' = [drive EXCEPT !.st = "idle"]
           ELSE TakeBlock(dr[to].buffer)
  /\ UNCHANGED <<pc, left, seen, pendq, nIEN, lbaReg, intrq, sectors, history>>

----------------------------------------------------------------------------
(* The specification.                                                      *)

(* The system after _ata_init, nIEN clear.                                 *)
Init ==
  /\ turns \in BOOLEAN /\ calm \in BOOLEAN /\ (calm => turns)
  /\ pc = [p \in Procs |-> "idle"] /\ left = [p \in Procs |-> 0]
  /\ dr = [p \in Procs |->
             [cmd |-> "other", lba |-> CHOOSE lba \in Lbas : TRUE,
              nblocks |-> CHOOSE n \in Counts : TRUE, status |-> "new", buffer |-> <<>>]]
  /\ seen = [p \in Procs |-> "idle"]
  /\ pendq = <<>> /\ request = None
  /\ transfer = [request |-> CHOOSE p \in Procs : TRUE, left |-> 0]
  /\ pointer = FALSE /\ wild = FALSE
  /\ nIEN = FALSE /\ intrq = FALSE /\ irq = FALSE
  /\ lbaReg = CHOOSE a \in Addresses : TRUE
  /\ drive = [st |-> "idle", cmd |-> "none", addr |-> lbaReg, data |-> <<>>,
              by |-> CHOOSE p \in Procs : TRUE]
  /\ sectors = [a \in Addresses |-> <<a, 0>>]
  /\ made = 0 /\ hit = {}

Proceed(p) ==
  \/ EnableInterrupts(p) \/ WaitReady(p) \/ SetAddress(p) \/ IssueCommand(p)
  \/ RecordRequest(p) \/ PointAtTransfer(p) \/ ReadStatus(p) \/ PollStatus(p)
  \/ SendBlock(p) \/ BlockSent(p) \/ FinishWrite(p) \/ Wait(p)
  \/ FlushCache(p) \/ FlushDone(p) \/ AskAgain(p)

Isr == IsrNothingPending \/ IsrWriteDone \/ IsrNoData \/ IsrTransfer

Drive == DriveReads \/ DriveAsksForData \/ DriveFinishes \/ DriveFails

(* What follows the use of a null pointer depends on what lies at address  *)
(* 0, so the model stops there.                                            *)
Next ==
  /\ ~wild
  /\ \/ \E p \in Procs :
           \/ Proceed(p)
           \/ \E c \in Commands \cup {"other"}, lba \in Lbas, n \in Counts, k \in Blocks :
                 Call(p, c, lba, n, k)
     \/ Isr
     \/ Drive

Spec == Init /\ [][Next]_vars

(* A process in the driver is scheduled again and again, a latched         *)
(* interrupt is taken, the drive ends what it began.                       *)
LiveSpec ==
  /\ Spec
  /\ \A p \in Procs : WF_vars(Proceed(p))
  /\ WF_vars(Isr) /\ WF_vars(Drive)

----------------------------------------------------------------------------
(* Properties.                                                             *)

(* Every variable keeps its type.                                          *)
TypeOK ==
  /\ pc \in [Procs -> Steps] /\ dr \in [Procs -> Requests]
  /\ left \in [Procs -> Nat]
  /\ seen \in [Procs -> {"idle", "busy", "drq"}]
  /\ pendq \in Seq(Procs) /\ Len(pendq) <= QNodes
  /\ request \in Procs \cup {None}
  /\ transfer \in [request : Procs, left : Nat]
  /\ pointer \in BOOLEAN /\ wild \in BOOLEAN
  /\ nIEN \in BOOLEAN /\ intrq \in BOOLEAN /\ irq \in BOOLEAN
  /\ lbaReg \in Addresses /\ drive \in DriveStates
  /\ sectors \in [Addresses -> Contents \cup {<<>>}]
  /\ turns \in BOOLEAN /\ calm \in BOOLEAN /\ (calm => turns)
  /\ made \in Nat /\ hit \subseteq Procs

(* The drive overtakes a process: the handler comes for a read between the *)
(* two stores that record it (ata.c 441-442), or ends a write before the   *)
(* process that sent the last block does (ata.c 372).                      *)
OvertakenRead(p)  == pc[p] = "point" /\ dr[p].cmd = "read" /\ request = p /\ Isr

OvertakenWrite(p) == pc[p] = "finish" /\ dr[p].status = "success" /\ FinishWrite(p)

(* Processes and the handler clear _current_pending_request and            *)
(* _current_pending_transfer at different moments of one request, and go   *)
(* through them untested (ata.c 366-374, 461, 483, 585, 605).  However     *)
(* fast the drive answers, and whatever commands it fails, a null pointer  *)
(* is used in these two windows at most, if processes take turns; and      *)
(* never if the drive is slow.                                             *)
NullOnlyIfOvertaken ==
  [][turns /\ wild' =>
       wild \/ (~calm /\ \E p \in Procs : OvertakenRead(p) \/ OvertakenWrite(p))]_vars

Returns(p) == pc[p] \in {"wait", "flush", "flushing"} /\ pc'[p] \in {"idle", "again"}

Served(p) == dr[p].buffer = sectors[dr[p].lba]

(* When _ata_request returns (ata.c 383-391), a read has the sector it     *)
(* asked for in its buffer and what a write sent is on the disk, for each  *)
(* block of a longer call (ata.c 139-172).  It is so even if the drive     *)
(* fails a command of another process, which then never returns.           *)
ReturnsWhenServed ==
  [][\A p \in Procs : calm /\ Returns(p) /\ p \notin hit => Served(p)]_vars

(* A request that is current belongs to a process still in the driver:     *)
(* when it returns, and its request structure is given back, the handler   *)
(* has no pointer to it (ata.c 374, 563, 625).                             *)
CurrentRequestInDriver ==
  request # None => pc[request] \in {"point", "status", "poll", "data", "count", "finish",
                                     "wait"}

(* The busy loop of the handler (ata.c 523), which would stop the whole    *)
(* machine, is never entered while the drive is busy.                      *)
HandlerDoesNotSpin == Interrupted /\ request = None => drive.st # "busy"

(* Every call completes: the loop on the status of its requests (ata.c     *)
(* 383) ends, if processes take turns, the drive is slow, and it fails no  *)
(* command of that call.                                                   *)
Completes ==
  \A p \in Procs : (calm /\ pc[p] # "idle") ~> (pc[p] = "idle" \/ p \in hit)

----------------------------------------------------------------------------
(* What the code's comments promise and the code does not keep.            *)

(* A read gets the contents of the block that it named by its 28-bit       *)
(* address (ata.c 397-401).                                                *)
RightSector ==
  \A p \in Procs : dr[p].cmd = "read" /\ dr[p].buffer # <<>> => dr[p].buffer[1] = dr[p].lba

(* _ata_io_pending holds requests that still wait for the disk (disk.h     *)
(* 61-62).                                                                 *)
QueuedRequestsWait ==
  \A i \in 1 .. Len(pendq) : dr[pendq[i]].status # "success"

(* The pointers are never null where they are used: the code tests neither *)
(* before it does (ata.c 366, 372, 585, 605).                              *)
NoNullPointer == ~wild

(* Calls complete even if the drive answers at once.                       *)
RacingCompletes == \A p \in Procs : (pc[p] # "idle") ~> (pc[p] = "idle" \/ p \in hit)

(* DISK_STATUS_IO_SUCCESS means that the data moved, whatever the drive    *)
(* does.                                                                   *)
SuccessMeansServed == [][\A p \in Procs : calm /\ Returns(p) => Served(p)]_vars

(* A call returns even if the drive fails its command.                     *)
ErrorReturns == \A p \in Procs : (calm /\ pc[p] # "idle") ~> (pc[p] = "idle")

============================================================================

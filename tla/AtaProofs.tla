------------------------------ MODULE AtaProofs ------------------------------
(***************************************************************************)
(* Proofs about the ATA driver, for any number of processes, requests and  *)
(* failed commands.                                                        *)
(***************************************************************************)
EXTENDS Ata, TLAPS, SequenceTheorems

-----------------------------------------------------------------------------
(* The inductive invariant: what holds however processes and drive race.   *)

(* The transfer belongs to the current request.                            *)
TransferOfRequest == request # None => transfer.request = request

(* The words that a write sends were put there by its caller.              *)
WriteBuffers ==
  \A p \in Procs : dr[p].cmd = "write" =>
    dr[p].buffer \in Lbas \X (1 .. MaxCalls + MaxRacing)

(* The blocks that a longer call still asks for.                           *)
BlocksLeft ==
  \A p \in Procs :
    /\ \A k \in 1 .. left[p] : dr[p].lba + k \in Lbas
    /\ left[p] > 0 => 1 \in Counts
    /\ pc[p] = "again" => left[p] > 0

(* Only a read or a write goes on after the switch of _ata_request.        *)
ReadsOrWrites == \A p \in Procs : pc[p] # "idle" => dr[p].cmd \in Commands

Typed == TypeOK /\ TransferOfRequest /\ WriteBuffers /\ BlocksLeft /\ ReadsOrWrites
         /\ made <= MaxCalls + MaxRacing

(* The steps before the request is recorded.                               *)
Before == {"enable", "ready", "address", "command", "record"}

(* Only the current request can be declared a success, and then it is      *)
(* current no longer.                                                      *)
Unfinished ==
  /\ \A p \in Procs : pc[p] \in Before => dr[p].status # "success"
  /\ request # None => dr[request].status # "success"

(* A drive that raised its line, or whose edge is still latched, has ended *)
(* its command and does not wait for data.                                 *)
Ended == drive.st # "busy" /\ ~(drive.st = "drq" /\ drive.cmd = "write")

LineTells == intrq \/ irq => Ended

(* A sector ready to be read is the one on the disk.                       *)
SectorReady == drive.st = "drq" /\ drive.cmd = "read" => drive.data = sectors[drive.addr]

RacingInvariant ==
  Typed /\ Unfinished /\ CurrentRequestInDriver /\ LineTells /\ SectorReady

-----------------------------------------------------------------------------
(* What holds besides if processes take turns and the drive is slow: one   *)
(* process at most is served.                                              *)

(* A process whose command failed, and that waits for ever.                *)
Abandoned(q) ==
  pc[q] = "wait" /\ dr[q].status # "success" /\ (request = q => pointer)

Unissued == {"idle", "enable", "ready", "address", "command", "again"}

Issued == {"record", "point", "status", "poll", "data"}

(* The process waits for the drive to end a read, or has sent the words of *)
(* a write.                                                                *)
Reading(a) == pc[a] = "wait" /\ dr[a].cmd = "read"

Sent(a) ==
  \/ pc[a] \in {"count", "finish", "flush", "flushing"}
  \/ pc[a] = "wait" /\ dr[a].cmd = "write"

(* What the drive does while process a is served.                          *)
DriveServes(a) ==
  /\ drive.st # "idle" => drive.by = a
  /\ pc[a] \in Unissued => drive.st = "idle"
  /\ pc[a] = "command" => lbaReg = Addressed(dr[a].lba)
  /\ (pc[a] \in Issued \/ Reading(a)) /\ drive.st # "idle" =>
        drive.cmd = dr[a].cmd /\ drive.addr = Addressed(dr[a].lba)
  /\ pc[a] \in {"record", "point"} => drive.st # "idle"
  /\ pc[a] = "data" => drive.st = "drq"
  /\ pc[a] = "poll" /\ seen[a] # "busy" => drive.st = seen[a]
  /\ Sent(a) => drive.st # "drq" /\ (drive.st = "busy" => drive.cmd \in {"store", "flush"})

(* How far the driver is with the request of process a.                    *)
DriverServes(a) ==
  /\ pc[a] \in {"poll", "data", "count", "finish", "flush", "flushing"} =>
        dr[a].cmd = "write"
  /\ \/ pc[a] \in {"point", "poll", "data", "count", "finish"}
     \/ pc[a] = "status" /\ dr[a].cmd = "write"
     \/ pc[a] \in {"status", "wait"} /\ dr[a].cmd = "read" /\ drive.st # "idle"
     => request = a
  /\ pc[a] \in {"status", "poll", "data", "count", "wait"} /\ request = a => pointer
  /\ pc[a] \in Window => ~irq

(* Where the data of process a are, unless the drive failed its command.   *)
DataServed(a) ==
  /\ dr[a].cmd = "read" /\ pc[a] \in {"status", "wait"} /\ dr[a].status = "success" =>
        dr[a].buffer = sectors[Addressed(dr[a].lba)]
  /\ a \notin hit =>
        /\ Sent(a) =>
             IF drive.st = "busy" /\ drive.cmd = "store"
             THEN drive.data = dr[a].buffer /\ drive.addr = Addressed(dr[a].lba)
             ELSE sectors[Addressed(dr[a].lba)] = dr[a].buffer
        /\ pc[a] \in {"status", "poll"} /\ dr[a].cmd = "write" => drive.st # "idle"

Serves(a) ==
  /\ \A q \in Procs \ {a} : pc[q] = "idle" \/ Abandoned(q)
  /\ DriveServes(a) /\ DriverServes(a) /\ DataServed(a)

CalmInvariant == calm => ~wild /\ \E a \in Procs : Serves(a)

-----------------------------------------------------------------------------
(* What holds besides if processes take turns and the drive is as fast as  *)
(* it likes: one process at most is in the driver.                         *)

Alone(a) ==
  /\ \A q \in Procs \ {a} : pc[q] = "idle"
  /\ pc[a] \in Unissued => drive.st = "idle"
  /\ (pc[a] \in Issued \/ Reading(a)) /\ drive.st # "idle" => drive.cmd = dr[a].cmd
  /\ (pc[a] \in Issued \ {"record"} \/ Reading(a)) /\ drive.st # "idle" => request = a
  /\ pc[a] = "data" => drive.st = "drq"
  /\ pc[a] = "poll" /\ seen[a] # "busy" => drive.st = seen[a]
  /\ Sent(a) => drive.st # "drq" /\ (drive.st = "busy" => drive.cmd \in {"store", "flush"})
  /\ pc[a] \in {"poll", "data", "count", "finish", "flush", "flushing"} => dr[a].cmd = "write"
  /\ pc[a] = "count" => request = a
  /\ pc[a] \in {"status", "poll", "data", "count", "wait"} /\ request = a => pointer
  /\ pc[a] = "finish" => pointer \/ request = a \/ dr[a].status = "success"

TurnsInvariant == turns /\ ~calm /\ ~wild => \E a \in Procs : Alone(a)

-----------------------------------------------------------------------------
(* Facts about the data.                                                   *)

(* No process is called "none", and there is one at least.                 *)
LEMMA ProcsFacts == None \notin Procs /\ \E p \in Procs : TRUE
BY AtaAssumption DEF None

(* The number of blocks left stays a number when it wraps.                 *)
LEMMA MaxUintNat == MaxUint \in Nat
BY DEF MaxUint

(* The address that the registers get is one of the drive's.               *)
LEMMA AddressedType == \A lba \in Lbas : Addressed(lba) \in Addresses
BY DEF Addresses

-----------------------------------------------------------------------------
(* Types.                                                                  *)

(* A step of a process that leaves its request alone.                      *)
LEMMA TypedPlain ==
  ASSUME Typed, pc' \in [Procs -> Steps],
         \A p \in Procs : pc'[p] = "again" => pc[p] = "again" \/ left[p] > 0,
         \A p \in Procs : pc'[p] # "idle" => pc[p] # "idle",
         UNCHANGED <<dr, left, pendq, turns, calm, made>>,
         seen' \in [Procs -> {"idle", "busy", "drq"}],
         request' \in Procs \cup {None}, transfer' \in [request : Procs, left : Nat],
         TransferOfRequest', pointer' \in BOOLEAN, wild' \in BOOLEAN,
         nIEN' \in BOOLEAN, intrq' \in BOOLEAN, irq' \in BOOLEAN,
         lbaReg' \in Addresses, drive' \in DriveStates,
         sectors' \in [Addresses -> Contents \cup {<<>>}], hit' \subseteq Procs
  PROVE  Typed'
<1>1. TypeOK'
  BY DEF Typed, TypeOK
<1>2. WriteBuffers' /\ BlocksLeft' /\ ReadsOrWrites' /\ (made <= MaxCalls + MaxRacing)'
  BY DEF Typed, WriteBuffers, BlocksLeft, ReadsOrWrites
<1> QED BY <1>1, <1>2 DEF Typed

(* The drive's answers.                                                    *)
LEMMA TypedDrive ==
  ASSUME Typed, Drive
  PROVE  Typed'
<1>1. CASE DriveReads
  BY <1>1, TypedPlain
     DEF DriveReads, Line, driverVars, history, Typed, TypeOK, DriveStates, TransferOfRequest
<1>2. CASE DriveAsksForData
  BY <1>2, TypedPlain
     DEF DriveAsksForData, driverVars, history, Typed, TypeOK, DriveStates, TransferOfRequest
<1>3. CASE DriveFinishes
  BY <1>3, TypedPlain
     DEF DriveFinishes, Line, driverVars, history, Typed, TypeOK, DriveStates, TransferOfRequest
<1>4. CASE DriveFails
  BY <1>4, TypedPlain
     DEF DriveFails, Line, driverVars, Typed, TypeOK, DriveStates, TransferOfRequest
<1> QED BY <1>1, <1>2, <1>3, <1>4 DEF Drive

(* The command register and the words of a block.                          *)
LEMMA TypedCommand ==
  ASSUME Typed, NEW p \in Procs, NEW c \in Commands \cup {"flush"}, Command(p, c)
  PROVE  drive' \in DriveStates /\ intrq' \in BOOLEAN
<1>1. CASE drive.st = "idle"
  <2>1. /\ drive' = [st |-> "busy", cmd |-> c, addr |-> lbaReg, data |-> <<>>, by |-> p]
        /\ intrq' = FALSE
    BY <1>1 DEF Command
  <2>2. c \in Commands \cup {"store", "flush", "none"} /\ lbaReg \in Addresses
    BY DEF Typed, TypeOK
  <2> QED BY <2>1, <2>2 DEF DriveStates
<1>2. CASE drive.st # "idle"
  BY <1>2 DEF Command, Typed, TypeOK
<1> QED BY <1>1, <1>2

(* The drive takes a block, or refuses it. *)
LEMMA TypedTakeBlock ==
  ASSUME Typed, NEW q \in Procs, TakeBlock(dr[q].buffer)
  PROVE  drive' \in DriveStates
<1>1. dr[q].buffer \in Contents \cup {<<>>} /\ drive \in DriveStates
  BY DEF Typed, TypeOK, Requests
<1> QED BY <1>1 DEF TakeBlock, DriveStates

(* The count of blocks, for a transfer that stays with its request.        *)
LEMMA TypedCountBlock ==
  ASSUME Typed, CountBlock
  PROVE  /\ transfer' \in [request : Procs, left : Nat]
         /\ transfer'.request = transfer.request /\ pointer' \in BOOLEAN
<1>1. transfer \in [request : Procs, left : Nat]
  BY DEF Typed, TypeOK
<1>2. (IF transfer.left = 0 THEN MaxUint ELSE transfer.left - 1) \in Nat
  BY <1>1, MaxUintNat
<1>3. transfer' = [transfer EXCEPT !.left = IF transfer.left = 0 THEN MaxUint
                                            ELSE transfer.left - 1]
  BY DEF CountBlock
<1>4. /\ transfer' \in [request : Procs, left : Nat]
      /\ transfer'.request = transfer.request
  BY <1>1, <1>2, <1>3
<1>5. pointer' \in BOOLEAN
  BY DEF CountBlock
<1> QED BY <1>4, <1>5

(* The steps of a process between its calls.                               *)
LEMMA TypedProceed ==
  ASSUME Typed, NEW p \in Procs, Proceed(p)
  PROVE  Typed' \/ FinishWrite(p) \/ AskAgain(p)
<1> USE DEF At, driverVars, driveVars, history
<1>0. TypeOK /\ TransferOfRequest
  BY DEF Typed
<1>1. CASE EnableInterrupts(p)
  BY <1>0, <1>1, TypedPlain DEF EnableInterrupts, Line, TypeOK, Steps, TransferOfRequest
<1>2. CASE WaitReady(p)
  BY <1>0, <1>2, TypedPlain DEF WaitReady, TypeOK, Steps, TransferOfRequest
<1>3. CASE SetAddress(p)
  <2>1. lbaReg' \in Addresses
    BY <1>0, <1>3, AddressedType DEF SetAddress, TypeOK, Requests
  <2> QED BY <1>0, <1>3, <2>1, TypedPlain DEF SetAddress, TypeOK, Steps, TransferOfRequest
<1>4. CASE IssueCommand(p)
  <2>1. drive' \in DriveStates /\ intrq' \in BOOLEAN
    BY <1>4, TypedCommand DEF IssueCommand, Typed, ReadsOrWrites
  <2> QED BY <1>0, <1>4, <2>1, TypedPlain DEF IssueCommand, TypeOK, Steps, TransferOfRequest
<1>5. CASE RecordRequest(p)
  <2>1. transfer' \in [request : Procs, left : Nat] /\ transfer'.request = p
    BY <1>0, <1>5, AtaAssumption DEF RecordRequest, TypeOK, Requests
  <2> QED BY <1>0, <1>5, <2>1, TypedPlain DEF RecordRequest, TypeOK, Steps, TransferOfRequest
<1>6. CASE PointAtTransfer(p)
  BY <1>0, <1>6, TypedPlain DEF PointAtTransfer, TypeOK, Steps, TransferOfRequest
<1>7. CASE ReadStatus(p)
  BY <1>0, <1>7, TypedPlain DEF ReadStatus, TypeOK, Steps, DriveStates, TransferOfRequest
<1>8. CASE PollStatus(p)
  BY <1>0, <1>8, TypedPlain DEF PollStatus, TypeOK, Steps, DriveStates, TransferOfRequest
<1>9. CASE SendBlock(p)
  <2>1. drive' \in DriveStates
    BY <1>0, <1>9, TypedTakeBlock DEF SendBlock, TypeOK
  <2> QED BY <1>0, <1>9, <2>1, TypedPlain DEF SendBlock, TypeOK, Steps, TransferOfRequest
<1>10. CASE BlockSent(p)
  BY <1>0, <1>10, TypedPlain, TypedCountBlock DEF BlockSent, TypeOK, Steps, TransferOfRequest
<1>11. CASE Wait(p)
  BY <1>0, <1>11, TypedPlain DEF Wait, Returned, TypeOK, Steps, TransferOfRequest
<1>12. CASE FlushCache(p)
  BY <1>0, <1>12, TypedPlain, TypedCommand DEF FlushCache, TypeOK, Steps, TransferOfRequest
<1>13. CASE FlushDone(p)
  BY <1>0, <1>13, TypedPlain DEF FlushDone, Returned, TypeOK, Steps, TransferOfRequest
<1> QED BY <1>1, <1>2, <1>3, <1>4, <1>5, <1>6, <1>7, <1>8, <1>9, <1>10, <1>11, <1>12, <1>13
        DEF Proceed

(* A step that changes no more of the requests than statuses, and the      *)
(* buffers of reads.                                                       *)
LEMMA TypedServing ==
  ASSUME Typed, pc' \in [Procs -> Steps],
         \A p \in Procs : pc'[p] = "again" => pc[p] = "again" \/ left[p] > 0,
         \A p \in Procs : pc'[p] # "idle" => pc[p] # "idle",
         dr' \in [Procs -> Requests],
         \A p \in Procs : dr'[p].cmd = dr[p].cmd /\ dr'[p].lba = dr[p].lba,
         \A p \in Procs : dr[p].cmd = "write" => dr'[p].buffer = dr[p].buffer,
         pendq' \in Seq(Procs), Len(pendq') <= QNodes,
         UNCHANGED <<left, seen, lbaReg, sectors, turns, calm, made, hit>>,
         request' \in {request, None}, transfer' \in [request : Procs, left : Nat],
         transfer'.request = transfer.request, pointer' \in BOOLEAN, wild' \in BOOLEAN,
         nIEN' \in BOOLEAN, intrq' \in BOOLEAN, irq' \in BOOLEAN, drive' \in DriveStates
  PROVE  Typed'
<1>1. TypeOK'
  BY DEF Typed, TypeOK
<1>2. TransferOfRequest'
  BY DEF Typed, TransferOfRequest
<1>3. WriteBuffers' /\ ReadsOrWrites' /\ (made <= MaxCalls + MaxRacing)'
  BY DEF Typed, WriteBuffers, ReadsOrWrites
<1>4. BlocksLeft'
  BY DEF Typed, BlocksLeft
<1> QED BY <1>1, <1>2, <1>3, <1>4 DEF Typed

(* One request declared a success, or not.                                 *)
LEMMA TypedSuccess ==
  ASSUME NEW d \in [Procs -> Requests], NEW r \in Procs
  PROVE  /\ [d EXCEPT ![r].status = "success"] \in [Procs -> Requests]
         /\ \A p \in Procs :
              /\ [d EXCEPT ![r].status = "success"][p].cmd = d[p].cmd
              /\ [d EXCEPT ![r].status = "success"][p].lba = d[p].lba
              /\ [d EXCEPT ![r].status = "success"][p].nblocks = d[p].nblocks
              /\ [d EXCEPT ![r].status = "success"][p].buffer = d[p].buffer
              /\ [d EXCEPT ![r].status = "success"][p].status =
                   IF p = r THEN "success" ELSE d[p].status
<1>1. d[r] \in Requests /\ [d[r] EXCEPT !.status = "success"] \in Requests
  BY DEF Requests, Statuses
<1> QED BY <1>1 DEF Requests

(* Words read into a buffer.                                               *)
LEMMA TypedBuffer ==
  ASSUME NEW d \in [Procs -> Requests], NEW r \in Procs, NEW x \in Contents \cup {<<>>}
  PROVE  /\ [d EXCEPT ![r].buffer = x] \in [Procs -> Requests]
         /\ \A p \in Procs :
              /\ [d EXCEPT ![r].buffer = x][p].cmd = d[p].cmd
              /\ [d EXCEPT ![r].buffer = x][p].lba = d[p].lba
              /\ [d EXCEPT ![r].buffer = x][p].nblocks = d[p].nblocks
              /\ [d EXCEPT ![r].buffer = x][p].status = d[p].status
              /\ [d EXCEPT ![r].buffer = x][p].buffer = IF p = r THEN x ELSE d[p].buffer
<1>1. d[r] \in Requests /\ [d[r] EXCEPT !.buffer = x] \in Requests
  BY DEF Requests
<1> QED BY <1>1 DEF Requests

(* The process declares its write a success.                               *)
LEMMA TypedFinishWrite ==
  ASSUME Typed, NEW p \in Procs, FinishWrite(p)
  PROVE  Typed'
<1>1. /\ dr \in [Procs -> Requests] /\ request \in Procs \cup {None}
      /\ pc' \in [Procs -> Steps] /\ TypeOK
  BY DEF Typed, TypeOK, FinishWrite, At, Steps
<1>2. /\ dr' \in [Procs -> Requests]
      /\ \A q \in Procs : /\ dr'[q].cmd = dr[q].cmd /\ dr'[q].lba = dr[q].lba
                          /\ dr'[q].buffer = dr[q].buffer
  <2>1. CASE dr' = dr
    BY <1>1, <2>1
  <2>2. CASE dr' # dr
    <3>1. request # None /\ dr' = [dr EXCEPT ![request].status = "success"]
      BY <2>2 DEF FinishWrite
    <3> QED BY <1>1, <3>1, TypedSuccess
  <2> QED BY <2>1, <2>2
<1>3. request' \in {request, None} /\ wild' \in BOOLEAN
  BY <1>1 DEF FinishWrite, TypeOK
<1>4. /\ \A q \in Procs : pc'[q] = "again" => pc[q] = "again"
      /\ \A q \in Procs : pc'[q] # "idle" => pc[q] # "idle"
  BY <1>1 DEF FinishWrite, At, TypeOK
<1> QED BY <1>1, <1>2, <1>3, <1>4, TypedServing DEF FinishWrite, TypeOK, driveVars, history

(* What a transfer in the handler does to the requests.                    *)
LEMMA TransferRequests ==
  ASSUME Typed, IsrTransfer
  PROVE  /\ dr' \in [Procs -> Requests]
         /\ \A p \in Procs :
              /\ dr'[p].cmd = dr[p].cmd /\ dr'[p].lba = dr[p].lba
              /\ dr'[p].buffer = IF p = request /\ dr[p].cmd = "read" THEN drive.data
                                 ELSE dr[p].buffer
              /\ dr'[p].status = IF p = request /\ ~pointer' THEN "success"
                                 ELSE dr[p].status
<1> DEFINE got == IF dr[request].cmd = "read" THEN [dr EXCEPT ![request].buffer = drive.data]
                  ELSE dr
<1>1. /\ request \in Procs /\ transfer.request = request /\ dr \in [Procs -> Requests]
      /\ drive.data \in Contents \cup {<<>>}
  BY DEF Typed, TypeOK, TransferOfRequest, IsrTransfer, DriveStates
<1>2. dr' = IF pointer' THEN got ELSE [got EXCEPT ![request].status = "success"]
  BY <1>1 DEF IsrTransfer
<1>3. /\ got \in [Procs -> Requests]
      /\ \A p \in Procs :
           /\ got[p].cmd = dr[p].cmd /\ got[p].lba = dr[p].lba
           /\ got[p].status = dr[p].status
           /\ got[p].buffer = IF p = request /\ dr[p].cmd = "read" THEN drive.data
                              ELSE dr[p].buffer
  <2>1. CASE dr[request].cmd = "read"
    BY <1>1, <2>1, TypedBuffer
  <2>2. CASE dr[request].cmd # "read"
    BY <1>1, <2>2
  <2> QED BY <2>1, <2>2
<1> HIDE DEF got
<1>4. CASE pointer'
  BY <1>2, <1>3, <1>4
<1>5. CASE ~pointer'
  BY <1>1, <1>2, <1>3, <1>5, TypedSuccess
<1> QED BY <1>4, <1>5

(* The interrupt handler.                                                  *)
LEMMA TypedIsr ==
  ASSUME Typed, Isr
  PROVE  Typed'
<1>0. TypeOK
  BY DEF Typed
<1>1. CASE IsrNothingPending
  <2>1. pendq' \in Seq(Procs) /\ Len(pendq') <= QNodes
    BY <1>0, <1>1, HeadTailProperties, AtaAssumption DEF IsrNothingPending, TypeOK
  <2> QED BY <1>0, <1>1, <2>1, TypedServing DEF IsrNothingPending, TypeOK, history
<1>2. CASE IsrWriteDone
  <2>1. request \in Procs /\ dr \in [Procs -> Requests]
    BY <1>0, <1>2 DEF IsrWriteDone, TypeOK
  <2>2. /\ dr' \in [Procs -> Requests]
        /\ \A q \in Procs : /\ dr'[q].cmd = dr[q].cmd /\ dr'[q].lba = dr[q].lba
                            /\ dr'[q].buffer = dr[q].buffer
    BY <1>2, <2>1, TypedSuccess DEF IsrWriteDone
  <2> QED BY <1>0, <1>2, <2>2, TypedServing DEF IsrWriteDone, TypeOK, history
<1>3. CASE IsrNoData
  BY <1>0, <1>3, TypedServing DEF IsrNoData, TypeOK, history
<1>4. CASE IsrTransfer
  <2>1. /\ dr' \in [Procs -> Requests]
        /\ \A p \in Procs :
             /\ dr'[p].cmd = dr[p].cmd /\ dr'[p].lba = dr[p].lba
             /\ dr[p].cmd = "write" => dr'[p].buffer = dr[p].buffer
    BY <1>4, TransferRequests
  <2>2. /\ transfer' \in [request : Procs, left : Nat]
        /\ transfer'.request = transfer.request /\ pointer' \in BOOLEAN
    BY <1>4, TypedCountBlock DEF IsrTransfer
  <2>3. drive' \in DriveStates
    <3>1. CASE dr[request].cmd = "read"
      BY <1>0, <1>4, <3>1 DEF IsrTransfer, TypeOK, DriveStates
    <3>2. CASE dr[request].cmd # "read"
      <4>1. TakeBlock(dr[transfer.request].buffer) /\ transfer.request \in Procs
        BY <1>0, <1>4, <3>2 DEF IsrTransfer, TypeOK
      <4> QED BY <4>1, TypedTakeBlock
    <3> QED BY <3>1, <3>2
  <2> QED BY <1>0, <1>4, <2>1, <2>2, <2>3, TypedServing DEF IsrTransfer, TypeOK, history
<1> QED BY <1>1, <1>2, <1>3, <1>4 DEF Isr

(* A request, of a call or of a call's next block.                         *)
LEMMA RequestType ==
  ASSUME Typed, NEW p \in Procs, NEW c \in Commands \cup {"other"}, NEW lba \in Lbas,
         NEW n \in Counts, NEW here, NEW mark, Request(p, c, lba, n, here, mark),
         c = "write" => mark \in 1 .. MaxCalls + MaxRacing
  PROVE  /\ dr' \in [Procs -> Requests]
         /\ \A q \in Procs \ {p} : dr'[q] = dr[q]
         /\ dr'[p].cmd = c /\ dr'[p].lba = lba /\ dr'[p].status # "success"
         /\ c = "write" => dr'[p].buffer \in Lbas \X (1 .. MaxCalls + MaxRacing)
         /\ pendq' \in Seq(Procs) /\ Len(pendq') <= QNodes
         /\ pc' \in [Procs -> Steps]
         /\ \A q \in Procs \ {p} : pc'[q] = pc[q]
         /\ pc'[p] = IF c \in Commands THEN "enable" ELSE "idle"
         /\ pc[p] = here
<1> DEFINE status == IF c = "other" THEN "invalid_cmd"
                     ELSE IF Len(pendq) >= QNodes THEN "no_node"
                     ELSE IF c = "read" THEN "read_pending" ELSE "write_pending"
           buffer == IF c = "write" THEN <<lba, mark>> ELSE <<>>
           new == [cmd |-> c, lba |-> lba, nblocks |-> n, status |-> status, buffer |-> buffer]
<1>1. /\ dr \in [Procs -> Requests] /\ pendq \in Seq(Procs) /\ Len(pendq) <= QNodes
      /\ pc \in [Procs -> Steps]
  BY DEF Typed, TypeOK
<1>2. /\ dr' = [dr EXCEPT ![p] = new]
      /\ pendq' = IF status \in {"read_pending", "write_pending"} THEN Append(pendq, p)
                  ELSE pendq
      /\ pc[p] = here
      /\ pc' = [pc EXCEPT ![p] = IF c \in Commands THEN "enable" ELSE "idle"]
  BY DEF Request, At
<1>3. /\ status \in Statuses \ {"success"}
      /\ status \in {"read_pending", "write_pending"} => ~(Len(pendq) >= QNodes)
  BY DEF Statuses, Commands
<1>4. /\ buffer \in Contents \cup {<<>>}
      /\ c = "write" => buffer \in Lbas \X (1 .. MaxCalls + MaxRacing)
  BY DEF Contents
<1> HIDE DEF status, buffer
<1>5. new \in Requests
  BY <1>3, <1>4 DEF Requests
<1>6. pendq' \in Seq(Procs) /\ Len(pendq') <= QNodes
  <2>1. CASE status \in {"read_pending", "write_pending"}
    BY <1>1, <1>2, <1>3, <2>1, AppendProperties, AtaAssumption
  <2>2. CASE status \notin {"read_pending", "write_pending"}
    BY <1>1, <1>2, <2>2
  <2> QED BY <2>1, <2>2
<1>7. pc' \in [Procs -> Steps]
  BY <1>1, <1>2 DEF Steps
<1>8. dr'[p] = new /\ new.cmd = c /\ new.lba = lba /\ new.status = status /\ new.buffer = buffer
  BY <1>1, <1>2
<1>9. /\ dr' \in [Procs -> Requests]
      /\ \A q \in Procs \ {p} : dr'[q] = dr[q]
  BY <1>1, <1>2, <1>5
<1> QED BY <1>1, <1>2, <1>3, <1>4, <1>6, <1>7, <1>8, <1>9

(* A call of the driver.                                                   *)
LEMMA TypedCall ==
  ASSUME Typed, NEW p \in Procs, NEW c \in Commands \cup {"other"}, NEW lba \in Lbas,
         NEW n \in Counts, NEW k \in Blocks, Call(p, c, lba, n, k)
  PROVE  Typed'
<1>1. /\ made \in Nat /\ made' = made + 1 /\ made' \in 1 .. MaxCalls + MaxRacing
      /\ left \in [Procs -> Nat] /\ TypeOK
  BY AtaAssumption DEF Call, TakesTurn, Typed, TypeOK
<1>2. Request(p, c, lba, n, "idle", made')
  BY DEF Call
<1>3. /\ dr' \in [Procs -> Requests]
      /\ \A q \in Procs \ {p} : dr'[q] = dr[q]
      /\ dr'[p].cmd = c /\ dr'[p].lba = lba
      /\ c = "write" => dr'[p].buffer \in Lbas \X (1 .. MaxCalls + MaxRacing)
      /\ pendq' \in Seq(Procs) /\ Len(pendq') <= QNodes
      /\ pc' \in [Procs -> Steps]
      /\ \A q \in Procs \ {p} : pc'[q] = pc[q]
      /\ pc'[p] = IF c \in Commands THEN "enable" ELSE "idle"
  BY <1>1, <1>2, RequestType
<1>4. /\ k \in Nat \ {0} /\ k - 1 \in Nat
      /\ left' = [left EXCEPT ![p] = k - 1] /\ left' \in [Procs -> Nat]
  BY <1>1, AtaAssumption DEF Call
<1>5. TypeOK'
  BY <1>1, <1>2, <1>3, <1>4 DEF Call, Request, TypeOK, driveVars
<1>6. TransferOfRequest' /\ WriteBuffers' /\ ReadsOrWrites'
  BY <1>2, <1>3 DEF Request, Typed, TransferOfRequest, WriteBuffers, ReadsOrWrites
<1>7. ASSUME NEW q \in Procs
      PROVE  /\ \A j \in 1 .. left'[q] : dr'[q].lba + j \in Lbas
             /\ left'[q] > 0 => 1 \in Counts
             /\ pc'[q] = "again" => left'[q] > 0
  <2>1. CASE q = p
    <3>1. left'[q] = k - 1 /\ dr'[q].lba = lba /\ pc'[q] # "again" /\ lba \in Nat
      BY <1>1, <1>3, <1>4, <2>1, AtaAssumption
    <3>2. k > 1 => n = 1 /\ lba .. lba + k - 1 \subseteq Lbas
      BY DEF Call
    <3>3. ASSUME NEW j \in 1 .. k - 1 PROVE lba + j \in Lbas
      <4>1. k > 1 /\ lba + j \in lba .. lba + k - 1
        BY <1>4, <3>1
      <4> QED BY <3>2, <4>1
    <3> QED BY <1>4, <3>1, <3>2, <3>3
  <2>2. CASE q # p
    BY <1>1, <1>3, <1>4, <2>2 DEF Typed, BlocksLeft
  <2> QED BY <2>1, <2>2
<1>8. BlocksLeft'
  BY <1>7 DEF BlocksLeft
<1> QED BY <1>1, <1>5, <1>6, <1>8, AtaAssumption DEF Typed

(* The next block of a call.                                               *)
LEMMA AskAgainRequest ==
  ASSUME Typed, NEW p \in Procs, AskAgain(p)
  PROVE  /\ Request(p, dr[p].cmd, dr[p].lba + 1, 1, "again", dr[p].buffer[2])
         /\ dr[p].cmd \in Commands /\ dr[p].lba + 1 \in Lbas /\ 1 \in Counts
         /\ dr[p].cmd = "write" => dr[p].buffer[2] \in 1 .. MaxCalls + MaxRacing
         /\ left[p] \in Nat \ {0}
<1>1. Request(p, dr[p].cmd, dr[p].lba + 1, 1, "again", dr[p].buffer[2]) /\ pc[p] = "again"
  BY DEF AskAgain, Request, At
<1>2. left[p] \in Nat /\ left[p] > 0 /\ dr[p].cmd \in Commands
  BY <1>1 DEF Typed, TypeOK, BlocksLeft, ReadsOrWrites
<1>3. dr[p].lba + 1 \in Lbas /\ 1 \in Counts
  BY <1>2 DEF Typed, BlocksLeft
<1>4. dr[p].cmd = "write" => dr[p].buffer[2] \in 1 .. MaxCalls + MaxRacing
  BY DEF Typed, WriteBuffers
<1> QED BY <1>1, <1>2, <1>3, <1>4

(* The next block of a call for several is asked for. *)
LEMMA TypedAskAgain ==
  ASSUME Typed, NEW p \in Procs, AskAgain(p)
  PROVE  Typed'
<1> DEFINE c == dr[p].cmd
           lba == dr[p].lba + 1
<1>1. /\ Request(p, c, lba, 1, "again", dr[p].buffer[2])
      /\ c \in Commands /\ lba \in Lbas /\ 1 \in Counts
      /\ c = "write" => dr[p].buffer[2] \in 1 .. MaxCalls + MaxRacing
      /\ left[p] \in Nat \ {0}
  BY AskAgainRequest
<1>2. /\ left' = [left EXCEPT ![p] = left[p] - 1] /\ left' \in [Procs -> Nat]
      /\ left \in [Procs -> Nat] /\ TypeOK /\ UNCHANGED <<made, hit>>
  BY <1>1 DEF AskAgain, Typed, TypeOK
<1>3. /\ dr' \in [Procs -> Requests]
      /\ \A q \in Procs \ {p} : dr'[q] = dr[q]
      /\ dr'[p].cmd = c /\ dr'[p].lba = lba
      /\ c = "write" => dr'[p].buffer \in Lbas \X (1 .. MaxCalls + MaxRacing)
      /\ pendq' \in Seq(Procs) /\ Len(pendq') <= QNodes
      /\ pc' \in [Procs -> Steps]
      /\ \A q \in Procs \ {p} : pc'[q] = pc[q]
      /\ pc'[p] = "enable"
  BY <1>1, RequestType
<1>4. TypeOK'
  BY <1>1, <1>2, <1>3 DEF Request, TypeOK, driveVars
<1>5. TransferOfRequest' /\ WriteBuffers' /\ ReadsOrWrites'
  BY <1>1, <1>3 DEF Request, Typed, TransferOfRequest, WriteBuffers, ReadsOrWrites
<1>6. ASSUME NEW q \in Procs
      PROVE  /\ \A j \in 1 .. left'[q] : dr'[q].lba + j \in Lbas
             /\ left'[q] > 0 => 1 \in Counts
             /\ pc'[q] = "again" => left'[q] > 0
  <2>1. CASE q = p
    <3>1. left'[q] = left[p] - 1 /\ dr'[q].lba = dr[p].lba + 1 /\ pc'[q] # "again"
      BY <1>2, <1>3, <2>1
    <3>2. dr[p].lba \in Nat
      BY <1>2, AtaAssumption DEF TypeOK, Requests
    <3>3. ASSUME NEW j \in 1 .. left[p] - 1 PROVE dr[p].lba + 1 + j \in Lbas
      <4>1. j + 1 \in 1 .. left[p] /\ dr[p].lba + 1 + j = dr[p].lba + (j + 1)
        BY <1>1, <3>2
      <4> QED BY <4>1 DEF Typed, BlocksLeft
    <3> QED BY <1>1, <3>1, <3>3
  <2>2. CASE q # p
    BY <1>2, <1>3, <2>2 DEF Typed, BlocksLeft
  <2> QED BY <2>1, <2>2
<1>7. BlocksLeft'
  BY <1>6 DEF BlocksLeft
<1> QED BY <1>2, <1>4, <1>5, <1>7 DEF Typed

(* Every step keeps the types.                                             *)
LEMMA TypedStep ==
  ASSUME Typed, Next
  PROVE  Typed'
<1>1. ASSUME NEW p \in Procs, Proceed(p) PROVE Typed'
  BY <1>1, TypedProceed, TypedFinishWrite, TypedAskAgain
<1>2. ASSUME NEW p \in Procs, NEW c \in Commands \cup {"other"}, NEW lba \in Lbas,
             NEW n \in Counts, NEW k \in Blocks, Call(p, c, lba, n, k)
      PROVE  Typed'
  BY <1>2, TypedCall
<1> QED BY <1>1, <1>2, TypedIsr, TypedDrive DEF Next

(* The initial state is well typed.                                        *)
LEMMA TypedInit == Init => Typed
<1> SUFFICES ASSUME Init PROVE Typed
  OBVIOUS
<1>1. /\ (CHOOSE p \in Procs : TRUE) \in Procs
      /\ (CHOOSE lba \in Lbas : TRUE) \in Lbas
      /\ (CHOOSE n \in Counts : TRUE) \in Counts
      /\ (CHOOSE a \in Addresses : TRUE) \in Addresses
  BY AtaAssumption DEF Addresses
<1>2. dr \in [Procs -> Requests]
  BY <1>1 DEF Init, Requests, Statuses
<1>3. drive \in DriveStates /\ lbaReg \in Addresses
  BY <1>1 DEF Init, DriveStates
<1>4. sectors \in [Addresses -> Contents \cup {<<>>}]
  BY DEF Init, Contents
<1>5. transfer \in [request : Procs, left : Nat]
  BY <1>1 DEF Init
<1>6. /\ pc \in [Procs -> Steps] /\ left \in [Procs -> Nat]
      /\ seen \in [Procs -> {"idle", "busy", "drq"}]
  BY DEF Init, Steps
<1>7. pendq \in Seq(Procs) /\ Len(pendq) <= QNodes
  BY AtaAssumption DEF Init
<1>8. TypeOK
  BY <1>2, <1>3, <1>4, <1>5, <1>6, <1>7 DEF Init, TypeOK
<1> QED BY <1>8, AtaAssumption
        DEF Init, Typed, TransferOfRequest, WriteBuffers, BlocksLeft, ReadsOrWrites

-----------------------------------------------------------------------------
(* The current request and its process.                                    *)

(* Steps that leave requests alone and do not take a process out of the    *)
(* driver.                                                                 *)
LEMMA OwnerPlain ==
  ASSUME Typed, Unfinished, CurrentRequestInDriver, NEW p \in Procs,
         NEW here, NEW next, At(p, here, next), UNCHANGED <<dr, request>>,
         next \in Before => here \in Before,
         here \in {"point", "status", "poll", "data", "count", "finish", "wait"} =>
           next \in {"point", "status", "poll", "data", "count", "finish", "wait"}
  PROVE  Unfinished' /\ CurrentRequestInDriver'
BY DEF At, Typed, TypeOK, Unfinished, CurrentRequestInDriver

(* A step of a process keeps the current request its own. *)
LEMMA OwnerProceed ==
  ASSUME Typed, Unfinished, CurrentRequestInDriver, NEW p \in Procs, Proceed(p)
  PROVE  Unfinished' /\ CurrentRequestInDriver'
<1> USE DEF Before, driverVars
<1>0. request \in Procs \cup {None}
  BY DEF Typed, TypeOK
<1>1. CASE EnableInterrupts(p)
  BY <1>1, OwnerPlain DEF EnableInterrupts
<1>2. CASE WaitReady(p)
  BY <1>2, OwnerPlain DEF WaitReady
<1>3. CASE SetAddress(p)
  BY <1>3, OwnerPlain DEF SetAddress
<1>4. CASE IssueCommand(p)
  BY <1>4, OwnerPlain DEF IssueCommand
<1>5. CASE RecordRequest(p)
  BY <1>5 DEF RecordRequest, At, Typed, TypeOK, Unfinished, CurrentRequestInDriver
<1>6. CASE PointAtTransfer(p)
  BY <1>6, OwnerPlain DEF PointAtTransfer
<1>7. CASE ReadStatus(p)
  BY <1>7, OwnerPlain DEF ReadStatus
<1>8. CASE PollStatus(p)
  BY <1>8, OwnerPlain DEF PollStatus
<1>9. CASE SendBlock(p)
  BY <1>9, OwnerPlain DEF SendBlock
<1>10. CASE BlockSent(p)
  BY <1>10, OwnerPlain DEF BlockSent
<1>11. CASE FinishWrite(p)
  <2>1. CASE pointer \/ request = None
    <3>1. UNCHANGED <<dr, request>> \/ (dr' = dr /\ request' = None)
      BY <1>11, <2>1 DEF FinishWrite
    <3> QED BY <1>11, <3>1
            DEF FinishWrite, At, Typed, TypeOK, Unfinished, CurrentRequestInDriver
  <2>2. CASE ~pointer /\ request # None
    <3>1. request' = None /\ dr' = [dr EXCEPT ![request].status = "success"]
          /\ At(p, "finish", "wait")
      BY <1>11, <2>2 DEF FinishWrite
    <3>2. request \in Procs /\ dr \in [Procs -> Requests]
      BY <1>0, <2>2 DEF Typed, TypeOK
    <3>3. \A q \in Procs : dr'[q].status = IF q = request THEN "success" ELSE dr[q].status
      BY <3>1, <3>2, TypedSuccess
    <3> QED BY <2>2, <3>1, <3>2, <3>3
            DEF At, Typed, TypeOK, Unfinished, CurrentRequestInDriver
  <2> QED BY <2>1, <2>2
<1>12. CASE Wait(p)
  <2>1. dr[p].status = "success" /\ pc[p] = "wait" /\ UNCHANGED <<dr, request>>
        /\ pc' = [pc EXCEPT ![p] = IF dr[p].cmd = "write" THEN "flush" ELSE Returned(p)]
    BY <1>12 DEF Wait, At
  <2>2. pc'[p] \in {"flush", "again", "idle"}
    BY <2>1 DEF Typed, TypeOK, Returned
  <2>3. request # p
    BY <2>1, ProcsFacts DEF Unfinished
  <2> QED BY <2>1, <2>2, <2>3 DEF Typed, TypeOK, Unfinished, CurrentRequestInDriver
<1>13. CASE FlushCache(p)
  BY <1>13, OwnerPlain DEF FlushCache
<1>14. CASE FlushDone(p)
  BY <1>14, OwnerPlain DEF FlushDone, Returned
<1>15. CASE AskAgain(p)
  <2>1. /\ Request(p, dr[p].cmd, dr[p].lba + 1, 1, "again", dr[p].buffer[2])
        /\ dr[p].cmd \in Commands /\ dr[p].lba + 1 \in Lbas /\ 1 \in Counts
        /\ dr[p].cmd = "write" => dr[p].buffer[2] \in 1 .. MaxCalls + MaxRacing
    BY <1>15, AskAgainRequest
  <2>2. /\ \A q \in Procs \ {p} : dr'[q] = dr[q]
        /\ dr'[p].status # "success"
        /\ \A q \in Procs \ {p} : pc'[q] = pc[q]
        /\ pc[p] = "again"
    BY <2>1, RequestType
  <2>3. request' = request
    BY <2>1 DEF Request
  <2> QED BY <1>0, <2>2, <2>3 DEF Unfinished, CurrentRequestInDriver
<1> QED BY <1>1, <1>2, <1>3, <1>4, <1>5, <1>6, <1>7, <1>8, <1>9, <1>10, <1>11, <1>12, <1>13,
           <1>14, <1>15 DEF Proceed

(* Every step keeps the current request in the driver. *)
LEMMA OwnerStep ==
  ASSUME Typed, Unfinished, CurrentRequestInDriver, Next
  PROVE  Unfinished' /\ CurrentRequestInDriver'
<1>0. request \in Procs \cup {None} /\ dr \in [Procs -> Requests]
  BY DEF Typed, TypeOK
<1>1. ASSUME NEW p \in Procs, Proceed(p) PROVE Unfinished' /\ CurrentRequestInDriver'
  BY <1>1, OwnerProceed
<1>2. ASSUME NEW p \in Procs, NEW c \in Commands \cup {"other"}, NEW lba \in Lbas,
             NEW n \in Counts, NEW k \in Blocks, Call(p, c, lba, n, k)
      PROVE  Unfinished' /\ CurrentRequestInDriver'
  <2>1. Request(p, c, lba, n, "idle", made') /\ made' \in 1 .. MaxCalls + MaxRacing
    BY <1>2, AtaAssumption DEF Call, TakesTurn, Typed, TypeOK
  <2>2. /\ \A q \in Procs \ {p} : dr'[q] = dr[q]
        /\ dr'[p].status # "success"
        /\ \A q \in Procs \ {p} : pc'[q] = pc[q]
        /\ pc[p] = "idle"
    BY <2>1, RequestType
  <2>3. request' = request
    BY <2>1 DEF Request
  <2> QED BY <1>0, <2>2, <2>3 DEF Unfinished, CurrentRequestInDriver
<1>3. CASE IsrNothingPending
  BY <1>3 DEF IsrNothingPending, Unfinished, CurrentRequestInDriver
<1>4. CASE IsrWriteDone
  <2>1. /\ request \in Procs /\ request' = None /\ pc' = pc
        /\ dr' = [dr EXCEPT ![request].status = "success"]
    BY <1>0, <1>4 DEF IsrWriteDone
  <2>2. \A q \in Procs : dr'[q].status = IF q = request THEN "success" ELSE dr[q].status
    BY <1>0, <2>1, TypedSuccess
  <2> QED BY <1>4, <2>1, <2>2
          DEF IsrWriteDone, Unfinished, CurrentRequestInDriver, Before
<1>5. CASE IsrNoData
  BY <1>5 DEF IsrNoData, Unfinished, CurrentRequestInDriver
<1>6. CASE IsrTransfer
  <2>1. \A q \in Procs : dr'[q].status = IF q = request /\ ~pointer' THEN "success"
                                         ELSE dr[q].status
    BY <1>6, TransferRequests
  <2>2. request \in Procs /\ request' = (IF pointer' THEN request ELSE None) /\ pc' = pc
    BY <1>0, <1>6 DEF IsrTransfer
  <2>3. request # None /\ pc[request] \notin Before /\ dr[request].status # "success"
    BY <1>6 DEF IsrTransfer, Unfinished, CurrentRequestInDriver, Before
  <2>4. CASE pointer'
    BY <2>1, <2>2, <2>3, <2>4 DEF Unfinished, CurrentRequestInDriver
  <2>5. CASE ~pointer'
    BY <2>1, <2>2, <2>3, <2>5 DEF Unfinished, CurrentRequestInDriver
  <2> QED BY <2>4, <2>5
<1>7. CASE Drive
  BY <1>7 DEF Drive, DriveReads, DriveAsksForData, DriveFinishes, DriveFails, driverVars,
              Unfinished, CurrentRequestInDriver
<1> QED BY <1>1, <1>2, <1>3, <1>4, <1>5, <1>6, <1>7 DEF Next, Isr

-----------------------------------------------------------------------------
(* The drive's request line.                                               *)

(* A command lowers the line; a drive at work ignores it.                  *)
LEMMA LineCommand ==
  ASSUME LineTells, SectorReady, NEW p, NEW c, Command(p, c), ~irq,
         UNCHANGED <<irq, sectors>>
  PROVE  LineTells' /\ SectorReady'
BY DEF LineTells, Ended, SectorReady, Command

(* A step of a process raises the line only for a command that ended. *)
LEMMA LineProceed ==
  ASSUME Typed, LineTells, SectorReady, NEW p \in Procs, Proceed(p)
  PROVE  LineTells' /\ SectorReady'
<1> USE DEF driveVars
<1>1. CASE EnableInterrupts(p)
  BY <1>1 DEF EnableInterrupts, Line, LineTells, Ended, SectorReady
<1>2. CASE UNCHANGED <<drive, intrq, irq, sectors>>
  BY <1>2 DEF LineTells, Ended, SectorReady
<1>3. CASE IssueCommand(p)
  BY <1>3, LineCommand DEF IssueCommand, At, MayRun
<1>4. CASE FlushCache(p)
  BY <1>4, LineCommand DEF FlushCache, At, MayRun
<1>5. CASE SendBlock(p)
  <2>1. ~irq /\ TakeBlock(dr[transfer.request].buffer) /\ UNCHANGED <<intrq, irq, sectors>>
    BY <1>5 DEF SendBlock, At, MayRun
  <2>2. drive \in DriveStates
    BY DEF Typed, TypeOK
  <2> QED BY <2>1, <2>2 DEF TakeBlock, DriveStates, LineTells, Ended, SectorReady
<1> QED BY <1>1, <1>2, <1>3, <1>4, <1>5
        DEF Proceed, WaitReady, SetAddress, RecordRequest, PointAtTransfer, ReadStatus,
            PollStatus, BlockSent, FinishWrite, Wait, FlushDone, AskAgain, Request

(* Every step keeps the line and the edge true of the drive. *)
LEMMA LineStep ==
  ASSUME Typed, LineTells, SectorReady, Next
  PROVE  LineTells' /\ SectorReady'
<1>0. drive \in DriveStates /\ sectors \in [Addresses -> Contents \cup {<<>>}]
  BY DEF Typed, TypeOK
<1>1. ASSUME NEW p \in Procs, Proceed(p) PROVE LineTells' /\ SectorReady'
  BY <1>1, LineProceed
<1>2. ASSUME NEW p \in Procs, NEW c \in Commands \cup {"other"}, NEW lba \in Lbas,
             NEW n \in Counts, NEW k \in Blocks, Call(p, c, lba, n, k)
      PROVE  LineTells' /\ SectorReady'
  BY <1>2 DEF Call, Request, driveVars, LineTells, Ended, SectorReady
<1>3. CASE IsrNothingPending
  BY <1>3 DEF IsrNothingPending, LineTells, Ended, SectorReady
<1>4. CASE IsrWriteDone \/ IsrNoData
  BY <1>4 DEF IsrWriteDone, IsrNoData, LineTells, Ended, SectorReady
<1>5. CASE IsrTransfer
  <2>1. /\ Ended /\ irq' = FALSE /\ UNCHANGED <<intrq, sectors>>
        /\ drive' = [drive EXCEPT !.st = "idle"] \/ TakeBlock(dr[transfer.request].buffer)
    BY <1>5 DEF IsrTransfer, Interrupted, LineTells
  <2>2. Ended' /\ SectorReady'
    BY <1>0, <2>1 DEF TakeBlock, Ended, DriveStates, SectorReady
  <2> QED BY <2>1, <2>2 DEF LineTells
<1>6. CASE DriveReads
  BY <1>0, <1>6 DEF DriveReads, Line, LineTells, Ended, SectorReady, DriveStates
<1>7. CASE DriveAsksForData
  BY <1>0, <1>7 DEF DriveAsksForData, LineTells, Ended, SectorReady, DriveStates
<1>8. CASE DriveFinishes
  BY <1>0, <1>8 DEF DriveFinishes, Line, LineTells, Ended, SectorReady, DriveStates
<1>9. CASE DriveFails
  BY <1>0, <1>9 DEF DriveFails, Line, LineTells, Ended, SectorReady, DriveStates
<1> QED BY <1>1, <1>2, <1>3, <1>4, <1>5, <1>6, <1>7, <1>8, <1>9 DEF Next, Isr, Drive

(* The invariant of every behaviour, calm or not.                          *)
LEMMA RacingInit == Init => RacingInvariant
BY TypedInit DEF Init, RacingInvariant, Unfinished, Before, CurrentRequestInDriver, LineTells,
                 Ended, SectorReady

(* Every step keeps what holds at any timing. *)
LEMMA RacingStep ==
  ASSUME RacingInvariant, [Next]_vars
  PROVE  RacingInvariant'
<1>1. CASE Next
  BY <1>1, TypedStep, OwnerStep, LineStep DEF RacingInvariant
<1>2. CASE UNCHANGED vars
  BY <1>2 DEF RacingInvariant, Typed, TypeOK, TransferOfRequest, WriteBuffers, BlocksLeft,
              ReadsOrWrites, Unfinished, CurrentRequestInDriver, LineTells, Ended, SectorReady,
              vars, driverVars, driveVars, history
<1> QED BY <1>1, <1>2

-----------------------------------------------------------------------------
(* Taking turns, with any drive.                                           *)

(* The choices made at the start stay.                                     *)
LEMMA ChoicesKept ==
  ASSUME [Next]_vars
  PROVE  turns' = turns /\ calm' = calm
<1>1. ASSUME NEW p \in Procs, Proceed(p) PROVE turns' = turns /\ calm' = calm
  BY <1>1
     DEF Proceed, EnableInterrupts, WaitReady, SetAddress, IssueCommand, RecordRequest,
         PointAtTransfer, ReadStatus, PollStatus, SendBlock, BlockSent, FinishWrite, Wait,
         FlushCache, FlushDone, AskAgain, Request, history
<1>2. ASSUME NEW p, NEW c, NEW lba, NEW n, NEW k, Call(p, c, lba, n, k)
      PROVE  turns' = turns /\ calm' = calm
  BY <1>2 DEF Call, Request
<1>3. CASE Isr
  BY <1>3 DEF Isr, IsrNothingPending, IsrWriteDone, IsrNoData, IsrTransfer, history
<1>4. CASE Drive
  BY <1>4 DEF Drive, DriveReads, DriveAsksForData, DriveFinishes, DriveFails, history
<1>5. CASE UNCHANGED vars
  BY <1>5 DEF vars, history
<1> QED BY <1>1, <1>2, <1>3, <1>4, <1>5 DEF Next

(* The others are idle: only the process in the driver proceeds.           *)
LEMMA AloneProceeds ==
  ASSUME NEW a \in Procs, Alone(a), NEW p \in Procs, Proceed(p)
  PROVE  p = a
BY DEF Alone, Proceed, EnableInterrupts, WaitReady, SetAddress, IssueCommand, RecordRequest,
       PointAtTransfer, ReadStatus, PollStatus, SendBlock, BlockSent, FinishWrite, Wait,
       FlushCache, FlushDone, AskAgain, Request, At

(* The steps up to the record of the request.                              *)
LEMMA AloneBefore ==
  ASSUME RacingInvariant, ~wild, NEW a \in Procs, Alone(a),
         \/ EnableInterrupts(a) \/ WaitReady(a) \/ SetAddress(a) \/ IssueCommand(a)
         \/ AskAgain(a) \/ RecordRequest(a) \/ PointAtTransfer(a)
  PROVE  Alone(a)' /\ ~wild'
<1> USE DEF Alone, Unissued, Issued, Reading, Sent, driverVars, driveVars
<1>0. pc \in [Procs -> Steps] /\ ReadsOrWrites
  BY DEF RacingInvariant, Typed, TypeOK
<1>1. CASE EnableInterrupts(a) \/ WaitReady(a) \/ SetAddress(a)
  <2>1. PICK next \in {"ready", "address", "command"} :
          /\ pc' = [pc EXCEPT ![a] = next] /\ pc[a] \in {"enable", "ready", "address"}
          /\ UNCHANGED <<driverVars, drive>>
    BY <1>1 DEF EnableInterrupts, WaitReady, SetAddress, At
  <2>2. pc'[a] = next /\ \A q \in Procs \ {a} : pc'[q] = pc[q]
    BY <1>0, <2>1
  <2> QED BY <2>1, <2>2
<1>2. CASE IssueCommand(a)
  <2>1. /\ pc[a] = "command" /\ pc'[a] = "record" /\ \A q \in Procs \ {a} : pc'[q] = pc[q]
        /\ UNCHANGED driverVars /\ Command(a, dr[a].cmd)
    BY <1>0, <1>2 DEF IssueCommand, At
  <2>2. drive'.cmd = dr[a].cmd
    BY <2>1 DEF Command
  <2> QED BY <2>1, <2>2
<1>3. CASE AskAgain(a)
  BY <1>0, <1>3 DEF AskAgain, Request, At
<1>4. CASE RecordRequest(a) \/ PointAtTransfer(a)
  BY <1>0, <1>4 DEF RecordRequest, PointAtTransfer, At
<1> QED BY <1>1, <1>2, <1>3, <1>4

(* The steps that look at the drive, and those that leave the driver.      *)
LEMMA AlonePolls ==
  ASSUME RacingInvariant, ~wild, NEW a \in Procs, Alone(a),
         ReadStatus(a) \/ PollStatus(a) \/ Wait(a) \/ FlushCache(a) \/ FlushDone(a)
  PROVE  Alone(a)' /\ ~wild'
<1> USE DEF Alone, Unissued, Issued, Reading, Sent, driverVars, driveVars
<1>0. /\ pc \in [Procs -> Steps] /\ ReadsOrWrites /\ drive \in DriveStates
      /\ seen \in [Procs -> {"idle", "busy", "drq"}]
  BY DEF RacingInvariant, Typed, TypeOK
<1>1. CASE ReadStatus(a)
  <2>1. /\ pc[a] = "status" /\ pc'[a] = (IF dr[a].cmd = "write" THEN "poll" ELSE "wait")
        /\ \A q \in Procs \ {a} : pc'[q] = pc[q]
        /\ seen'[a] = drive.st /\ UNCHANGED <<dr, request, pointer, wild, drive>>
    BY <1>0, <1>1 DEF ReadStatus, At
  <2>2. dr[a].cmd \in {"read", "write"}
    BY <1>0, <2>1 DEF ReadsOrWrites, Commands
  <2> QED BY <2>1, <2>2
<1>2. CASE PollStatus(a)
  <2> DEFINE last == IF seen[a] = "busy" THEN drive.st ELSE seen[a]
  <2>1. /\ pc[a] = "poll" /\ pc'[a] = (IF last = "drq" THEN "data" ELSE "wait")
        /\ last # "busy" /\ \A q \in Procs \ {a} : pc'[q] = pc[q]
        /\ UNCHANGED <<dr, request, pointer, wild, drive>>
    BY <1>0, <1>2 DEF PollStatus, At
  <2>2. drive.st = last
    BY <2>1
  <2>3. CASE last = "drq"
    BY <2>1, <2>2, <2>3
  <2>4. CASE last = "idle"
    BY <2>1, <2>2, <2>4
  <2> QED BY <1>0, <2>1, <2>3, <2>4 DEF DriveStates
<1>3. CASE Wait(a)
  <2>1. /\ pc[a] = "wait" /\ dr[a].status = "success"
        /\ pc'[a] = (IF dr[a].cmd = "write" THEN "flush" ELSE Returned(a))
        /\ \A q \in Procs \ {a} : pc'[q] = pc[q]
        /\ UNCHANGED <<driverVars, drive>>
    BY <1>0, <1>3 DEF Wait, At
  <2>2. request # a
    BY <2>1, ProcsFacts DEF RacingInvariant, Unfinished
  <2>3. CASE dr[a].cmd = "write"
    BY <2>1, <2>3
  <2>4. CASE dr[a].cmd # "write"
    <3>1. dr[a].cmd = "read" /\ pc'[a] \in {"again", "idle"}
      BY <1>0, <2>1, <2>4 DEF ReadsOrWrites, Commands, Returned
    <3> QED BY <2>1, <2>2, <3>1
  <2> QED BY <2>3, <2>4
<1>4. CASE FlushCache(a)
  <2>1. /\ pc[a] = "flush" /\ pc'[a] = "flushing" /\ \A q \in Procs \ {a} : pc'[q] = pc[q]
        /\ UNCHANGED driverVars /\ Command(a, "flush")
    BY <1>0, <1>4 DEF FlushCache, At
  <2>2. drive'.st # "drq" /\ (drive'.st = "busy" => drive'.cmd \in {"store", "flush"})
    BY <2>1 DEF Command
  <2> QED BY <2>1, <2>2
<1>5. CASE FlushDone(a)
  <2>1. /\ pc[a] = "flushing" /\ pc'[a] \in {"again", "idle"} /\ drive.st # "busy"
        /\ \A q \in Procs \ {a} : pc'[q] = pc[q]
        /\ UNCHANGED <<wild, drive>>
    BY <1>0, <1>5 DEF FlushDone, At, Returned
  <2>2. drive'.st = "idle"
    BY <1>0, <2>1 DEF DriveStates
  <2> QED BY <2>1, <2>2
<1> QED BY <1>1, <1>2, <1>3, <1>4, <1>5

(* The steps that send the words of a write.                               *)
LEMMA AloneSends ==
  ASSUME RacingInvariant, ~wild, NEW a \in Procs, Alone(a),
         SendBlock(a) \/ BlockSent(a) \/ FinishWrite(a)
  PROVE  Alone(a)' /\ (~wild' \/ OvertakenWrite(a))
<1> USE DEF Alone, Unissued, Issued, Reading, Sent, driverVars, driveVars
<1>0. /\ pc \in [Procs -> Steps] /\ dr \in [Procs -> Requests] /\ drive \in DriveStates
  BY DEF RacingInvariant, Typed, TypeOK
<1>1. CASE SendBlock(a)
  <2>1. /\ pc[a] = "data" /\ pc'[a] = "count" /\ \A q \in Procs \ {a} : pc'[q] = pc[q]
        /\ UNCHANGED <<dr, seen, request, pointer>>
        /\ wild' = (wild \/ ~pointer) /\ TakeBlock(dr[transfer.request].buffer)
    BY <1>0, <1>1 DEF SendBlock, At
  <2>2. request = a /\ pointer /\ drive.st = "drq" /\ drive.cmd = "write"
    BY <2>1
  <2>3. drive'.st = "busy" /\ drive'.cmd = "store"
    BY <1>0, <2>1, <2>2 DEF TakeBlock, DriveStates
  <2> QED BY <2>1, <2>2, <2>3
<1>2. CASE BlockSent(a)
  <2>1. /\ pc[a] = "count" /\ pc'[a] = "finish" /\ \A q \in Procs \ {a} : pc'[q] = pc[q]
        /\ UNCHANGED <<dr, seen, request, drive>> /\ wild' = (wild \/ ~pointer)
    BY <1>0, <1>2 DEF BlockSent, At
  <2> QED BY <2>1
<1>3. CASE FinishWrite(a)
  <2>1. /\ pc[a] = "finish" /\ pc'[a] = "wait" /\ \A q \in Procs \ {a} : pc'[q] = pc[q]
        /\ UNCHANGED <<seen, pointer, drive>>
    BY <1>0, <1>3 DEF FinishWrite, At
  <2>2. request \in {a, None}
    BY DEF RacingInvariant, Typed, TypeOK, CurrentRequestInDriver
  <2>3. dr'[a].cmd = dr[a].cmd
    <3>1. dr' = dr \/ dr' = [dr EXCEPT ![a].status = "success"]
      BY <1>3, <2>2 DEF FinishWrite
    <3>2. CASE dr' = [dr EXCEPT ![a].status = "success"]
      BY <1>0, <3>2, TypedSuccess
    <3> QED BY <3>1, <3>2
  <2>4. request' = a => pointer'
    BY <1>3, <2>1, ProcsFacts DEF FinishWrite
  <2>5. wild' => OvertakenWrite(a)
    BY <1>3, <2>1, ProcsFacts DEF FinishWrite, OvertakenWrite
  <2> QED BY <2>1, <2>3, <2>4, <2>5
<1> QED BY <1>1, <1>2, <1>3

(* Every step of the process in the driver.                                *)
LEMMA AloneProceed ==
  ASSUME RacingInvariant, ~wild, NEW a \in Procs, Alone(a), Proceed(a)
  PROVE  Alone(a)' /\ (~wild' \/ OvertakenWrite(a))
BY AloneBefore, AlonePolls, AloneSends DEF Proceed

(* The handler, at any moment.                                             *)
LEMMA AloneIsr ==
  ASSUME RacingInvariant, ~wild, NEW a \in Procs, Alone(a), Isr
  PROVE  Alone(a)' /\ (~wild' \/ OvertakenRead(a))
<1> USE DEF Alone, Unissued, Issued, Reading, Sent
<1>0. /\ pc' = pc /\ seen' = seen /\ Ended
      /\ pc \in [Procs -> Steps] /\ dr \in [Procs -> Requests] /\ drive \in DriveStates
      /\ ReadsOrWrites /\ request \in {a, None} /\ a # None
  BY ProcsFacts DEF Isr, IsrNothingPending, IsrWriteDone, IsrNoData, IsrTransfer, Interrupted,
                    RacingInvariant, Typed, TypeOK, LineTells, CurrentRequestInDriver
<1>1. CASE IsrNothingPending
  BY <1>0, <1>1 DEF IsrNothingPending
<1>2. CASE IsrWriteDone
  <2>1. /\ request = a /\ dr[a].cmd = "write" /\ ~pointer /\ request' = None
        /\ UNCHANGED <<pointer, wild, drive>> /\ dr' = [dr EXCEPT ![a].status = "success"]
    BY <1>0, <1>2 DEF IsrWriteDone
  <2>2. dr'[a].cmd = "write" /\ dr'[a].status = "success"
    BY <1>0, <2>1, TypedSuccess
  <2>3. pc[a] \in {"point", "finish"}
    BY <1>0, <2>1 DEF RacingInvariant, CurrentRequestInDriver
  <2>4. drive.st # "idle" => drive.st = "drq"
    BY <1>0 DEF Ended, DriveStates
  <2>5. drive.st = "idle"
    BY <1>0, <2>1, <2>3, <2>4 DEF Ended
  <2> QED BY <1>0, <2>1, <2>2, <2>3, <2>5
<1>3. CASE IsrNoData
  <2>1. /\ request = a /\ UNCHANGED <<dr, pointer, wild, drive>> /\ drive.st = "idle"
        /\ request' = (IF pointer THEN a ELSE None)
        /\ ~(dr[a].cmd = "write" /\ ~pointer)
    BY <1>0, <1>3 DEF IsrNoData, Ended, DriveStates
  <2> QED BY <1>0, <2>1
<1>4. CASE IsrTransfer
  <2>1. /\ request = a /\ drive.st = "drq" /\ drive.cmd # "write"
        /\ wild' = (wild \/ ~pointer)
        /\ request' = (IF pointer' THEN a ELSE None)
    BY <1>0, <1>4 DEF IsrTransfer, Ended
  <2>2. dr[a].cmd = "read" /\ pc[a] \in {"point", "status", "wait"}
    <3>1. pc[a] \in {"point", "status", "poll", "data", "count", "finish", "wait"}
      BY <1>0, <2>1 DEF RacingInvariant, CurrentRequestInDriver
    <3>2. dr[a].cmd \in {"read", "write"}
      BY <1>0, <3>1 DEF ReadsOrWrites, Commands
    <3> QED BY <2>1, <3>1, <3>2
  <2>3. dr'[a].cmd = "read"
    BY <1>4, <2>2, TransferRequests DEF RacingInvariant
  <2>4. drive'.st = "idle"
    <3>1. drive' = [drive EXCEPT !.st = "idle"]
      BY <1>4, <2>1, <2>2 DEF IsrTransfer
    <3> QED BY <1>0, <3>1 DEF DriveStates
  <2>5. wild' => OvertakenRead(a)
    BY <2>1, <2>2 DEF OvertakenRead
  <2> QED BY <1>0, <2>1, <2>2, <2>3, <2>4, <2>5
<1> QED BY <1>1, <1>2, <1>3, <1>4 DEF Isr

(* The drive works for the process in the driver.                          *)
LEMMA AloneDrive ==
  ASSUME RacingInvariant, NEW a \in Procs, Alone(a), Drive
  PROVE  Alone(a)'
<1> USE DEF Alone, Unissued, Issued, Reading, Sent, driverVars
<1>0. /\ drive.st = "busy" /\ pc' = pc /\ UNCHANGED driverVars
      /\ drive \in DriveStates /\ pc[a] \in Steps /\ ReadsOrWrites
      /\ drive'.cmd = drive.cmd /\ drive'.st \in {"idle", "drq"}
      /\ drive'.st = "drq" => drive.cmd \in Commands
  BY DEF Drive, DriveReads, DriveAsksForData, DriveFinishes, DriveFails, RacingInvariant,
         Typed, TypeOK, DriveStates, Commands
<1>1. /\ pc[a] = "poll" => seen[a] = "busy"
      /\ pc[a] # "data" /\ pc[a] \notin Unissued
      /\ Sent(a) => drive.cmd \notin Commands
  BY <1>0 DEF Commands
<1> QED BY <1>0, <1>1

(* A call of a process whose turn it is.                                   *)
LEMMA AloneCall ==
  ASSUME RacingInvariant, turns, ~calm, NEW a \in Procs, Alone(a),
         NEW p \in Procs, NEW c \in Commands \cup {"other"}, NEW lba \in Lbas,
         NEW n \in Counts, NEW k \in Blocks, Call(p, c, lba, n, k)
  PROVE  Alone(p)'
<1>1. Request(p, c, lba, n, "idle", made') /\ \A q \in Procs \ {p} : pc[q] = "idle"
  BY DEF Call, TakesTurn
<1>2. /\ \A q \in Procs \ {p} : pc'[q] = "idle"
      /\ pc[p] = "idle" /\ pc'[p] \in {"enable", "idle"} /\ drive' = drive
  BY <1>1 DEF Request, At, RacingInvariant, Typed, TypeOK, driveVars
<1>3. drive.st = "idle"
  BY <1>1, <1>2 DEF Alone, Unissued
<1> QED BY <1>2, <1>3 DEF Alone, Unissued, Issued, Reading, Sent

(* At first no process is in the driver.                                   *)
LEMMA TurnsInit == Init => TurnsInvariant
BY ProcsFacts DEF Init, TurnsInvariant, Alone, Unissued, Issued, Reading, Sent

(* A call brings its process into the driver alone; it stays alone there.  *)
LEMMA TurnsStep ==
  ASSUME RacingInvariant, TurnsInvariant, [Next]_vars
  PROVE  TurnsInvariant'
<1> SUFFICES ASSUME turns, ~calm, ~wild' PROVE \E a \in Procs : Alone(a)'
  BY ChoicesKept DEF TurnsInvariant
<1>0. CASE UNCHANGED vars
  BY <1>0 DEF TurnsInvariant, vars, driverVars, driveVars, Alone, Reading, Sent
<1>1. ASSUME Next PROVE \E a \in Procs : Alone(a)'
  <2>1. ~wild
    BY <1>1 DEF Next
  <2>2. PICK a \in Procs : Alone(a)
    BY <2>1 DEF TurnsInvariant
  <2>3. ASSUME NEW p \in Procs, Proceed(p) PROVE Alone(a)'
    BY <2>1, <2>2, <2>3, AloneProceeds, AloneProceed
  <2>4. ASSUME NEW p \in Procs, NEW c \in Commands \cup {"other"}, NEW lba \in Lbas,
               NEW n \in Counts, NEW k \in Blocks, Call(p, c, lba, n, k)
        PROVE  Alone(p)'
    BY <2>2, <2>4, AloneCall
  <2>5. CASE Isr
    BY <2>1, <2>2, <2>5, AloneIsr
  <2>6. CASE Drive
    BY <2>2, <2>6, AloneDrive
  <2> QED BY <1>1, <2>3, <2>4, <2>5, <2>6 DEF Next
<1> QED BY <1>0, <1>1

-----------------------------------------------------------------------------
(* Calm: the steps of the process that is served.                          *)

(* The others are idle or wait in vain: only the process served proceeds.  *)
LEMMA OnlyServed ==
  ASSUME RacingInvariant, NEW a \in Procs, Serves(a), NEW p \in Procs, Proceed(p)
  PROVE  p = a
<1>1. pc[p] # "idle" /\ (pc[p] = "wait" => Wait(p))
  BY DEF Proceed, EnableInterrupts, WaitReady, SetAddress, IssueCommand, RecordRequest,
         PointAtTransfer, ReadStatus, PollStatus, SendBlock, BlockSent, FinishWrite, Wait,
         FlushCache, FlushDone, AskAgain, Request, At
<1>2. Abandoned(p) => FALSE
  BY <1>1 DEF Abandoned, Wait
<1> QED BY <1>1, <1>2 DEF Serves

(* The others stay where they are.                                         *)
LEMMA OthersKept ==
  ASSUME NEW a \in Procs, Serves(a),
         \A q \in Procs \ {a} : pc'[q] = pc[q] /\ dr'[q].status = dr[q].status,
         request' \in {request, a, None},
         (request \in Procs \ {a} /\ request' = request) => (pointer => pointer')
  PROVE  \A q \in Procs \ {a} : pc'[q] = "idle" \/ Abandoned(q)'
<1> SUFFICES ASSUME NEW q \in Procs \ {a}, pc'[q] # "idle" PROVE Abandoned(q)'
  OBVIOUS
<1>1. Abandoned(q)
  BY DEF Serves
<1>2. request' = q => request = q
  BY ProcsFacts
<1> QED BY <1>1, <1>2 DEF Abandoned

(* The steps up to the command.                                            *)
LEMMA CalmBefore ==
  ASSUME RacingInvariant, ~wild, NEW a \in Procs, Serves(a),
         EnableInterrupts(a) \/ WaitReady(a) \/ SetAddress(a) \/ IssueCommand(a)
  PROVE  Serves(a)' /\ ~wild'
<1>0. TypeOK /\ ReadsOrWrites
  BY DEF RacingInvariant, Typed
<1>1. PICK next \in {"ready", "address", "command", "record"} :
        /\ pc' = [pc EXCEPT ![a] = next] /\ pc[a] \in Unissued
        /\ UNCHANGED <<driverVars, history, sectors>>
        /\ next = "command" => lbaReg' = Addressed(dr[a].lba)
        /\ next = "record" => IssueCommand(a)
        /\ next # "record" => UNCHANGED drive
  BY DEF EnableInterrupts, WaitReady, SetAddress, IssueCommand, At, driveVars, Unissued
<1>2. /\ pc'[a] = next /\ \A q \in Procs \ {a} : pc'[q] = pc[q]
      /\ drive.st = "idle"
  BY <1>0, <1>1 DEF TypeOK, Serves, DriveServes
<1>3. \A q \in Procs \ {a} : pc'[q] = "idle" \/ Abandoned(q)'
  BY <1>1, <1>2, OthersKept DEF driverVars
<1>4. CASE next # "record"
  BY <1>1, <1>2, <1>3, <1>4
     DEF Serves, DriveServes, DriverServes, DataServed, Unissued, Issued, Reading, Sent, Window,
         driverVars, history
<1>5. CASE next = "record"
  <2>1. /\ pc[a] = "command" /\ ~irq /\ irq' = irq
        /\ drive' = [st |-> "busy", cmd |-> dr[a].cmd, addr |-> lbaReg, data |-> <<>>, by |-> a]
    BY <1>1, <1>2, <1>5 DEF IssueCommand, At, MayRun, Command
  <2>2. lbaReg = Addressed(dr[a].lba)
    BY <2>1 DEF Serves, DriveServes
  <2> QED BY <1>1, <1>2, <1>3, <1>5, <2>1, <2>2
      DEF Serves, DriveServes, DriverServes, DataServed, Unissued, Issued, Reading, Sent, Window,
          driverVars, history
<1> QED BY <1>4, <1>5

(* The steps that record the request.                                      *)
LEMMA CalmRecord ==
  ASSUME RacingInvariant, ~wild, NEW a \in Procs, Serves(a),
         RecordRequest(a) \/ PointAtTransfer(a) \/ ReadStatus(a) \/ PollStatus(a)
  PROVE  Serves(a)' /\ ~wild'
<1> USE DEF Serves, DriveServes, DriverServes, DataServed, Unissued, Issued, Reading, Sent,
            Window, driveVars, history
<1>0. /\ pc \in [Procs -> Steps] /\ seen \in [Procs -> {"idle", "busy", "drq"}]
      /\ drive \in DriveStates /\ ReadsOrWrites
  BY DEF RacingInvariant, Typed, TypeOK
<1>1. CASE RecordRequest(a)
  <2>1. /\ pc[a] = "record" /\ pc'[a] = "point" /\ \A q \in Procs \ {a} : pc'[q] = pc[q]
        /\ request' = a /\ UNCHANGED <<dr, seen, pointer, wild, driveVars, history>>
    BY <1>0, <1>1 DEF RecordRequest, At
  <2>2. \A q \in Procs \ {a} : pc'[q] = "idle" \/ Abandoned(q)'
    BY <2>1, OthersKept
  <2> QED BY <2>1, <2>2
<1>2. CASE PointAtTransfer(a)
  <2>1. /\ pc[a] = "point" /\ pc'[a] = "status" /\ \A q \in Procs \ {a} : pc'[q] = pc[q]
        /\ pointer' = TRUE /\ UNCHANGED <<dr, seen, request, wild, driveVars, history>>
    BY <1>0, <1>2 DEF PointAtTransfer, At
  <2>2. \A q \in Procs \ {a} : pc'[q] = "idle" \/ Abandoned(q)'
    BY <2>1, OthersKept
  <2>3. dr[a].status # "success"
    BY <2>1, ProcsFacts DEF RacingInvariant, Unfinished
  <2> QED BY <2>1, <2>2, <2>3
<1>3. CASE ReadStatus(a)
  <2>1. /\ pc[a] = "status" /\ pc'[a] = (IF dr[a].cmd = "write" THEN "poll" ELSE "wait")
        /\ \A q \in Procs \ {a} : pc'[q] = pc[q]
        /\ seen'[a] = drive.st /\ UNCHANGED <<dr, request, pointer, wild, driveVars, history>>
    BY <1>0, <1>3 DEF ReadStatus, At
  <2>2. \A q \in Procs \ {a} : pc'[q] = "idle" \/ Abandoned(q)'
    BY <2>1, OthersKept
  <2>3. dr[a].cmd \in {"read", "write"}
    BY <1>0, <2>1 DEF ReadsOrWrites, Commands
  <2> QED BY <2>1, <2>2, <2>3
<1>4. CASE PollStatus(a)
  <2> DEFINE last == IF seen[a] = "busy" THEN drive.st ELSE seen[a]
  <2>1. /\ pc[a] = "poll" /\ pc'[a] = (IF last = "drq" THEN "data" ELSE "wait")
        /\ last # "busy" /\ \A q \in Procs \ {a} : pc'[q] = pc[q]
        /\ UNCHANGED <<dr, request, pointer, wild, driveVars, history>>
    BY <1>0, <1>4 DEF PollStatus, At
  <2>2. \A q \in Procs \ {a} : pc'[q] = "idle" \/ Abandoned(q)'
    BY <2>1, OthersKept
  <2>3. CASE last = "drq"
    BY <2>1, <2>2, <2>3
  <2>4. CASE last = "idle"
    BY <2>1, <2>2, <2>4
  <2> QED BY <1>0, <2>1, <2>3, <2>4 DEF DriveStates
<1> QED BY <1>1, <1>2, <1>3, <1>4

(* The steps that send the words of a write.                               *)
LEMMA CalmSend ==
  ASSUME RacingInvariant, ~wild, NEW a \in Procs, Serves(a),
         SendBlock(a) \/ BlockSent(a) \/ FinishWrite(a)
  PROVE  Serves(a)' /\ ~wild'
<1> USE DEF Serves, DriveServes, DriverServes, DataServed, Unissued, Issued, Reading, Sent,
            Window, driveVars, history
<1>0. /\ pc \in [Procs -> Steps] /\ dr \in [Procs -> Requests]
      /\ drive \in DriveStates /\ ReadsOrWrites
      /\ request = a => transfer.request = a
  BY ProcsFacts DEF RacingInvariant, Typed, TypeOK, TransferOfRequest
<1>1. CASE SendBlock(a)
  <2>1. /\ pc[a] = "data" /\ pc'[a] = "count" /\ \A q \in Procs \ {a} : pc'[q] = pc[q]
        /\ ~irq /\ UNCHANGED <<dr, seen, request, pointer, irq, sectors, history>>
        /\ wild' = (wild \/ ~pointer) /\ TakeBlock(dr[transfer.request].buffer)
    BY <1>0, <1>1 DEF SendBlock, At, MayRun
  <2>2. \A q \in Procs \ {a} : pc'[q] = "idle" \/ Abandoned(q)'
    BY <2>1, OthersKept
  <2>3. /\ request = a /\ pointer /\ dr[a].cmd = "write"
        /\ drive.st = "drq" /\ drive.cmd = "write" /\ drive.addr = Addressed(dr[a].lba)
        /\ drive.by = a
    BY <2>1
  <2>4. drive' = [drive EXCEPT !.st = "busy", !.cmd = "store", !.data = dr[a].buffer]
    BY <1>0, <2>1, <2>3 DEF TakeBlock
  <2>5. /\ drive'.st = "busy" /\ drive'.cmd = "store" /\ drive'.data = dr[a].buffer
        /\ drive'.addr = drive.addr /\ drive'.by = a
    BY <1>0, <2>3, <2>4 DEF DriveStates
  <2> QED BY <2>1, <2>2, <2>3, <2>5
<1>2. CASE BlockSent(a)
  <2>1. /\ pc[a] = "count" /\ pc'[a] = "finish" /\ \A q \in Procs \ {a} : pc'[q] = pc[q]
        /\ UNCHANGED <<dr, seen, request, driveVars, history>>
        /\ wild' = (wild \/ ~pointer)
    BY <1>0, <1>2 DEF BlockSent, At
  <2>2. request = a /\ pointer
    BY <2>1
  <2>3. \A q \in Procs \ {a} : pc'[q] = "idle" \/ Abandoned(q)'
    BY <2>1, <2>2, OthersKept
  <2> QED BY <2>1, <2>2, <2>3
<1>3. CASE FinishWrite(a)
  <2>1. /\ pc[a] = "finish" /\ pc'[a] = "wait" /\ \A q \in Procs \ {a} : pc'[q] = pc[q]
        /\ UNCHANGED <<seen, pointer, driveVars, history>>
    BY <1>0, <1>3 DEF FinishWrite, At
  <2>2. request = a /\ a # None
    BY <2>1, ProcsFacts
  <2>3. CASE pointer
    <3>1. UNCHANGED <<dr, request, wild>>
      BY <1>3, <2>3 DEF FinishWrite
    <3>2. \A q \in Procs \ {a} : pc'[q] = "idle" \/ Abandoned(q)'
      BY <2>1, <3>1, OthersKept
    <3> QED BY <2>1, <2>2, <2>3, <3>1, <3>2
  <2>4. CASE ~pointer
    <3>1. /\ ~wild' /\ request' = None /\ dr' = [dr EXCEPT ![a].status = "success"]
      BY <1>3, <2>2, <2>4 DEF FinishWrite
    <3>2. \A q \in Procs : /\ dr'[q].cmd = dr[q].cmd /\ dr'[q].lba = dr[q].lba
                           /\ dr'[q].buffer = dr[q].buffer
                           /\ q # a => dr'[q].status = dr[q].status
      BY <1>0, <3>1, TypedSuccess
    <3>3. \A q \in Procs \ {a} : pc'[q] = "idle" \/ Abandoned(q)'
      BY <2>1, <2>2, <3>1, <3>2, OthersKept
    <3> QED BY <2>1, <2>2, <2>4, <3>1, <3>2, <3>3
  <2> QED BY <2>3, <2>4
<1> QED BY <1>1, <1>2, <1>3

(* The steps that leave the driver.                                        *)
LEMMA CalmLeave ==
  ASSUME RacingInvariant, ~wild, NEW a \in Procs, Serves(a),
         Wait(a) \/ FlushCache(a) \/ FlushDone(a)
  PROVE  Serves(a)' /\ ~wild'
<1> USE DEF Serves, DriveServes, DriverServes, DataServed, Unissued, Issued, Reading, Sent,
            Window, driverVars, driveVars, history
<1>0. /\ pc \in [Procs -> Steps] /\ drive \in DriveStates /\ ReadsOrWrites
  BY DEF RacingInvariant, Typed, TypeOK
<1>1. CASE Wait(a)
  <2>1. /\ pc[a] = "wait" /\ dr[a].status = "success"
        /\ pc'[a] = (IF dr[a].cmd = "write" THEN "flush" ELSE Returned(a))
        /\ \A q \in Procs \ {a} : pc'[q] = pc[q]
        /\ UNCHANGED <<driverVars, driveVars, history>>
    BY <1>0, <1>1 DEF Wait, At
  <2>2. \A q \in Procs \ {a} : pc'[q] = "idle" \/ Abandoned(q)'
    BY <2>1, OthersKept
  <2>3. request # a
    BY <2>1, ProcsFacts DEF RacingInvariant, Unfinished
  <2>4. CASE dr[a].cmd = "write"
    BY <2>1, <2>2, <2>4
  <2>5. CASE dr[a].cmd # "write"
    <3>1. dr[a].cmd = "read" /\ pc'[a] \in {"again", "idle"} /\ drive.st = "idle"
      BY <1>0, <2>1, <2>3, <2>5 DEF ReadsOrWrites, Commands, Returned
    <3> QED BY <2>1, <2>2, <3>1
  <2> QED BY <2>4, <2>5
<1>2. CASE FlushCache(a)
  <2>1. /\ pc[a] = "flush" /\ pc'[a] = "flushing" /\ \A q \in Procs \ {a} : pc'[q] = pc[q]
        /\ UNCHANGED <<driverVars, irq, sectors, history>> /\ Command(a, "flush")
    BY <1>0, <1>2 DEF FlushCache, At
  <2>2. \A q \in Procs \ {a} : pc'[q] = "idle" \/ Abandoned(q)'
    BY <2>1, OthersKept
  <2>3. CASE drive.st = "idle"
    <3>1. drive' = [st |-> "busy", cmd |-> "flush", addr |-> lbaReg, data |-> <<>>, by |-> a]
      BY <2>1, <2>3 DEF Command
    <3>2. drive'.st = "busy" /\ drive'.cmd = "flush" /\ drive'.by = a
      BY <3>1
    <3> QED BY <2>1, <2>2, <2>3, <3>2
  <2>4. CASE drive.st # "idle"
    <3>1. drive' = drive
      BY <2>1, <2>4 DEF Command
    <3> QED BY <2>1, <2>2, <2>4, <3>1
  <2> QED BY <2>3, <2>4
<1>3. CASE FlushDone(a)
  <2>1. /\ pc[a] = "flushing" /\ pc'[a] = Returned(a) /\ \A q \in Procs \ {a} : pc'[q] = pc[q]
        /\ drive.st # "busy" /\ UNCHANGED <<driverVars, driveVars, history>>
    BY <1>0, <1>3 DEF FlushDone, At
  <2>2. \A q \in Procs \ {a} : pc'[q] = "idle" \/ Abandoned(q)'
    BY <2>1, OthersKept
  <2>3. drive.st = "idle" /\ pc'[a] \in {"again", "idle"}
    BY <1>0, <2>1 DEF DriveStates, Returned
  <2> QED BY <2>1, <2>2, <2>3
<1> QED BY <1>1, <1>2, <1>3

(* A new request of the process served.                                    *)
LEMMA CalmRequest ==
  ASSUME RacingInvariant, ~wild, NEW a \in Procs,
         \A q \in Procs \ {a} : pc[q] = "idle" \/ Abandoned(q), drive.st = "idle",
         \A q \in Procs \ {a} : dr'[q] = dr[q] /\ pc'[q] = pc[q],
         pc'[a] \in {"enable", "idle"}, UNCHANGED <<request, pointer, wild, driveVars>>
  PROVE  Serves(a)' /\ ~wild'
<1>1. \A q \in Procs \ {a} : pc'[q] = "idle" \/ Abandoned(q)'
  BY DEF Abandoned
<1> QED BY <1>1 DEF Serves, DriveServes, DriverServes, DataServed, Unissued, Issued, Reading,
                    Sent, Window, driveVars

(* Every step of the process served.                                       *)
LEMMA CalmProceed ==
  ASSUME RacingInvariant, ~wild, NEW a \in Procs, Serves(a), Proceed(a)
  PROVE  Serves(a)' /\ ~wild'
<1>1. CASE AskAgain(a)
  <2>1. /\ Request(a, dr[a].cmd, dr[a].lba + 1, 1, "again", dr[a].buffer[2])
        /\ dr[a].cmd \in Commands /\ dr[a].lba + 1 \in Lbas /\ 1 \in Counts
        /\ dr[a].cmd = "write" => dr[a].buffer[2] \in 1 .. MaxCalls + MaxRacing
    BY <1>1, AskAgainRequest DEF RacingInvariant
  <2>2. /\ \A q \in Procs \ {a} : dr'[q] = dr[q] /\ pc'[q] = pc[q]
        /\ pc'[a] = "enable" /\ pc[a] = "again"
    BY <2>1, RequestType DEF RacingInvariant
  <2>3. drive.st = "idle" /\ UNCHANGED <<request, pointer, wild, driveVars>>
    BY <2>1, <2>2 DEF Serves, DriveServes, Unissued, Request
  <2> QED BY <2>2, <2>3, CalmRequest DEF Serves
<1> QED BY <1>1, CalmBefore, CalmRecord, CalmSend, CalmLeave DEF Proceed

-----------------------------------------------------------------------------
(* Calm: the other steps.                                                  *)

(* A process whose turn it is becomes the one that is served.              *)
LEMMA CalmCall ==
  ASSUME RacingInvariant, calm, ~wild, NEW a \in Procs, Serves(a),
         NEW p \in Procs, NEW c \in Commands \cup {"other"}, NEW lba \in Lbas,
         NEW n \in Counts, NEW k \in Blocks, Call(p, c, lba, n, k)
  PROVE  Serves(p)' /\ ~wild'
<1>1. Request(p, c, lba, n, "idle", made') /\ made' \in 1 .. MaxCalls + MaxRacing
  BY AtaAssumption DEF Call, TakesTurn, RacingInvariant, Typed, TypeOK
<1>2. /\ \A q \in Procs \ {p} : dr'[q] = dr[q] /\ pc'[q] = pc[q]
      /\ pc'[p] \in {"enable", "idle"} /\ pc[p] = "idle"
  BY <1>1, RequestType DEF RacingInvariant
<1>3. \A q \in Procs \ {p} : pc[q] = "idle" \/ Stuck(q)
  BY DEF Call, TakesTurn, RacingInvariant, Typed, TypeOK
<1>4. drive.st = "idle"
  BY <1>2, <1>3 DEF Serves, DriveServes, Unissued, Stuck
<1>5. \A q \in Procs \ {p} : pc[q] = "idle" \/ Abandoned(q)
  BY <1>3 DEF Serves, DriverServes, Stuck, Abandoned
<1>6. UNCHANGED <<request, pointer, wild, driveVars>>
  BY <1>1 DEF Request
<1> QED BY <1>2, <1>4, <1>5, <1>6, CalmRequest

(* The handler finds no null pointer: an interrupt comes only when the     *)
(* current request has its transfer.                                       *)
LEMMA CalmPointer ==
  ASSUME RacingInvariant, NEW a \in Procs, Serves(a), irq, request # None
  PROVE  pointer
<1>1. request \in Procs
  BY DEF RacingInvariant, Typed, TypeOK
<1>2. CASE request = a
  BY <1>2 DEF RacingInvariant, CurrentRequestInDriver, Serves, DriverServes, Window
<1>3. CASE request # a
  <2>1. Abandoned(request)
    BY <1>1, <1>3 DEF RacingInvariant, CurrentRequestInDriver, Serves
  <2> QED BY <2>1 DEF Abandoned
<1> QED BY <1>2, <1>3

(* The handler serves the process that is being served. *)
LEMMA CalmIsr ==
  ASSUME RacingInvariant, ~wild, NEW a \in Procs, Serves(a), Isr
  PROVE  Serves(a)' /\ ~wild'
<1> USE DEF Serves, DriveServes, DriverServes, DataServed, Unissued, Issued, Reading, Sent,
            Window, driveVars, history
<1>0. /\ irq /\ pc[a] \notin Window /\ pc' = pc /\ UNCHANGED <<seen, lbaReg, sectors, hit>>
      /\ request # None => pointer
      /\ drive \in DriveStates /\ TypeOK /\ ReadsOrWrites
  BY CalmPointer DEF Isr, IsrNothingPending, IsrWriteDone, IsrNoData, IsrTransfer, Interrupted,
                     RacingInvariant, Typed, TypeOK
<1>1. CASE UNCHANGED <<dr, request, pointer, wild, drive>>
  <2>1. \A q \in Procs \ {a} : pc'[q] = "idle" \/ Abandoned(q)'
    BY <1>0, <1>1, OthersKept
  <2> QED BY <1>0, <1>1, <2>1
<1>2. CASE IsrNothingPending
  BY <1>1, <1>2 DEF IsrNothingPending
<1>3. CASE IsrWriteDone
  BY <1>0, <1>3 DEF IsrWriteDone
<1>4. CASE IsrNoData
  BY <1>0, <1>1, <1>4 DEF IsrNoData
<1>5. CASE IsrTransfer
  <2>1. request # None /\ pointer /\ drive.st = "drq" /\ drive.cmd # "write"
    BY <1>0, <1>5 DEF IsrTransfer, RacingInvariant, LineTells, Ended
  <2>2. /\ pc[a] \in {"status", "wait"} /\ dr[a].cmd = "read" /\ drive.cmd = "read"
        /\ request = a /\ drive.addr = Addressed(dr[a].lba)
    <3>1. pc[a] \in Steps
      BY <1>0 DEF TypeOK
    <3>2. pc[a] \in Issued \/ Reading(a)
      BY <1>0, <2>1, <3>1 DEF Steps, ReadsOrWrites, Commands
    <3>3. drive.cmd = dr[a].cmd /\ drive.addr = Addressed(dr[a].lba)
      BY <2>1, <3>2
    <3>4. pc[a] # "idle"
      BY <3>2
    <3>5. dr[a].cmd = "read"
      BY <1>0, <2>1, <3>3, <3>4 DEF ReadsOrWrites, Commands
    <3> QED BY <1>0, <2>1, <3>2, <3>3, <3>5
  <2>3. /\ \A q \in Procs :
             /\ dr'[q].cmd = dr[q].cmd /\ dr'[q].lba = dr[q].lba
             /\ q # a => dr'[q].status = dr[q].status
        /\ dr'[a].buffer = drive.data
        /\ dr'[a].status = IF ~pointer' THEN "success" ELSE dr[a].status
    BY <1>5, <2>2, TransferRequests DEF RacingInvariant
  <2>4. /\ request' = (IF pointer' THEN request ELSE None) /\ ~wild'
        /\ drive' = [drive EXCEPT !.st = "idle"]
    <3>1. request' = (IF pointer' THEN request ELSE None)
      BY <1>5 DEF IsrTransfer
    <3>2. ~wild'
      BY <1>5, <2>1 DEF IsrTransfer
    <3>3. dr[request].cmd = "read"
      BY <2>2
    <3>4. drive' = [drive EXCEPT !.st = "idle"]
      BY <1>5, <3>3 DEF IsrTransfer
    <3> QED BY <3>1, <3>2, <3>4
  <2>5. drive'.st = "idle" /\ drive.data = sectors[Addressed(dr[a].lba)]
    BY <1>0, <2>1, <2>2, <2>4 DEF DriveStates, RacingInvariant, SectorReady
  <2>6. \A q \in Procs \ {a} : pc'[q] = "idle" \/ Abandoned(q)'
    BY <1>0, <2>2, <2>3, <2>4, OthersKept
  <2>7. request' = a => pointer'
    BY <2>4, ProcsFacts
  <2> QED BY <1>0, <2>2, <2>3, <2>4, <2>5, <2>6, <2>7
<1> QED BY <1>2, <1>3, <1>4, <1>5 DEF Isr

(* The drive works for the process that is being served. *)
LEMMA CalmDrive ==
  ASSUME RacingInvariant, calm, ~wild, NEW a \in Procs, Serves(a), Drive
  PROVE  Serves(a)' /\ ~wild'
<1> USE DEF Serves, DriveServes, DriverServes, DataServed, Unissued, Issued, Reading, Sent,
            Window, driverVars
<1>0. /\ drive.st = "busy" /\ drive.by = a /\ pc' = pc /\ UNCHANGED <<driverVars, lbaReg>>
      /\ drive \in DriveStates /\ dr \in [Procs -> Requests] /\ pc[a] \in Steps /\ ReadsOrWrites
      /\ sectors \in [Addresses -> Contents \cup {<<>>}]
  BY DEF Drive, DriveReads, DriveAsksForData, DriveFinishes, DriveFails, RacingInvariant,
         Typed, TypeOK
<1>1. \A q \in Procs \ {a} : pc'[q] = "idle" \/ Abandoned(q)'
  BY <1>0, OthersKept
<1>2. /\ pc[a] \in Issued \/ Reading(a) \/ Sent(a)
      /\ pc[a] # "idle" /\ dr[a].cmd \in Commands
      /\ pc[a] = "poll" => seen[a] = "busy"
      /\ pc[a] # "data"
  BY <1>0 DEF Steps, ReadsOrWrites, Commands
<1>3. CASE DriveReads
  <2>1. /\ drive.cmd = "read" /\ pc[a] \notin Window
        /\ drive' = [drive EXCEPT !.st = "drq", !.data = sectors[drive.addr]]
        /\ UNCHANGED <<sectors, hit>>
    BY <1>3 DEF DriveReads, Answers, history
  <2>2. drive'.st = "drq" /\ drive'.cmd = "read" /\ drive'.addr = drive.addr /\ drive'.by = a
    BY <1>0, <2>1 DEF DriveStates
  <2> QED BY <1>0, <1>1, <1>2, <2>1, <2>2
<1>4. CASE DriveAsksForData
  <2>1. /\ drive.cmd = "write" /\ drive' = [drive EXCEPT !.st = "drq"]
        /\ UNCHANGED <<sectors, hit, irq>>
    BY <1>4 DEF DriveAsksForData, history
  <2>2. drive'.st = "drq" /\ drive'.cmd = "write" /\ drive'.addr = drive.addr /\ drive'.by = a
    BY <1>0, <2>1 DEF DriveStates
  <2> QED BY <1>0, <1>1, <1>2, <2>1, <2>2
<1>5. CASE DriveFinishes
  <2>1. /\ drive.cmd \in {"store", "flush"} /\ pc[a] \notin Window
        /\ drive' = [drive EXCEPT !.st = "idle"] /\ UNCHANGED hit
        /\ sectors' = IF drive.cmd = "store"
                      THEN [sectors EXCEPT ![drive.addr] = drive.data] ELSE sectors
    BY <1>5 DEF DriveFinishes, Answers, history
  <2>2. drive'.st = "idle"
    BY <1>0, <2>1 DEF DriveStates
  <2>3. Sent(a)
    BY <1>0, <1>2, <2>1 DEF Commands
  <2>4. a \notin hit => sectors'[Addressed(dr[a].lba)] = dr[a].buffer
    <3>1. Addressed(dr[a].lba) \in Addresses
      BY <1>0, AddressedType DEF Requests
    <3> QED BY <1>0, <2>1, <2>3, <3>1
  <2> QED BY <1>0, <1>1, <2>1, <2>2, <2>3, <2>4
<1>6. CASE DriveFails
  <2>1. /\ pc[a] \notin Window /\ drive' = [drive EXCEPT !.st = "idle"]
        /\ UNCHANGED sectors /\ a \in hit'
    BY <1>0, <1>6 DEF DriveFails, Answers
  <2>2. drive'.st = "idle"
    BY <1>0, <2>1 DEF DriveStates
  <2> QED BY <1>0, <1>1, <1>2, <2>1, <2>2
<1> QED BY <1>3, <1>4, <1>5, <1>6 DEF Drive

-----------------------------------------------------------------------------
(* The theorems.                                                           *)

(* At first any process may be the one that is served: none is.            *)
LEMMA CalmInit == Init => CalmInvariant
<1> SUFFICES ASSUME Init PROVE CalmInvariant
  OBVIOUS
<1>1. PICK a \in Procs : TRUE
  BY ProcsFacts
<1>2. Serves(a)
  BY ProcsFacts DEF Init, Serves, DriveServes, DriverServes, DataServed, Unissued, Issued,
                    Reading, Sent, Window
<1> QED BY <1>2 DEF CalmInvariant, Init

(* A call makes its process the served one; every other step serves the    *)
(* process that was served before.                                         *)
LEMMA CalmStep ==
  ASSUME RacingInvariant, CalmInvariant, [Next]_vars
  PROVE  CalmInvariant'
<1>1. calm' = calm
  BY ChoicesKept
<1> SUFFICES ASSUME calm PROVE ~wild' /\ \E a \in Procs : Serves(a)'
  BY <1>1 DEF CalmInvariant
<1>2. ~wild
  BY DEF CalmInvariant
<1>3. PICK a \in Procs : Serves(a)
  BY DEF CalmInvariant
<1>4. ASSUME NEW p \in Procs, Proceed(p) PROVE ~wild' /\ Serves(a)'
  <2>1. p = a
    BY <1>3, <1>4, OnlyServed
  <2> QED BY <1>2, <1>3, <1>4, <2>1, CalmProceed
<1>5. ASSUME NEW p \in Procs, NEW c \in Commands \cup {"other"}, NEW lba \in Lbas,
             NEW n \in Counts, NEW k \in Blocks, Call(p, c, lba, n, k)
      PROVE  ~wild' /\ Serves(p)'
  BY <1>2, <1>3, <1>5, CalmCall
<1>6. CASE Isr
  BY <1>2, <1>3, <1>6, CalmIsr
<1>7. CASE Drive
  BY <1>2, <1>3, <1>7, CalmDrive
<1>8. CASE UNCHANGED vars
  BY <1>2, <1>3, <1>8 DEF vars, driverVars, driveVars, history, Serves, Abandoned, DriveServes,
                          DriverServes, DataServed, Reading, Sent
<1> QED BY <1>4, <1>5, <1>6, <1>7, <1>8 DEF Next

(* What holds however processes and drive race.                            *)
THEOREM RacingInvariance == Spec => []RacingInvariant
<1>1. RacingInvariant /\ [Next]_vars => RacingInvariant'
  BY RacingStep
<1> QED BY RacingInit, <1>1, PTL DEF Spec

(* What holds besides if processes take turns and the drive is slow.       *)
THEOREM CalmInvariance == Spec => []CalmInvariant
<1>1. RacingInvariant /\ CalmInvariant /\ [Next]_vars => CalmInvariant'
  BY CalmStep
<1> QED BY CalmInit, RacingInvariance, <1>1, PTL DEF Spec

(* Every variable of the driver and of the drive keeps its type.           *)
THEOREM TypeCorrect == Spec => []TypeOK
<1>1. RacingInvariant => TypeOK
  BY DEF RacingInvariant, Typed
<1> QED BY RacingInvariance, <1>1, PTL

(* The handler never has a pointer to the request of a process that has    *)
(* left the driver, race as they may (ata.c 374, 563, 625).                *)
THEOREM RequestOwned == Spec => []CurrentRequestInDriver
<1>1. RacingInvariant => CurrentRequestInDriver
  BY DEF RacingInvariant
<1> QED BY RacingInvariance, <1>1, PTL

(* The handler never enters its busy loop while the drive is busy, race as *)
(* they may (ata.c 523): a latched edge comes from a command that ended.   *)
THEOREM HandlerReturns == Spec => []HandlerDoesNotSpin
<1>1. RacingInvariant => HandlerDoesNotSpin
  BY DEF RacingInvariant, LineTells, Ended, HandlerDoesNotSpin, Interrupted
<1> QED BY RacingInvariance, <1>1, PTL

(* What holds besides if processes take turns, however fast the drive is.  *)
THEOREM TurnsInvariance == Spec => []TurnsInvariant
<1>1. RacingInvariant /\ TurnsInvariant /\ [Next]_vars => TurnsInvariant'
  BY TurnsStep
<1> QED BY TurnsInit, RacingInvariance, <1>1, PTL DEF Spec

(* However fast the drive answers and however many commands fail, a null   *)
(* pointer is used only where the interrupt comes between the two stores   *)
(* that record a read, or before the process ends its own write (ata.c     *)
(* 366-374, 441-442, 585, 605); and never if the drive is slow.            *)
THEOREM NullPointersOvertaken == Spec => NullOnlyIfOvertaken
<1>1. ASSUME RacingInvariant, CalmInvariant, CalmInvariant', TurnsInvariant, [Next]_vars
      PROVE  [turns /\ wild' =>
                wild \/ (~calm /\ \E p \in Procs : OvertakenRead(p) \/ OvertakenWrite(p))]_vars
  <2> SUFFICES ASSUME turns, wild', ~wild
               PROVE  ~calm /\ \E p \in Procs : OvertakenRead(p) \/ OvertakenWrite(p)
    OBVIOUS
  <2>1. ~calm
    BY <1>1, ChoicesKept DEF CalmInvariant
  <2>2. PICK a \in Procs : Alone(a)
    BY <1>1, <2>1 DEF TurnsInvariant
  <2>3. Next
    BY <1>1 DEF vars, driverVars
  <2>4. ASSUME NEW p \in Procs, Proceed(p) PROVE OvertakenWrite(a)
    <3>1. p = a
      BY <2>2, <2>4, AloneProceeds
    <3> QED BY <1>1, <2>2, <2>4, <3>1, AloneProceed
  <2>5. ASSUME NEW p \in Procs, NEW c, NEW lba, NEW n, NEW k, Call(p, c, lba, n, k)
        PROVE  FALSE
    BY <2>5 DEF Call, Request
  <2>6. CASE Isr
    BY <1>1, <2>1, <2>2, <2>6, AloneIsr
  <2>7. ~Drive
    BY DEF Drive, DriveReads, DriveAsksForData, DriveFinishes, DriveFails, driverVars
  <2> QED BY <2>1, <2>3, <2>4, <2>5, <2>6, <2>7 DEF Next
<1> QED BY RacingInvariance, CalmInvariance, TurnsInvariance, <1>1, PTL
        DEF Spec, NullOnlyIfOvertaken

(* The address registers can hold the addresses asked for: bits 8-23 of an *)
(* address never reach them.                                               *)
Addressable == \A lba \in Lbas : Addressed(lba) = lba

(* The process that returns is the one that was served.                    *)
LEMMA ReturnServed ==
  ASSUME RacingInvariant, CalmInvariant, [Next]_vars, calm,
         NEW p \in Procs, Returns(p), p \notin hit
  PROVE  dr[p].buffer = sectors[Addressed(dr[p].lba)]
<1>0. pc \in [Procs -> Steps]
  BY DEF RacingInvariant, Typed, TypeOK
<1>1. pc' # pc
  BY DEF Returns
<1>2. pc'[p] # pc[p] /\ Next
  BY <1>1 DEF Returns, vars
<1>3. Wait(p) \/ FlushDone(p)
  <2>1. ~(Isr \/ Drive)
    BY <1>1 DEF Isr, IsrNothingPending, IsrWriteDone, IsrNoData, IsrTransfer, Drive, DriveReads,
                DriveAsksForData, DriveFinishes, DriveFails
  <2>2. ASSUME NEW r \in Procs, NEW c, NEW lba, NEW n, NEW k, Call(r, c, lba, n, k)
        PROVE  FALSE
    BY <1>0, <2>2 DEF Call, Request, At, Returns
  <2>3. ASSUME NEW r \in Procs, Proceed(r) PROVE Wait(p) \/ FlushDone(p)
    <3>1. r = p \/ pc'[p] = pc[p]
      BY <1>0, <2>3
         DEF Proceed, EnableInterrupts, WaitReady, SetAddress, IssueCommand, RecordRequest,
             PointAtTransfer, ReadStatus, PollStatus, SendBlock, BlockSent, FinishWrite, Wait,
             FlushCache, FlushDone, AskAgain, Request, At
    <3>2. r = p
      BY <1>2, <3>1
    <3> QED
      BY <1>0, <2>3, <3>2
         DEF Proceed, EnableInterrupts, WaitReady, SetAddress, IssueCommand, RecordRequest,
             PointAtTransfer, ReadStatus, PollStatus, SendBlock, BlockSent, FinishWrite, Wait,
             FlushCache, FlushDone, AskAgain, Request, At, Returns
  <2> QED BY <1>2, <2>1, <2>2, <2>3 DEF Next
<1>4. PICK a \in Procs : Serves(a)
  BY DEF CalmInvariant
<1>5. p = a
  BY <1>3, <1>4, OnlyServed DEF Proceed
<1>6. CASE FlushDone(p)
  BY <1>4, <1>5, <1>6 DEF FlushDone, At, Serves, DataServed, Sent
<1>7. CASE Wait(p)
  <2>1. dr[p].cmd # "write"
    BY <1>0, <1>7 DEF Wait, At, Returns
  <2>2. dr[p].cmd = "read"
    BY <1>7, <2>1 DEF Wait, At, RacingInvariant, Typed, ReadsOrWrites, Commands
  <2> QED BY <1>4, <1>5, <1>7, <2>2 DEF Wait, At, Serves, DataServed
<1> QED BY <1>3, <1>6, <1>7

(* When a request returns, its data are in the buffer or on the disk, if   *)
(* the registers can hold the addresses asked for, processes take turns    *)
(* and the drive is slow and failed no command of that call (ata.c         *)
(* 383-391).                                                               *)
THEOREM DataMoved ==
  ASSUME Addressable
  PROVE  Spec => ReturnsWhenServed
<1>1. ASSUME RacingInvariant, CalmInvariant, [Next]_vars
      PROVE  [\A p \in Procs : calm /\ Returns(p) /\ p \notin hit => Served(p)]_vars
  <2>1. ASSUME NEW p \in Procs, calm, Returns(p), p \notin hit PROVE Served(p)
    <3>1. dr[p].buffer = sectors[Addressed(dr[p].lba)]
      BY <1>1, <2>1, ReturnServed
    <3>2. dr[p].lba \in Lbas
      BY <1>1 DEF RacingInvariant, Typed, TypeOK, Requests
    <3> QED BY <3>1, <3>2 DEF Addressable, Served
  <2> QED BY <2>1
<1> QED BY RacingInvariance, CalmInvariance, <1>1, PTL DEF Spec, ReturnsWhenServed

=============================================================================

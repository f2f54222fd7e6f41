------------------------------ MODULE RamDisk ------------------------------
(***************************************************************************)
(* The RAM disk: requests that processes make through _rd_ctrl             *)
(* (ramdisk.c), and the clock handler that serves them (clock.c), with as  *)
(* much of the scheduler as their interaction needs.  A request is made    *)
(* with interrupts enabled; a clock tick may come between the insertion of *)
(* the request and that of its process.                                    *)
(*                                                                         *)
(* A process makes a request, then polls its status and sleeps one second  *)
(* between polls (ramdisk_test in device.c).  Processes have one level;    *)
(* Idle, one level below, runs when none of them is ready.  The switch in  *)
(* _rd_request is commented out, so a process that waits for a request     *)
(* goes on running: the clock may queue it while it runs or sleeps.        *)
(***************************************************************************)
EXTENDS Integers, Sequences, SequencesExt

CONSTANTS Procs,             \* processes that use the RAM disk
          Cmds,              \* commands they issue
          Lbas,              \* byte offsets they ask for, one block each
          MaxRequests,       \* bound on the number of requests
          RD_MAX_LBA,        \* blocks of the disk
          DISK_BLOCK_SIZE,   \* bytes of a block
          Base,              \* address of _ramdisk
          Word,              \* the arithmetic is modulo this, 2^32 in the code
          TICKS_PER_SECOND,  \* clock ticks that a poll sleeps
          QNodes             \* queue nodes left for the queues below

ASSUME RamDiskAssumption ==
  /\ Cmds \subseteq {"read", "write", "other"} /\ Lbas \subseteq Nat /\ MaxRequests \in Nat
  /\ {RD_MAX_LBA, DISK_BLOCK_SIZE, Base, Word, TICKS_PER_SECOND} \subseteq Nat \ {0}
  /\ QNodes \in Nat

VARIABLES cur,        \* _current
          status,     \* pcb->status of each process
          ready,      \* the ready queue of the processes' level
          sleeping,   \* _sleeping: processes and the ticks they still sleep
          blocked,    \* _blocked_requests
          pending,    \* pending_request of each process is set
          ioq,        \* _ramdisk_io_pending, of the owners of the requests
          req,        \* the request of each process
          pc,         \* where each process is
          disk,       \* contents of the blocks
          made,       \* requests made so far
          quantum,    \* ticks the current process has left
          phase,      \* _system_time modulo ramdisk_service
          stopped     \* why the machine has stopped: a panic, a clock handler
                      \* that loops for ever or that missed the disk

schedVars == <<cur, status, ready, sleeping, quantum, phase, stopped>>
diskVars == <<blocked, pending, ioq, req, disk>>
vars == <<schedVars, diskVars, pc, made>>

----------------------------------------------------------------------------

Idle == "idle"

QUANTUM_DEFAULT == 2
RAMDISK_SERVICE == 4

Pending == {"read_pending", "write_pending"}

(* The block at a byte offset.                                             *)
Block(lba) == lba \div DISK_BLOCK_SIZE

(* The test of _rd_request, which subtracts the address of the disk from   *)
(* an offset and counts the disk in blocks.                                *)
Accepted(lba) == DISK_BLOCK_SIZE <= (RD_MAX_LBA - (lba - Base)) % Word

(* Whether a block is on the disk.                                         *)
OnDisk(lba) == lba + DISK_BLOCK_SIZE <= RD_MAX_LBA * DISK_BLOCK_SIZE

(* A queue node is free when ready, asleep, io and blocked hold entries of *)
(* these queues.  The node of Idle is its own.                             *)
Free(rq, asleep, io, bl) == Len(rq) + Len(asleep) + Len(io) + Len(bl) < QNodes

HasNode == Free(ready, sleeping, ioq, blocked)

(* _dispatch with given ready queue and states of the processes: the first *)
(* process runs if it is ready, and otherwise the kernel panics.           *)
Dispatch(rq, st) ==
  \/ /\ rq = <<>>
     /\ cur' = Idle /\ status' = st /\ ready' = rq
     /\ quantum' = QUANTUM_DEFAULT /\ UNCHANGED stopped
  \/ /\ rq # <<>> /\ st[Head(rq)] = "ready"
     /\ cur' = Head(rq) /\ status' = [st EXCEPT ![Head(rq)] = "running"]
     /\ ready' = Tail(rq)
     /\ quantum' = QUANTUM_DEFAULT /\ UNCHANGED stopped
  \/ /\ rq # <<>> /\ st[Head(rq)] # "ready"
     /\ stopped' = "panic" /\ status' = st /\ ready' = Tail(rq)
     /\ UNCHANGED <<cur, quantum>>

----------------------------------------------------------------------------
(* The processes.                                                          *)

Running(p) == cur = p /\ stopped = "no"

(* _rd_request up to the insertion into _ramdisk_io_pending.  A request    *)
(* with a wrong size or command ends there, and the process gives up; one  *)
(* that gets no queue node goes on.                                        *)
Request(p, c, lba) ==
  /\ Running(p) /\ pc[p] = "user"
  /\ made < MaxRequests /\ made' = made + 1
  /\ LET result == CASE ~Accepted(lba) -> "invalid_size"
                     [] Accepted(lba) /\ c = "other" -> "invalid_cmd"
                     [] Accepted(lba) /\ c # "other" /\ ~HasNode -> "no_node"
                     [] Accepted(lba) /\ c = "read"  /\ HasNode -> "read_pending"
                     [] Accepted(lba) /\ c = "write" /\ HasNode -> "write_pending"
     IN /\ req' = [req EXCEPT ![p] = [cmd |-> c, lba |-> lba, data |-> made + 1,
                                      status |-> result]]
        /\ ioq' = IF result \in Pending THEN Append(ioq, p) ELSE ioq
        /\ pending' = [pending EXCEPT ![p] = @ \/ result \in Pending \cup {"no_node"}]
        /\ pc' = [pc EXCEPT ![p] = IF result \in {"invalid_size", "invalid_cmd"} THEN "user"
                                     ELSE IF c = "write" THEN "poll" ELSE "queued"]
  /\ UNCHANGED <<schedVars, blocked, disk>>

(* A read then queues its process, if it gets a node; the switch to        *)
(* another one that should follow is commented out.                        *)
BlockProcess(p) ==
  /\ Running(p) /\ pc[p] = "queued"
  /\ blocked' = IF HasNode THEN Append(blocked, p) ELSE blocked
  /\ pc' = [pc EXCEPT ![p] = "poll"]
  /\ UNCHANGED <<schedVars, pending, ioq, req, disk, made>>

(* The poll succeeds, or the process sleeps, if it gets a node; all sleeps *)
(* are equally long, so a new sleeper is the last to wake.                 *)
PollDone(p) ==
  /\ Running(p) /\ pc[p] = "poll" /\ req[p].status = "success"
  /\ pc' = [pc EXCEPT ![p] = "user"]
  /\ UNCHANGED <<schedVars, diskVars, made>>

PollSleep(p) ==
  /\ Running(p) /\ pc[p] = "poll" /\ req[p].status # "success"
  /\ LET st == [status EXCEPT ![p] = "sleeping"]
     IN \/ /\ HasNode
           /\ sleeping' = Append(sleeping, [proc |-> p, left |-> TICKS_PER_SECOND])
           /\ Dispatch(ready, st)
        \/ /\ ~HasNode
           /\ stopped' = "panic" /\ status' = st
           /\ UNCHANGED <<cur, ready, sleeping, quantum>>
  /\ UNCHANGED <<phase, diskVars, pc, made>>

----------------------------------------------------------------------------
(* The clock.                                                              *)

(* The search through _blocked_requests: processes with other requests are *)
(* put back at the end until the owner is found; without it, a queue that  *)
(* is not empty is rotated for ever.                                       *)
Found(p) == Contains(blocked, p) /\ pending[p]

Position(p) == CHOOSE i \in 1 .. Len(blocked) :
                 blocked[i] = p /\ \A j \in 1 .. i - 1 : blocked[j] # p

(* Mutant: the owner is put back too.                                      *)
RotatedKeepsOwner(p) ==
  SubSeq(blocked, Position(p) + 1, Len(blocked)) \o SubSeq(blocked, 1, Position(p))

Rotated(p) ==
  SubSeq(blocked, Position(p) + 1, Len(blocked)) \o SubSeq(blocked, 1, Position(p) - 1)

(* Mutant: the status of a write is forgotten.                             *)
ServeWriteNoStatus(p) ==
  /\ disk' = [disk EXCEPT ![Block(req[p].lba)] = req[p].data]
  /\ UNCHANGED <<req, blocked, pending>>

ServeWrite(p) ==
  /\ disk' = [disk EXCEPT ![Block(req[p].lba)] = req[p].data]
  /\ req' = [req EXCEPT ![p].status = "success"]
  /\ UNCHANGED <<blocked, pending>>

(* A read copies the block, then looks for the process to schedule.        *)
ServeRead(p) ==
  /\ req' = [req EXCEPT ![p].data = disk[Block(req[p].lba)],
                        ![p].status = CASE Found(p) -> "success"
                                        [] blocked = <<>> -> "finished_error"
                                        [] OTHER -> @]
  /\ IF Found(p)
     THEN blocked' = Rotated(p) /\ pending' = [pending EXCEPT ![p] = FALSE]
     ELSE UNCHANGED <<blocked, pending>>
  /\ UNCHANGED disk

(* _schedule of a process that has just left a queue, so there is a node.  *)
Woken(st, ps) == [p \in Procs |-> IF Contains(ps, p) THEN "ready" ELSE st[p]]

(* The end of the handler: the quantum is charged, and when it is used up  *)
(* another process runs; without a node the current one is lost.           *)
Charge(rq, st) ==
  IF quantum = 0
  THEN Dispatch(IF cur # Idle /\ Free(rq, sleeping', ioq', blocked') THEN Append(rq, cur)
                ELSE rq,
                Woken(st, <<cur>>))
  ELSE /\ quantum' = quantum - 1 /\ ready' = rq /\ status' = st
       /\ UNCHANGED <<cur, stopped>>

(* The handler does not come to its end.                                   *)
Stop(why, rq, st) ==
  stopped' = why /\ ready' = rq /\ status' = st /\ UNCHANGED <<cur, quantum>>

(* Mutant: the request stays in the queue.                                 *)
ServedLeft == ioq

(* The queue after _q_remove.                                              *)
Served == Tail(ioq)

(* The sleepers that wake at this tick, and the others.                    *)
Due == SelectSeq(sleeping, LAMBDA e : e.left = 1)

Asleep == LET rest == SelectSeq(sleeping, LAMBDA e : e.left > 1)
          IN [i \in DOMAIN rest |-> [rest[i] EXCEPT !.left = @ - 1]]

ProcsOf(s) == [i \in DOMAIN s |-> s[i].proc]

(* _isr_clock: sleepers are woken; every fourth tick serves a request.  A  *)
(* copy may go beyond the end of _ramdisk.                                 *)
Tick ==
  /\ stopped = "no"
  /\ phase' = (phase + 1) % RAMDISK_SERVICE
  /\ sleeping' = Asleep
  /\ LET due == ProcsOf(Due)
         rq  == ready \o due
         st  == Woken(status, due)
         p   == Head(ioq)
     IN \/ /\ phase' # 0 \/ ioq = <<>>
           /\ UNCHANGED diskVars
           /\ Charge(rq, st)
        \/ /\ phase' = 0 /\ ioq # <<>> /\ ioq' = Served
           /\ \/ /\ ~OnDisk(req[p].lba)
                 /\ UNCHANGED <<req, blocked, pending, disk>>
                 /\ Stop("wild", rq, st)
              \/ /\ OnDisk(req[p].lba) /\ req[p].cmd = "write"
                 /\ ServeWrite(p)
                 /\ Charge(rq, st)
              \/ /\ OnDisk(req[p].lba) /\ req[p].cmd = "read"
                 /\ ServeRead(p)
                 /\ CASE Found(p) -> Charge(Append(rq, p), Woken(st, <<p>>))
                      [] ~Found(p) /\ blocked = <<>> -> Charge(rq, st)
                      [] ~Found(p) /\ blocked # <<>> -> Stop("loop", rq, st)
  /\ UNCHANGED <<pc, made>>

----------------------------------------------------------------------------

Init ==
  /\ cur = Idle /\ sleeping = <<>> /\ blocked = <<>> /\ ioq = <<>>
  /\ ready \in SetToSeqs(Procs) /\ status = [p \in Procs |-> "ready"]
  /\ pending = [p \in Procs |-> FALSE]
  /\ req = [p \in Procs |-> [cmd |-> "other", lba |-> 0, data |-> 0, status |-> "new"]]
  /\ pc = [p \in Procs |-> "user"]
  /\ disk = [b \in 0 .. RD_MAX_LBA - 1 |-> 0]
  /\ made = 0 /\ stopped = "no" /\ quantum = QUANTUM_DEFAULT /\ phase = 0

Step(p) ==
  \/ \E c \in Cmds, lba \in Lbas : Request(p, c, lba)
  \/ BlockProcess(p) \/ PollDone(p) \/ PollSleep(p)

Next == (\E p \in Procs : Step(p)) \/ Tick

Spec == Init /\ [][Next]_vars

(* The timer keeps ticking; a process that gets the CPU again and again    *)
(* goes on, though it need not make another request.                       *)
LiveSpec ==
  /\ Spec /\ WF_vars(Tick)
  /\ \A p \in Procs : SF_vars(BlockProcess(p) \/ PollDone(p) \/ PollSleep(p))

----------------------------------------------------------------------------
(* Properties.                                                             *)

(* Every variable keeps its type.                                          *)
TypeOK ==
  /\ cur \in Procs \cup {Idle}
  /\ status \in [Procs -> {"ready", "running", "sleeping"}]
  /\ {ready, blocked, ioq} \subseteq Seq(Procs)
  /\ sleeping \in Seq([proc : Procs, left : 1 .. TICKS_PER_SECOND])
  /\ pending \in [Procs -> BOOLEAN]
  /\ req \in [Procs -> [cmd : {"read", "write", "other"}, lba : Lbas \cup {0},
                        data : 0 .. MaxRequests,
                        status : Pending \cup {"new", "success", "finished_error",
                                               "invalid_size", "invalid_cmd", "no_node"}]]
  /\ pc \in [Procs -> {"user", "queued", "poll"}]
  /\ disk \in [0 .. RD_MAX_LBA - 1 -> 0 .. MaxRequests]
  /\ made \in 0 .. MaxRequests /\ stopped \in {"no", "loop", "wild", "panic"}
  /\ quantum \in 0 .. QUANTUM_DEFAULT /\ phase \in 0 .. RAMDISK_SERVICE - 1

(* A queue holds no process twice.                                         *)
Once(s) == \A i, j \in 1 .. Len(s) : s[i] = s[j] => i = j

(* The clock finds in _ramdisk_io_pending only requests that still wait,   *)
(* each once (ramdisk.c 92-123, clock.c 82): a request that was served,    *)
(* whose structure may have been released, is never served again.          *)
QueuedRequestsWait ==
  Once(ioq) /\ \A p \in Procs : Contains(ioq, p) => req[p].status \in Pending

(* A process in _blocked_requests is there once and waits for a read that  *)
(* is queued or that failed (ramdisk.c 103, clock.c 91-117); one that was  *)
(* served is not left there to be scheduled again later.                   *)
BlockedWaitForRead ==
  /\ Once(blocked)
  /\ stopped = "no" =>
       \A p \in Procs : Contains(blocked, p) =>
         /\ pending[p] /\ req[p].cmd = "read"
         /\ Contains(ioq, p) \/ req[p].status \in {"finished_error", "no_node"}

(* _schedule has failed to queue p: it neither runs nor is in a queue that *)
(* it will run from.                                                       *)
Lost(p) == cur # p /\ ~Contains(ready \o ProcsOf(sleeping), p)

(* A write that is queued completes: the process leaves its poll, however  *)
(* reads and other processes share the queues (ramdisk.c 112-123, clock.c  *)
(* 120-124), unless the machine stops or the process is lost for lack of a *)
(* node (clock.c 139).                                                     *)
WritesComplete ==
  \A p \in Procs :
    (req[p].status = "write_pending") ~> (pc[p] = "user" \/ stopped # "no" \/ Lost(p))

----------------------------------------------------------------------------
(* What the code's comments promise and the code does not keep.            *)

(* Every request completes: the poll for DISK_STATUS_IO_SUCCESS (device.c  *)
(* 127, 147) ends.                                                         *)
Completes == \A p \in Procs : (pc[p] # "user") ~> (pc[p] = "user")

(* A process that waits for a request waits in _blocked_requests, and is   *)
(* scheduled when it is served (ramdisk.c 102, clock.c 93): it is never in *)
(* two queues, nor queued while it runs.                                   *)
InOneQueue ==
  LET all == ready \o ProcsOf(sleeping) \o blocked
  IN Once(all) /\ ~Contains(all, cur)

(* The search for the process of a request ends (clock.c 91).              *)
ClockReturns == stopped # "loop"

(* _dispatch meets only ready processes: a panic for any other "should     *)
(* never happen!" (scheduler.c 109).  A reader that is served while it     *)
(* runs is in the ready queue, and may sleep before it leaves it.          *)
NeverPanics == stopped # "panic"

(* A request outside the disk is refused (ramdisk.c 80).                   *)
StaysOnDisk == stopped # "wild"

============================================================================

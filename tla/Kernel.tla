------------------------------- MODULE Kernel -------------------------------
(***************************************************************************)
(* Processes, scheduling and the blocking system calls of the sp2 kernel:  *)
(* src/processes.c, stacks.c, scheduler.c, clock.c, the process part of    *)
(* system.c and syscalls.c, and the receive side of sio.c as far as it     *)
(* blocks and wakes processes.                                             *)
(*                                                                         *)
(* Every handler is entered through an interrupt gate, so it runs with     *)
(* interrupts masked until it returns to the interrupted or the newly      *)
(* dispatched process.  The variable mode is the handler in progress:      *)
(* "user" (a process runs, interrupts on), "clock" (the wake-up loop of    *)
(* _isr_clock), "dispatch" (the search loop of _dispatch) or "panic".  An  *)
(* iteration of either loop is one step; nothing else is enabled meanwhile.*)
(*                                                                         *)
(* A PCB is its index in _pcbs, a stack its index in _stacks, both from 1. *)
(*                                                                         *)
(* The queue nodes are shared with the rest of the system: _free_shms, the *)
(* requests pending on the ATA disk and on the RAM disk, and the processes *)
(* blocked on the latter.  Here the rest takes and returns nodes as it     *)
(* likes; what its queues hold is the matter of SharedMem, Ata, RamDisk.   *)
(***************************************************************************)
EXTENDS KQueue

CONSTANTS
  MAX_PROCS,         \* size of _pcbs and of _stacks
  MAX_SHMS,          \* number of shared-memory segments
  FUDGE_FACTOR,      \* queue nodes to spare
  BUF_SIZE,          \* capacity of the SIO input buffer
  QUANTUM_DEFAULT,   \* ticks a process is given when dispatched
  TICKS_PER_SECOND,  \* TIMER_TICKS_PER_SECOND
  PidMod,            \* number of PIDs: 2^16 in the code
  TimeMod,           \* number of values of _system_time: 2^32 in the code
  TimeBound,         \* bound: the clock does not tick past this time
  LentBound,         \* bound: the rest of the system takes no more nodes
  SleepArgs,         \* arguments processes give to sleep()
  LevelArgs          \* levels processes give to spawnl(), as uint8_t

ASSUME SizeAssumption ==
  /\ MAX_PROCS \in Nat /\ MAX_PROCS >= 3
  /\ MAX_SHMS \in Nat /\ FUDGE_FACTOR \in Nat /\ LentBound \in Nat
  /\ BUF_SIZE \in Nat

ASSUME ClockAssumption ==
  /\ QUANTUM_DEFAULT \in Nat
  /\ TICKS_PER_SECOND \in Nat \ {0}
  /\ TimeMod \in Nat \ {0}
  /\ TimeBound \in Nat
  /\ SleepArgs \subseteq Nat

ASSUME PidAssumption ==
  /\ PidMod \in Nat /\ PidMod > 3
  /\ LevelArgs \subseteq Nat

VARIABLES
  status,    \* pcb->status
  level,     \* pcb->level
  pid,       \* pcb->pid
  stack,     \* pcb->stack, 0 when null
  q,         \* the contents of every queue of the kernel
  current,   \* _current
  quantum,   \* _current->quantum
  nextPid,   \* _next_pid
  time,      \* _system_time
  incount,   \* _incount: characters waiting in the SIO input buffer
  mode,      \* the handler in progress
  lent,      \* nodes in the queues of the rest of the system
  overdrawn  \* history: the rest has held more nodes than its share

vars == <<status, level, pid, stack, q, current, quantum, nextPid, time,
          incount, mode, lent, overdrawn>>

procVars == <<level, pid, stack, nextPid>>
poolVars == <<lent, overdrawn>>

PCBs == 1 .. MAX_PROCS
Stacks == 1 .. MAX_PROCS

PROC_FREE == 0
PROC_NEW == 1
PROC_READY == 2
PROC_RUNNING == 3
PROC_ZOMBIE == 4
PROC_SLEEPING == 5
PROC_BLOCKED == 6

MLQ_LEVELS == 3
LEVEL_DEFAULT == 1
LEVEL_LOW == 2
Levels == 0 .. MLQ_LEVELS - 1

(* The queues.  A ready queue is named by its level. *)
Sleeping == 3
Reading == 4
FreePcbs == 5
FreeStacks == 6
Queues == 0 .. 6
PcbQueues == 0 .. 5

(* The idle process has the first PCB: _init creates it first. *)
Idle == 1

(***************************************************************************)
(* Queue nodes are shared by all queues.  A node is in a queue or on the   *)
(* free list, so the free list is empty when NQNODES nodes are in use.     *)
(* The size of _qnodes gives every PCB and every stack a node, and leaves  *)
(* the rest of the system its share.                                       *)
(***************************************************************************)
NQNODES == 2 * MAX_PROCS + MAX_SHMS + FUDGE_FACTOR

Share == MAX_SHMS + FUDGE_FACTOR

Queued(qq) == Len(qq[0]) + Len(qq[1]) + Len(qq[2]) + Len(qq[Sleeping])
              + Len(qq[Reading]) + Len(qq[FreePcbs])

Used(qq) == Queued(qq) + Len(qq[FreeStacks])

HasNode(qq) == Used(qq) + lent < NQNODES

(* _q_insert: without a free node the queue is left alone. *)
QInsert(qq, id, key, data) ==
  IF ~HasNode(qq) THEN qq
  ELSE [qq EXCEPT ![id] = IF id = Sleeping THEN InsertOrdered(@, key, data)
                          ELSE InsertFifo(@, data)]

QRemove(qq, id) == [qq EXCEPT ![id] = Tail(@)]

First(id) == Head(q[id]).data

(***************************************************************************)
(* _schedule: a bad level leaves both the status and the queues alone, and *)
(* no caller looks at the result.                                          *)
(***************************************************************************)
ScheduleQ(qq, lv, p) ==
  IF lv >= MLQ_LEVELS THEN qq ELSE QInsert(qq, lv, 0, p)

(* Mutant: the status is not set. *)
ScheduleStatusKept(st, lv, p) == st

ScheduleStatus(st, lv, p) ==
  IF lv >= MLQ_LEVELS THEN st ELSE [st EXCEPT ![p] = PROC_READY]

(* _cleanup: the stack first, then the PCB, to the ends of their pools. *)
CleanupQ(qq, p) ==
  QInsert(IF stack[p] = 0 THEN qq ELSE QInsert(qq, FreeStacks, 0, stack[p]),
          FreePcbs, 0, p)

Cleanup(p) == /\ q' = CleanupQ(q, p)
              /\ status' = [status EXCEPT ![p] = PROC_FREE]

(***************************************************************************)
(* The state _init leaves behind: idle, user_first and _ata_test_proc      *)
(* created and scheduled in this order, then the first _dispatch.  All     *)
(* segments are in _free_shms.                                             *)
(***************************************************************************)
Pool == [i \in 1 .. MAX_PROCS - 3 |-> QNode(0, i + 3)]

Init ==
  /\ status = [p \in PCBs |-> CASE p = 2 -> PROC_RUNNING
                                [] p \in {1, 3} -> PROC_READY
                                [] OTHER -> PROC_FREE]
  /\ level = [p \in PCBs |-> CASE p = Idle -> LEVEL_LOW
                               [] p \in {2, 3} -> LEVEL_DEFAULT
                               [] OTHER -> 0]
  /\ pid = [p \in PCBs |-> IF p <= 3 THEN p - 1 ELSE 0]
  /\ stack = [p \in PCBs |-> IF p <= 3 THEN p ELSE 0]
  /\ q = [id \in Queues |-> CASE id = LEVEL_LOW -> <<QNode(0, Idle)>>
                              [] id = LEVEL_DEFAULT -> <<QNode(0, 3)>>
                              [] id \in {FreePcbs, FreeStacks} -> Pool
                              [] OTHER -> <<>>]
  /\ current = 2
  /\ quantum = QUANTUM_DEFAULT
  /\ nextPid = 3
  /\ time = 0
  /\ incount = 0
  /\ mode = "user"
  /\ lent = MAX_SHMS
  /\ overdrawn = FALSE

(***************************************************************************)
(* _dispatch, one iteration: the first entry of the highest non-empty      *)
(* level is run, reaped, or a reason to panic.                             *)
(***************************************************************************)
TopLevel(l) == q[l] # <<>> /\ \A m \in 0 .. l - 1 : q[m] = <<>>

Panic == /\ mode' = "panic"
         /\ UNCHANGED <<status, q, current, quantum>>

Run(l, p) == /\ q' = QRemove(q, l)
             /\ status' = [status EXCEPT ![p] = PROC_RUNNING]
             /\ quantum' = QUANTUM_DEFAULT
             /\ current' = p
             /\ mode' = "user"

ReapRequeues(l, p) == \* Mutant: a zombie goes back to its queue.
  /\ q' = ScheduleQ(QRemove(q, l), level[p], p)
  /\ UNCHANGED <<status, current, quantum, mode>>

Reap(l, p) == /\ q' = CleanupQ(QRemove(q, l), p)
              /\ status' = [status EXCEPT ![p] = PROC_FREE]
              /\ UNCHANGED <<current, quantum, mode>>

Dispatch ==
  /\ mode = "dispatch"
  /\ IF \A l \in Levels : q[l] = <<>> THEN Panic
     ELSE \E l \in Levels :
            /\ TopLevel(l)
            /\ CASE status[First(l)] = PROC_READY -> Run(l, First(l))
                 [] status[First(l)] = PROC_ZOMBIE -> Reap(l, First(l))
                 [] OTHER -> Panic
  /\ UNCHANGED <<procVars, poolVars, time, incount>>

(***************************************************************************)
(* _isr_clock: the tick, the wake-up loop, then the quantum.               *)
(***************************************************************************)
Tick == /\ mode = "user"
        /\ time < TimeBound
        /\ time' = (time + 1) % TimeMod
        /\ mode' = "clock"
        /\ UNCHANGED <<status, q, current, quantum, procVars, poolVars, incount>>

WakeSleeperKeeps == \* Mutant: the woken process stays in the sleep queue.
  /\ mode = "clock"
  /\ FirstIsLe(q[Sleeping], time)
  /\ LET p == First(Sleeping)
     IN /\ q' = ScheduleQ(q, level[p], p)
        /\ status' = ScheduleStatus(status, level[p], p)
  /\ UNCHANGED <<current, quantum, procVars, poolVars, time, incount, mode>>

WakeSleeper ==
  /\ mode = "clock"
  /\ FirstIsLe(q[Sleeping], time)
  /\ LET p == First(Sleeping)
     IN /\ q' = ScheduleQ(QRemove(q, Sleeping), level[p], p)
        /\ status' = ScheduleStatus(status, level[p], p)
  /\ UNCHANGED <<current, quantum, procVars, poolVars, time, incount, mode>>

ChargeQuantum ==
  /\ mode = "clock"
  /\ ~FirstIsLe(q[Sleeping], time)
  /\ IF quantum = 0
     THEN /\ q' = ScheduleQ(q, level[current], current)
          /\ status' = ScheduleStatus(status, level[current], current)
          /\ mode' = "dispatch"
          /\ UNCHANGED quantum
     ELSE /\ quantum' = quantum - 1
          /\ mode' = "user"
          /\ UNCHANGED <<q, status>>
  /\ UNCHANGED <<current, procVars, poolVars, time, incount>>

(***************************************************************************)
(* System calls.  The idle process only ever calls write(), which does not *)
(* touch the state modelled here.                                          *)
(***************************************************************************)
Syscall == mode = "user" /\ current # Idle

(* _sys_exit, _sys_kill of the caller's own PID, and an unknown code. *)
Exit == /\ Syscall
        /\ Cleanup(current)
        /\ mode' = "dispatch"
        /\ UNCHANGED <<current, quantum, procVars, poolVars, time, incount>>

(* _sys_kill of another PID hits the first active PCB that has it. *)
HasPid(p, n) == pid[p] = n /\ status[p] > PROC_NEW

(* The PCB kill(n) finds. *)
Victim(p, n) == HasPid(p, n) /\ \A r \in 1 .. p - 1 : ~HasPid(r, n)

KillAny(n) == \* Mutant: PID 0 is not refused.
  /\ Syscall
  /\ n # pid[current]
  /\ \E p \in PCBs : Victim(p, n) /\ status' = [status EXCEPT ![p] = PROC_ZOMBIE]
  /\ UNCHANGED <<q, current, quantum, procVars, poolVars, time, incount, mode>>

KillFrees(n) == \* Mutant: the PCB is freed at once.
  /\ Syscall
  /\ n # 0 /\ n # pid[current]
  /\ \E p \in PCBs : Victim(p, n) /\ Cleanup(p)
  /\ UNCHANGED <<current, quantum, procVars, poolVars, time, incount, mode>>

KillFreesStack(n) == \* Mutant: the stack is returned at once.
  /\ Syscall
  /\ n # 0 /\ n # pid[current]
  /\ \E p \in PCBs : /\ Victim(p, n)
                     /\ status' = [status EXCEPT ![p] = PROC_ZOMBIE]
                     /\ q' = QInsert(q, FreeStacks, 0, stack[p])
  /\ UNCHANGED <<current, quantum, procVars, poolVars, time, incount, mode>>

Kill(n) ==
  /\ Syscall
  /\ n # 0 /\ n # pid[current]
  /\ \E p \in PCBs : /\ Victim(p, n)
                     /\ status' = [status EXCEPT ![p] = PROC_ZOMBIE]
  /\ UNCHANGED <<q, current, quantum, procVars, poolVars, time, incount, mode>>

(* _spawn: PCB, stack, _make_proc, then child and parent are scheduled. *)
MakeProc(p, s, lv) == /\ stack' = [stack EXCEPT ![p] = s]
                      /\ pid' = [pid EXCEPT ![p] = nextPid]
                      /\ nextPid' = (nextPid + 1) % PidMod
                      /\ level' = [level EXCEPT ![p] = lv]

SpawnBoth(qq, p, lv) ==
  /\ q' = ScheduleQ(ScheduleQ(qq, lv, p), level[current], current)
  /\ status' = ScheduleStatus(
                 ScheduleStatus([status EXCEPT ![p] = PROC_FREE], lv, p),
                 level[current], current)
  /\ mode' = "dispatch"

Spawn(lv) ==
  /\ Syscall
  /\ q[FreePcbs] # <<>>
  /\ LET p == First(FreePcbs)
         q1 == QRemove(q, FreePcbs)
     IN IF q1[FreeStacks] = <<>>
        THEN /\ q' = QInsert(q1, FreePcbs, 0, p)
             /\ status' = [status EXCEPT ![p] = PROC_FREE]
             /\ UNCHANGED <<procVars, mode>>
        ELSE /\ MakeProc(p, First(FreeStacks), lv)
             /\ SpawnBoth(QRemove(q1, FreeStacks), p, lv)
  /\ UNCHANGED <<current, quantum, poolVars, time, incount>>

(* _sys_sleep: 0 is a yield; otherwise block until the wake-up time. *)
Yield == /\ Syscall
         /\ q' = ScheduleQ(q, level[current], current)
         /\ status' = ScheduleStatus(status, level[current], current)
         /\ mode' = "dispatch"
         /\ UNCHANGED <<current, quantum, procVars, poolVars, time, incount>>

Wakeup(n) == (time + n * TICKS_PER_SECOND) % TimeMod

Block(st, id, key) ==
  /\ status' = [status EXCEPT ![current] = st]
  /\ q' = QInsert(q, id, key, current)
  /\ mode' = IF HasNode(q) THEN "dispatch" ELSE "panic"
  /\ UNCHANGED <<current, quantum>>

Sleep(n) == /\ Syscall
            /\ n # 0
            /\ Block(PROC_SLEEPING, Sleeping, Wakeup(n))
            /\ UNCHANGED <<procVars, poolVars, time, incount>>

(* _sys_read: take a buffered character, or block until one arrives. *)
Read == /\ Syscall
        /\ IF incount > 0
           THEN /\ incount' = incount - 1
                /\ UNCHANGED <<status, q, mode, current, quantum>>
           ELSE /\ Block(PROC_BLOCKED, Reading, 0)
                /\ UNCHANGED incount
        /\ UNCHANGED <<procVars, poolVars, time>>

(***************************************************************************)
(* The receive event of _isr_sio: a blocked reader gets the character,     *)
(* otherwise it is buffered, or dropped when the buffer is full.           *)
(***************************************************************************)
ReceiveLoses == \* Mutant: the reader is not scheduled.
  /\ mode = "user"
  /\ IF q[Reading] # <<>>
     THEN q' = QRemove(q, Reading) /\ UNCHANGED incount
     ELSE /\ incount' = IF incount < BUF_SIZE THEN incount + 1 ELSE incount
          /\ UNCHANGED q
  /\ UNCHANGED <<status, current, quantum, procVars, poolVars, time, mode>>

Receive ==
  /\ mode = "user"
  /\ IF q[Reading] # <<>>
     THEN LET p == First(Reading)
          IN /\ q' = ScheduleQ(QRemove(q, Reading), level[p], p)
             /\ status' = ScheduleStatus(status, level[p], p)
             /\ UNCHANGED incount
     ELSE /\ incount' = IF incount < BUF_SIZE THEN incount + 1 ELSE incount
          /\ UNCHANGED <<q, status>>
  /\ UNCHANGED <<current, quantum, procVars, poolVars, time, mode>>

(***************************************************************************)
(* The rest of the system.  shmrm() and the disk drivers insert into their *)
(* own queues on behalf of the current process, and go on when there is no *)
(* node.  shmcreate(), the disk interrupt, and _isr_clock behind the       *)
(* wake-up loop remove an entry and free its node.                         *)
(***************************************************************************)
OtherInsert == /\ Syscall
               /\ HasNode(q) /\ lent < LentBound
               /\ lent' = lent + 1
               /\ overdrawn' = (overdrawn \/ lent' > Share)
               /\ UNCHANGED <<status, q, current, quantum, procVars, time,
                              incount, mode>>

OtherRemove == /\ \/ mode = "user"
                  \/ mode = "clock" /\ ~FirstIsLe(q[Sleeping], time)
               /\ lent > 0
               /\ lent' = lent - 1
               /\ UNCHANGED <<status, q, current, quantum, procVars, overdrawn,
                              time, incount, mode>>

(* _kpanic does not return. *)
Halt == mode = "panic" /\ UNCHANGED vars

Handler == Dispatch \/ WakeSleeper \/ ChargeQuantum

Next == \/ Handler
        \/ Tick
        \/ Receive
        \/ Exit
        \/ Yield
        \/ Read
        \/ \E n \in 0 .. PidMod - 1 : Kill(n)
        \/ \E lv \in LevelArgs : Spawn(lv)
        \/ \E n \in SleepArgs : Sleep(n)
        \/ OtherInsert
        \/ OtherRemove
        \/ Halt

Spec == Init /\ [][Next]_vars

(* A handler keeps the CPU until it returns.  The interrupt controller     *)
(* latches a tick that arrives while interrupts are masked, so a timer     *)
(* that is let through again and again is not ignored forever.             *)
FairSpec == Spec /\ WF_vars(Handler) /\ SF_vars(Tick)
-----------------------------------------------------------------------------
(***************************************************************************)
(* Properties.                                                             *)
(***************************************************************************)

(* A process holds the CPU: it runs, or the clock interrupted it. *)
OnCpu(p) == p = current /\ mode \in {"user", "clock"}

(* p is queued in queue a of qq. *)
In(qq, a, p) == \E i \in 1 .. Len(qq[a]) : qq[a][i].data = p

(* No PCB is queued twice in the queues qq. *)
Distinct(qq) ==
  \A a, b \in PcbQueues : \A i \in 1 .. Len(qq[a]), j \in 1 .. Len(qq[b]) :
     qq[a][i].data = qq[b][j].data => a = b /\ i = j

Live(p) == status[p] > PROC_NEW

QueueContents == [Queues -> Seq([key : Nat, data : PCBs])]

(* Type invariant of the kernel state. *)
TypeOK ==
  /\ status \in [PCBs -> 0 .. 6]
  /\ level \in [PCBs -> Nat]
  /\ pid \in [PCBs -> 0 .. PidMod - 1]
  /\ stack \in [PCBs -> 0 .. MAX_PROCS]
  /\ q \in QueueContents
  /\ current \in PCBs
  /\ quantum \in Nat
  /\ nextPid \in 0 .. PidMod - 1
  /\ time \in Nat
  /\ incount \in 0 .. BUF_SIZE
  /\ mode \in {"user", "clock", "dispatch", "panic"}
  /\ lent \in Nat
  /\ overdrawn \in BOOLEAN

(* _dispatch never panics, however scarce the queue nodes get: the idle    *)
(* process is always there, as its comment says, and it never meets a PCB  *)
(* that is neither ready nor a zombie ("should never happen!").  sleep()   *)
(* and read(), which panic when they get no node, get one as long as the   *)
(* rest of the system stays within its share.                              *)
NoPanic ==
  /\ mode = "dispatch" =>
       /\ \E l \in Levels : q[l] # <<>>
       /\ \A l \in Levels : q[l] # <<>> =>
            status[First(l)] \in {PROC_READY, PROC_ZOMBIE}
  /\ ~overdrawn => mode # "panic"

(* A PCB is in at most one queue and at most once in it, and the process   *)
(* on the CPU is in none: no process can be dispatched twice for one       *)
(* _schedule, and no PCB is reused while a queue still refers to it.       *)
OnePlace ==
  /\ Distinct(q)
  /\ \A a \in PcbQueues, p \in PCBs : In(q, a, p) => ~OnCpu(p)

(* The status a PCB may have in queue a; kill() alone may have turned it   *)
(* into a zombie meanwhile. *)
FitsQueue(a, p) ==
  /\ a \in Levels   => status[p] \in {PROC_READY, PROC_ZOMBIE} /\ level[p] = a
  /\ a = Sleeping => status[p] \in {PROC_SLEEPING, PROC_ZOMBIE}
  /\ a = Reading  => status[p] \in {PROC_BLOCKED, PROC_ZOMBIE}
  /\ a = FreePcbs => status[p] = PROC_FREE

(* Status and queue agree: what _dispatch, the clock and the serial ISR    *)
(* take out of a queue is a process in the state that queue is for, and    *)
(* only the process on the CPU is RUNNING.                                 *)
StatusFitsPlace ==
  /\ \A a \in PcbQueues, p \in PCBs : In(q, a, p) => FitsQueue(a, p)
  /\ \A p \in PCBs : status[p] = PROC_RUNNING <=> OnCpu(p)

(* p is on the CPU or in a queue. *)
Placed(p) == OnCpu(p) \/ \E a \in PcbQueues : In(q, a, p)

(* No process is lost: one that exists is on the CPU or in a queue, as     *)
(* long as the rest of the system keeps to its share of the nodes.  Every  *)
(* caller of _schedule ignores a failed insertion, so this is what keeps   *)
(* the kernel's own use of the nodes or a wrong level from swallowing a    *)
(* process.                                                                *)
NothingLost == ~overdrawn => \A p \in PCBs : Live(p) => Placed(p)

(* Two processes never share a stack, and none runs on a stack that the    *)
(* pool could hand out again: _cleanup and _spawn keep the two pools apart *)
(* from the stacks in use.                                                 *)
PrivateStacks ==
  \A p \in PCBs : Live(p) =>
     /\ stack[p] # 0
     /\ \A r \in PCBs : Live(r) /\ r # p => stack[r] # stack[p]
     /\ ~In(q, FreeStacks, stack[p])

(* After _pcb_alloc succeeds _stack_alloc does too, so the roll-back in    *)
(* _spawn is never needed: _cleanup returns the stack first, and a pool of *)
(* nodes that runs dry in between costs a PCB and not a stack.             *)
StackForEveryPcb == Len(q[FreePcbs]) <= Len(q[FreeStacks])

(* A process waits for serial input only while the input buffer is empty,  *)
(* so the character _isr_sio hands to a reader "must be the first input    *)
(* character" and input is not reordered.                                  *)
ReadersFindBufferEmpty == q[Reading] # <<>> => incount = 0

(* When the wake-up loop of _isr_clock ends no sleeper is overdue,         *)
(* whatever the order in which processes went to sleep and even when the   *)
(* tick counter wraps, although the loop only looks at the first entry of  *)
(* _sleeping.                                                              *)
NoSleeperMissed ==
  [][mode = "clock" /\ mode' # "clock" =>
       \A i \in 1 .. Len(q[Sleeping]) : q[Sleeping][i].key > time]_vars

(* A dispatched process has the highest level among those in the ready     *)
(* queues, counting the ones the clock or a spawn made ready in the same   *)
(* handler.                                                                *)
DispatchesHighest ==
  [][mode = "dispatch" /\ mode' = "user" =>
       \A p \in PCBs : status[p] = PROC_READY /\ Placed(p)
                          => level[current'] <= level[p]]_vars

(* Every trip through the kernel ends, in a process or in a panic: the     *)
(* wake-up loop and the search in _dispatch, which reaps zombies as it     *)
(* goes, both terminate.                                                   *)
HandlersReturn == mode # "user" ~> mode \in {"user", "panic"}

(* A ready process of the highest level gets the CPU, or is killed, as     *)
(* long as there are nodes to queue it.                                    *)
HighLevelRuns ==
  \A p \in PCBs : (status[p] = PROC_READY /\ level[p] = 0)
                    ~> status[p] \in {PROC_RUNNING, PROC_ZOMBIE} \/ overdrawn

(* A sleeping process does not sleep forever, even when the tick counter   *)
(* wraps around or nodes are scarce: it leaves the sleep queue, unless the *)
(* kernel panics.                                                          *)
SleeperLeaves ==
  \A p \in PCBs : status[p] = PROC_SLEEPING
                    ~> status[p] # PROC_SLEEPING \/ mode = "panic"

(* A process killed while it waits in the highest ready queue is reaped,   *)
(* unless the kernel panics.                                               *)
KilledReadyReaped ==
  \A p \in PCBs : (status[p] = PROC_ZOMBIE /\ In(q, 0, p))
                    ~> status[p] = PROC_FREE \/ mode = "panic"
-----------------------------------------------------------------------------
(***************************************************************************)
(* The inductive invariant behind the safety properties.                   *)
(***************************************************************************)
Busy == IF mode \in {"user", "clock"} THEN 1 ELSE 0

(* No queue takes a node that is not there. *)
NodesCounted == Used(q) + lent <= NQNODES

(* At most MAX_PROCS PCBs are queued or running and as many stacks are     *)
(* queued as PCBs, so there are nodes for all of them as long as the rest  *)
(* of the system stays within its share.                                   *)
NodesSuffice == ~overdrawn =>
  /\ Queued(q) + Busy <= MAX_PROCS
  /\ Len(q[FreeStacks]) = Len(q[FreePcbs])
  /\ lent <= Share
  /\ mode # "panic"

(* The stacks in the pool are different ones. *)
OnceEach(s) == \A i, j \in 1 .. Len(s) : s[i].data = s[j].data => i = j

PooledOnce == OnceEach(q[FreeStacks])

(* Only a PCB that _schedule refused has a level that is out of range. *)
LiveLevel == \A p \in PCBs : Live(p) => level[p] \in Levels

(* The idle process can be neither killed nor blocked.  Nor can _schedule  *)
(* lose it: it leaves its node behind when it is dispatched, and as it     *)
(* calls nothing, nobody takes that node before it is preempted.           *)
IdleStays == /\ pid[Idle] = 0 /\ level[Idle] = LEVEL_LOW
             /\ status[Idle] \in {PROC_READY, PROC_RUNNING}
             /\ OnCpu(Idle) \/ In(q, LEVEL_LOW, Idle)
             /\ OnCpu(Idle) => HasNode(q)

IInv == /\ TypeOK
        /\ OnePlace /\ StatusFitsPlace /\ NothingLost
        /\ PrivateStacks /\ PooledOnce /\ StackForEveryPcb
        /\ NodesCounted /\ NodesSuffice /\ LiveLevel /\ IdleStays
        /\ ReadersFindBufferEmpty
-----------------------------------------------------------------------------
(***************************************************************************)
(* What comments in the code promise and the code does not keep.           *)
(***************************************************************************)

(* A killed process never runs again: _sys_kill tags it and _dispatch()    *)
(* "will clean it up the next time it is dispatched".                      *)
KilledStaysDead ==
  [][\A p \in PCBs : status[p] = PROC_ZOMBIE =>
                       status'[p] \in {PROC_ZOMBIE, PROC_FREE}]_vars

(* spawnl() that returns a PID has created a process: "-1 if the creation  *)
(* failed else, the PID of the new child".                                 *)
SpawnedChildExists ==
  [][nextPid' # nextPid =>
       \E p \in PCBs : pid'[p] = nextPid /\ status'[p] > PROC_NEW]_vars

(* Only the idle process has PID 0, the one PID kill() refuses: "-1 if the *)
(* PID isn't active, or is the idle process".                              *)
PidZeroIsIdle == \A p \in PCBs : Live(p) /\ pid[p] = 0 => p = Idle

(* There are nodes for everybody: "increased number of qnodes to includes  *)
(* shared mem nodes" (the array of nodes).  The disk drivers' queues are   *)
(* not counted, and shmrm() returns more than there was: sleep() and       *)
(* read() panic, and _schedule drops processes.                            *)
NodesForAll == mode # "panic" /\ \A p \in PCBs : Live(p) => Placed(p)

(* No process is woken before its time: "put the process to sleep for n    *)
(* seconds"; an entry of the sleep queue that is already due when the ISR  *)
(* is done is woken at the next tick, however long it asked to sleep.      *)
NoEarlyWakeup ==
  mode = "user" => \A i \in 1 .. Len(q[Sleeping]) : q[Sleeping][i].key > time
=============================================================================

# A formal model of the sp2 kernel

sp2 is a small teaching kernel for one x86 processor: processes with
priorities, a clock, a serial line, shared memory, a RAM disk and an ATA disk.
This directory holds TLA+ modules that model it, TLC configurations that check
the models on small instances, and TLAPS proofs for instances of every size.

Run a check with `tlc -config Kernel.cfg Kernel`, a proof with
`tlapm KernelProofs.tla`. `PROJECT.json` lists the runs, the source lines each
definition stands for, the findings, the hazards and the theorems.

## The system

| part | state | operations |
|---|---|---|
| queues (`queues.c`) | a pool of nodes, linked lists, FIFO or ordered by a key | `_q_insert`, `_q_remove`, `_q_remove_if_le` |
| processes and stacks (`processes.c`, `stacks.c`) | PCB table, current process, PID counter, ready/sleeping/reading queues, two pools | `_pcb_alloc`, `_pcb_dealloc`, `_stack_alloc`, `_stack_dealloc` |
| scheduler (`scheduler.c`) | three ready queues, one per level | `_schedule`, `_dispatch` |
| clock (`clock.c`) | tick counter, quantum of the current process | `_isr_clock`: tick, wake sleepers, serve the RAM disk, charge the quantum |
| creation, start-up (`system.c`) | - | `_make_proc`, `_cleanup`, `_init` |
| system calls (`syscalls.c`) | - | read, write, kill, exit, spawn, spawnl, sleep, queries, shared memory |
| serial driver (`sio.c`) | input and output buffer with pointers and counts, `_sending` | `_isr_sio`, `_sio_read`, `_sio_write` |
| shared memory (`shared_mem.c`) | four segments, a bump allocator, the current segment | get, attach, write, read, detach, remove |
| devices, requests (`device.c`, `disk.c`) | two free lists | open, close, allocate, release |
| RAM disk (`ramdisk.c`) | pending requests, processes that wait for them | request; served by the clock |
| ATA disk (`ata.c`) | pending queue, current request, current transfer | request (polling), interrupt handler |
| console (`c_io.c`) | keyboard ring, cursor, scroll region | getchar, putchar, scroll, printf |
| interrupt support (`support.c`, `isr_stubs.S`) | handler table, interrupt controllers | install, entry, return, default handlers |
| PCI scan (`pci.c`, `ide.c`) | coordinates of the IDE controller | search by vendor and device |
| image builder (`BuildImage.c`) | image file, list of programs | append a file, write the list |
| boot loader (`bootstrap.S`) | position on the disk, load address, retries | read a sector, next program |
| library (`klibc.c`, `klibs.S`) | - | memory and string helpers |

**Interaction.** System calls and interrupts enter the kernel through interrupt
gates (`support.c:145`), so a handler runs with interrupts masked until it
returns, either to the interrupted process or to the one `_dispatch` chose.
The parts talk through queues of PCBs: the clock moves processes from
`_sleeping` to a ready queue, the serial interrupt from `_reading` to a ready
queue, `_dispatch` from a ready queue to the CPU. All queues, and the two
pools, take their nodes from one shared pool. Disk drivers and the console are
different: their code runs inside the calling process, with interrupts
enabled, and shares variables with interrupt handlers. Every handler tells the
interrupt controllers when it is done. The image builder and the boot loader
agree on a list at the end of the boot image and on the sectors behind it.

**What is hard.** `kill()` changes only a status and leaves the process in
whatever queue it is in; `_schedule` can fail for lack of a queue node, which
everybody takes from one array, and no caller looks; the sleep queue must be
sorted because only its head is examined; counters wrap; the serial driver
decides by one flag whether the next transmitter event will come; the disk
drivers race with their interrupts, and a drive error leaves their pointers set;
handlers print while a process prints; a 64K boundary, a track and a program end
at different sectors. `PROJECT.json` lists these hazards at their lines.

**What makes each part correct.** Queues: insertion keeps order and contents.
Processes: each is in one place, with the status of that place, and none is
lost. Scheduler: it always finds a process, of the highest ready level, and
never a corrupt one. Pools: a stack belongs to one process. Clock: every due
sleeper is woken, and no other. Serial driver: two FIFO streams. Shared memory:
only members have access, each segment has one owner. Disks: a request
completes once, with the data of its block. Console: keys are not lost or
reordered, the screen shows what was printed. Interrupts: every request reaches
its handler. Boot: every program is where it was meant to be.

## Modules

`KQueue` - queues as sequences of nodes: FIFO insertion, ordered insertion as
the search in `_q_insert` does it (behind every node whose key is not larger),
and the head test of `_q_remove_if_le`. No state of its own.

`Kernel` - processes, pools, scheduler, clock and the blocking system calls.
A PCB is its index. `q` maps each queue to its contents; the ready queues are
named by level. `mode` is the handler in progress; the loops of `_isr_clock`
and `_dispatch` take one step per iteration. Actions:

| action | code |
|---|---|
| `Tick`, `WakeSleeper`, `ChargeQuantum` | `_isr_clock` |
| `Dispatch` (`Run`, `Reap`, `Panic`) | one iteration of `_dispatch` |
| `Exit`, `Kill(n)`, `Spawn(lv)`, `Yield`, `Sleep(n)`, `Read` | the system calls; `Exit` also stands for `kill()` of oneself and for an unknown code, `Yield` for `sleep(0)` |
| `Receive` | the receive event of `_isr_sio` |
| `OtherInsert`, `OtherRemove` | a node is taken or returned by another part of the system |

Queue nodes are counted: an insertion without a free node leaves the queue
alone, exactly as the code does, and `sleep()` and `read()` panic. The array is
shared with the shared-memory pool, the pending queues of both disks and
`_blocked_requests`, and nothing keeps those to a number: `shmrm()` inserts as
often as it is called, and the ATA driver never removes what it served. So the
rest of the system takes and returns nodes as it likes: `lent` are the ones it
has, at first those of the shared-memory pool. Its share is what the size of the
array leaves it (`MAX_SHMS` and the `FUDGE_FACTOR` of 5); `overdrawn` remembers
that it had more at some moment. What is in its queues is the matter of the
other modules. Contexts, parent PIDs and the calls that only return a value are
abstracted away; `write()` belongs to `Sio`. The wake-up time lives in the key
of the sleep-queue node. The state starts where `_init` ends, with the first
process on the CPU; the idle process only writes to the serial line, so it makes
none of the modelled calls.

`SerialSpec` - what the serial line promises: two FIFO streams of the characters
`Chars`.

`Sio` - the serial driver: buffers, pointers, counts, `_sending`, the event
loop of the handler one event per step, `read()` and `write()`, with the UART
as an external actor. A store that would miss its buffer ends the behaviour
with `wild` set, since what it overwrites depends on the linker.

`SharedMem` (with `MCSharedMem` for the constants of its runs) - the segment
table, its pool, `_shm_malloc`, and one action per system call. The calls take
a pointer to a descriptor that the programs keep themselves (`RCS/user.c,v`);
it is the descriptor `User`, filled by `NoteId` and `NoteAddress`. `wrote` is
what the last call stored, and who made it. A message is its length; one for a
descriptor that got no memory goes to address 0 and on from there, which is
outside of `_memory`, so its bytes are numbered downwards from `Null`. `shmread`
changes nothing the kernel keeps. A panic, or a current segment that is a null
pointer, ends the behaviour.

`FreeList` - the free lists of `queues.c`, `device.c` and `disk.c`, which have
the same code: allocation and release in two steps each. `Releases` is 1 where
an item is given back once and 2 for the handles, which `_dev_close` gives back a
second time; `Interruptible` names the tables that processes use with interrupts
enabled.

`QueueSpec` - the queues as sequences, in the form `Kernel` uses them.

`Queues` - `_q_insert`, `_q_remove` and `_q_remove_if_le` on linked nodes from
the free list, one step per pointer that others may see. The kernel, whose
steps nobody interrupts, uses all queues; processes insert into `Shared`, the
queues of the disk drivers, and are interrupted between any two steps. `clash`
remembers whether a list has been used in one of the two ways that damage it:
two contexts were between the reading and the writing of its pointers at the same
time (`Inside`, `Meet`), or an item is put back that will be put back once more.
Both happen in the code; the properties say what holds until then, that is, that
nothing else damages a list.

`RamDisk` - `_rd_request` in the processes, in two steps for a read, and
`_isr_clock` with its service of every fourth tick as one step. The scheduler is
reduced to one level, an idle process, the quantum and sleeping; the processes
poll as `ramdisk_test` does. `_schedule` and `_dispatch` set the status of a
process and `_dispatch` tests it: a reader that is served while it runs is
queued as ready, may then sleep, and is a sleeping process when `_dispatch`
takes it from the ready queue, which is a panic. Nodes are counted for all
queues of the model, and a process that `_schedule` finds no node for is lost
(`Lost`). A request asks for one block; the address test keeps its modular
arithmetic with a small `Word` and `Base`.

`Ata` - three actors: `_ata_request` in any number of processes, one step per
access to the drive or to a variable shared with the handler, alone or in the
loops of `_ata_read_data` and `_ata_write_data`; `_ata_isr` as one step; the
drive, external, with its status, address registers, request line, interrupt
mask, and errors (`DriveFails`; `hit` remembers whose command failed). The
code counts on two things, both chosen at the start: `turns` says that one
process at a time uses the disk, `calm` that besides the drive needs longer than
a few instructions of the driver (the steps in `Window`). Properties that need
one of them say so.

`Screen` - console output: the video memory, the scrolling region, the cursor
and the hardware's copy of it, and what each function of `c_io.c` does to them.
The history variable `paper` is what the same characters would be on a
typewriter with endless paper, where nothing scrolls.

`Format` - the conversions of `c_printf` as operators: decimal, hexadecimal and
octal numerals of integers with `Bits` bits, padding, and the reference they
are compared with: `IsNumeral` says which text is the numeral of a number, by
the values of its digits, and `IsField` which text fills a field.

`Console` (with `MCConsole` for its directives) - `Screen` and `Format`
composed, one action per function; a process's `c_putchar` takes four steps,
between which the output of handlers may fall (`torn` remembers that it did).

`KeyQueue` - what `c_io.h` promises of input: a bounded FIFO queue that
discards only when it is full.

`Keyboard` - the scan-code handler, the circular buffer, and `c_gets` with
`c_getchar` in the processes, in three steps between which the handler may come:
read a cell, advance the pointer, echo (`PutChar` of `Screen`, which the module
extends). A process that reads with interrupts disabled (`masked`) polls the
keyboard itself.

`Boot` (with `MCBoot` for load addresses) - the image builder, one step per
file, and the boot loader: the test of the drive (`TestDisk`; a disk that is not
ready stops the machine), then one step per sector or program. Memory, sectors
and words are small, with the ratios of the real ones; a byte is the file and
the offset it came from. `Stack` is the part of memory that the loader's pushes
and calls, and the BIOS, use below 0xBC00: a sector of a program that reaches
it, or the loader's own two sectors, ends what can be said (`wild`), because
either the program or a return address is spoilt. The BIOS may fail any read. A
load address is a number, which may be negative, or a pair of segment and
offset.

`Pci` - the search for the IDE controller as a pure algorithm on configuration
addresses, in which fields overlap as the code lets them. `Words` are the values
of a word of a configuration register, all ones among them.

`Startup` (with `MCStartup` for the PCI buses) - the steps of `_init` that
install handlers, `Pci`'s search among them, entry to and return from handlers,
and the two interrupt controllers, external. What handlers do is in the other
modules; here only how they reset the controllers matters.

`KernelProofs` (with `KQueue`), `QueuesProofs`, `SharedMemProofs`, `SioProofs`,
`AtaProofs`, `RamDiskProofs`, `StartupProofs` (`Startup`, `Pci` and `Boot`),
`ConsoleProofs` (`Keyboard`, `Screen`, `Format` and `Console`) - the proofs.
`Boot` and `Console` name their specifications `BootSpec` and `ConsoleSpec`, so
that a module of proofs can extend them together with another.

Definitions whose comment says "Mutant" are deliberately wrong variants of the
definition after them. Each property is broken by one of them, which shows
that it depends on the code it is about.

## Runs

| run | bounds | what it shows |
|---|---|---|
| `kernel` | 3 PCBs (idle, two processes), 8 nodes, of which the rest of the system has a share of 2 and may take all that it gets; PIDs and ticks wrap at once, levels 0 and 3 (3 is invalid) | `_dispatch` never panics, no process is duplicated or in a wrong state, no stack is shared, whatever the nodes; no call panics and no process is lost until the nodes are overdrawn |
| `kernel_live` | 3 PCBs, 7 nodes, of which the rest may take 3 and has a share of 1; sleeps of 1 and 2 ticks, the tick counter wraps every 3 ticks forever, every read blocks | no due sleeper is missed, handlers return, the highest level is not starved, sleepers leave, killed ready processes are reaped |
| `sio` | buffers of 2 cells, 3 characters in, 2 writes (up to 4 characters), 2 readers | refinement of `SerialSpec`, no wait for an event that will not come, everything written is sent, readers are served in turn |
| `shm` | 2 processes, 2 segments of 2 bytes, 5 bytes, ids modulo 2, messages of 2 bytes | segments disjoint, members counted, a segment keeps its id and memory, a write stays in one segment, although ids repeat, descriptors are stale and the caller's own one gets into the pool |
| `ramdisk` | 2 processes, 3 requests, 4 nodes for all queues, 2 blocks, sleeps of 2 ticks | a request is served once; the queue of blocked processes holds only readers that wait; writes complete unless the machine stops or the process is lost |
| `ata` | 2 processes, blocks 254 and 255, calls for 1 or 2 blocks, 3 calls in turns and 2 if not, one failed command at a time, 2 nodes (they run out) | at any timing: no request is current after it was given back, the handler does not spin; in turns: a null pointer is used only where the handler overtakes the driver at two given places, and nowhere if calm; if calm: a request returns with its block read or stored, every call that the drive does not fail completes |
| `screen` | 2 x 3 cells, regions of all sizes, 3 characters, 2 other calls, 8-bit integers | the region shows the end of what the typewriter wrote and the hardware's cursor follows, unless output was interrupted; the cursor comes back even then; numbers and padding come out right; scrolling and fixed output keep apart |
| `keyboard` | ring of 3 cells, 6 scan codes, 1 process, buffers of 1 to 3 bytes, a screen of one line | refinement of `KeyQueue`, a newline or end of file ends `c_gets` |
| `queues` | 3 nodes, 2 requests given back once or twice, an ordered queue and a driver's queue, 2 keys, 2 data, the kernel and 2 processes that are interrupted anywhere | every node and request is at one place, and refinement of `QueueSpec`, until the first clash |
| `boot` | words of 16, sectors of 8 bytes, 2 x 2 x 2 sectors, a stack of 4 bytes in the middle of memory, up to 3 programs of 0 to 20 bytes at 11 places, 3 attempts, room for 2 programs and a terminator | programs are where they were asked for, nothing lies above the limit, loading ends, or stops at a disk that is not ready |
| `startup` | 4 lines with drivers and one without, 5 requests, 5 PCI buses with fields of 1, 2 and 1 bits | no line stays in service, every request is served, the controller is found |

Three PCBs let a process be killed while it waits, its PCB be reused and its old
PID be met again; two spare levels of the three are used, so that a level can be
empty or not. The queues need six of the eight nodes of `kernel`, the rest
begins with one, and `LentBound` is no bound there: it may take every node. A
buffer of two cells can be full, half read and overrun. `TimeBound`, `MaxIn` and
`MaxOut` bound the ticks and characters; `PidMod` and `TimeMod` stand for 2^16
and 2^32. In `shm` two segments and ids modulo 2 let an id name two segments and
the memory run out (2 + 2 of 5 bytes); larger instances add only copies.
`Undamaged` and `Seen` bound `queues`: what follows a clash is not explored,
since no property speaks of it, and states that differ only in fields of free
nodes, which are written before they are read, are explored once. Two processes
are the fewest that race, and the drive serves one command at a time; racing
processes ask for one block each. `MaxRequests`, `MaxCalls`, `MaxRacing` and
`MaxErrors` bound the work; `Ata` writes 2^16 - 1 for the largest count. Three
nodes give a queue with a first, a middle and a last one, and exhaust the pool.
In `boot` a program of three sectors crosses a segment and a track, and the disk
can be full. In `startup` the search loops run beyond every field, and five
requests include a second one of a line in service. In `screen` the smallest int
of 8 bits has what is special of the one of 32 (`Format`). Runs whose bounded
work ends, or in which the machine may stop (a panic, a null pointer, a handler
that loops), do not check for deadlock.

One run shows a place where the code does not do what its comment says (the
finding of `PROJECT.json`): a process killed while it sleeps or reads comes
back to life (`killed_runs_again`).

**Deviations.** Further claims of comments are stated in the modules and are
false of the code. To see a counterexample, put the definition into a copy of
the configuration, with the constants given here.

| claim | module | what happens | constants |
|---|---|---|---|
| `SpawnedChildExists` | `Kernel` | `spawnl()` with a bad level reports a PID; PCB and stack are lost | as `Kernel.cfg` |
| `PidZeroIsIdle` | `Kernel` | PID 0 is given out again and cannot be killed | as `Kernel.cfg` |
| `NodesForAll` | `Kernel` | the rest of the system takes more than its share of the nodes: `sleep()` and `read()` panic, `_schedule` drops processes | as `Kernel.cfg` |
| `NoEarlyWakeup` | `Kernel` | a sleep across the counter's wrap ends at the next tick | as `KernelLive.cfg` |
| `InputStaysInBuffer` | `Sio` | room is judged by the count, the store goes through a pointer: a character is stored behind the input buffer | as `Sio.cfg` |
| `OutputStaysInBuffer` | `Sio` | a burst of output is stored behind the buffer | as `Sio.cfg` |
| `NoPanic` | `SharedMem` | a call with the id of an older segment panics | as `SharedMem.cfg` |
| `GetReturnsMemory` | `SharedMem` | `shmget` reports a segment without memory | `MAX_MEM = 3` |
| `PoolFromTable` | `SharedMem` | `shmrm` puts the caller's descriptor into the pool | as `SharedMem.cfg` |
| `MembersRecorded` | `SharedMem` | `shmat` overwrites a member's slot | as `SharedMem.cfg` |
| `WritesInMemory` | `SharedMem` | a message for a descriptor without memory is stored at address 0 | as `SharedMem.cfg` |
| `WritersAreMembers` | `SharedMem` | a process writes after `shmdt` | as `SharedMem.cfg` |
| `SegmentsDisjoint` | `SharedMem` | a negative size moves the free pointer back | `Sizes <- SignedSizes`, `MAX_SHMS = 3`, `QNodes = 3` |
| `WriteStaysInSegment` | `SharedMem` | a long message reaches the next segment | `Lens = {3}` |
| `NoItemShared` | `Queues` | two contexts inside a free list take the same node or request | as `Queues.cfg` without `CONSTRAINT` and `VIEW` |
| `NoItemLost` | `Queues` | a closed device is put back twice, or two insertions meet in a driver's queue, and the rest of the list is lost | as `Queues.cfg` without `CONSTRAINT` and `VIEW` |
| `Completes` | `RamDisk` | a tick between the two insertions of a read loses it | as `RamDisk.cfg` |
| `InOneQueue` | `RamDisk` | a reader is in `_blocked_requests` while it runs | as `RamDisk.cfg` |
| `ClockReturns` | `RamDisk` | the clock handler rotates the queue for ever | as `RamDisk.cfg` |
| `NeverPanics` | `RamDisk` | `_dispatch` takes a reader that was served while it ran, and sleeps since, and panics | as `RamDisk.cfg` |
| `StaysOnDisk` | `RamDisk` | the address test accepts blocks behind the end | as `RamDisk.cfg` |
| `NoNullPointer` | `Ata` | the handler overtakes the driver, or two processes clear each other's pointers | as `Ata.cfg` |
| `RacingCompletes` | `Ata` | an interrupt before the request is recorded is lost | as `Ata.cfg` |
| `Completes` | `Ata` | a request for two blocks never ends | `Counts = {2}`, `MaxErrors = 0` |
| `ErrorReturns` | `Ata` | after an error of the drive the requester waits for ever | as `Ata.cfg` |
| `SuccessMeansServed` | `Ata` | a failed write is reported as a success | as `Ata.cfg` |
| `RightSector` | `Ata` | a read of block 257 gets block 1 | `Lbas = {1, 257}`, `MaxRacing = 0` |
| `RightSector` | `Ata` | two processes mix up the address registers | as `Ata.cfg` |
| `QueuedRequestsWait` | `Ata` | a served request stays in `_ata_io_pending` | as `Ata.cfg` |
| `UndefinedIgnored` | `Keyboard` | keys without a character are stored: the table holds 255, the constant `'\377'` is -1 | as `Keyboard.cfg` |
| `ImplementsQueue` | `Keyboard` | two processes that read at once get a character twice | `Readers = {p1, p2}` |
| `ClearMovesCursor` | `Console` | `c_clearscroll` leaves the cursor where it is | as `Console.cfg` |
| `PrintsOctal` | `Console` | octal numerals of large numbers are wrong | as `Console.cfg` |
| `OutputInRegion` | `Console` | a handler prints beside the region when the cursor is past its last column | as `Console.cfg` |
| `ShowsAllText` | `Console` | a handler's character overwrites the one being put, or the cursor is off by one | as `Console.cfg` |
| `FullDiskLoads` | `Boot` | a disk whose last sector is used is called too big | as `Boot.cfg` |
| `PairsAccepted` | `Boot` | the usage message offers `segment:offset` addresses (`BuildImage.c:61`); the builder rejects every one | as `Boot.cfg` |
| `AcceptedIsLoaded` | `Boot` | the builder accepts an empty file, a negative address (which also breaks `StaysBelowLimit`), or an offset that misses the 64K test; places in the loader or its stack it accepts too, and the loader runs `wild` | as `Boot.cfg` |
| `ListEnds`, `LoaderEnds` | `Boot` | a list that fills all the zeros has no terminator, although only the space is said to be a limit (`BuildImage.c:31`) | `Space = 6` |
| `CoordinatesExact` | `Startup` | the controller is found under coordinates beyond their fields | as `Startup.cfg` |
| `SlaveReset` | `Startup` | line 8 does not count as the slave's | as `Startup.cfg` |
| `EarlyRequestsServed` | `Startup` | setting up the controllers drops what they had latched | as `Startup.cfg` |

`ulib.h` also promises a return value of 0 where the shared-memory calls
return 1.

**Fairness.** In `Kernel`, `WF(Handler)`: a handler has the processor to itself
until it returns. `SF(Tick)`: the interrupt controller latches a tick that
arrives while interrupts are masked, so a timer that is enabled again and again
gets through. No process is assumed to make any call. In `Sio`, `WF(Transmit)`:
the UART sends what it has; `SF(Interrupt)`: its request stays latched while
interrupts are masked; weak fairness of the handler's steps. In `RamDisk`,
`WF(Tick)` for the timer, and strong fairness of the steps of a process inside a
request: round robin with a quantum gives it the CPU again and again. In
`Keyboard`, weak fairness of a process in `c_gets`, which the scheduler gives
the CPU again and again. In `Ata`, weak fairness of each process in the driver,
of the handler, and of the drive, which ends what it began. No process need ever
make a request. In `Boot`, `WF(Load)`: the processor runs the loader (a failed
read or a disk that is not ready counts as a step of it). In `Startup`, weak
fairness of `_init` and of handlers, which run masked, and `SF(Acknowledge)`: a
latched request stays until interrupts are enabled again.

## Proofs

Every safety property of the runs is proved for all values of the constants, as
are the refinements. The proofs have the same shape: an inductive invariant, one
lemma per action that the action keeps it, and the properties as its
consequences. Where a definition is recursive, its facts are proved by the least
counterexample: a set of numbers that is not empty has a least element
(`LeastNumber`, from the well-foundedness theorems of the library), and the
least number for which a fact fails leads to a contradiction. For this the
models write recursion as functions on intervals of numbers. That such a
function exists at all, and satisfies its equation, is proved in the same way
(`PowerRuns`, `Dec0Runs`, `ValuesRun`, `TextRuns`).

`KernelProofs`: `Spec => []IInv` for every number of PCBs, PIDs and ticks, and
every size of the node array and use that the rest of the system makes of it,
under `SizeAssumption` (at least three PCBs), `ClockAssumption` and
`PidAssumption`. The properties of the run `kernel` follow, and with them
`StackForEveryPcb`, `ReadersFindBufferEmpty` and `DispatchesHighest`. None of
them is inductive alone:

- `NoPanic` needs the idle process in its queue or on the CPU, whatever the
  nodes (`IdleStays`): it is never killed, because PID 0 cannot be, and never
  blocked; and it cannot be lost, because the node it leaves behind when it is
  dispatched is not taken by anybody before it is preempted, since it calls
  nothing. That blocking gets a node until the nodes are overdrawn is counted
  (`NodesSuffice`: queued PCBs and the one on the CPU are at most `MAX_PROCS`,
  the stacks in the pool are as many as the PCBs in the pool, and the rest keeps
  to its share).
- `NothingLost` needs valid levels (`LiveLevel`) and nodes, since `_schedule`
  fails silently without either. It, too, holds until the nodes are overdrawn, and
  no longer (`NodesForAll` among the deviations).
- `PrivateStacks` needs that a stack is in the pool once (`PooledOnce`) and that
  there is one for every free PCB (`StackForEveryPcb`). Both hold when nodes run
  out: `_cleanup` returns the stack before the PCB, so what is lost for lack of a
  node is a PCB, or both.
- `OnePlace` and `StatusFitsPlace` are proved together: a handler moves only a
  process whose status says where it is.
- `NoSleeperMissed` needs the sleep queue sorted by wake-up time
  (`SleepersOrdered`), because the clock looks at its head only. No other
  operation touches that queue, and insertion keeps it sorted by
  `InsertOrderedSorted`. It says nothing of sleeps across the counter's wrap,
  where the order is the code's, not that of time.

One lemma per action shows that it preserves `IInv`; the lemmas `LeaveCpu`,
`BecomeReady`, `CleanedUp` and the facts about `KQueue` are shared by them: an
insertion point always exists, linking a node gives a sequence of the right
length and elements, and ordered insertion keeps a queue sorted.

`QueuesProofs`, for any number of nodes, requests, queues, keys, data and
contexts, without any hypothesis on who uses what: `ItemsAccountedFor` and the
refinement of `QueueSpec`, both until the first clash. The invariant says that
as long as there was none, there is a sequence of items for each list (`Orders`),
that the links lead through it and no item occurs twice (`Wired`), that what a
process holds is on no list (`Owners`), that no two contexts carry the same item
(`Distinct`), and, for every context inside an operation, that what it has read
still is so: the head of a free list, the place of a search (`ListStep`,
`QueueOperation`). The last is what other contexts can disturb; a step of one
context leaves the facts of another alone because the two are not inside of the
same list (`~Meet`). Taking an item off a list and hanging one in at
any place are the two changes of the links; the lemmas `WiredTail` and
`WiredInsert` say what they make of the sequences. The refinement maps a queue to
its sequence's keys and data: a node counts from the step that hangs it in to
the one that unlinks it. There is room for it, since the nodes that are counted
map one to one to nodes other than it (`Room`). The deviations `NoItemShared` and
`NoItemLost` show that after a clash nothing of this is left.

`SharedMemProofs`, for every number of processes, segments, bytes and nodes,
under `SharedMemAssumption` and `PidNotNone` (the value of an empty slot is no
PID of a user process): `MembersCounted` is inductive relative to `TypeOK`; one
lemma describes what a step can make of a segment (`SegmentSteps`).
`SegmentsKept` needs the invariant that a segment in the pool is free and there
once (`PoolHoldsFree`), although `shmrm` puts other descriptors there.
`SegmentsDisjoint` needs `Below`, that every segment lies under the free
pointer, and the hypothesis that sizes are natural numbers: it is false without
(see the deviations).

`WriteStaysInSegment` needs `HandedOut`: every address that a
descriptor or a return value still has, however stale, was handed out once, and
the bytes behind it belong to the segment that has the address, or to none.
A write to address 0 is covered, since no segment is there.
`MessagesFit` (no message is longer than a segment) is a second hypothesis: the
code does not check lengths, and the property is false without.

`SioProofs`, for buffers of every size and any characters and readers:
`EventToCome` and the refinement of `SerialSpec`. The invariant says that the
count of each buffer is the distance of its pointers (`Buffered`), that an idle
driver has an empty buffer and transmitter, and that the event is pending only
when the transmitter is idle (`Transmitter`). The refinement maps a buffer to
the characters between its pointers; the lemmas `Held...` say what storing and
taking make of them. It holds up to the first store outside a buffer, at which
the model ends.

`AtaProofs`, for any number of processes, blocks, calls and errors of the drive.
`RacingInvariant` holds however processes, handler and drive race: only the
current request is declared a success (`Unfinished`), a latched interrupt comes
from a command that ended (`LineTells`), and the sector offered is the one on
the disk (`SectorReady`). `CurrentRequestInDriver` and `HandlerDoesNotSpin`
follow. `CalmInvariant` holds besides if processes take turns and the drive is
slow: there is a process that is served (`Serves`), and all others are idle or
wait for ever after a failure. It relates the step of that process to the
drive's command, address and data. `ReturnsWhenServed` follows, under
`Addressable` (addresses reach the registers unchanged: below 256 they do, and
see `RightSector` among the deviations). `TurnsInvariant` is for processes that
take turns and a drive of any speed: one process at most is in the driver, and
for every step of it there is a list of the pointers that are set and of the
commands the drive may have (`Alone`), until a null pointer is used.
`NullOnlyIfOvertaken` follows from the two: the only steps that use a null
pointer are the handler's between the two stores that record a read, and the
process's after the last block of a write that the handler has already ended.

`RamDiskProofs`, for any number of processes, requests and nodes:
`QueuedRequestsWait` and `BlockedWaitForRead`. The invariant adds who may be in
which queue, and that between the two insertions of a read a tick may have
failed the request but not served it, unless the machine stopped. Both hold in
spite of processes that are queued twice, lost or sleep in the ready queue.

`StartupProofs`, first part, for every set of lines, requests and configuration
spaces: `NothingInService` from `InService` (a controller's line in service is
that of the handler that runs), and `ControllerFound` from `Searched`. The
search takes the first probe that matches. The loops reach every address
(`EveryAddressProbed`): they go through every number that fits into a field
(`PciAssumption`; in the code 65535, 65535 and 255 of 256, 32 and 8), and every
set of bits is that of such a number (`NumberOfBits`).

`StartupProofs`, second part, for every size of words, sectors and tracks under
`BootSizes` (a segment is a whole number of sectors and of paragraphs, the limit
lies in memory): `StaysBelowLimit` and `LoadsAll`. The invariant relates the
disk to the programs (`Layout`: each begins behind the one before it), the list
in the boot image to the programs (`ListTells`), the position on the disk to the
sectors still to read (`OnTrack`, `InList`), the address registers to the place
wanted (`Aims`), and memory outside the stack to the sectors read so far, of
which the last one to cover a byte counts (`Holds`). The last two are stated for
programs that are placed well, clear of the loader and its stack, as the
properties are. `LoaderKept` says that no sector of such a program touches
either (`MissesLoader`), wherever the stack is. At a segment's end the registers
change together and their sum goes on (`AddressAdvances`), at a track's end
sector, head and track do (`PositionSteps`).

`ConsoleProofs`, first part, for rings of every size, any keys and lines: the
ring is the queue of `KeyQueue`. The invariant `CellKept` says that the cell a
reader has read, and not yet given free, is not overwritten by the handler. The
hypothesis `OneReader` is needed: two processes that read at once get a
character twice (see the deviations).

`ConsoleProofs`, second part, for screens, regions and texts of every size:

- `CursorRecovers`: whatever handlers print inside `c_putchar`, the cursor is
  never more than one cell to the right of the region or two lines below it
  (`CursorNear`, by the statement that was interrupted).
- `RegionKeptApart`: scrolling, drawing and catching up with a cursor outside
  change only cells of the region (`KeptOutside`).
- `ShowsText`: the screen agrees with the typewriter (`Matches`: the region
  shows its lines from `First` on, and what lies below the current line is
  blank). Inside `c_putchar` this is said of the cursor that the rest of the
  call will make (`Coming`). `PaperLasts` says that the bound `Feeds` of the
  history variable suffices for all that is put; it restricts no behaviour of
  the console.
- `PrintsArguments`, for integers of every width that is a multiple of four:
  `cvtdec0` writes the numeral of each number (`Dec0Numeral`; one more digit
  makes ten times the number), the least one too, because it ends in 8 at every
  such width (`PowerEnds`, `MagnitudeNumeral`); the digits of `cvthex` stand for
  the bits down to the last one, and those it leaves out in front are zeros
  (`HexNumeral`); `padstr` fills the field on one side (`PaddedField`).
  `FieldsTyped` says that arguments are integers and texts. Octal is left out:
  it is wrong (see the deviations).

The proofs asked some changes of the model: assumptions on constants that had
been tacit (some process and block exist, "none" is no process) are now written
down; tests made one after the other in the code are nested IFs, not cases of a
CASE that could hold at once; folds over texts are recursive functions. The proof
of `LoadsAll` showed that pairs of segment and offset never pass the builder's
tests and that a negative number does, which the model had the other way round.

**Only model-checked.**

- Liveness under fairness, which TLAPS cannot prove here: `HandlersReturn`,
  `HighLevelRuns`, `SleeperLeaves`, `KilledReadyReaped`, `OutputSent`,
  `FirstReaderServed`, `WritesComplete`, `Completes`, `LineEnds`, `LoaderEnds`,
  `RequestsServed`.
- The types of `RamDisk`'s scheduling variables, which `SelectSeq` with an
  operator as argument makes.

## Not modelled

Of the ATA driver: IDENTIFY DEVICE (its call is commented out), a status without
DRDY. Of shared memory: the mode, which is stored and never read. Of the PCI
code: `_pci_write_config_data` and `_find_bios_sd`, which nothing calls.
`RamDisk` counts the nodes of its own queues against a number of their own
(`QNodes`). The processes of `Kernel` make no requests to the RAM disk: those
that do are put into a ready queue while they run or sleep, which breaks
`OnePlace` and `NoPanic`, as `InOneQueue` and `NeverPanics` of `RamDisk` show.
`Boot`'s memory begins with the loader, so the interrupt vectors and the data of
the BIOS below it, which a program must not go over either, are left out. In
`Console` one process prints at a time, and functions other than `c_putchar` of
a plain character are not interrupted.

Out of scope: the switch to protected mode in `bootstrap.S` and `startup.S`,
straight-line code before any of the modelled state exists; which registers the
interrupt entry saves; the memory and string helpers. The receiver time-out
event of the UART (a possible panic in `_isr_sio`) depends on the part.

## State

Modelled and checked: the kernel core, the serial driver, shared memory, queues
and free lists node by node, the RAM disk, the ATA driver with errors, the
console with interrupted and formatted output, image builder and boot loader,
start-up and interrupt controllers. Proved: all safety properties and
refinements of the runs. What could be added: the RAM disk's address test with
words of every width (TLC shows only that it accepts too much), and calls of the
console other than `c_putchar` interrupted by handlers.

----------------------------- MODULE SharedMem -----------------------------
(***************************************************************************)
(* Shared memory: the segment table, its free pool and the bump allocator  *)
(* (shared_mem.c), and the six system calls (syscalls.c).  A call is one   *)
(* step, since system calls run with interrupts masked.                    *)
(*                                                                         *)
(* The calls that read, write, detach and remove get a pointer to a        *)
(* segment descriptor from the caller.  Programs have no way to learn the  *)
(* kernel's; they keep one of their own, shared between them, and fill it  *)
(* with what shmget and shmat returned (user.c).  It is the descriptor     *)
(* User here, and the kernel treats it as one of its segments.             *)
(***************************************************************************)
EXTENDS Integers, Sequences

CONSTANTS Pids,       \* processes that use shared memory
          MAX_SHMS,   \* segments in the table
          MAX_MEM,    \* bytes of memory for all of them
          Sizes,      \* sizes asked for
          Lens,       \* lengths of messages, with the final zero
          IdMod,      \* segment ids are counted modulo this, 2^16 in the code
          QNodes      \* queue nodes this pool can get

Segs == 1 .. MAX_SHMS

ASSUME SharedMemAssumption ==
  /\ MAX_SHMS \in Nat \ {0} /\ MAX_MEM \in Nat /\ Sizes \subseteq Int
  /\ Lens \subseteq Nat \ {0} /\ IdMod \in Nat \ {0}
  /\ QNodes \in Nat /\ QNodes >= MAX_SHMS

(* PID 0 marks an empty slot, and belongs to the idle process.             *)
ASSUME PidNotNone == "none" \notin Pids

VARIABLES seg,       \* the descriptors: _shms and the users' own
          freeq,     \* _free_shms
          cur,       \* _current_shms
          nextId,    \* _next_shm
          freePtr,   \* _free_ptr, as an offset
          wrote,     \* what the last call wrote, if it was shmwrite
          halted,    \* why the machine stopped, if it did
          got        \* what shmget or shmat just returned to each process

kernelVars == <<seg, freeq, cur, nextId, freePtr, halted>>
vars == <<kernelVars, wrote, got>>

----------------------------------------------------------------------------

User == 0          \* the users' descriptor
Null == -1         \* the null pointer
None == "none"     \* PID 0, which marks an empty slot

Descs == {User} \cup Segs

SHM_FREE == "free"
SHM_NEW  == "new"

Seg == [address : Int, num_members : 0 .. 2, size : Sizes \cup {0},
        id : 0 .. IdMod - 1, pids : [1 .. 2 -> Pids \cup {None}],
        status : {SHM_FREE, SHM_NEW}]

NoPids == [k \in 1 .. 2 |-> None]

Returned(kind, value) == [kind |-> kind, value |-> value]

Nothing == Returned("none", 0)

Write(p, bytes) == [by |-> p, bytes |-> bytes]

NoWrite == Write(None, {})

Results == {Nothing} \cup [kind : {"id"}, value : 0 .. IdMod - 1]
                     \cup [kind : {"address"}, value : Int]

Running == halted = None

Holds(s, p) == \E k \in 1 .. 2 : seg[s].pids[k] = p

(* _kpanic stops the machine.  What the kernel does without a current      *)
(* segment depends on what it reads at address 0, so the model stops too.  *)
Halt(why) ==
  /\ halted' = why /\ wrote' = NoWrite
  /\ UNCHANGED <<seg, freeq, cur, nextId, freePtr, got>>

(* The kernel looks only at the current segment.                           *)
WrongSegment(id) ==
  \/ cur = Null /\ Halt("null")
  \/ cur # Null /\ seg[cur].id # id /\ Halt("panic")

----------------------------------------------------------------------------
(* _shm_malloc.                                                            *)

MallocFits(size) == freePtr + size <= MAX_MEM

(* Mutant: the pointer is not moved.                                       *)
MovedStays(size) == freePtr

(* The free pointer after an allocation.                                   *)
Moved(size) == IF MallocFits(size) THEN freePtr + size ELSE freePtr

(* A new segment, without members; without memory if there is none left.   *)
NewSegment(size) ==
  [address |-> IF MallocFits(size) THEN freePtr ELSE Null,
   num_members |-> 0, size |-> size, id |-> nextId, pids |-> NoPids,
   status |-> SHM_NEW]

(* shmget: a descriptor from the pool becomes current; if there is none,   *)
(* the null pointer does.                                                  *)
Shmget(p, size) ==
  /\ Running
  /\ IF freeq = <<>>
     THEN /\ cur' = Null
          /\ got' = [got EXCEPT ![p] = Nothing]
          /\ UNCHANGED <<seg, freeq, nextId, freePtr>>
     ELSE LET s == Head(freeq)
          IN /\ cur' = s /\ freeq' = Tail(freeq)
             /\ seg' = [seg EXCEPT ![s] = NewSegment(size)]
             /\ nextId' = (nextId + 1) % IdMod
             /\ freePtr' = Moved(size)
             /\ got' = [got EXCEPT ![p] = Returned("id", nextId)]
  /\ wrote' = NoWrite /\ UNCHANGED halted

(* The slot that shmat fills is the one num_members says, used or not.     *)
Attached(d, p) ==
  CASE d.num_members = 0 -> [d EXCEPT !.pids[1] = p, !.num_members = 1]
    [] d.num_members = 1 -> [d EXCEPT !.pids[2] = p, !.num_members = 2]
    [] OTHER -> d

Shmat(p, id) ==
  /\ Running
  /\ \/ WrongSegment(id)
     \/ /\ cur # Null /\ seg[cur].id = id
        /\ seg' = [seg EXCEPT ![cur] = Attached(@, p)]
        /\ got' = [got EXCEPT ![p] = IF seg[cur].num_members < 2 /\ seg[cur].address # Null
                                     THEN Returned("address", seg[cur].address) ELSE Nothing]
        /\ wrote' = NoWrite /\ UNCHANGED <<freeq, cur, nextId, freePtr, halted>>

(* Mutant: one byte more than the message is written.                      *)
WrittenOneMore(a, len) == IF a = Null THEN Null - len .. Null ELSE a .. a + len

(* The bytes that _strcpy of a message stores.  Address 0 is not in        *)
(* _memory: the bytes from there on are numbered downwards from Null.      *)
Written(a, len) == IF a = Null THEN Null - len + 1 .. Null ELSE a .. a + len - 1

(* shmwrite: the check and the address come from the users' descriptor,    *)
(* and nobody looks whether there is an address.                           *)
Shmwrite(p, len) ==
  /\ Running /\ Holds(User, p)
  /\ wrote' = Write(p, Written(seg[User].address, len))
  /\ UNCHANGED <<kernelVars, got>>

(* Mutant: the count is taken down without looking for the caller.         *)
DetachedCountOnly(d, p) ==
  IF d.num_members > 0 THEN [d EXCEPT !.num_members = @ - 1] ELSE d

(* shmdt clears the caller's first slot of the current segment.            *)
Detached(d, p) ==
  CASE d.num_members > 0 /\ d.pids[1] = p ->
         [d EXCEPT !.pids[1] = None, !.num_members = @ - 1]
    [] d.num_members > 0 /\ d.pids[1] # p /\ d.pids[2] = p ->
         [d EXCEPT !.pids[2] = None, !.num_members = @ - 1]
    [] OTHER -> d

Shmdt(p) ==
  /\ Running /\ Holds(User, p)
  /\ \/ WrongSegment(seg[User].id)
     \/ /\ cur # Null /\ seg[cur].id = seg[User].id
        /\ seg' = [seg EXCEPT ![cur] = Detached(@, p)]
        /\ wrote' = NoWrite /\ UNCHANGED <<freeq, cur, nextId, freePtr, halted, got>>

(* Mutant: the current segment goes to the pool, its status unchanged.     *)
ShmrmCurrent ==
  /\ Running
  /\ \/ WrongSegment(seg[User].id)
     \/ /\ cur # Null /\ seg[cur].id = seg[User].id
        /\ freeq' = IF Len(freeq) < QNodes THEN Append(freeq, cur) ELSE freeq
        /\ wrote' = NoWrite /\ UNCHANGED <<seg, cur, nextId, freePtr, halted, got>>

(* shmrm: the caller's descriptor, not the segment, is put into the pool;  *)
(* anyone may call it, at any time.                                        *)
Shmrm ==
  /\ Running
  /\ \/ WrongSegment(seg[User].id)
     \/ /\ cur # Null /\ seg[cur].id = seg[User].id
        /\ seg' = [seg EXCEPT ![User].status = SHM_FREE]
        /\ freeq' = IF Len(freeq) < QNodes THEN Append(freeq, User) ELSE freeq
        /\ wrote' = NoWrite /\ UNCHANGED <<cur, nextId, freePtr, halted, got>>

----------------------------------------------------------------------------
(* What programs do with their descriptor (user.c): the creator notes the  *)
(* id it got, whoever attached its PID and the address.                    *)

NoteId(p) ==
  /\ Running /\ got[p].kind = "id"
  /\ seg' = [seg EXCEPT ![User].id = got[p].value]
  /\ got' = [got EXCEPT ![p] = Nothing]
  /\ wrote' = NoWrite /\ UNCHANGED <<freeq, cur, nextId, freePtr, halted>>

NoteAddress(p, k) ==
  /\ Running /\ got[p].kind = "address"
  /\ seg' = [seg EXCEPT ![User].pids[k] = p, ![User].address = got[p].value]
  /\ got' = [got EXCEPT ![p] = Nothing]
  /\ wrote' = NoWrite /\ UNCHANGED <<freeq, cur, nextId, freePtr, halted>>

----------------------------------------------------------------------------

Init ==
  /\ seg = [d \in Descs |-> [address |-> Null, num_members |-> 0, size |-> 0, id |-> 0,
                             pids |-> NoPids, status |-> SHM_FREE]]
  /\ freeq = [i \in 1 .. MAX_SHMS |-> i]
  /\ cur = Null /\ nextId = 0 /\ freePtr = 0 /\ halted = None
  /\ wrote = NoWrite
  /\ got = [p \in Pids |-> Nothing]

Next ==
  \/ \E p \in Pids :
       \/ \E size \in Sizes : Shmget(p, size)
       \/ \E id \in 0 .. IdMod - 1 : Shmat(p, id)
       \/ \E len \in Lens : Shmwrite(p, len)
       \/ Shmdt(p)
       \/ NoteId(p)
       \/ \E k \in 1 .. 2 : NoteAddress(p, k)
  \/ Shmrm

Spec == Init /\ [][Next]_vars

----------------------------------------------------------------------------
(* Properties.                                                             *)

(* Every variable keeps its type.                                          *)
TypeOK ==
  /\ seg \in [Descs -> Seg]
  /\ freeq \in Seq(Descs) /\ Len(freeq) <= QNodes
  /\ cur \in Descs \cup {Null} /\ nextId \in 0 .. IdMod - 1
  /\ freePtr \in Int /\ freePtr <= MAX_MEM
  /\ halted \in {None, "panic", "null"}
  /\ got \in [Pids -> Results]
  /\ wrote \in [by : Pids \cup {None}, bytes : SUBSET Int]

(* The bytes of a segment.                                                 *)
Bytes(s) == IF seg[s].address = Null THEN {}
            ELSE seg[s].address .. seg[s].address + seg[s].size - 1

(* The memory of a segment (shared_mem.c 62-75, syscalls.c 432) belongs to *)
(* no other segment and lies inside _memory, whatever segments were        *)
(* created and removed, and in which order, before.                        *)
SegmentsDisjoint ==
  /\ \A s \in Segs : Bytes(s) \subseteq 0 .. MAX_MEM - 1
  /\ \A s, t \in Segs : s # t => Bytes(s) \cap Bytes(t) = {}

(* The number of slots in use.                                             *)
Slots(s) == (IF seg[s].pids[1] = None THEN 0 ELSE 1) + (IF seg[s].pids[2] = None THEN 0 ELSE 1)

(* A segment never has more members than num_members counts (syscalls.c    *)
(* 465-475, 592-604), so that shmat cannot let a third process in.         *)
MembersCounted == \A s \in Segs : Slots(s) <= seg[s].num_members

(* A segment keeps its id, its memory and its status from its creation on, *)
(* whatever descriptors shmrm puts into the pool: shmget "always creates    *)
(* new and unique segment" (syscalls.c 401), as far as the table goes.     *)
Identity(d) == <<d.id, d.address, d.size, d.status>>

SegmentsKept ==
  [][\A s \in Segs : seg[s].status = SHM_NEW => Identity(seg'[s]) = Identity(seg[s])]_vars

(* Messages that fit into every segment change one segment at most         *)
(* (syscalls.c 514), even when the descriptor shmwrite is given is stale,  *)
(* because memory is never handed out twice; they leave _memory only       *)
(* through a segment that got none.                                        *)
WriteStaysInSegment ==
  /\ seg[User].address # Null => wrote.bytes \subseteq 0 .. MAX_MEM - 1
  /\ \A s, t \in Segs : wrote.bytes \cap Bytes(s) # {} /\ wrote.bytes \cap Bytes(t) # {} => s = t

(* A segment of the table is in the free pool once if it is free and not   *)
(* at all if it is in use (shared_mem.c 98-133).                           *)
PoolHoldsFree ==
  /\ \A i \in 1 .. Len(freeq) : freeq[i] \in Segs => seg[freeq[i]].status = SHM_FREE
  /\ \A i, j \in 1 .. Len(freeq) : freeq[i] \in Segs /\ freeq[i] = freeq[j] => i = j

----------------------------------------------------------------------------
(* What the code's comments promise and the code does not keep.            *)

(* A call that names a wrong segment fails (syscalls.c 446, 568, 617); it  *)
(* does not stop the machine.                                              *)
NoPanic == halted # "panic"

(* A segment that shmget reports as created has memory (syscalls.c 405).   *)
GetReturnsMemory == \A s \in Segs : seg[s].status = SHM_NEW => seg[s].address # Null

(* The pool holds segments of the table (shared_mem.c 25, 31).             *)
PoolFromTable == \A i \in 1 .. Len(freeq) : freeq[i] \in Segs

(* shmwrite writes to shared memory (syscalls.c 487).  It writes to        *)
(* address 0 when the segment has no memory.                               *)
WritesInMemory == wrote.bytes \subseteq 0 .. MAX_MEM - 1

(* The slots hold as many processes as num_members counts (syscalls.c      *)
(* 465): no process that attached loses its slot to another one.           *)
MembersRecorded ==
  \A s \in Segs : Slots(s) = seg[s].num_members

(* Only members of a segment write to it (syscalls.c 506).                 *)
WritersAreMembers ==
  \A s \in Segs : wrote.bytes \cap Bytes(s) # {} => Holds(s, wrote.by)

============================================================================

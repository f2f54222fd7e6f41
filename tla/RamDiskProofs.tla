---------------------------- MODULE RamDiskProofs ----------------------------
(***************************************************************************)
(* Proofs about the RAM disk's queues, for any number of processes, blocks *)
(* and queue nodes, and any order of requests and clock ticks.             *)
(***************************************************************************)
EXTENDS RamDisk, TLAPS

-----------------------------------------------------------------------------
(* The inductive invariant.                                                *)

Record == [cmd : {"read", "write", "other"}, lba : Lbas \cup {0}, data : 0 .. MaxRequests,
           status : Pending \cup {"new", "success", "finished_error", "invalid_size",
                                  "invalid_cmd", "no_node"}]

(* The part of TypeOK that is about requests and the disk.                 *)
DiskTyped ==
  /\ blocked \in Seq(Procs) /\ ioq \in Seq(Procs)
  /\ pending \in [Procs -> BOOLEAN] /\ req \in [Procs -> Record]
  /\ pc \in [Procs -> {"user", "queued", "poll"}]
  /\ disk \in [0 .. RD_MAX_LBA - 1 -> 0 .. MaxRequests]
  /\ made \in 0 .. MaxRequests /\ stopped \in {"no", "loop", "wild", "panic"}

(* A read that is queued or that failed.                                   *)
AwaitsRead(p) ==
  /\ pending[p] /\ req[p].cmd = "read"
  /\ Contains(ioq, p) \/ req[p].status \in {"finished_error", "no_node"}

(* A process with a request in the queue has not been told of success.     *)
InQueue ==
  \A p \in Procs : Contains(ioq, p) => pc[p] # "user" /\ req[p].status \in Pending

(* A process in _blocked_requests polls; until the machine stops it awaits *)
(* a read.                                                                 *)
InBlocked ==
  \A p \in Procs : Contains(blocked, p) => pc[p] = "poll" /\ (stopped = "no" => AwaitsRead(p))

(* Between the two insertions of a read a tick may have failed it, but no  *)
(* tick has served it.                                                     *)
BetweenInsertions ==
  \A p \in Procs : pc[p] = "queued" /\ stopped = "no" => AwaitsRead(p)

QueueInvariant ==
  DiskTyped /\ Once(ioq) /\ Once(blocked) /\ InQueue /\ InBlocked /\ BetweenInsertions

-----------------------------------------------------------------------------
(* Queues without repetition.                                              *)

(* A new element at the end.                                               *)
LEMMA AppendOnce ==
  ASSUME NEW S, NEW s \in Seq(S), Once(s), NEW x \in S, ~Contains(s, x)
  PROVE  /\ Append(s, x) \in Seq(S) /\ Once(Append(s, x))
         /\ \A y : Contains(Append(s, x), y) <=> Contains(s, y) \/ y = x
<1>1. Append(s, x) \in Seq(S) /\ Len(Append(s, x)) = Len(s) + 1
  OBVIOUS
<1>2. \A i \in 1 .. Len(s) + 1 : Append(s, x)[i] = IF i = Len(s) + 1 THEN x ELSE s[i]
  OBVIOUS
<1>3. Once(Append(s, x))
  BY <1>1, <1>2 DEF Once, Contains
<1>4. \A y : Contains(Append(s, x), y) <=> Contains(s, y) \/ y = x
  BY <1>1, <1>2 DEF Contains
<1> QED BY <1>1, <1>3, <1>4

(* The first element is taken.                                             *)
LEMMA TailOnce ==
  ASSUME NEW S, NEW s \in Seq(S), Once(s), s # <<>>
  PROVE  /\ Head(s) \in S /\ Contains(s, Head(s))
         /\ Tail(s) \in Seq(S) /\ Once(Tail(s))
         /\ \A y : Contains(Tail(s), y) <=> Contains(s, y) /\ y # Head(s)
<1>1. Tail(s) \in Seq(S) /\ Len(Tail(s)) = Len(s) - 1 /\ Len(s) \in Nat \ {0}
  OBVIOUS
<1>2. \A i \in 1 .. Len(s) - 1 : Tail(s)[i] = s[i + 1]
  OBVIOUS
<1>3. Head(s) = s[1] /\ Head(s) \in S
  OBVIOUS
<1>4. Once(Tail(s))
  BY <1>1, <1>2 DEF Once
<1>5. ASSUME NEW y, Contains(Tail(s), y) PROVE Contains(s, y) /\ y # Head(s)
  BY <1>1, <1>2, <1>3, <1>5 DEF Contains, Once
<1>6. ASSUME NEW y, Contains(s, y), y # Head(s) PROVE Contains(Tail(s), y)
  <2>1. PICK i \in 1 .. Len(s) : s[i] = y
    BY <1>6 DEF Contains
  <2>2. i - 1 \in 1 .. Len(s) - 1 /\ Tail(s)[i - 1] = y
    BY <1>1, <1>2, <1>3, <1>6, <2>1
  <2> QED BY <1>1, <2>2 DEF Contains
<1>7. Contains(s, Head(s))
  BY <1>1, <1>3 DEF Contains
<1> QED BY <1>1, <1>3, <1>4, <1>5, <1>6, <1>7

(* The search through _blocked_requests takes out its process and no other *)
(* one, and repeats none.                                                  *)
LEMMA RotatedOnce ==
  ASSUME blocked \in Seq(Procs), Once(blocked), NEW p \in Procs, Contains(blocked, p)
  PROVE  /\ Rotated(p) \in Seq(Procs) /\ Once(Rotated(p))
         /\ \A q : Contains(Rotated(p), q) <=> Contains(blocked, q) /\ q # p
<1> DEFINE k == Position(p)
           n == Len(blocked)
           a == SubSeq(blocked, k + 1, n)
           b == SubSeq(blocked, 1, k - 1)
<1>1. n \in Nat /\ k \in 1 .. n /\ blocked[k] = p
  BY DEF Position, Contains, Once
<1> HIDE DEF k
<1>2. /\ a \in Seq(Procs) /\ Len(a) = n - k
      /\ \A i \in 1 .. n - k : a[i] = blocked[k + i]
  BY <1>1
<1>3. /\ b \in Seq(Procs) /\ Len(b) = k - 1
      /\ \A i \in 1 .. k - 1 : b[i] = blocked[i]
  BY <1>1
<1>4. Rotated(p) = a \o b
  BY DEF Rotated, k
<1> HIDE DEF a, b
<1>5. /\ Rotated(p) \in Seq(Procs) /\ Len(Rotated(p)) = n - 1
      /\ \A i \in 1 .. n - 1 : Rotated(p)[i] = IF i <= n - k THEN a[i] ELSE b[i - (n - k)]
  <2> HIDE DEF n
  <2>1. Rotated(p) \in Seq(Procs)
    BY <1>2, <1>3, <1>4
  <2>2. Len(Rotated(p)) = n - 1
    BY <1>1, <1>2, <1>3, <1>4
  <2>3. \A i \in 1 .. n - 1 :
          Rotated(p)[i] = IF i <= n - k THEN a[i] ELSE b[i - (n - k)]
    <3>1. a \in Seq(Procs) /\ b \in Seq(Procs)
      BY <1>2, <1>3
    <3>2. \A i \in 1 .. Len(a) + Len(b) :
            (a \o b)[i] = IF i <= Len(a) THEN a[i] ELSE b[i - Len(a)]
      BY <3>1
    <3> QED BY <1>1, <1>2, <1>3, <1>4, <3>2
  <2> QED BY <2>1, <2>2, <2>3
<1>6. \A i \in 1 .. n - 1 :
        Rotated(p)[i] = IF i <= n - k THEN blocked[k + i] ELSE blocked[i - (n - k)]
  BY <1>1, <1>2, <1>3, <1>5
<1> DEFINE At(x) == IF x <= n - k THEN k + x ELSE x - (n - k)
<1> HIDE DEF n
<1>7. /\ \A i \in 1 .. n - 1 : At(i) \in 1 .. n /\ At(i) # k
      /\ \A i, j \in 1 .. n - 1 : At(i) = At(j) => i = j
  BY <1>1
<1>8. \A i \in 1 .. n - 1 : Rotated(p)[i] = blocked[At(i)]
  BY <1>6
<1> HIDE DEF At
<1>9. \A i, j \in 1 .. n : blocked[i] = blocked[j] => i = j
  BY DEF Once, n
<1>10. Once(Rotated(p))
  BY <1>5, <1>7, <1>8, <1>9 DEF Once
<1>11. ASSUME NEW q, Contains(Rotated(p), q) PROVE Contains(blocked, q) /\ q # p
  <2>1. PICK i \in 1 .. n - 1 : blocked[At(i)] = q
    BY <1>5, <1>11, <1>8 DEF Contains
  <2> QED BY <1>1, <1>7, <1>9, <2>1 DEF Contains, n
<1>12. ASSUME NEW q, Contains(blocked, q), q # p PROVE Contains(Rotated(p), q)
  <2>1. PICK i \in 1 .. n : blocked[i] = q
    BY <1>12 DEF Contains, n
  <2>2. i # k
    BY <1>1, <1>12, <2>1
  <2>3. CASE i > k
    <3>1. i - k \in 1 .. n - 1 /\ At(i - k) = i
      BY <1>1, <2>1, <2>3 DEF At
    <3> QED BY <1>5, <1>8, <2>1, <3>1 DEF Contains
  <2>4. CASE i < k
    <3>1. i + (n - k) \in 1 .. n - 1 /\ At(i + (n - k)) = i
      BY <1>1, <2>1, <2>4 DEF At
    <3> QED BY <1>5, <1>8, <2>1, <3>1 DEF Contains
  <2> QED BY <1>1, <2>2, <2>3, <2>4
<1> QED BY <1>5, <1>10, <1>11, <1>12

(* A block that is on the disk has a number.                               *)
LEMMA BlockNumber ==
  ASSUME NEW lba \in Nat, OnDisk(lba)
  PROVE  Block(lba) \in 0 .. RD_MAX_LBA - 1
<1> DEFINE q == lba \div DISK_BLOCK_SIZE
<1>1. DISK_BLOCK_SIZE \in Nat \ {0} /\ RD_MAX_LBA \in Nat \ {0}
  BY RamDiskAssumption
<1>2. q \in Nat /\ q * DISK_BLOCK_SIZE <= lba
  BY <1>1
<1>3. lba + DISK_BLOCK_SIZE <= RD_MAX_LBA * DISK_BLOCK_SIZE
  BY DEF OnDisk
<1> HIDE DEF q
<1>4. (q + 1) * DISK_BLOCK_SIZE <= RD_MAX_LBA * DISK_BLOCK_SIZE
  BY <1>1, <1>2, <1>3
<1>5. q + 1 <= RD_MAX_LBA
  BY <1>1, <1>2, <1>4
<1> QED BY <1>1, <1>2, <1>5 DEF Block, q

-----------------------------------------------------------------------------
(* The steps of a process.                                                 *)

(* A new request: its process is in neither queue, since a process in one  *)
(* of them polls.                                                          *)
LEMMA RequestStep ==
  ASSUME QueueInvariant, NEW p \in Procs, NEW c \in Cmds, NEW lba \in Lbas,
         Request(p, c, lba)
  PROVE  QueueInvariant'
<1>0. /\ DiskTyped /\ Once(ioq) /\ Once(blocked) /\ InQueue /\ InBlocked
      /\ BetweenInsertions /\ pc[p] = "user" /\ ~Contains(ioq, p) /\ ~Contains(blocked, p)
      /\ c \in {"read", "write", "other"} /\ made + 1 \in 0 .. MaxRequests
  BY RamDiskAssumption DEF QueueInvariant, InQueue, InBlocked, Request, DiskTyped
<1>1. PICK result \in Pending \cup {"invalid_size", "invalid_cmd", "no_node"} :
        /\ result = "read_pending" => c = "read"
        /\ result = "write_pending" => c = "write"
        /\ req' = [req EXCEPT ![p] = [cmd |-> c, lba |-> lba, data |-> made + 1,
                                       status |-> result]]
        /\ ioq' = IF result \in Pending THEN Append(ioq, p) ELSE ioq
        /\ pending' = [pending EXCEPT ![p] = @ \/ result \in Pending \cup {"no_node"}]
        /\ pc' = [pc EXCEPT ![p] = IF result \in {"invalid_size", "invalid_cmd"} THEN "user"
                                   ELSE IF c = "write" THEN "poll" ELSE "queued"]
        /\ result = "no_node" => c # "other"
  <2> DEFINE st == CASE ~Accepted(lba) -> "invalid_size"
                     [] Accepted(lba) /\ c = "other" -> "invalid_cmd"
                     [] Accepted(lba) /\ c # "other" /\ ~HasNode -> "no_node"
                     [] Accepted(lba) /\ c = "read"  /\ HasNode -> "read_pending"
                     [] Accepted(lba) /\ c = "write" /\ HasNode -> "write_pending"
  <2>1. /\ st \in Pending \cup {"invalid_size", "invalid_cmd", "no_node"}
        /\ st = "read_pending" => c = "read"
        /\ st = "write_pending" => c = "write"
        /\ st = "no_node" => c # "other"
    BY <1>0 DEF Pending
  <2> QED BY <2>1 DEF Request
<1>2. UNCHANGED <<blocked, disk, stopped>> /\ made' = made + 1
  BY DEF Request, schedVars
<1>3. /\ ioq' \in Seq(Procs) /\ Once(ioq)'
      /\ \A q \in Procs : Contains(ioq', q) <=>
            Contains(ioq, q) \/ (q = p /\ result \in Pending)
  <2>1. CASE result \in Pending
    <3>1. ioq' = Append(ioq, p)
      BY <1>1, <2>1
    <3> QED BY <1>0, <2>1, <3>1, AppendOnce DEF DiskTyped, Once
  <2>2. CASE result \notin Pending
    BY <1>0, <1>1, <2>2 DEF DiskTyped
  <2> QED BY <2>1, <2>2
<1>4. /\ req' \in [Procs -> Record]
      /\ req'[p].cmd = c /\ req'[p].status = result
      /\ \A q \in Procs \ {p} : req'[q] = req[q] /\ pending'[q] = pending[q] /\ pc'[q] = pc[q]
  BY <1>0, <1>1 DEF DiskTyped, Record, Pending
<1>5. pending' \in [Procs -> BOOLEAN] /\ (result \in Pending \cup {"no_node"} => pending'[p])
  BY <1>0, <1>1 DEF DiskTyped
<1>6. pc'[p] = IF result \in {"invalid_size", "invalid_cmd"} THEN "user"
               ELSE IF c = "write" THEN "poll" ELSE "queued"
  BY <1>0, <1>1 DEF DiskTyped
<1>7. DiskTyped'
  <2>1. pc' \in [Procs -> {"user", "queued", "poll"}]
    BY <1>0, <1>1 DEF DiskTyped
  <2> QED BY <1>0, <1>2, <1>3, <1>4, <1>5, <2>1 DEF DiskTyped
<1>8. InQueue'
  BY <1>0, <1>3, <1>4, <1>6 DEF InQueue, Pending
<1>9. InBlocked'
  BY <1>0, <1>2, <1>3, <1>4 DEF InBlocked, AwaitsRead
<1>10. BetweenInsertions'
  <2>1. pc'[p] = "queued" => AwaitsRead(p)'
    <3>1. SUFFICES ASSUME pc'[p] = "queued" PROVE AwaitsRead(p)'
      OBVIOUS
    <3>2. result \in Pending \cup {"no_node"} /\ c # "write"
      BY <1>6, <3>1
    <3>3. c = "read"
      BY <1>0, <1>1, <3>2 DEF Pending
    <3> QED BY <1>3, <1>4, <1>5, <3>2, <3>3 DEF AwaitsRead
  <2> QED BY <1>0, <1>2, <1>3, <1>4, <2>1 DEF BetweenInsertions, AwaitsRead
<1> QED BY <1>0, <1>2, <1>3, <1>7, <1>8, <1>9, <1>10 DEF QueueInvariant

(* The second insertion of a read: its process was not there before.       *)
LEMMA BlockStep ==
  ASSUME QueueInvariant, NEW p \in Procs, BlockProcess(p)
  PROVE  QueueInvariant'
<1>0. /\ DiskTyped /\ Once(ioq) /\ Once(blocked) /\ InQueue /\ InBlocked
      /\ BetweenInsertions /\ pc[p] = "queued" /\ stopped = "no"
      /\ ~Contains(blocked, p) /\ AwaitsRead(p)
  BY DEF QueueInvariant, InBlocked, BetweenInsertions, BlockProcess, Running
<1>1. UNCHANGED <<pending, ioq, req, disk, made, stopped>> /\ pc' = [pc EXCEPT ![p] = "poll"]
  BY DEF BlockProcess, schedVars
<1>2. /\ blocked' \in Seq(Procs) /\ Once(blocked)'
      /\ \A q \in Procs : Contains(blocked', q) => Contains(blocked, q) \/ q = p
  <2>1. CASE HasNode
    <3>1. blocked' = Append(blocked, p)
      BY <2>1 DEF BlockProcess
    <3> QED BY <1>0, <3>1, AppendOnce DEF DiskTyped, Once
  <2>2. CASE ~HasNode
    BY <1>0, <2>2 DEF BlockProcess, DiskTyped
  <2> QED BY <2>1, <2>2
<1>3. /\ pc' \in [Procs -> {"user", "queued", "poll"}] /\ pc'[p] = "poll"
      /\ \A q \in Procs \ {p} : pc'[q] = pc[q]
  BY <1>0, <1>1 DEF DiskTyped
<1>4. DiskTyped'
  BY <1>0, <1>1, <1>2, <1>3 DEF DiskTyped
<1>5. InQueue' /\ InBlocked' /\ BetweenInsertions'
  BY <1>0, <1>1, <1>2, <1>3 DEF InQueue, InBlocked, BetweenInsertions, AwaitsRead
<1> QED BY <1>0, <1>1, <1>2, <1>4, <1>5 DEF QueueInvariant

(* A poll that succeeds is of a request that is in no queue any more.      *)
LEMMA PollStep ==
  ASSUME QueueInvariant, NEW p \in Procs, PollDone(p) \/ PollSleep(p)
  PROVE  QueueInvariant'
<1>0. /\ DiskTyped /\ Once(ioq) /\ Once(blocked) /\ InQueue /\ InBlocked
      /\ BetweenInsertions /\ pc[p] = "poll" /\ stopped = "no"
      /\ UNCHANGED <<blocked, pending, ioq, req, disk, made>>
  BY DEF QueueInvariant, PollDone, PollSleep, Running, diskVars
<1>1. CASE PollSleep(p)
  <2>1. stopped' \in {"no", "panic"} /\ pc' = pc
    BY <1>0, <1>1 DEF PollSleep, Dispatch
  <2> QED BY <1>0, <2>1 DEF QueueInvariant, DiskTyped, Once, InQueue, InBlocked,
                            BetweenInsertions, AwaitsRead
<1>2. CASE PollDone(p)
  <2>1. /\ req[p].status = "success" /\ pc' = [pc EXCEPT ![p] = "user"]
        /\ stopped' = stopped
    BY <1>2 DEF PollDone, schedVars
  <2>2. ~Contains(ioq, p) /\ ~Contains(blocked, p)
    BY <1>0, <2>1 DEF InQueue, InBlocked, AwaitsRead, Pending
  <2>3. /\ pc' \in [Procs -> {"user", "queued", "poll"}] /\ pc'[p] = "user"
        /\ \A q \in Procs \ {p} : pc'[q] = pc[q]
    BY <1>0, <2>1 DEF DiskTyped
  <2>4. DiskTyped'
    BY <1>0, <2>1, <2>3 DEF DiskTyped
  <2>5. InQueue' /\ InBlocked' /\ BetweenInsertions'
    BY <1>0, <2>1, <2>2, <2>3 DEF InQueue, InBlocked, BetweenInsertions, AwaitsRead
  <2> QED BY <1>0, <2>4, <2>5 DEF QueueInvariant
<1> QED BY <1>1, <1>2

-----------------------------------------------------------------------------
(* The clock.                                                              *)

(* The oldest request leaves the queue and is served, or is not found, or  *)
(* stops the machine.                                                      *)
LEMMA ServeStep ==
  ASSUME QueueInvariant, stopped = "no", ioq # <<>>, ioq' = Tail(ioq),
         UNCHANGED <<pc, made>>, stopped' \in {"no", "loop", "wild", "panic"},
         \/ OnDisk(req[Head(ioq)].lba) /\ req[Head(ioq)].cmd = "write" /\ ServeWrite(Head(ioq))
         \/ /\ OnDisk(req[Head(ioq)].lba) /\ req[Head(ioq)].cmd = "read" /\ ServeRead(Head(ioq))
            /\ ~Found(Head(ioq)) /\ blocked # <<>> => stopped' # "no"
         \/ stopped' # "no" /\ UNCHANGED <<req, blocked, pending, disk>>
  PROVE  QueueInvariant'
<1> DEFINE p == Head(ioq)
<1>0. /\ DiskTyped /\ Once(ioq) /\ Once(blocked) /\ InQueue /\ InBlocked /\ BetweenInsertions
  BY DEF QueueInvariant
<1>1. /\ p \in Procs /\ Contains(ioq, p) /\ pc[p] # "user"
      /\ ioq' \in Seq(Procs) /\ Once(ioq')
      /\ \A q : Contains(ioq', q) <=> Contains(ioq, q) /\ q # p
  BY <1>0, TailOnce DEF DiskTyped, InQueue
<1>2. Once(ioq)'
  BY <1>1 DEF Once
<1> HIDE DEF p
<1>3. req[p] \in Record /\ req[p].lba \in Nat
  <2>1. req[p] \in Record
    BY <1>0, <1>1 DEF DiskTyped
  <2>2. Lbas \cup {0} \subseteq Nat
    BY RamDiskAssumption
  <2> QED BY <2>1, <2>2 DEF Record
<1>4. CASE OnDisk(req[p].lba) /\ req[p].cmd = "write" /\ ServeWrite(p)
  <2>1. /\ UNCHANGED <<blocked, pending>>
        /\ req' = [req EXCEPT ![p].status = "success"]
        /\ disk' = [disk EXCEPT ![Block(req[p].lba)] = req[p].data]
    BY <1>4 DEF ServeWrite
  <2>2. /\ req' \in [Procs -> Record] /\ \A q \in Procs \ {p} : req'[q] = req[q]
    BY <1>0, <1>1, <1>3, <2>1 DEF DiskTyped, Record
  <2>3. disk' \in [0 .. RD_MAX_LBA - 1 -> 0 .. MaxRequests]
    BY <1>0, <1>3, <2>1 DEF DiskTyped, Record
  <2>4. DiskTyped'
    BY <1>0, <1>1, <2>1, <2>2, <2>3 DEF DiskTyped
  <2>5. ~Contains(blocked, p) /\ pc[p] # "queued"
    BY <1>0, <1>1, <1>4 DEF InBlocked, BetweenInsertions, AwaitsRead
  <2>6. InQueue' /\ InBlocked' /\ BetweenInsertions'
    BY <1>0, <1>1, <2>1, <2>2, <2>5 DEF InQueue, InBlocked, BetweenInsertions, AwaitsRead
  <2> QED BY <1>0, <1>2, <2>1, <2>4, <2>6 DEF QueueInvariant
<1>5. CASE /\ OnDisk(req[p].lba) /\ req[p].cmd = "read" /\ ServeRead(p)
           /\ ~Found(p) /\ blocked # <<>> => stopped' # "no"
  <2>1. PICK st \in {"success", "finished_error", req[p].status} :
          /\ req' = [req EXCEPT ![p].data = disk[Block(req[p].lba)], ![p].status = st]
          /\ Found(p) => st = "success"
          /\ ~Found(p) /\ blocked = <<>> => st = "finished_error"
    <3>1. Found(p) => blocked # <<>>
      BY DEF Found, Contains
    <3> QED BY <1>5, <3>1 DEF ServeRead
  <2>2. disk[Block(req[p].lba)] \in 0 .. MaxRequests
    BY <1>0, <1>3, <1>5, BlockNumber DEF DiskTyped
  <2>3. /\ req' \in [Procs -> Record] /\ \A q \in Procs \ {p} : req'[q] = req[q]
        /\ req'[p].cmd = "read" /\ req'[p].status = st
    <3>1. st \in Pending \cup {"new", "success", "finished_error", "invalid_size",
                               "invalid_cmd", "no_node"}
      BY <1>3 DEF Record
    <3> QED BY <1>0, <1>1, <1>3, <1>5, <2>1, <2>2, <3>1 DEF DiskTyped, Record
  <2>4. UNCHANGED disk
    BY <1>5 DEF ServeRead
  <2>5. CASE Found(p)
    <3>1. blocked' = Rotated(p) /\ pending' = [pending EXCEPT ![p] = FALSE]
      BY <1>5, <2>5 DEF ServeRead
    <3>2. /\ blocked' \in Seq(Procs) /\ Once(blocked')
          /\ \A q : Contains(blocked', q) <=> Contains(blocked, q) /\ q # p
      BY <1>0, <1>1, <2>5, <3>1, RotatedOnce DEF DiskTyped, Found
    <3>3. Once(blocked)'
      BY <3>2 DEF Once
    <3>4. /\ pending' \in [Procs -> BOOLEAN]
          /\ \A q \in Procs \ {p} : pending'[q] = pending[q]
      BY <1>0, <3>1 DEF DiskTyped
    <3>5. DiskTyped'
      BY <1>0, <1>1, <2>3, <2>4, <3>1, <3>2, <3>4 DEF DiskTyped
    <3>6. pc[p] = "poll"
      BY <1>0, <1>1, <2>5 DEF Found, InBlocked
    <3>7. InQueue' /\ InBlocked' /\ BetweenInsertions'
      <4>1. pc' = pc
        OBVIOUS
      <4>2. ASSUME NEW r \in Procs \ {p}, AwaitsRead(r) PROVE AwaitsRead(r)'
        BY <1>1, <2>3, <3>4, <4>2 DEF AwaitsRead
      <4>3. InQueue'
        BY <1>0, <1>1, <2>3, <4>1 DEF InQueue
      <4>4. InBlocked'
        BY <1>0, <3>2, <4>1, <4>2 DEF InBlocked
      <4>5. BetweenInsertions'
        BY <1>0, <3>6, <4>1, <4>2 DEF BetweenInsertions
      <4> QED BY <4>3, <4>4, <4>5
    <3> QED BY <1>2, <3>3, <3>5, <3>7 DEF QueueInvariant
  <2>6. CASE ~Found(p)
    <3>1. /\ UNCHANGED <<blocked, pending>>
          /\ blocked = <<>> \/ stopped' # "no"
      BY <1>5, <2>6 DEF ServeRead
    <3>2. DiskTyped'
      BY <1>0, <1>1, <2>3, <2>4, <3>1 DEF DiskTyped
    <3>3. blocked = <<>> => \A q \in Procs : ~Contains(blocked, q)
      BY DEF Contains
    <3>4. InQueue' /\ InBlocked'
      BY <1>0, <1>1, <2>3, <3>1, <3>3 DEF InQueue, InBlocked, AwaitsRead
    <3>5. BetweenInsertions'
      BY <1>0, <1>1, <2>1, <2>3, <2>6, <3>1 DEF BetweenInsertions, AwaitsRead
    <3> QED BY <1>0, <1>2, <3>1, <3>2, <3>4, <3>5 DEF QueueInvariant
  <2> QED BY <2>5, <2>6
<1>6. CASE stopped' # "no" /\ UNCHANGED <<req, blocked, pending, disk>>
  <2>2. DiskTyped'
    BY <1>0, <1>1, <1>6 DEF DiskTyped
  <2>3. InQueue' /\ InBlocked' /\ BetweenInsertions'
    BY <1>0, <1>1, <1>6 DEF InQueue, InBlocked, BetweenInsertions
  <2> QED BY <1>0, <1>2, <1>6, <2>2, <2>3 DEF QueueInvariant
<1> QED BY <1>4, <1>5, <1>6 DEF p

-----------------------------------------------------------------------------
(* The theorems.                                                           *)

(* At first the queues are empty and no process has a request.             *)
LEMMA QueueInit == Init => QueueInvariant
<1> SUFFICES ASSUME Init PROVE QueueInvariant
  OBVIOUS
<1>1. DiskTyped
  BY RamDiskAssumption DEF Init, DiskTyped, Record
<1>2. \A q : ~Contains(<<>>, q)
  BY DEF Contains
<1> QED BY <1>1, <1>2 DEF Init, QueueInvariant, Once, InQueue, InBlocked, BetweenInsertions

(* Every step keeps the invariant.                                         *)
LEMMA QueueStep ==
  ASSUME QueueInvariant, [Next]_vars
  PROVE  QueueInvariant'
<1>1. ASSUME NEW p \in Procs, Step(p) PROVE QueueInvariant'
  BY <1>1, RequestStep, BlockStep, PollStep DEF Step
<1>2. CASE Tick
  <2>1. /\ stopped = "no" /\ stopped' \in {"no", "loop", "wild", "panic"}
        /\ UNCHANGED <<pc, made>>
    BY <1>2 DEF Tick, Charge, Dispatch, Stop
  <2>2. CASE UNCHANGED diskVars
    BY <2>1, <2>2 DEF diskVars, QueueInvariant, DiskTyped, Once, InQueue, InBlocked,
                      BetweenInsertions, AwaitsRead
  <2>3. CASE /\ ioq # <<>> /\ ioq' = Served
             /\ \/ OnDisk(req[Head(ioq)].lba) /\ req[Head(ioq)].cmd = "write"
                   /\ ServeWrite(Head(ioq))
                \/ /\ OnDisk(req[Head(ioq)].lba) /\ req[Head(ioq)].cmd = "read"
                   /\ ServeRead(Head(ioq))
                   /\ ~Found(Head(ioq)) /\ blocked # <<>> => stopped' # "no"
                \/ stopped' # "no" /\ UNCHANGED <<req, blocked, pending, disk>>
    BY <2>1, <2>3, ServeStep DEF Served
  <2> QED BY <1>2, <2>2, <2>3 DEF Tick, Stop
<1>3. CASE UNCHANGED vars
  BY <1>3 DEF vars, schedVars, diskVars, QueueInvariant, DiskTyped, Once, InQueue, InBlocked,
              BetweenInsertions, AwaitsRead
<1> QED BY <1>1, <1>2, <1>3 DEF Next

(* The inductive invariant holds.                                          *)
THEOREM Invariance == Spec => []QueueInvariant
<1>1. QueueInvariant /\ [Next]_vars => QueueInvariant'
  BY QueueStep
<1> QED BY QueueInit, <1>1, PTL DEF Spec

(* Each request in _ramdisk_io_pending is there once and still waits, so   *)
(* the clock serves no request twice (ramdisk.c 92-123, clock.c 82).       *)
THEOREM ServedOnce == Spec => []QueuedRequestsWait
<1>1. QueueInvariant => QueuedRequestsWait
  BY DEF QueueInvariant, InQueue, QueuedRequestsWait
<1> QED BY Invariance, <1>1, PTL

(* A process in _blocked_requests is there once, and until the machine     *)
(* stops it awaits a read (ramdisk.c 103, clock.c 91-117).                 *)
THEOREM BlockedAwait == Spec => []BlockedWaitForRead
<1>1. QueueInvariant => BlockedWaitForRead
  BY DEF QueueInvariant, InBlocked, AwaitsRead, BlockedWaitForRead
<1> QED BY Invariance, <1>1, PTL

=============================================================================

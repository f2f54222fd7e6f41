-------------------------- MODULE SharedMemProofs --------------------------
(***************************************************************************)
(* Proofs about shared memory, for every number of processes, segments,    *)
(* bytes and queue nodes.  Membership and the pool are inductive once the  *)
(* types are known.  That segments are disjoint is not: it needs that all  *)
(* of them lie below the free pointer, and holds only while no process     *)
(* asks for a negative size.                                               *)
(***************************************************************************)
EXTENDS SharedMem, TLAPS

USE DEF User, Null, None, SHM_FREE, SHM_NEW

----------------------------------------------------------------------------
(* Descriptors.                                                            *)

(* A freshly created segment is a segment.                                 *)
LEMMA NewSegmentType ==
  ASSUME TypeOK, NEW size \in Sizes
  PROVE  NewSegment(size) \in Seg
BY SharedMemAssumption DEF TypeOK, NewSegment, Seg, NoPids, MallocFits

(* What changes in the users' descriptor leaves it a segment.              *)
LEMMA UserType ==
  ASSUME NEW d \in Seg
  PROVE  /\ [d EXCEPT !.status = SHM_FREE] \in Seg
         /\ \A n \in 0 .. IdMod - 1 : [d EXCEPT !.id = n] \in Seg
         /\ \A pids \in [1 .. 2 -> Pids \cup {None}], a \in Int :
               [d EXCEPT !.pids = pids, !.address = a] \in Seg
BY DEF Seg

(* What attaching and detaching leave alone.                               *)
Alike(e, d) == /\ e.status = d.status /\ e.address = d.address /\ e.size = d.size
               /\ e.id = d.id

(* Attaching and detaching change the members only. *)
LEMMA MembersAlike ==
  ASSUME NEW d \in Seg, NEW p \in Pids
  PROVE  Alike(Attached(d, p), d) /\ Alike(Detached(d, p), d)
<1>1. Alike(Attached(d, p), d)
  BY DEF Attached, Seg, Alike
<1>2. Alike(Detached(d, p), d)
  BY DEF Detached, Seg, Alike
<1> QED BY <1>1, <1>2

(* The slots in use of a descriptor.                                       *)
Used(d) == (IF d.pids[1] = None THEN 0 ELSE 1) + (IF d.pids[2] = None THEN 0 ELSE 1)

Counted(d) == d \in Seg /\ Used(d) <= d.num_members

(* Attaching (syscalls.c 465-475) yields a segment, and the slots in use   *)
(* do not outnumber num_members.                                           *)
LEMMA AttachedCounted ==
  ASSUME NEW d \in Seg, NEW p \in Pids
  PROVE  /\ Attached(d, p) \in Seg
         /\ Counted(d) => Counted(Attached(d, p))
<1>1. d.num_members \in 0 .. 2 /\ d.pids \in [1 .. 2 -> Pids \cup {None}]
  BY DEF Seg
<1>2. CASE d.num_members = 0
  <2> DEFINE pids == [d.pids EXCEPT ![1] = p]
  <2>1. Attached(d, p) = [d EXCEPT !.pids = pids, !.num_members = 1]
    BY <1>2 DEF Attached
  <2>2. /\ pids \in [1 .. 2 -> Pids \cup {None}] /\ pids[1] = p /\ pids[2] = d.pids[2]
        /\ 1 \in 0 .. 2
    BY <1>1
  <2> HIDE DEF pids
  <2>3. Attached(d, p) \in Seg /\ Attached(d, p).pids = pids /\ Attached(d, p).num_members = 1
    BY <2>1, <2>2 DEF Seg
  <2>4. Counted(d) => Counted(Attached(d, p))
    BY <1>1, <1>2, <2>2, <2>3 DEF Counted, Used
  <2> QED BY <2>3, <2>4
<1>3. CASE d.num_members = 1
  <2> DEFINE pids == [d.pids EXCEPT ![2] = p]
  <2>1. Attached(d, p) = [d EXCEPT !.pids = pids, !.num_members = 2]
    BY <1>3 DEF Attached
  <2>2. /\ pids \in [1 .. 2 -> Pids \cup {None}] /\ pids[2] = p /\ pids[1] = d.pids[1]
        /\ 2 \in 0 .. 2
    BY <1>1
  <2> HIDE DEF pids
  <2>3. Attached(d, p) \in Seg /\ Attached(d, p).pids = pids /\ Attached(d, p).num_members = 2
    BY <2>1, <2>2 DEF Seg
  <2>4. Counted(d) => Counted(Attached(d, p))
    BY <1>1, <1>3, <2>2, <2>3 DEF Counted, Used
  <2> QED BY <2>3, <2>4
<1>4. CASE d.num_members = 2
  BY <1>4 DEF Attached
<1> QED BY <1>1, <1>2, <1>3, <1>4

(* So does detaching (syscalls.c 592-604), because a slot is cleared when  *)
(* the count goes down.                                                    *)
LEMMA DetachedCounted ==
  ASSUME NEW d \in Seg, NEW p \in Pids
  PROVE  /\ Detached(d, p) \in Seg
         /\ Counted(d) => Counted(Detached(d, p))
<1>1. d.num_members \in 0 .. 2 /\ d.pids \in [1 .. 2 -> Pids \cup {None}]
  BY DEF Seg
<1>2. CASE d.num_members > 0 /\ d.pids[1] = p
  <2> DEFINE pids == [d.pids EXCEPT ![1] = None]
  <2>1. Detached(d, p) = [d EXCEPT !.pids = pids, !.num_members = d.num_members - 1]
    BY <1>2 DEF Detached
  <2>2. /\ pids \in [1 .. 2 -> Pids \cup {None}] /\ pids[1] = None /\ pids[2] = d.pids[2]
    BY <1>1
  <2>3. d.num_members - 1 \in 0 .. 2
    BY <1>1, <1>2
  <2> HIDE DEF pids
  <2>4. /\ Detached(d, p) \in Seg
        /\ Detached(d, p).pids = pids /\ Detached(d, p).num_members = d.num_members - 1
    BY <2>1, <2>2, <2>3 DEF Seg
  <2>5. Counted(d) => Counted(Detached(d, p))
    BY <1>1, <1>2, <2>2, <2>4, PidNotNone DEF Counted, Used
  <2> QED BY <2>4, <2>5
<1>3. CASE d.num_members > 0 /\ d.pids[1] # p /\ d.pids[2] = p
  <2> DEFINE pids == [d.pids EXCEPT ![2] = None]
  <2>1. Detached(d, p) = [d EXCEPT !.pids = pids, !.num_members = d.num_members - 1]
    BY <1>3 DEF Detached
  <2>2. /\ pids \in [1 .. 2 -> Pids \cup {None}] /\ pids[2] = None /\ pids[1] = d.pids[1]
    BY <1>1
  <2>3. d.num_members - 1 \in 0 .. 2
    BY <1>1, <1>3
  <2> HIDE DEF pids
  <2>4. /\ Detached(d, p) \in Seg
        /\ Detached(d, p).pids = pids /\ Detached(d, p).num_members = d.num_members - 1
    BY <2>1, <2>2, <2>3 DEF Seg
  <2>5. Counted(d) => Counted(Detached(d, p))
    BY <1>1, <1>3, <2>2, <2>4, PidNotNone DEF Counted, Used
  <2> QED BY <2>4, <2>5
<1>4. CASE ~(d.num_members > 0 /\ (d.pids[1] = p \/ d.pids[2] = p))
  BY <1>4 DEF Detached
<1> QED BY <1>2, <1>3, <1>4

----------------------------------------------------------------------------
(* Types.                                                                  *)

(* What a call wrote, if anything.                                         *)
Writes == [by : Pids \cup {None}, bytes : SUBSET Int]

(* What a call writes is of that type. *)
LEMMA WriteType ==
  /\ NoWrite \in Writes
  /\ \A p \in Pids, a \in Int, len \in Lens : Write(p, Written(a, len)) \in Writes
BY SharedMemAssumption DEF NoWrite, Write, Writes, Written

(* The state after _shm_init and _mem_init is well typed.                  *)
LEMMA InitType == Init => TypeOK
<1> SUFFICES ASSUME Init PROVE TypeOK
  OBVIOUS
<1>1. seg \in [Descs -> Seg]
  BY SharedMemAssumption DEF Init, Seg, NoPids
<1>2. freeq \in Seq(Descs) /\ Len(freeq) <= QNodes
  BY SharedMemAssumption DEF Init, Descs, Segs
<1>3. got \in [Pids -> Results]
  BY DEF Init, Results
<1>4. wrote \in Writes
  BY WriteType DEF Init
<1> QED BY <1>1, <1>2, <1>3, <1>4, SharedMemAssumption DEF Init, TypeOK, Writes

(* A step that stops the machine changes nothing else.                     *)
LEMMA WrongSegmentStops ==
  ASSUME NEW id, WrongSegment(id)
  PROVE  /\ UNCHANGED <<seg, freeq, cur, nextId, freePtr, got>>
         /\ halted' \in {"panic", "null"} /\ wrote' = NoWrite
BY DEF WrongSegment, Halt

(* Every step keeps the types.                                             *)
LEMMA NextType == TypeOK /\ [Next]_vars => TypeOK'
<1> SUFFICES ASSUME TypeOK, [Next]_vars PROVE TypeOK'
  OBVIOUS
<1>1. ASSUME NEW p \in Pids, NEW size \in Sizes, Shmget(p, size) PROVE TypeOK'
  <2>1. CASE freeq = <<>>
    BY <1>1, <2>1, WriteType DEF Shmget, TypeOK, Results, Writes
  <2>2. CASE freeq # <<>>
    <3>1. Head(freeq) \in Descs /\ Tail(freeq) \in Seq(Descs) /\ Len(Tail(freeq)) <= QNodes
      BY <2>2, SharedMemAssumption DEF TypeOK
    <3>2. seg' \in [Descs -> Seg]
      BY <1>1, <2>2, <3>1, NewSegmentType DEF Shmget, TypeOK
    <3>3. nextId' \in 0 .. IdMod - 1 /\ freePtr' \in Int /\ freePtr' <= MAX_MEM
      BY <1>1, <2>2, SharedMemAssumption DEF Shmget, TypeOK, Moved, MallocFits
    <3>4. got' \in [Pids -> Results]
      <4>1. Returned("id", nextId) \in Results
        BY SharedMemAssumption DEF TypeOK, Returned, Results
      <4> QED BY <1>1, <2>2, <4>1 DEF Shmget, TypeOK
    <3> QED BY <1>1, <2>2, <3>1, <3>2, <3>3, <3>4, WriteType DEF Shmget, TypeOK, Writes
  <2> QED BY <2>1, <2>2
<1>2. ASSUME NEW p \in Pids, NEW id \in 0 .. IdMod - 1, Shmat(p, id) PROVE TypeOK'
  <2>1. CASE WrongSegment(id)
    BY <2>1, WrongSegmentStops, WriteType DEF TypeOK, Writes
  <2>2. CASE cur # Null /\ ~WrongSegment(id)
    <3>1. cur \in Descs /\ seg' = [seg EXCEPT ![cur] = Attached(@, p)]
      BY <1>2, <2>2 DEF Shmat, TypeOK
    <3>2. seg' \in [Descs -> Seg]
      BY <3>1, AttachedCounted DEF TypeOK
    <3>3. got' \in [Pids -> Results]
      <4>1. Returned("address", seg[cur].address) \in Results
        BY <3>1 DEF TypeOK, Returned, Seg, Results
      <4>2. Nothing \in Results
        BY DEF Results
      <4> QED BY <1>2, <2>2, <4>1, <4>2 DEF Shmat, TypeOK
    <3> QED BY <1>2, <2>2, <3>2, <3>3, WriteType DEF Shmat, TypeOK, Writes
  <2> QED BY <1>2, <2>1, <2>2 DEF Shmat
<1>3. ASSUME NEW p \in Pids, NEW len \in Lens, Shmwrite(p, len) PROVE TypeOK'
  <2>1. seg[User].address \in Int
    BY DEF TypeOK, Descs, Seg
  <2>2. wrote' \in Writes
    BY <1>3, <2>1, WriteType DEF Shmwrite, Halt
  <2> QED BY <1>3, <2>2 DEF Shmwrite, Halt, TypeOK, kernelVars, Writes
<1>4. ASSUME NEW p \in Pids, Shmdt(p) PROVE TypeOK'
  <2>1. CASE WrongSegment(seg[User].id)
    BY <2>1, WrongSegmentStops, WriteType DEF TypeOK, Writes
  <2>2. CASE cur # Null /\ ~WrongSegment(seg[User].id)
    <3>1. cur \in Descs /\ seg' = [seg EXCEPT ![cur] = Detached(@, p)]
      BY <1>4, <2>2 DEF Shmdt, TypeOK
    <3>2. seg' \in [Descs -> Seg]
      BY <3>1, DetachedCounted DEF TypeOK
    <3> QED BY <1>4, <2>2, <3>2, WriteType DEF Shmdt, TypeOK, Writes
  <2> QED BY <1>4, <2>1, <2>2 DEF Shmdt
<1>5. CASE Shmrm
  <2>1. CASE WrongSegment(seg[User].id)
    BY <2>1, WrongSegmentStops, WriteType DEF TypeOK, Writes
  <2>2. CASE cur # Null /\ ~WrongSegment(seg[User].id)
    <3>1. seg' \in [Descs -> Seg]
      <4>1. [seg[User] EXCEPT !.status = SHM_FREE] \in Seg
        BY UserType DEF TypeOK, Descs
      <4> QED BY <1>5, <2>2, <4>1 DEF Shmrm, TypeOK, Descs
    <3>2. freeq' \in Seq(Descs) /\ Len(freeq') <= QNodes
      <4>1. User \in Descs
        BY DEF Descs
      <4>2. freeq \in Seq(Descs) /\ Len(freeq) <= QNodes /\ QNodes \in Nat
        BY SharedMemAssumption DEF TypeOK
      <4>3. freeq' = IF Len(freeq) < QNodes THEN Append(freeq, User) ELSE freeq
        BY <1>5, <2>2 DEF Shmrm
      <4> HIDE DEF User
      <4>4. Append(freeq, User) \in Seq(Descs) /\ Len(Append(freeq, User)) = Len(freeq) + 1
        BY <4>1, <4>2
      <4> QED BY <4>2, <4>3, <4>4
    <3> QED BY <1>5, <2>2, <3>1, <3>2, WriteType DEF Shmrm, TypeOK, Writes
  <2> QED BY <1>5, <2>1, <2>2 DEF Shmrm
<1>6. ASSUME NEW p \in Pids, NoteId(p) PROVE TypeOK'
  <2>1. got[p].value \in 0 .. IdMod - 1
    BY <1>6 DEF NoteId, TypeOK, Results, Nothing, Returned
  <2>2. seg' \in [Descs -> Seg]
    <3>1. [seg[User] EXCEPT !.id = got[p].value] \in Seg
      BY <2>1, UserType DEF TypeOK, Descs
    <3> QED BY <1>6, <3>1 DEF NoteId, TypeOK, Descs
  <2>3. got' \in [Pids -> Results]
    BY <1>6 DEF NoteId, TypeOK, Results
  <2> QED BY <1>6, <2>2, <2>3, WriteType DEF NoteId, TypeOK, Writes
<1>7. ASSUME NEW p \in Pids, NEW k \in 1 .. 2, NoteAddress(p, k) PROVE TypeOK'
  <2>1. got[p].value \in Int
    BY <1>7 DEF NoteAddress, TypeOK, Results, Nothing, Returned
  <2> DEFINE pids == [seg[User].pids EXCEPT ![k] = p]
  <2>2. pids \in [1 .. 2 -> Pids \cup {None}]
    BY DEF TypeOK, Descs, Seg
  <2>3. seg' = [seg EXCEPT ![User] = [seg[User] EXCEPT !.pids = pids, !.address = got[p].value]]
    BY <1>7 DEF NoteAddress, TypeOK, Descs
  <2> HIDE DEF pids
  <2>4. [seg[User] EXCEPT !.pids = pids, !.address = got[p].value] \in Seg
    BY <2>1, <2>2, UserType DEF TypeOK, Descs
  <2>5. seg' \in [Descs -> Seg]
    BY <2>3, <2>4 DEF TypeOK, Descs
  <2>6. got' \in [Pids -> Results]
    BY <1>7 DEF NoteAddress, TypeOK, Results
  <2> QED BY <1>7, <2>5, <2>6, WriteType DEF NoteAddress, TypeOK, Writes
<1>8. CASE UNCHANGED vars
  BY <1>8 DEF vars, kernelVars, TypeOK
<1> QED BY <1>1, <1>2, <1>3, <1>4, <1>5, <1>6, <1>7, <1>8 DEF Next

(* The shared-memory state stays well typed; in particular the free        *)
(* pointer of _shm_malloc (shared_mem.c 62-75) never passes the end.       *)
THEOREM TypeCorrect == Spec => []TypeOK
BY InitType, NextType, PTL DEF Spec

----------------------------------------------------------------------------
(* Members.                                                                *)

(* Slots in terms of descriptors.                                          *)
LEMMA MembersAreCounted ==
  ASSUME TypeOK
  PROVE  MembersCounted <=> \A s \in Segs : Counted(seg[s])
BY DEF MembersCounted, Slots, Counted, Used, TypeOK, Descs

(* What a step makes of a segment of the table: it stays, is created,      *)
(* attached or detached.                                                   *)
LEMMA SegmentSteps ==
  ASSUME TypeOK, [Next]_vars, NEW s \in Segs
  PROVE  \/ seg'[s] = seg[s]
         \/ \E o \in Pids, size \in Sizes : Shmget(o, size) /\ seg'[s] = NewSegment(size)
         \/ \E p \in Pids : seg'[s] \in {Attached(seg[s], p), Detached(seg[s], p)}
<1> DEFINE Ok == \/ seg'[s] = seg[s]
                 \/ \E o \in Pids, size \in Sizes : Shmget(o, size) /\ seg'[s] = NewSegment(size)
                 \/ \E p \in Pids : seg'[s] \in {Attached(seg[s], p), Detached(seg[s], p)}
<1> SUFFICES Ok OBVIOUS
<1>0. s \in Descs /\ s # User /\ seg \in [Descs -> Seg]
  BY SharedMemAssumption DEF Segs, Descs, TypeOK
<1> HIDE DEF User
<1>1. ASSUME NEW p \in Pids, NEW size \in Sizes, Shmget(p, size) PROVE Ok
  BY <1>0, <1>1 DEF Shmget
<1>2. ASSUME NEW p \in Pids, NEW id \in 0 .. IdMod - 1, Shmat(p, id) PROVE Ok
  BY <1>0, <1>2, WrongSegmentStops DEF Shmat
<1>3. ASSUME NEW p \in Pids, NEW len \in Lens, Shmwrite(p, len) PROVE Ok
  BY <1>3 DEF Shmwrite, Halt, kernelVars
<1>4. ASSUME NEW p \in Pids, Shmdt(p) PROVE Ok
  BY <1>0, <1>4, WrongSegmentStops DEF Shmdt
<1>5. CASE Shmrm
  BY <1>0, <1>5, WrongSegmentStops DEF Shmrm
<1>6. ASSUME NEW p \in Pids, NoteId(p) PROVE Ok
  BY <1>0, <1>6 DEF NoteId
<1>7. ASSUME NEW p \in Pids, NEW k \in 1 .. 2, NoteAddress(p, k) PROVE Ok
  BY <1>0, <1>7 DEF NoteAddress
<1>8. CASE UNCHANGED vars
  BY <1>8 DEF vars, kernelVars
<1> QED BY <1>1, <1>2, <1>3, <1>4, <1>5, <1>6, <1>7, <1>8 DEF Next

(* A segment has no more members than num_members counts, for any number   *)
(* of processes that attach and detach (syscalls.c 448-480, 570-608): the  *)
(* limit of two that shmat enforces by the count is a limit on members.    *)
THEOREM MembersNeverExceedCount == Spec => []MembersCounted
<1>1. Init => MembersCounted
  BY DEF Init, MembersCounted, Slots, NoPids, Descs
<1>2. TypeOK /\ TypeOK' /\ MembersCounted /\ [Next]_vars => MembersCounted'
  <2> SUFFICES ASSUME TypeOK, TypeOK', MembersCounted, [Next]_vars, NEW s \in Segs
               PROVE  Slots(s)' <= seg'[s].num_members
    BY DEF MembersCounted
  <2>1. Counted(seg[s]) /\ seg[s] \in Seg
    BY MembersAreCounted DEF Counted
  <2>2. ASSUME NEW size \in Sizes PROVE Counted(NewSegment(size))
    BY NewSegmentType DEF Counted, Used, NewSegment, NoPids
  <2>3. Counted(seg'[s])
    BY <2>1, <2>2, SegmentSteps, AttachedCounted, DetachedCounted
  <2> QED BY <2>3 DEF Counted, Used, Slots
<1> QED BY <1>1, <1>2, TypeCorrect, PTL DEF Spec

----------------------------------------------------------------------------
(* The pool.                                                               *)

(* The free pool holds every segment of the table at most once and none    *)
(* that is in use (shared_mem.c 98-133), however shmget and shmrm follow   *)
(* each other.                                                             *)
LEMMA PoolInvariance == Spec => []PoolHoldsFree
<1>1. Init => PoolHoldsFree
  BY SharedMemAssumption DEF Init, PoolHoldsFree, Segs, Descs
<1>2. TypeOK /\ PoolHoldsFree /\ [Next]_vars => PoolHoldsFree'
  <2> SUFFICES ASSUME TypeOK, PoolHoldsFree, [Next]_vars PROVE PoolHoldsFree'
    OBVIOUS
  <2>0. freeq \in Seq(Descs) /\ User \notin Segs /\ Segs \subseteq Descs /\ seg \in [Descs -> Seg]
    BY DEF TypeOK, Segs, Descs
  <2> HIDE DEF User
  <2>1. ASSUME freeq' = freeq, \A s \in Segs : seg'[s].status = seg[s].status
        PROVE  PoolHoldsFree'
    BY <2>1 DEF PoolHoldsFree
  <2>2. ASSUME NEW p \in Pids, NEW size \in Sizes, Shmget(p, size) PROVE PoolHoldsFree'
    <3>1. CASE freeq = <<>>
      BY <2>1, <2>2, <3>1 DEF Shmget
    <3>2. CASE freeq # <<>>
      <4>1. /\ freeq' = Tail(freeq) /\ Head(freeq) = freeq[1] /\ Len(freeq) \in Nat \ {0}
            /\ Len(freeq') = Len(freeq) - 1
            /\ \A i \in 1 .. Len(freeq') : freeq'[i] = freeq[i + 1]
        <5>1. freeq' = Tail(freeq)
          BY <2>2, <3>2 DEF Shmget
        <5>2. /\ Head(freeq) = freeq[1] /\ Len(freeq) \in Nat \ {0}
              /\ Len(Tail(freeq)) = Len(freeq) - 1
              /\ \A i \in 1 .. Len(Tail(freeq)) : Tail(freeq)[i] = freeq[i + 1]
          BY <2>0, <3>2
        <5> QED BY <5>1, <5>2
      <4>2. \A i \in 1 .. Len(freeq') : i + 1 \in 1 .. Len(freeq) /\ i + 1 # 1
        BY <4>1
      <4>3. \A i \in 1 .. Len(freeq') : freeq'[i] \in Segs => freeq'[i] # Head(freeq)
        BY <4>1, <4>2 DEF PoolHoldsFree
      <4>4. \A d \in Descs : d # Head(freeq) => seg'[d] = seg[d]
        BY <2>0, <2>2, <3>2 DEF Shmget
      <4>5. \A i \in 1 .. Len(freeq') : freeq'[i] \in Segs => seg'[freeq'[i]].status = SHM_FREE
        BY <2>0, <4>1, <4>2, <4>3, <4>4 DEF PoolHoldsFree
      <4>6. \A i, j \in 1 .. Len(freeq') : freeq'[i] \in Segs /\ freeq'[i] = freeq'[j] => i = j
        <5> SUFFICES ASSUME NEW i \in 1 .. Len(freeq'), NEW j \in 1 .. Len(freeq'),
                            freeq'[i] \in Segs, freeq'[i] = freeq'[j]
                     PROVE  i = j
          OBVIOUS
        <5>1. freeq[i + 1] \in Segs /\ freeq[i + 1] = freeq[j + 1]
          BY <4>1
        <5>2. i + 1 = j + 1
          BY <4>2, <5>1 DEF PoolHoldsFree
        <5> QED BY <4>1, <5>2
      <4> QED BY <4>5, <4>6 DEF PoolHoldsFree
    <3> QED BY <3>1, <3>2
  <2>3. CASE Shmrm
    <3>1. CASE WrongSegment(seg[User].id)
      BY <2>1, <3>1, WrongSegmentStops
    <3>2. CASE ~WrongSegment(seg[User].id)
      <4>1. \A s \in Segs : seg'[s] = seg[s]
        BY <2>0, <2>3, <3>2 DEF Shmrm
      <4>2. CASE freeq' = freeq
        BY <2>1, <4>1, <4>2
      <4>3. CASE freeq' = Append(freeq, User)
        <5>1. /\ Len(freeq') = Len(freeq) + 1 /\ Len(freeq) \in Nat
              /\ \A i \in 1 .. Len(freeq) : freeq'[i] = freeq[i]
              /\ freeq'[Len(freeq) + 1] = User
          <6>1. User \in Descs
            BY DEF Descs
          <6> QED BY <2>0, <4>3, <6>1
        <5>2. \A i \in 1 .. Len(freeq') : freeq'[i] \in Segs =>
                 i \in 1 .. Len(freeq) /\ freeq'[i] = freeq[i]
          BY <2>0, <5>1
        <5> QED BY <4>1, <5>2 DEF PoolHoldsFree
      <4> QED BY <2>3, <3>2, <4>2, <4>3 DEF Shmrm
    <3> QED BY <3>1, <3>2
  <2>4. CASE ~(\E p \in Pids, size \in Sizes : Shmget(p, size)) /\ ~Shmrm
    <3>1. freeq' = freeq
      BY <2>4, WrongSegmentStops DEF Next, Shmat, Shmdt, Shmwrite, Halt, NoteId, NoteAddress,
         vars, kernelVars
    <3>2. ASSUME NEW s \in Segs PROVE seg'[s].status = seg[s].status
      BY <2>0, <2>4, SegmentSteps, MembersAlike DEF Alike
    <3> QED BY <2>1, <3>1, <3>2
  <2> QED BY <2>2, <2>3, <2>4
<1> QED BY <1>1, <1>2, TypeCorrect, PTL DEF Spec

(* No call gives a segment of the table another id, other memory or        *)
(* another status once it exists (syscalls.c 401-437, shared_mem.c         *)
(* 98-133): what shmget creates is never a segment that a process still    *)
(* has, whatever was put into the pool.                                    *)
THEOREM SegmentsNeverReused == Spec => SegmentsKept
<1>1. TypeOK /\ PoolHoldsFree /\ [Next]_vars
        => [\A s \in Segs : seg[s].status = SHM_NEW => Identity(seg'[s]) = Identity(seg[s])]_vars
  <2> SUFFICES ASSUME TypeOK, PoolHoldsFree, [Next]_vars,
                      NEW s \in Segs, seg[s].status = SHM_NEW
               PROVE  Identity(seg'[s]) = Identity(seg[s])
    OBVIOUS
  <2>0. seg \in [Descs -> Seg] /\ s \in Descs /\ seg[s] \in Seg /\ freeq \in Seq(Descs)
    BY DEF TypeOK, Descs
  <2>1. ASSUME NEW p \in Pids, NEW size \in Sizes, Shmget(p, size) PROVE seg'[s] = seg[s]
    <3>1. CASE freeq = <<>>
      BY <2>1, <3>1 DEF Shmget
    <3>2. CASE freeq # <<>>
      <4>1. Head(freeq) = freeq[1] /\ 1 \in 1 .. Len(freeq)
        BY <2>0, <3>2
      <4>2. Head(freeq) # s
        BY <4>1 DEF PoolHoldsFree
      <4> QED BY <2>0, <2>1, <3>2, <4>2 DEF Shmget
    <3> QED BY <3>1, <3>2
  <2>2. Alike(seg'[s], seg[s])
    BY <2>0, <2>1, SegmentSteps, MembersAlike DEF Alike
  <2> QED BY <2>2 DEF Alike, Identity
<1> QED BY <1>1, TypeCorrect, PoolInvariance, PTL DEF Spec, SegmentsKept

----------------------------------------------------------------------------
(* The memory of segments.                                                 *)

NaturalSizes == Sizes \subseteq Nat

(* Segments lie below the free pointer.                                    *)
Under(d, top) == d.address = Null \/ (d.address \in Nat /\ d.address + d.size <= top)

Below == freePtr \in Nat /\ \A s \in Segs : Under(seg[s], freePtr)

(* Intervals below and above a bound.                                      *)
LEMMA Intervals ==
  ASSUME NEW a \in Nat, NEW b \in Nat, NEW m \in Nat, a <= b, b <= m
  PROVE  /\ 0 .. a - 1 \subseteq 0 .. m - 1
         /\ a .. b - 1 \subseteq 0 .. m - 1
         /\ \A x \in 0 .. a - 1 : x \notin a .. b - 1
OBVIOUS

(* Sizes and addresses are integers.                                       *)
LEMMA SegmentNumbers ==
  ASSUME TypeOK, NEW s \in Segs
  PROVE  seg[s].size \in Int /\ seg[s].address \in Int
<1>1. seg[s] \in Seg
  BY DEF TypeOK, Descs
<1>2. Sizes \cup {0} \subseteq Int
  BY SharedMemAssumption
<1> QED BY <1>1, <1>2 DEF Seg

(* Only shmget moves the free pointer or gives a segment memory.           *)
LEMMA MemorySteps ==
  ASSUME TypeOK, [Next]_vars
  PROVE  \/ \E p \in Pids, size \in Sizes : Shmget(p, size)
         \/ freePtr' = freePtr /\ \A s \in Segs : Alike(seg'[s], seg[s])
<1> SUFFICES ASSUME ~(\E p \in Pids, size \in Sizes : Shmget(p, size))
             PROVE  freePtr' = freePtr /\ \A s \in Segs : Alike(seg'[s], seg[s])
  OBVIOUS
<1>1. freePtr' = freePtr
  BY WrongSegmentStops DEF Next, Shmat, Shmdt, Shmrm, Shmwrite, Halt, NoteId, NoteAddress,
     vars, kernelVars
<1>2. ASSUME NEW s \in Segs PROVE Alike(seg'[s], seg[s])
  <2>1. seg[s] \in Seg
    BY DEF TypeOK, Descs
  <2> QED BY <2>1, SegmentSteps, MembersAlike DEF Alike
<1> QED BY <1>1, <1>2

(* The inductive invariant of memory.                                      *)
LEMMA MemoryInvariance ==
  ASSUME NaturalSizes
  PROVE  Spec => [](Below /\ SegmentsDisjoint)
<1>1. Init => Below /\ SegmentsDisjoint
  BY DEF Init, Below, Under, SegmentsDisjoint, Bytes, Descs
<1>2. TypeOK /\ Below /\ SegmentsDisjoint /\ [Next]_vars => Below' /\ SegmentsDisjoint'
  <2> SUFFICES ASSUME TypeOK, Below, SegmentsDisjoint, [Next]_vars
               PROVE  Below' /\ SegmentsDisjoint'
    OBVIOUS
  <2>0. seg \in [Descs -> Seg] /\ Segs \subseteq Descs
    BY DEF TypeOK, Descs
  <2>1. CASE freePtr' = freePtr /\ \A s \in Segs : Alike(seg'[s], seg[s])
    <3>1. \A s \in Segs : Bytes(s)' = Bytes(s)
      BY <2>1 DEF Alike, Bytes
    <3>2. Below'
      BY <2>1 DEF Alike, Below, Under
    <3>3. SegmentsDisjoint'
      BY <3>1 DEF SegmentsDisjoint
    <3> QED BY <3>2, <3>3
  <2>2. ASSUME NEW p \in Pids, NEW size \in Sizes, Shmget(p, size), freeq # <<>>
        PROVE  Below' /\ SegmentsDisjoint'
    <3>0. PICK h \in Descs : h = Head(freeq)
      BY <2>2 DEF TypeOK
    <3>1. size \in Nat
      BY NaturalSizes DEF NaturalSizes
    <3>2. /\ seg'[h] = NewSegment(size)
          /\ \A s \in Segs : s # h => seg'[s] = seg[s]
          /\ freePtr' = Moved(size)
      BY <2>0, <2>2, <3>0 DEF Shmget
    <3>3. freePtr \in Nat /\ freePtr' \in Nat /\ freePtr <= freePtr' /\ freePtr' <= MAX_MEM
      BY <3>1, <3>2, SharedMemAssumption DEF Below, Moved, MallocFits, TypeOK
    <3>4. \/ seg'[h].address = Null
          \/ seg'[h].address = freePtr /\ seg'[h].size = size /\ freePtr' = freePtr + size
      BY <3>2 DEF NewSegment, Moved
    <3>5. \A s \in Segs : s # h => Bytes(s)' = Bytes(s)
      BY <3>2 DEF Bytes
    <3>6. ASSUME NEW s \in Segs PROVE Bytes(s) \subseteq 0 .. freePtr - 1
      <4>1. seg[s].size \in Int /\ seg[s].address \in Int
        BY SegmentNumbers
      <4> QED BY <4>1, <3>3 DEF Below, Under, Bytes
    <3>7. Bytes(h)' \subseteq freePtr .. freePtr' - 1
      BY <3>1, <3>3, <3>4 DEF Bytes
    <3>8. Below'
      <4>1. ASSUME NEW s \in Segs PROVE Under(seg'[s], freePtr')
        <5>1. CASE s = h
          BY <5>1, <3>1, <3>3, <3>4 DEF Under
        <5>2. CASE s # h
          <6>1. seg[s].size \in Int /\ seg[s].address \in Int
            BY SegmentNumbers
          <6> QED BY <5>2, <6>1, <3>2, <3>3 DEF Below, Under
        <5> QED BY <5>1, <5>2
      <4> QED BY <3>3, <4>1 DEF Below
    <3>9. SegmentsDisjoint'
      <4>1. \A s \in Segs : Bytes(s)' \subseteq 0 .. MAX_MEM - 1
        <5>1. 0 .. freePtr - 1 \subseteq 0 .. MAX_MEM - 1
          BY <3>3, SharedMemAssumption, Intervals
        <5>2. freePtr .. freePtr' - 1 \subseteq 0 .. MAX_MEM - 1
          BY <3>3, SharedMemAssumption, Intervals
        <5>3. ASSUME NEW s \in Segs, s = h PROVE Bytes(s)' \subseteq 0 .. MAX_MEM - 1
          BY <3>7, <5>2, <5>3
        <5>4. ASSUME NEW s \in Segs, s # h PROVE Bytes(s)' \subseteq 0 .. MAX_MEM - 1
          BY <3>5, <5>4 DEF SegmentsDisjoint
        <5> QED BY <5>3, <5>4
      <4>2. \A x \in 0 .. freePtr - 1 : x \notin freePtr .. freePtr' - 1
        BY <3>3, SharedMemAssumption, Intervals
      <4>3. \A s, t \in Segs : s # t => Bytes(s)' \cap Bytes(t)' = {}
        <5> SUFFICES ASSUME NEW s \in Segs, NEW t \in Segs, s # t
                     PROVE  Bytes(s)' \cap Bytes(t)' = {}
          OBVIOUS
        <5>1. CASE s # h /\ t # h
          BY <3>5, <5>1 DEF SegmentsDisjoint
        <5>2. CASE s = h
          <6>1. Bytes(t)' \subseteq 0 .. freePtr - 1
            BY <3>5, <3>6, <5>2
          <6> QED BY <3>7, <4>2, <5>2, <6>1
        <5>3. CASE t = h
          <6>1. Bytes(s)' \subseteq 0 .. freePtr - 1
            BY <3>5, <3>6, <5>3
          <6> QED BY <3>7, <4>2, <5>3, <6>1
        <5> QED BY <5>1, <5>2, <5>3
      <4> QED BY <4>1, <4>3 DEF SegmentsDisjoint
    <3> QED BY <3>8, <3>9
  <2>3. ASSUME NEW p \in Pids, NEW size \in Sizes, Shmget(p, size), freeq = <<>>
        PROVE  Below' /\ SegmentsDisjoint'
    BY <2>1, <2>3 DEF Shmget, Alike
  <2> QED BY <2>1, <2>2, <2>3, MemorySteps
<1> QED BY <1>1, <1>2, TypeCorrect, PTL DEF Spec

(* Whatever segments are created, attached, detached and removed, and in   *)
(* whatever order, their memory is disjoint and inside _memory             *)
(* (shared_mem.c 62-75, syscalls.c 432), if sizes are natural numbers.     *)
THEOREM SegmentsNeverOverlap ==
  ASSUME NaturalSizes
  PROVE  Spec => []SegmentsDisjoint
BY MemoryInvariance, PTL

----------------------------------------------------------------------------
(* What shmwrite writes.                                                   *)

(* Messages fit into every segment.                                        *)
MessagesFit == \A len \in Lens, size \in Sizes : len <= size

(* An address that was given out once: the bytes behind it belong to the   *)
(* segment that still has it, or to no segment.                            *)
Handed(a, table, top) ==
  \/ a = Null
  \/ /\ a \in Nat
     /\ \E size \in Sizes :
          /\ a + size <= top
          /\ \A s \in Segs : \/ table[s].address \in {a, Null}
                            \/ \A x \in a .. a + size - 1 :
                                 x \notin table[s].address ..
                                            table[s].address + table[s].size - 1

(* Every address a program has or will get was given out, however stale.   *)
HandedOut ==
  /\ \A d \in Descs : Handed(seg[d].address, seg, freePtr)
  /\ \A p \in Pids : got[p].kind = "address" => Handed(got[p].value, seg, freePtr)

(* Steps that give no segment other memory.                                *)
LEMMA HandedKept ==
  ASSUME NEW table, NEW later, NEW top, NEW a, Handed(a, table, top),
         \A s \in Segs : Alike(later[s], table[s])
  PROVE  Handed(a, later, top)
BY DEF Handed, Alike

(* A new segment lies above all addresses given out before.                *)
LEMMA HandedAbove ==
  ASSUME NEW table, NEW later, NEW top \in Nat, NEW newTop \in Nat, top <= newTop,
         NEW h, NEW a, Handed(a, table, top), NaturalSizes,
         \A s \in Segs : s # h => later[s] = table[s],
         later[h].address \in {Null, top}
  PROVE  Handed(a, later, newTop)
<1>1. CASE a = Null
  BY <1>1 DEF Handed
<1>2. CASE a # Null
  <2>1. PICK size \in Sizes :
          /\ a + size <= top
          /\ \A s \in Segs : \/ table[s].address \in {a, Null}
                            \/ \A x \in a .. a + size - 1 :
                                 x \notin table[s].address ..
                                            table[s].address + table[s].size - 1
    BY <1>2 DEF Handed
  <2>2. a \in Nat /\ size \in Nat
    BY <1>2 DEF Handed, NaturalSizes
  <2>3. \A x \in a .. a + size - 1 :
          x \notin later[h].address .. later[h].address + later[h].size - 1
          \/ later[h].address = Null
    BY <2>1, <2>2
  <2>4. a + size <= newTop
    BY <2>1, <2>2
  <2> QED BY <2>1, <2>2, <2>3, <2>4 DEF Handed
<1> QED BY <1>1, <1>2

(* shmget hands out new memory, if any.                                    *)
LEMMA HandedShmget ==
  ASSUME TypeOK, Below, NaturalSizes, HandedOut,
         NEW p \in Pids, NEW size \in Sizes, Shmget(p, size)
  PROVE  HandedOut'
<1>0. /\ seg \in [Descs -> Seg] /\ Segs \subseteq Descs /\ got \in [Pids -> Results]
  BY DEF TypeOK, Descs
<1>1. CASE freeq = <<>>
  <2>1. seg' = seg /\ freePtr' = freePtr /\ got' = [got EXCEPT ![p] = Nothing]
    BY <1>1 DEF Shmget
  <2>2. \A o \in Pids : got'[o].kind = "address" => got'[o] = got[o]
    BY <1>0, <2>1 DEF Nothing, Returned
  <2> QED BY <2>1, <2>2 DEF HandedOut
<1>2. CASE freeq # <<>>
  <2>1. PICK h \in Descs : h = Head(freeq)
    BY <1>2 DEF TypeOK
  <2>2. /\ seg' = [seg EXCEPT ![h] = NewSegment(size)] /\ freePtr' = Moved(size)
        /\ got' = [got EXCEPT ![p] = Returned("id", nextId)]
    BY <1>2, <2>1 DEF Shmget
  <2>3. seg'[h] = NewSegment(size) /\ \A d \in Descs : d # h => seg'[d] = seg[d]
    BY <1>0, <2>2
  <2>4. size \in Nat /\ freePtr \in Nat
    BY DEF NaturalSizes, Below
  <2>5. freePtr' \in Nat /\ freePtr <= freePtr'
    BY <2>2, <2>4 DEF Moved
  <2>6. \/ seg'[h].address = Null
        \/ seg'[h].address = freePtr /\ freePtr' = freePtr + size
    BY <2>2, <2>3 DEF NewSegment, Moved
  <2>7. \A a : Handed(a, seg, freePtr) => Handed(a, seg', freePtr')
    <3> SUFFICES ASSUME NEW a, Handed(a, seg, freePtr) PROVE Handed(a, seg', freePtr')
      OBVIOUS
    <3>1. \A s \in Segs : s # h => seg'[s] = seg[s]
      BY <1>0, <2>3
    <3>2. seg'[h].address \in {Null, freePtr}
      BY <2>6
    <3> QED BY <2>4, <2>5, <3>1, <3>2, HandedAbove
  <2>8. Handed(seg'[h].address, seg', freePtr')
    <3>1. CASE seg'[h].address = Null
      BY <3>1 DEF Handed
    <3>2. CASE seg'[h].address = freePtr /\ freePtr' = freePtr + size
      <4>1. ASSUME NEW s \in Segs
            PROVE  \/ seg'[s].address \in {freePtr, Null}
                   \/ \A x \in freePtr .. freePtr + size - 1 :
                        x \notin seg'[s].address .. seg'[s].address + seg'[s].size - 1
        <5>1. CASE s = h
          BY <3>2, <5>1
        <5>2. CASE s # h
          <6>1. seg'[s] = seg[s]
            BY <1>0, <2>3, <5>2
          <6>2. seg[s].size \in Int /\ seg[s].address \in Int
            BY SegmentNumbers
          <6>3. seg[s].address = Null \/ seg[s].address + seg[s].size <= freePtr
            BY DEF Below, Under
          <6> QED BY <2>4, <6>1, <6>2, <6>3
        <5> QED BY <5>1, <5>2
      <4>2. freePtr + size <= freePtr'
        BY <2>4, <2>5, <3>2
      <4> QED BY <2>4, <3>2, <4>1, <4>2 DEF Handed
    <3> QED BY <2>6, <3>1, <3>2
  <2>9. \A d \in Descs : Handed(seg'[d].address, seg', freePtr')
    BY <2>3, <2>7, <2>8 DEF HandedOut
  <2>10. \A o \in Pids : got'[o].kind = "address" => got'[o] = got[o]
    BY <1>0, <2>2 DEF Returned
  <2> QED BY <2>7, <2>9, <2>10 DEF HandedOut
<1> QED BY <1>1, <1>2

(* The other calls pass addresses on.                                      *)
LEMMA HandedStep ==
  ASSUME TypeOK, Below, NaturalSizes, HandedOut, [Next]_vars
  PROVE  HandedOut'
<1>0. seg \in [Descs -> Seg] /\ Segs \subseteq Descs /\ got \in [Pids -> Results]
      /\ User \in Descs /\ cur \in Descs \cup {Null}
  BY DEF TypeOK, Descs
<1>1. ASSUME NEW p \in Pids, NEW size \in Sizes, Shmget(p, size) PROVE HandedOut'
  BY <1>1, HandedShmget
<1>2. CASE freePtr' = freePtr /\ \A s \in Segs : Alike(seg'[s], seg[s])
  <2>1. \A a : Handed(a, seg, freePtr) => Handed(a, seg', freePtr')
    BY <1>2, HandedKept
  <2>2. ASSUME \A d \in Descs : \/ seg'[d].address = seg[d].address
                                \/ \E p \in Pids : /\ got[p].kind = "address"
                                                   /\ seg'[d].address = got[p].value,
               \A o \in Pids : got'[o].kind = "address" =>
                 \/ got'[o] = got[o]
                 \/ \E d \in Descs : got'[o].value = seg[d].address
        PROVE  HandedOut'
    <3>1. \A d \in Descs : Handed(seg'[d].address, seg', freePtr')
      BY <2>1, <2>2 DEF HandedOut
    <3>2. \A o \in Pids : got'[o].kind = "address" => Handed(got'[o].value, seg', freePtr')
      BY <2>1, <2>2 DEF HandedOut
    <3> QED BY <3>1, <3>2 DEF HandedOut
  <2>3. CASE UNCHANGED <<seg, got>>
    BY <2>2, <2>3
  <2>4. ASSUME NEW p \in Pids, NEW id, Shmat(p, id) PROVE HandedOut'
    <3>1. CASE WrongSegment(id)
      BY <2>3, <3>1, WrongSegmentStops
    <3>2. CASE cur # Null /\ seg' = [seg EXCEPT ![cur] = Attached(@, p)]
               /\ got' = [got EXCEPT ![p] =
                            IF seg[cur].num_members < 2 /\ seg[cur].address # Null
                            THEN Returned("address", seg[cur].address) ELSE Nothing]
      <4>1. \A d \in Descs : seg'[d].address = seg[d].address
        BY <1>0, <3>2, MembersAlike DEF Alike
      <4>2. \A o \in Pids : got'[o].kind = "address" =>
               got'[o] = got[o] \/ \E d \in Descs : got'[o].value = seg[d].address
        BY <1>0, <3>2 DEF Returned, Nothing
      <4> QED BY <2>2, <4>1, <4>2
    <3> QED BY <2>4, <3>1, <3>2 DEF Shmat
  <2>5. ASSUME NEW p \in Pids, NEW len, Shmwrite(p, len) PROVE HandedOut'
    BY <2>3, <2>5 DEF Shmwrite, Halt, kernelVars
  <2>6. ASSUME NEW p \in Pids, Shmdt(p) PROVE HandedOut'
    <3>1. CASE WrongSegment(seg[User].id)
      BY <2>3, <3>1, WrongSegmentStops
    <3>2. CASE cur # Null /\ seg' = [seg EXCEPT ![cur] = Detached(@, p)] /\ got' = got
      <4>1. \A d \in Descs : seg'[d].address = seg[d].address
        BY <1>0, <3>2, MembersAlike DEF Alike
      <4> QED BY <2>2, <3>2, <4>1
    <3> QED BY <2>6, <3>1, <3>2 DEF Shmdt
  <2>7. CASE Shmrm
    <3>1. CASE WrongSegment(seg[User].id)
      BY <2>3, <3>1, WrongSegmentStops
    <3>2. CASE seg' = [seg EXCEPT ![User].status = SHM_FREE] /\ got' = got
      <4>1. \A d \in Descs : seg'[d].address = seg[d].address
        BY <1>0, <3>2 DEF Seg
      <4> QED BY <2>2, <3>2, <4>1
    <3> QED BY <2>7, <3>1, <3>2 DEF Shmrm
  <2>8. ASSUME NEW p \in Pids, NoteId(p) PROVE HandedOut'
    <3>1. \A d \in Descs : seg'[d].address = seg[d].address
      BY <1>0, <2>8 DEF NoteId, Seg
    <3>2. \A o \in Pids : got'[o].kind = "address" => got'[o] = got[o]
      BY <1>0, <2>8 DEF NoteId, Nothing, Returned
    <3> QED BY <2>2, <3>1, <3>2
  <2>9. ASSUME NEW p \in Pids, NEW k \in 1 .. 2, NoteAddress(p, k) PROVE HandedOut'
    <3>1. \A d \in Descs : seg'[d].address = IF d = User THEN got[p].value ELSE seg[d].address
      BY <1>0, <2>9 DEF NoteAddress, Seg
    <3>2. \A o \in Pids : got'[o].kind = "address" => got'[o] = got[o]
      BY <1>0, <2>9 DEF NoteAddress, Nothing, Returned
    <3>3. got[p].kind = "address"
      BY <2>9 DEF NoteAddress
    <3> QED BY <2>2, <3>1, <3>2, <3>3
  <2>10. CASE UNCHANGED vars
    BY <2>3, <2>10 DEF vars, kernelVars
  <2> QED BY <1>1, <2>4, <2>5, <2>6, <2>7, <2>8, <2>9, <2>10 DEF Next
<1> QED BY <1>1, <1>2, MemorySteps

(* A write goes through the users' descriptor to memory that was given     *)
(* out; every other call writes nothing.                                   *)
LEMMA WriteStep ==
  ASSUME TypeOK, Below, SegmentsDisjoint, HandedOut, NaturalSizes, MessagesFit,
         WriteStaysInSegment, [Next]_vars
  PROVE  WriteStaysInSegment'
<1>1. CASE wrote' = NoWrite
  BY <1>1 DEF WriteStaysInSegment, NoWrite, Write
<1>2. CASE UNCHANGED vars
  BY <1>2 DEF vars, kernelVars, WriteStaysInSegment, Bytes
<1>3. ASSUME NEW p \in Pids, NEW len \in Lens, Shmwrite(p, len), wrote' # NoWrite
      PROVE  WriteStaysInSegment'
  <2> DEFINE a == seg[User].address
  <2>1. wrote' = Write(p, Written(a, len)) /\ seg' = seg
    BY <1>3 DEF Shmwrite, kernelVars
  <2>2. Handed(a, seg, freePtr)
    BY DEF HandedOut, Descs
  <2> HIDE DEF a
  <2>3. CASE a # Null
    <3>3. PICK size \in Sizes :
            /\ a + size <= freePtr
            /\ \A s \in Segs : \/ seg[s].address \in {a, Null}
                              \/ \A x \in a .. a + size - 1 :
                                   x \notin seg[s].address .. seg[s].address + seg[s].size - 1
      BY <2>2, <2>3 DEF Handed
    <3>4. /\ a \in Nat /\ size \in Nat /\ len \in Nat /\ len <= size /\ freePtr \in Nat
          /\ freePtr <= MAX_MEM /\ MAX_MEM \in Nat
      BY <2>2, <2>3, <3>3, SharedMemAssumption DEF Handed, NaturalSizes, MessagesFit, TypeOK, Below
    <3>5. wrote'.bytes = a .. a + len - 1
      BY <2>1, <2>3 DEF Write, Written
    <3>6. wrote'.bytes \subseteq 0 .. MAX_MEM - 1
      BY <3>3, <3>4, <3>5
    <3>7. ASSUME NEW s \in Segs, wrote'.bytes \cap Bytes(s) # {} PROVE a \in Bytes(s)
      <4>1. PICK x \in a .. a + len - 1 : x \in Bytes(s)
        BY <3>5, <3>7
      <4>2. x \in a .. a + size - 1
        BY <3>4, <4>1
      <4>3. seg[s].address # Null /\ x \in seg[s].address .. seg[s].address + seg[s].size - 1
        BY <4>1 DEF Bytes
      <4>4. seg[s].address = a
        BY <3>3, <4>2, <4>3
      <4>5. seg[s].size \in Int
        BY SegmentNumbers
      <4> QED BY <3>4, <4>3, <4>4, <4>5 DEF Bytes
    <3>8. \A s, t \in Segs :
            wrote'.bytes \cap Bytes(s) # {} /\ wrote'.bytes \cap Bytes(t) # {} => s = t
      BY <3>7 DEF SegmentsDisjoint
    <3>9. \A s \in Segs : Bytes(s)' = Bytes(s)
      BY <2>1 DEF Bytes
    <3> QED BY <3>6, <3>8, <3>9 DEF WriteStaysInSegment
  <2>4. CASE a = Null
    <3>1. wrote'.bytes = Null - len + 1 .. Null /\ len \in Nat /\ MAX_MEM \in Nat
      BY <2>1, <2>4, SharedMemAssumption DEF Write, Written
    <3>2. \A s \in Segs : wrote'.bytes \cap Bytes(s) = {}
      <4>1. \A x \in wrote'.bytes : x \notin 0 .. MAX_MEM - 1
        BY <3>1
      <4> QED BY <4>1 DEF SegmentsDisjoint
    <3>3. \A s \in Segs : Bytes(s)' = Bytes(s)
      BY <2>1 DEF Bytes
    <3> QED BY <2>1, <2>4, <3>2, <3>3 DEF WriteStaysInSegment, a
  <2> QED BY <2>3, <2>4
<1>4. \/ wrote' = NoWrite \/ UNCHANGED vars
      \/ \E p \in Pids, len \in Lens : Shmwrite(p, len)
  BY WrongSegmentStops DEF Next, Shmget, Shmat, Shmdt, Shmrm, NoteId, NoteAddress
<1> QED BY <1>1, <1>2, <1>3, <1>4

(* A message that fits into every segment stays inside _memory and changes *)
(* one segment at most, however stale the descriptor it went through       *)
(* (syscalls.c 514), since memory is never handed out twice.               *)
THEOREM WritesContained ==
  ASSUME NaturalSizes, MessagesFit
  PROVE  Spec => []WriteStaysInSegment
<1>1. Init => HandedOut /\ WriteStaysInSegment
  BY DEF Init, HandedOut, Handed, Descs, Nothing, Returned, WriteStaysInSegment, NoWrite, Write
<1>2. TypeOK /\ Below /\ SegmentsDisjoint /\ HandedOut /\ WriteStaysInSegment /\ [Next]_vars
        => HandedOut' /\ WriteStaysInSegment'
  BY HandedStep, WriteStep
<1> QED BY <1>1, <1>2, TypeCorrect, MemoryInvariance, PTL DEF Spec

============================================================================

-------------------------------- MODULE Boot --------------------------------
(***************************************************************************)
(* From program files to a loaded memory: BuildImage.c appends the files   *)
(* to the boot image and writes a list of (sectors, segment, offset) into  *)
(* its end; bootstrap.S, which the BIOS has loaded, reads its own second   *)
(* sector, and then every program of the list, from the floppy disk.       *)
(* Sizes are parameters with the ratios of the real ones; a file is its    *)
(* length, and byte b of file f is the pair <<f, b>>.                      *)
(***************************************************************************)
EXTENDS Integers, Sequences, FiniteSets

CONSTANTS Word,        \* values of a 16-bit word, bytes of a segment
          Para,        \* bytes of a paragraph, 16
          Sec,         \* bytes of a sector, 512
          Limit,       \* last byte of conventional memory, 16#9ffff
          SPT, Heads, Tracks,   \* geometry: 18, 2, 80
          Retries,     \* attempts per sector, 3
          Stack,       \* bytes of the loader's stack, those below 16#bc00
                       \* that its pushes and calls and the BIOS reach
          Space,       \* zero words at the end of the boot image
          NInfo,       \* words of the builder's array, 256
          Lengths,     \* lengths of the program files
          Places,      \* load addresses on the command line
          MaxProgs     \* bound on the programs

(* What the constants must satisfy.                                        *)
BootSizes ==
  /\ {Word, Para, Sec, SPT, Heads, Tracks, Retries} \subseteq Nat \ {0}
  /\ Word % Sec = 0 /\ Word % Para = 0 /\ Limit \in 0 .. Word * Para - 1
  /\ Stack \subseteq Nat
  /\ Space \in Nat /\ NInfo \in Nat /\ MaxProgs \in Nat /\ Lengths \subseteq Nat
  /\ \A p \in Places :
       \/ p.form = "flat" /\ p.address \in Int
       \/ p.form = "pair" /\ {p.segment, p.offset} \subseteq 0 .. Word - 1

ASSUME BootAssumption == BootSizes

VARIABLES stage,             \* what runs, or how it ended
          progs,             \* programs given so far: length and place
          image,             \* sectors of the disk image
          info,              \* entries of the list, first program first
          sec, head, track,  \* next sector of the disk
          es, bx,            \* where it goes
          left,              \* sectors of this block still to read
          tries,             \* failed attempts for this sector
          entry,             \* entries of the list the loader has begun
          mem                \* memory: what the sectors read have left in it

builder  == <<progs, image, info>>
disk     == <<sec, head, track>>
bootVars == <<stage, builder, disk, es, bx, left, tries, entry, mem>>

Capacity == SPT * Heads * Tracks
Loader   == 0 .. 2 * Sec - 1 \cup Stack   \* its two sectors and its stack
Clear    == <<0, 0>>              \* a byte of padding or untouched memory

Signed(n) == LET w == n % Word IN IF 2 * w >= Word THEN w - Word ELSE w

----------------------------------------------------------------------------
(* BuildImage.                                                             *)

Quit == stage' = "quit" /\ UNCHANGED <<disk, es, bx, left, tries, entry, mem>>

(* copy_file: the last sector is padded.                                   *)
Sectors(len) == (len + Sec - 1) \div Sec

Copied(f, len) == [i \in 1 .. Sectors(len) |-> [file |-> f, part |-> i]]

(* The address decoded by process_file; segment and offset are shorts.  A  *)
(* pair is never valid: its first numeral has to end at the end of the     *)
(* string, and ends at the colon.  A negative flat address is.             *)
Decoded(p) ==
  IF p.form = "pair"
  THEN [segment |-> Signed(p.segment), offset |-> Signed(p.offset),
        address |-> Signed(p.segment) * Para + Signed(p.offset), valid |-> FALSE]
  ELSE [segment |-> Signed(p.address \div Para), offset |-> p.address % Para,
        address |-> p.address, valid |-> p.address <= Limit]

(* Mutant: the program's size is forgotten.                                *)
FitsStart(d, n) == d.valid /\ d.address <= Limit

Fits(d, n) == d.valid /\ d.address + n * Sec <= Limit

(* process_file: the file is copied, then its address is looked at.        *)
ProcessFile(len, p) ==
  LET n == Sectors(len)
      d == Decoded(p)
  IN  /\ stage = "build" /\ Len(progs) < MaxProgs
      /\ progs' = Append(progs, [len |-> len, place |-> p])
      /\ image' = image \o Copied(Len(progs) + 1, len)
      /\ IF Fits(d, n) /\ 3 * Len(info) + 3 <= NInfo
         THEN /\ info' = Append(info, [count |-> n, segment |-> d.segment,
                                       offset |-> d.offset])
              /\ UNCHANGED <<stage, disk, es, bx, left, tries, entry, mem>>
         ELSE Quit /\ UNCHANGED info

(* No program at all, a name without an address, a failed read or write.   *)
GiveUp == stage = "build" /\ Quit /\ UNCHANGED builder

(* main: the list goes over the last words of the boot image, if they are  *)
(* zero.  Then somebody boots from the disk.                               *)
Patch ==
  /\ stage = "build" /\ progs # <<>>
  /\ IF 3 * Len(info) <= Space
     THEN /\ stage' = "boot"
          /\ UNCHANGED <<disk, es, bx, left, tries, entry, mem>>
     ELSE Quit
  /\ UNCHANGED builder

----------------------------------------------------------------------------
(* The loader.                                                             *)

(* The loader has a stack and asks for the state of the drive: a disk that *)
(* is not ready stops the machine, one that is gets reset.                 *)
TestDisk ==
  /\ stage = "boot" /\ stage' \in {"load", "notready"}
  /\ UNCHANGED <<builder, disk, es, bx, left, tries, entry, mem>>

(* Number of the sector at the loader's position, from 1.                  *)
Position == (track * Heads + head) * SPT + sec

(* What the sector holds: the boot image, then the programs.               *)
OnDisk(k) ==
  IF k <= Len(image)
  THEN LET s == image[k] IN
       [b \in 0 .. Sec - 1 |->
          LET n == (s.part - 1) * Sec + b IN
          IF s.file > 0 /\ n < progs[s.file].len THEN <<s.file, n>> ELSE Clear]
  ELSE [b \in 0 .. Sec - 1 |-> Clear]

(* INT 13h: the sector goes to es:bx, the offset wrapping within its       *)
(* segment.                                                                *)
At(b) == es * Para + ((bx + b) % Word)

Stored ==
  LET data == OnDisk(Position)
  IN  [a \in DOMAIN mem |->
         IF \E b \in 0 .. Sec - 1 : At(b) = a
         THEN data[CHOOSE b \in 0 .. Sec - 1 : At(b) = a] ELSE mem[a]]

(* A failed attempt; the last one stops the machine.                       *)
ReadFails ==
  /\ stage = "load" /\ left > 0
  /\ tries' = tries + 1
  /\ stage' = IF tries + 1 = Retries THEN "failed" ELSE stage
  /\ UNCHANGED <<builder, disk, es, bx, left, entry, mem>>

(* Mutant: the segment is left alone at the end of 64K.                    *)
AdvanceWraps == bx' = (bx + Sec) % Word /\ UNCHANGED es

(* The next address: a new segment starts when the offset would wrap.      *)
Advance ==
  IF bx = Word - Sec
  THEN bx' = 0 /\ es' = (es + Word \div Para) % Word
  ELSE bx' = (bx + Sec) % Word /\ UNCHANGED es

(* The next sector: sectors, then heads, then tracks.                      *)
NextSector ==
  LET wrapS == sec = SPT
      wrapH == wrapS /\ head = Heads - 1
  IN  /\ sec' = IF wrapS THEN 1 ELSE sec + 1
      /\ head' = IF wrapH THEN 0 ELSE IF wrapS THEN head + 1 ELSE head
      /\ track' = IF wrapH THEN track + 1 ELSE track

(* Mutant: the last track is not used.                                     *)
PastDiskEarly == track' = Tracks - 1

(* All tracks have been read.                                              *)
PastDisk == track' = Tracks

(* readprog, one sector; behind the last sector of the disk it stops the   *)
(* machine, whether or not there is more to read.  A sector of a program   *)
(* over the loader or its stack ends what can be said: the code, or the    *)
(* address that readprog returns to, is gone, or the pushes that follow    *)
(* spoil the program.                                                      *)
ReadSector ==
  /\ stage = "load" /\ left > 0
  /\ mem' = Stored
  /\ Advance
  /\ NextSector
  /\ tries' = 0
  /\ left' = left - 1
  /\ stage' = IF entry > 0 /\ \E b \in 0 .. Sec - 1 : At(b) \in Loader THEN "wild"
              ELSE IF PastDisk THEN "toobig" ELSE stage
  /\ UNCHANGED <<builder, entry>>

(* nextblock: a count of zero ends the list; a list that fills its space   *)
(* to the last word is followed by code.                                   *)
NextBlock ==
  /\ stage = "load" /\ left = 0
  /\ entry' = entry + 1
  /\ IF entry' <= Len(info) /\ info[entry'].count > 0
     THEN /\ left' = info[entry'].count
          /\ es' = info[entry'].segment % Word
          /\ bx' = info[entry'].offset % Word
          /\ UNCHANGED stage
     ELSE /\ stage' = IF entry' > Len(info) /\ 3 * Len(info) >= Space
                      THEN "wild" ELSE "done"
          /\ UNCHANGED <<left, es, bx>>
  /\ UNCHANGED <<builder, disk, tries, mem>>

----------------------------------------------------------------------------

(* The boot image is two sectors; the loader begins by reading the second  *)
(* one behind the first.                                                   *)
BootInit ==
  /\ stage = "build" /\ progs = <<>> /\ info = <<>>
  /\ image = [i \in 1 .. 2 |-> [file |-> 0, part |-> i]]
  /\ sec = 2 /\ head = 0 /\ track = 0
  /\ es = 0 /\ bx = Sec /\ left = 1 /\ tries = 0 /\ entry = 0
  /\ mem = [a \in 0 .. Word * Para + Word - 1 |-> Clear]

Load == TestDisk \/ ReadSector \/ ReadFails \/ NextBlock

BootNext == \/ \E len \in Lengths, p \in Places : ProcessFile(len, p)
            \/ GiveUp \/ Patch \/ Load

BootSpec == BootInit /\ [][BootNext]_bootVars /\ WF_bootVars(Load)

----------------------------------------------------------------------------
(* Properties.                                                             *)

(* Every variable keeps its type.                                          *)
BootTypeOK ==
  /\ stage \in {"build", "quit", "boot", "notready", "load", "done", "failed", "toobig", "wild"}
  /\ progs \in Seq([len : Lengths, place : Places])
  /\ image \in Seq([file : 0 .. MaxProgs, part : Nat])
  /\ info \in Seq([count : Nat, segment : Int, offset : Int])
  /\ sec \in 1 .. SPT /\ head \in 0 .. Heads - 1 /\ track \in 0 .. Tracks
  /\ es \in 0 .. Word - 1 /\ bx \in 0 .. Word - 1
  /\ left \in Nat /\ tries \in 0 .. Retries /\ entry \in 0 .. MaxProgs + 1
  /\ \A a \in DOMAIN mem : mem[a] \in (0 .. MaxProgs) \X Nat

(* Where a program is meant to be: the address as the user wrote it.       *)
Wanted(p) == IF p.form = "pair" THEN p.segment * Para + p.offset ELSE p.address
Area(i)   == LET a == Wanted(progs[i].place) IN
             a .. a + Sectors(progs[i].len) * Sec - 1

(* What the tools need of a program: a file that is not empty, and a place *)
(* above the loader and clear of its stack, with an offset in steps of a   *)
(* sector.                                                                 *)
WellPlaced(i) ==
  LET p == progs[i].place IN
  /\ progs[i].len > 0
  /\ Wanted(p) >= 2 * Sec /\ Area(i) \cap Stack = {}
  /\ Decoded(p).offset % Sec = 0

AllWellPlaced == \A i \in 1 .. Len(progs) : WellPlaced(i)

(* The memory the user asked for, later programs over earlier ones.        *)
Intended(a) ==
  LET at == {i \in 1 .. Len(progs) : a \in Area(i)}
      i  == CHOOSE i \in at : \A j \in at : j <= i
      n  == a - Wanted(progs[i].place)
  IN  IF at # {} /\ n < progs[i].len THEN <<i, n>> ELSE Clear

(* A disk that loads (bootstrap.S 91-190) puts every byte of every program *)
(* where the command line of BuildImage said, across 64K boundaries, heads *)
(* and tracks, and nothing anywhere else, however often reads failed.      *)
LoadsAll ==
  stage = "done" /\ AllWellPlaced =>
    \A a \in DOMAIN mem \ Loader : mem[a] = Intended(a)

(* The fit test of process_file (BuildImage.c 149-156) keeps what the      *)
(* loader writes within conventional memory, for programs in the places    *)
(* the tools need; it also accepts negative addresses, which are outside   *)
(* of this property and break it (AcceptedIsLoaded).                       *)
StaysBelowLimit ==
  AllWellPlaced => \A a \in DOMAIN mem : a > Limit => mem[a] = Clear

(* Well placed programs leave the loader and its stack alone: it runs wild *)
(* only behind a list that fills its space and has no end (bootstrap.S     *)
(* 93-107).                                                                *)
LoaderSurvives == stage = "wild" /\ AllWellPlaced => 3 * Len(info) >= Space

(* A disk with at least one sector to spare is loaded, unless it is not    *)
(* ready (bootstrap.S 58-65) or one sector cannot be read in three         *)
(* attempts: the loader does not run off its list, nor past its last       *)
(* program, nor over itself or its stack.                                  *)
LoaderEnds ==
  stage = "boot" /\ AllWellPlaced /\ Len(image) < Capacity
    ~> \/ stage \in {"done", "notready"}
       \/ stage = "failed" /\ tries = Retries

----------------------------------------------------------------------------
(* Claims the tools do not keep; see the README.                           *)

(* A disk whose image just fits is loaded.                                 *)
FullDiskLoads == stage = "toobig" => Len(image) > Capacity

(* What the builder accepts is loaded where it was asked for.              *)
AcceptedIsLoaded ==
  stage = "done" => \A a \in DOMAIN mem \ Loader : mem[a] = Intended(a)

(* A program whose place is written as a pair is accepted if it fits.      *)
PairsAccepted ==
  \A i \in 1 .. Len(progs) :
    LET p == progs[i].place IN
    /\ p.form = "pair" /\ 3 * i <= NInfo
    /\ Wanted(p) + Sectors(progs[i].len) * Sec <= Limit
    => i <= Len(info)

(* The builder leaves a zero word behind the list.                         *)
ListEnds == stage = "load" => 3 * Len(info) < Space

=============================================================================

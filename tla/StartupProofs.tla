---------------------------- MODULE StartupProofs ----------------------------
(***************************************************************************)
(* Proofs about the start of the system and its interrupt controllers, for *)
(* any lines without a driver, any number of requests, and any PCI bus;    *)
(* and about the boot loader before it, for any programs, sizes of sectors *)
(* and tracks.                                                             *)
(***************************************************************************)
EXTENDS Startup, Boot, TLAPS, WellFoundedInduction

-----------------------------------------------------------------------------
(* The inductive invariant.                                                *)

(* The lines that interrupt on the slave are those of the disk and those   *)
(* without a driver; the disk's handler is installed in time.              *)
TableFilled ==
  /\ step # 1 => \A l \in Stray : table[l] = "unexpected"
  /\ step \notin 1 .. 4 => table[Ata] = "ata"

(* A handler runs with its own line in service and no other.               *)
InService ==
  /\ mode = "init" <=> step # 0
  /\ mode \in {"init", "process"} => master = {} /\ slave = {}
  /\ mode = "handler" =>
       /\ master = IF line = Syscall THEN {} ELSE {MasterLine(line)}
       /\ slave = IF line # Syscall /\ OnSlave(line) THEN {line} ELSE {}

(* The search has been made, on the bus as it is.                          *)
Searched == step \in {0, 6, 7} => ide = FindDevice(space, IdeId)

StartupInvariant == TypeOK /\ TableFilled /\ InService /\ Searched

-----------------------------------------------------------------------------
(* The lines.                                                              *)

(* Lines are numbered up to 15, and so is the system call's vector not one *)
(* of them.                                                                *)
LEMMA LinesFacts ==
  /\ Lines \subseteq 0 .. 15 /\ Syscall \notin Lines /\ Ata \in Lines /\ Ata \notin Stray
  /\ \A l \in Lines : OnSlave(l) => l = Ata \/ l \in Stray
  /\ \A l \in Lines : MasterLine(l) \in Nat
  /\ Timer \notin Stray /\ Keyboard \notin Stray /\ Serial \notin Stray /\ Syscall \notin Stray
BY StartupAssumption DEF Lines, Handled, Timer, Keyboard, Serial, Ata, Syscall, Cascade, OnSlave,
                         MasterLine

(* An end of interrupt ends the service of the only line that has one.     *)
LEMMA EoiOne ==
  Eoi({}) = {} /\ \A m \in Nat : Eoi({m}) = {}
<1>1. ASSUME NEW m \in Nat PROVE Min({m}) = m
  BY DEF Min
<1> QED BY <1>1 DEF Eoi

-----------------------------------------------------------------------------
(* The search for the controller.                                          *)

(* Quotient and remainder.                                                 *)
LEMMA Division ==
  ASSUME NEW d \in Nat \ {0}, NEW q \in Nat, NEW r \in 0 .. d - 1
  PROVE  (q * d + r) \div d = q /\ (q * d + r) % d = r
OBVIOUS

(* A number has a quotient and a remainder.                                *)
LEMMA Quotient ==
  ASSUME NEW d \in Nat \ {0}, NEW n \in Nat
  PROVE  n \div d \in Nat /\ n % d \in 0 .. d - 1 /\ n = (n \div d) * d + (n % d)
OBVIOUS

(* A set of numbers that is not empty has a least element.                 *)
LEMMA LeastNumber ==
  ASSUME NEW T, T \subseteq Nat, T # {}
  PROVE  \E n \in T : \A m \in T : n <= m
<1> DEFINE R == OpToRel(<, Nat)
<1>1. \A x, y \in Nat : <<y, x>> \in R <=> y < x
  BY DEF OpToRel
<1>2. IsWellFoundedOn(R, Nat)
  BY NatLessThanWellFounded
<1> HIDE DEF R
<1>3. PICK n \in T : \A y \in T : ~ (<<y, n>> \in R)
  BY <1>2, WFMin
<1>4. ASSUME NEW m \in T PROVE n <= m
  <2>1. m \in Nat /\ n \in Nat /\ ~ (<<m, n>> \in R)
    BY <1>3
  <2>2. ~(m < n)
    BY <1>1, <2>1
  <2> QED BY <2>1, <2>2
<1> QED BY <1>4

(* The width of an address.                                                *)
LEMMA WidthNumber ==
  /\ FuncBits \in Nat /\ SlotBits \in Nat /\ BusBits \in Nat
  /\ Buses \in Nat /\ Slots \in Nat /\ Funcs \in Nat
  /\ Width \in Nat /\ Width = BusBits + SlotBits + FuncBits
BY PciAssumption DEF Width

(* What the recursive definition of the powers computes.                   *)
LEMMA PowerRuns ==
  Power[0] = 1 /\ \A n \in 1 .. Width : Power[n] = 2 * Power[n - 1]
<1> DEFINE Follows(f, n) == f = [i \in 0 .. n |-> IF i = 0 THEN 1 ELSE 2 * f[i - 1]]
<1>1. \A n \in Nat : \E f : Follows(f, n)
  <2> DEFINE T == {n \in Nat : ~\E f : Follows(f, n)}
  <2>1. SUFFICES ASSUME T # {} PROVE FALSE
    OBVIOUS
  <2>2. PICK n \in T : \A m \in T : n <= m
    <3>1. T \subseteq Nat
      OBVIOUS
    <3> QED BY <3>1, <2>1, LeastNumber
  <2>3. CASE n = 0
    <3>1. Follows([i \in 0 .. 0 |-> 1], 0)
      OBVIOUS
    <3> QED BY <3>1, <2>2, <2>3
  <2>4. CASE n # 0
    <3>1. n - 1 \in Nat /\ n - 1 \notin T
      <4>1. n \in Nat
        OBVIOUS
      <4> HIDE DEF T
      <4> QED BY <4>1, <2>2, <2>4
    <3>2. PICK f : Follows(f, n - 1)
      BY <3>1
    <3> DEFINE g == [i \in 0 .. n |-> IF i < n THEN f[i] ELSE 2 * f[n - 1]]
    <3>3. \A i \in 0 .. n : g[i] = IF i = 0 THEN 1 ELSE 2 * g[i - 1]
      BY <3>1, <3>2, <2>2, <2>4
    <3>4. Follows(g, n)
      <4>1. g = [i \in 0 .. n |-> g[i]]
        OBVIOUS
      <4> HIDE DEF g
      <4> QED BY <4>1, <3>3
    <3> QED BY <3>4, <2>2
  <2> QED BY <2>3, <2>4
<1>2. Follows(Power, Width)
  BY <1>1, WidthNumber DEF Power
<1>3. \A i \in 0 .. Width : Power[i] = IF i = 0 THEN 1 ELSE 2 * Power[i - 1]
  BY <1>2
<1>4. 0 \in 0 .. Width /\ \A n \in 1 .. Width : n \in 0 .. Width /\ n # 0
  BY WidthNumber
<1> QED BY <1>3, <1>4

(* Powers are positive.                                                    *)
LEMMA PowerPositive == \A n \in 0 .. Width : Power[n] \in Nat \ {0}
<1> DEFINE T == {n \in 0 .. Width : Power[n] \notin Nat \ {0}}
<1>1. SUFFICES ASSUME T # {} PROVE FALSE
  OBVIOUS
<1>2. PICK n \in T : \A m \in T : n <= m
  <2>1. T \subseteq Nat
    BY WidthNumber
  <2> QED BY <2>1, <1>1, LeastNumber
<1>3. n \in 1 .. Width
  BY <1>2, PowerRuns, WidthNumber
<1>4. n - 1 \in 0 .. Width /\ n - 1 \notin T
  BY <1>2, <1>3, WidthNumber
<1>5. Power[n - 1] \in Nat \ {0} /\ Power[n] = 2 * Power[n - 1]
  BY <1>3, <1>4, PowerRuns
<1> QED BY <1>2, <1>5

(* The loops are not empty.                                                *)
LEMMA LoopsRun == {Buses, Slots, Funcs} \subseteq Nat \ {0}
<1>1. FuncBits \in 0 .. Width /\ SlotBits \in 0 .. Width /\ BusBits \in 0 .. Width
  BY WidthNumber
<1>2. Power[FuncBits] \in Nat \ {0} /\ Power[SlotBits] \in Nat \ {0} /\ Power[BusBits] \in Nat \ {0}
  BY <1>1, PowerPositive
<1> QED BY <1>2, PciAssumption

(* A digit below the last bit does not matter to the bits above it.        *)
LEMMA Halves ==
  ASSUME NEW m \in Nat, NEW b \in 0 .. 1, NEW d \in Nat \ {0}
  PROVE  (2 * m + b) \div (2 * d) = m \div d
<1> DEFINE q == m \div d
           r == m % d
<1>1. q \in Nat /\ r \in 0 .. d - 1 /\ m = q * d + r
  BY Quotient
<1> HIDE DEF q, r
<1>2. 2 * m + b = q * (2 * d) + (2 * r + b)
  BY <1>1
<1>3. 2 * r + b \in 0 .. 2 * d - 1 /\ 2 * d \in Nat \ {0}
  BY <1>1
<1>4. (q * (2 * d) + (2 * r + b)) \div (2 * d) = q
  BY <1>1, <1>3, Division
<1> QED BY <1>2, <1>4 DEF q

(* Every set of bits is that of a number below the power of its width.     *)
LEMMA NumberOfBits ==
  \A w \in 0 .. Width : \A A \in SUBSET (0 .. w - 1) :
    \E n \in 0 .. Power[w] - 1 :
      \A i \in 0 .. Width - 1 : (n \div Power[i]) % 2 = 1 <=> i \in A
<1> DEFINE Made(w, A) == \E n \in 0 .. Power[w] - 1 :
                           \A i \in 0 .. Width - 1 : (n \div Power[i]) % 2 = 1 <=> i \in A
           T == {w \in 0 .. Width : \E A \in SUBSET (0 .. w - 1) : ~Made(w, A)}
<1>1. SUFFICES ASSUME T # {} PROVE FALSE
  OBVIOUS
<1>2. PICK w \in T : \A m \in T : w <= m
  <2>1. T \subseteq Nat
    BY WidthNumber
  <2> HIDE DEF T
  <2> QED BY <2>1, <1>1, LeastNumber
<1>3. w \in 0 .. Width /\ w \in Nat
  BY WidthNumber
<1>4. PICK A \in SUBSET (0 .. w - 1) : ~Made(w, A)
  BY <1>2
<1>5. CASE w = 0
  <2>1. A = {}
    BY <1>5
  <2>2. 0 \in 0 .. Power[w] - 1
    BY <1>3, PowerPositive
  <2>3. ASSUME NEW i \in 0 .. Width - 1 PROVE (0 \div Power[i]) % 2 = 0
    <3>1. Power[i] \in Nat \ {0}
      BY WidthNumber, PowerPositive
    <3>2. 0 \div Power[i] = 0
      BY <3>1
    <3> QED BY <3>2
  <2>4. Made(w, A)
    BY <2>1, <2>2, <2>3
  <2> QED BY <1>4, <2>4
<1>6. CASE w # 0
  <2>1. w - 1 \in 0 .. Width /\ w - 1 \notin T /\ w \in 1 .. Width
    <3> HIDE DEF T
    <3> QED BY <1>2, <1>3, <1>6, WidthNumber
  <2> DEFINE B == {i \in 0 .. w - 2 : i + 1 \in A}
             b == IF 0 \in A THEN 1 ELSE 0
  <2>2. B \in SUBSET (0 .. (w - 1) - 1)
    BY <1>3
  <2>3. Made(w - 1, B)
    <3> HIDE DEF B, Made
    <3> QED BY <2>1, <2>2
  <2>4. PICK m \in 0 .. Power[w - 1] - 1 :
               \A i \in 0 .. Width - 1 : (m \div Power[i]) % 2 = 1 <=> i \in B
    <3> HIDE DEF B
    <3> QED BY <2>3
  <2>5. Power[w] = 2 * Power[w - 1] /\ Power[w - 1] \in Nat \ {0}
    BY <2>1, PowerRuns, PowerPositive
  <2>6. m \in Nat /\ b \in 0 .. 1 /\ 2 * m + b \in 0 .. Power[w] - 1
    BY <2>4, <2>5
  <2>7. ASSUME NEW i \in 0 .. Width - 1
        PROVE  ((2 * m + b) \div Power[i]) % 2 = 1 <=> i \in A
    <3>1. CASE i = 0
      <4>1. (2 * m + b) \div 1 = 2 * m + b /\ (2 * m + b) % 2 = b
        <5> HIDE DEF b
        <5> QED BY <2>6
      <4>2. Power[i] = 1
        BY <3>1, PowerRuns
      <4> QED BY <3>1, <4>1, <4>2
    <3>2. CASE i # 0
      <4>1. i \in 1 .. Width /\ i - 1 \in 0 .. Width - 1 /\ i - 1 \in 0 .. Width
        BY <3>2, WidthNumber
      <4>2. Power[i] = 2 * Power[i - 1] /\ Power[i - 1] \in Nat \ {0}
        BY <4>1, PowerRuns, PowerPositive
      <4>3. (2 * m + b) \div Power[i] = m \div Power[i - 1]
        <5> HIDE DEF b
        <5> QED BY <2>6, <4>2, Halves
      <4>4. i - 1 \in B <=> i \in A
        BY <1>3, <1>4, <4>1
      <4> HIDE DEF B, b
      <4> QED BY <2>4, <4>1, <4>3, <4>4
    <3> QED BY <3>1, <3>2
  <2>8. Made(w, A)
    <3> HIDE DEF b
    <3> QED BY <2>6, <2>7
  <2> QED BY <1>4, <2>8
<1> QED BY <1>5, <1>6

(* The loops go through every address, since they go through every number  *)
(* that fits into a field.                                                 *)
LEMMA EveryAddressProbed ==
  \A a \in Addresses : \E c \in Coordinates : Selects(c) = a
<1> SUFFICES ASSUME NEW a \in Addresses PROVE \E c \in Coordinates : Selects(c) = a
  OBVIOUS
<1> DEFINE Bit(n, i) == (n \div Power[i]) % 2 = 1
           F == {i \in 0 .. FuncBits - 1 : i \in a}
           S == {i \in 0 .. SlotBits - 1 : i + FuncBits \in a}
           B == {i \in 0 .. BusBits - 1 : i + (SlotBits + FuncBits) \in a}
<1>1. PICK f \in 0 .. Power[FuncBits] - 1 : \A i \in 0 .. Width - 1 : Bit(f, i) <=> i \in F
  <2>1. F \in SUBSET (0 .. FuncBits - 1) /\ FuncBits \in 0 .. Width
    BY WidthNumber
  <2> HIDE DEF F
  <2> QED BY <2>1, NumberOfBits
<1>2. PICK s \in 0 .. Power[SlotBits] - 1 : \A i \in 0 .. Width - 1 : Bit(s, i) <=> i \in S
  <2>1. S \in SUBSET (0 .. SlotBits - 1) /\ SlotBits \in 0 .. Width
    BY WidthNumber
  <2> HIDE DEF S
  <2> QED BY <2>1, NumberOfBits
<1>3. PICK b \in 0 .. Power[BusBits] - 1 : \A i \in 0 .. Width - 1 : Bit(b, i) <=> i \in B
  <2>1. B \in SUBSET (0 .. BusBits - 1) /\ BusBits \in 0 .. Width
    BY WidthNumber
  <2> HIDE DEF B
  <2> QED BY <2>1, NumberOfBits
<1> DEFINE c == [bus |-> b, slot |-> s, func |-> f]
<1>4. c \in Coordinates
  <2>1. /\ Power[FuncBits] \in Nat /\ Power[SlotBits] \in Nat /\ Power[BusBits] \in Nat
    BY WidthNumber, PowerPositive
  <2>2. f \in 0 .. Funcs - 1 /\ s \in 0 .. Slots - 1 /\ b \in 0 .. Buses - 1
    BY <2>1, WidthNumber, PciAssumption
  <2> QED BY <2>2 DEF Coordinates
<1>5. Selects(c) = a
  <2>1. a \subseteq 0 .. Width - 1
    BY DEF Addresses
  <2> HIDE DEF Bit
  <2>2. Field(f, 0) = {i \in 0 .. Width - 1 : Bit(f, i)}
    BY WidthNumber DEF Field, Bit
  <2>3. /\ Field(s, FuncBits) = {i \in FuncBits .. Width - 1 : Bit(s, i - FuncBits)}
        /\ Field(b, SlotBits + FuncBits)
             = {i \in SlotBits + FuncBits .. Width - 1 : Bit(b, i - (SlotBits + FuncBits))}
    BY WidthNumber DEF Field, Bit
  <2>4. Selects(c) = Field(b, SlotBits + FuncBits) \cup Field(s, FuncBits) \cup Field(f, 0)
    BY DEF Selects, ConfigAddress
  <2>5. ASSUME NEW i \in 0 .. Width - 1
        PROVE  /\ i \in Field(f, 0) <=> i \in a /\ i < FuncBits
               /\ i \in Field(s, FuncBits) <=> i \in a /\ FuncBits <= i /\ i < SlotBits + FuncBits
               /\ i \in Field(b, SlotBits + FuncBits) <=> i \in a /\ SlotBits + FuncBits <= i
    <3>1. i \in Field(f, 0) <=> i \in a /\ i < FuncBits
      BY <1>1, <2>2, WidthNumber
    <3>2. i \in Field(s, FuncBits) <=> i \in a /\ FuncBits <= i /\ i < SlotBits + FuncBits
      <4>1. CASE FuncBits <= i
        <5>1. i - FuncBits \in 0 .. Width - 1 /\ (i - FuncBits) + FuncBits = i
          BY <4>1, WidthNumber
        <5>2. i - FuncBits \in S <=> i \in a /\ i < SlotBits + FuncBits
          BY <4>1, <5>1, WidthNumber
        <5> HIDE DEF S
        <5> QED BY <1>2, <2>3, <4>1, <5>1, <5>2, WidthNumber
      <4>2. CASE ~(FuncBits <= i)
        BY <2>3, <4>2, WidthNumber
      <4> QED BY <4>1, <4>2
    <3>3. i \in Field(b, SlotBits + FuncBits) <=> i \in a /\ SlotBits + FuncBits <= i
      <4> DEFINE k == SlotBits + FuncBits
      <4>1. CASE k <= i
        <5>1. i - k \in 0 .. Width - 1 /\ (i - k) + k = i /\ i - k <= BusBits - 1
          BY <4>1, WidthNumber
        <5>2. i - k \in B <=> i \in a
          BY <4>1, <5>1, WidthNumber
        <5> HIDE DEF B
        <5> QED BY <1>3, <2>3, <4>1, <5>1, <5>2, WidthNumber
      <4>2. CASE ~(k <= i)
        BY <2>3, <4>2, WidthNumber
      <4> QED BY <4>1, <4>2
    <3> QED BY <3>1, <3>2, <3>3
  <2>6. Selects(c) \subseteq 0 .. Width - 1
    BY <2>2, <2>3, <2>4, WidthNumber
  <2>7. ASSUME NEW i \in 0 .. Width - 1 PROVE i \in Selects(c) <=> i \in a
    BY <2>4, <2>5, WidthNumber
  <2> HIDE DEF c
  <2> QED BY <2>1, <2>6, <2>7
<1> QED BY <1>4, <1>5

(* The nested loops probe within their bounds.                             *)
LEMMA ProbeType ==
  ASSUME NEW n \in 0 .. Buses * Slots * Funcs - 1
  PROVE  Probe(n) \in Coordinates
<1>1. Buses \in Nat \ {0} /\ Slots \in Nat \ {0} /\ Funcs \in Nat \ {0}
  BY LoopsRun
<1> DEFINE d == Slots * Funcs
           q == n \div d
<1>2. d \in Nat \ {0} /\ n \in Nat /\ Buses * Slots * Funcs = Buses * d
  BY <1>1
<1> HIDE DEF d
<1>3. n < Buses * d
  <2>1. n \in 0 .. Buses * d - 1 /\ Buses * d \in Nat
    BY <1>1, <1>2
  <2> QED BY <2>1
<1>4. q \in Nat /\ q * d <= n
  BY <1>2, Quotient
<1> HIDE DEF q
<1>5. q < Buses
  BY <1>1, <1>2, <1>3, <1>4
<1>6. n % Funcs \in 0 .. Funcs - 1 /\ n \div Funcs \in Nat
  BY <1>1, <1>2, Quotient
<1>7. (n \div Funcs) % Slots \in 0 .. Slots - 1
  BY <1>1, <1>6, Quotient
<1>8. q \in 0 .. Buses - 1
  BY <1>1, <1>4, <1>5
<1> QED BY <1>6, <1>7, <1>8 DEF Probe, Coordinates, q, d

(* They probe all coordinates within their bounds.                         *)
LEMMA ProbeOnto ==
  ASSUME NEW c \in Coordinates
  PROVE  \E n \in 0 .. Buses * Slots * Funcs - 1 : Probe(n) = c
<1>1. Buses \in Nat \ {0} /\ Slots \in Nat \ {0} /\ Funcs \in Nat \ {0}
  BY LoopsRun
<1> DEFINE b == c.bus
           s == c.slot
           f == c.func
           m == b * Slots + s
           n == m * Funcs + f
<1>2. b \in 0 .. Buses - 1 /\ s \in 0 .. Slots - 1 /\ f \in 0 .. Funcs - 1
  BY DEF Coordinates
<1>3. c = [bus |-> b, slot |-> s, func |-> f]
  BY DEF Coordinates
<1> HIDE DEF b, s, f
<1>4. m \in Nat /\ m \div Slots = b /\ m % Slots = s
  BY <1>1, <1>2, Division
<1>5. m <= Buses * Slots - 1
  BY <1>1, <1>2
<1> HIDE DEF m
<1>6. n \in Nat /\ n \div Funcs = m /\ n % Funcs = f
  BY <1>1, <1>2, <1>4, Division
<1>7. n <= Buses * Slots * Funcs - 1
  <2> DEFINE B == Buses * Slots
  <2>1. B \in Nat /\ m + 1 <= B
    BY <1>1, <1>4, <1>5
  <2> HIDE DEF B
  <2>2. (m + 1) * Funcs <= B * Funcs
    BY <1>1, <1>4, <2>1
  <2>3. n + 1 <= (m + 1) * Funcs
    BY <1>1, <1>2, <1>4
  <2> QED BY <1>1, <1>6, <2>1, <2>2, <2>3 DEF B
<1>8. n \div (Slots * Funcs) = b
  <2> DEFINE d == Slots * Funcs
             r == s * Funcs + f
  <2>1. d \in Nat \ {0} /\ r \in Nat
    BY <1>1, <1>2
  <2>2. r + 1 <= (s + 1) * Funcs /\ (s + 1) * Funcs <= Slots * Funcs
    BY <1>1, <1>2
  <2>3. n = b * d + r
    BY <1>1, <1>2 DEF m
  <2>4. r + 1 <= d
    <3> DEFINE t == (s + 1) * Funcs
    <3>1. t \in Nat
      BY <1>1, <1>2
    <3>2. r + 1 <= t /\ t <= d
      BY <2>2
    <3> HIDE DEF t, d, r
    <3> QED BY <2>1, <3>1, <3>2
  <2> HIDE DEF d, r, n
  <2>5. n \div d = b
    BY <1>2, <2>1, <2>3, <2>4, Division
  <2> QED BY <2>5 DEF d
<1> HIDE DEF n
<1>9. n \in 0 .. Buses * Slots * Funcs - 1
  BY <1>1, <1>6, <1>7
<1>10. Probe(n) = c
  BY <1>3, <1>4, <1>6, <1>8 DEF Probe
<1> QED BY <1>9, <1>10

(* The words of a register tell whether it has the wanted identity.        *)
LEMMA MatchesIdentity ==
  ASSUME NEW sp \in Spaces, NEW a
  PROVE  /\ Matches(Register(sp, a), IdeId) <=> Register(sp, a) = IdeId
         /\ Register(sp, a) = IdeId <=> a \in DOMAIN sp /\ sp[a] = IdeId
<1>1. IdeId \in Registers /\ IdeId # Absent /\ Absent \in Registers
  BY PciAssumption, StartupAssumption DEF Absent, Registers
<1>2. Register(sp, a) \in Registers
  BY <1>1, StartupAssumption DEF Register
<1>3. Matches(Register(sp, a), IdeId) <=>
        Register(sp, a).device = IdeId.device /\ Register(sp, a).vendor = IdeId.vendor
  BY DEF Matches, ReadWord
<1>4. \A r, t \in Registers : r.device = t.device /\ r.vendor = t.vendor => r = t
  BY DEF Registers
<1>5. Register(sp, a) = IdeId <=> a \in DOMAIN sp /\ sp[a] = IdeId
  BY <1>1 DEF Register
<1> QED BY <1>1, <1>2, <1>3, <1>4, <1>5

(* The search gives coordinates that select the wanted identity, and if it *)
(* gives none, no probe met it.                                            *)
LEMMA FindDeviceResult ==
  ASSUME NEW sp \in Spaces
  PROVE  LET found == FindDevice(sp, IdeId)
         IN  \/ /\ found \in Coordinates /\ found # NoDevice
                /\ Register(sp, Selects(found)) = IdeId
             \/ /\ found = NoDevice
                /\ \A c \in Coordinates : Register(sp, Selects(c)) # IdeId
<1> DEFINE Found(n) == Matches(Register(sp, Selects(Probe(n))), IdeId)
           Last     == Buses * Slots * Funcs - 1
<1>1. FindDevice(sp, IdeId) =
        IF \E n \in 0 .. Last : Found(n)
        THEN Probe(CHOOSE n \in 0 .. Last : Found(n) /\ \A m \in 0 .. n - 1 : ~Found(m))
        ELSE NoDevice
  BY DEF FindDevice
<1>2. \A n : Found(n) <=> Register(sp, Selects(Probe(n))) = IdeId
  BY MatchesIdentity
<1>3. \A n \in 0 .. Last : Probe(n) \in Coordinates
  BY ProbeType
<1>4. \A c \in Coordinates : \E n \in 0 .. Last : Probe(n) = c
  BY ProbeOnto
<1>5. \A c \in Coordinates : c # NoDevice
  BY DEF Coordinates, NoDevice
<1>6. Last \in Int
  BY LoopsRun
<1> HIDE DEF Found, Last
<1>7. CASE \E n \in 0 .. Last : Found(n)
  <2> DEFINE T == {n \in 0 .. Last : Found(n)}
  <2>1. T \subseteq Nat /\ T # {}
    BY <1>6, <1>7
  <2>2. PICK k \in T : \A m \in T : k <= m
    BY <2>1, LeastNumber
  <2>3. k \in 0 .. Last /\ Found(k) /\ \A m \in 0 .. k - 1 : ~Found(m)
    BY <1>6, <2>2
  <2>4. PICK n \in 0 .. Last : Found(n) /\ FindDevice(sp, IdeId) = Probe(n)
    BY <1>1, <1>7, <2>3
  <2> QED BY <1>2, <1>3, <1>5, <2>4
<1>8. CASE ~ \E n \in 0 .. Last : Found(n)
  BY <1>1, <1>2, <1>4, <1>8
<1> QED BY <1>7, <1>8

-----------------------------------------------------------------------------
(* The steps.                                                              *)

(* At first nothing is in service, and the table is empty.                 *)
LEMMA StartupInit == Init => StartupInvariant
BY StartupAssumption DEF Init, StartupInvariant, TypeOK, TableFilled, InService, Searched, Vectors

(* The steps of _init.                                                     *)
LEMMA InitStepKeeps ==
  ASSUME StartupInvariant, InitStep
  PROVE  StartupInvariant'
<1> USE DEF StartupInvariant, TypeOK, TableFilled, InService, Searched, Doing, pic
<1>1. CASE InitIdt
  BY <1>1, LinesFacts DEF InitIdt, Vectors, Lines
<1>2. CASE InitPic
  BY <1>2 DEF InitPic
<1>3. CASE InitConsole
  <2>1. table' = [table EXCEPT ![Keyboard] = "keyboard"] /\ step = 3 /\ step' = 4
    BY <1>3 DEF InitConsole, Install
  <2>2. \A l \in Stray : table'[l] = table[l]
    BY <2>1, LinesFacts DEF Vectors, Lines
  <2>3. table' \in [Vectors -> {"null", "expected", "unexpected", "keyboard",
                               "clock", "sio", "ata", "syscall"}]
    BY <2>1
  <2> QED BY <1>3, <2>1, <2>2, <2>3 DEF InitConsole
<1>4. CASE InstallAta
  <2>1. table' = [table EXCEPT ![Ata] = "ata"] /\ Ata \in Vectors
    BY <1>4, LinesFacts DEF InstallAta, Install, Vectors
  <2>2. table'[Ata] = "ata" /\ \A l \in Stray : table'[l] = table[l]
    BY <2>1, LinesFacts
  <2>3. table' \in [Vectors -> {"null", "expected", "unexpected", "keyboard",
                               "clock", "sio", "ata", "syscall"}]
    BY <2>1
  <2> QED BY <1>4, <2>2, <2>3 DEF InstallAta
<1>5. CASE InitDevices
  <2>1. ide' \in Coordinates \cup {NoDevice}
    BY <1>5, FindDeviceResult DEF InitDevices
  <2> QED BY <1>5, <2>1 DEF InitDevices
<1>6. CASE InstallRest
  <2>1. table' = [[[table EXCEPT ![Timer] = "clock"] EXCEPT ![Syscall] = "syscall"]
                    EXCEPT ![Serial] = "sio"]
    BY <1>6 DEF InstallRest, Install
  <2>2. \A v \in Vectors \ {Timer, Syscall, Serial} : table'[v] = table[v]
    BY <2>1
  <2>3. Ata \notin {Timer, Syscall, Serial}
    BY DEF Timer, Serial, Syscall, Ata
  <2>4. table'[Ata] = table[Ata] /\ \A l \in Stray : table'[l] = table[l]
    BY <2>2, <2>3, LinesFacts DEF Vectors, Lines
  <2> QED BY <1>6, <2>1, <2>4 DEF InstallRest
<1>7. CASE Start
  BY <1>7 DEF Start
<1> QED BY <1>1, <1>2, <1>3, <1>4, <1>5, <1>6, <1>7 DEF InitStep

(* Requests, and the handlers they call.                                   *)
LEMMA RequestKeeps ==
  ASSUME StartupInvariant, NEW l \in Lines, Raise(l) \/ Acknowledge(l)
  PROVE  StartupInvariant'
<1> USE DEF StartupInvariant, TypeOK, TableFilled, InService, Searched
<1>1. CASE Raise(l)
  BY <1>1, StartupAssumption DEF Raise
<1>2. CASE Acknowledge(l)
  BY <1>2, LinesFacts DEF Acknowledge, Vectors
<1> QED BY <1>1, <1>2

(* A handler ends the service of its own line, on both controllers if the  *)
(* request came through the slave.                                         *)
LEMMA HandleKeeps ==
  ASSUME StartupInvariant, Handle
  PROVE  StartupInvariant'
<1>1. /\ TypeOK /\ TableFilled /\ InService /\ mode = "handler" /\ step = 0
      /\ UNCHANGED <<step, table, line, requested, open, raised, space, ide>>
  BY DEF StartupInvariant, InService, Handle
<1>2. CASE table[line] = "unexpected"
  BY <1>1, <1>2 DEF Handle, StartupInvariant, TypeOK, TableFilled, InService, Searched
<1>3. CASE table[line] # "unexpected"
  <2>1. /\ mode' = "process" /\ master' = Eoi(master)
        /\ slave' = IF ResetsSlave(table[line], line) THEN Eoi(slave) ELSE slave
    BY <1>3 DEF Handle
  <2>2. line \in Lines \cup {Syscall}
    BY <1>1 DEF TypeOK, Vectors
  <2>3. master' = {}
    BY <1>1, <2>1, <2>2, EoiOne, LinesFacts DEF InService
  <2>4. slave' = {}
    <3>1. CASE slave = {}
      BY <2>1, <3>1, EoiOne
    <3>2. CASE slave # {}
      <4>1. line \in Lines /\ OnSlave(line) /\ slave = {line}
        BY <1>1, <2>2, <3>2 DEF InService
      <4>2. line = Ata
        BY <1>1, <1>3, <4>1, LinesFacts DEF TableFilled
      <4>3. ResetsSlave(table[line], line)
        BY <1>1, <4>2 DEF TableFilled, ResetsSlave, Ata
      <4> QED BY <2>1, <4>1, <4>3, EoiOne, LinesFacts
    <3> QED BY <3>1, <3>2
  <2> QED BY <1>1, <2>1, <2>3, <2>4 DEF StartupInvariant, TypeOK, TableFilled, InService, Searched
<1> QED BY <1>2, <1>3

(* Every step keeps the invariant.                                         *)
LEMMA StartupStep ==
  ASSUME StartupInvariant, [Next]_vars
  PROVE  StartupInvariant'
<1>1. CASE SystemCall
  BY <1>1, LinesFacts
     DEF SystemCall, pic, StartupInvariant, TypeOK, TableFilled, InService, Searched, Vectors
<1>2. CASE UNCHANGED vars
  BY <1>2 DEF vars, pic, StartupInvariant, TypeOK, TableFilled, InService, Searched
<1> QED BY <1>1, <1>2, InitStepKeeps, RequestKeeps, HandleKeeps DEF Next

-----------------------------------------------------------------------------
(* The theorems.                                                           *)

(* The inductive invariant holds.                                          *)
THEOREM Invariance == Spec => []StartupInvariant
<1>1. StartupInvariant /\ [Next]_vars => StartupInvariant'
  BY StartupStep
<1> QED BY StartupInit, <1>1, PTL DEF Spec

(* Every variable keeps its type.                                          *)
THEOREM TypeCorrect == Spec => []TypeOK
<1>1. StartupInvariant => TypeOK
  BY DEF StartupInvariant
<1> QED BY Invariance, <1>1, PTL

(* While a process runs no line is in service on either controller, so no  *)
(* line is shut out and the reset of _isr_syscall ends nobody's service    *)
(* (syscalls.c 694, ata.c 630-635).                                        *)
THEOREM ControllersReset == Spec => []NothingInService
<1>1. StartupInvariant => NothingInService
  BY DEF StartupInvariant, InService, NothingInService
<1> QED BY Invariance, <1>1, PTL

(* The controller that _ide_init records is the one it looked for (pci.c   *)
(* 73-125), whatever the widths of the fields; there is none only if the   *)
(* bus has none.                                                           *)
THEOREM SearchExact == Spec => []ControllerFound
<1>1. StartupInvariant => ControllerFound
  <2> SUFFICES ASSUME StartupInvariant, step = 0 PROVE ControllerFound
    BY DEF ControllerFound
  <2>1. ide = FindDevice(space, IdeId) /\ space \in Spaces
    BY DEF StartupInvariant, Searched, TypeOK
  <2>2. \/ /\ ide # NoDevice /\ Register(space, Selects(ide)) = IdeId
        \/ /\ ide = NoDevice
           /\ \A c \in Coordinates : Register(space, Selects(c)) # IdeId
    BY <2>1, FindDeviceResult
  <2>3. \A a : Register(space, a) = IdeId <=> a \in DOMAIN space /\ space[a] = IdeId
    BY <2>1, MatchesIdentity
  <2>4. \A a \in DOMAIN space : \E c \in Coordinates : Selects(c) = a
    BY <2>1, StartupAssumption, EveryAddressProbed
  <2> QED BY <2>2, <2>3, <2>4 DEF ControllerFound
<1> QED BY Invariance, <1>1, PTL

-----------------------------------------------------------------------------
(* The boot loader.                                                        *)

(* Places of the memory.                                                   *)
Memory == 0 .. Word * Para + Word - 1

(* Sectors of a program, and where they are on the disk: program i starts  *)
(* at sector at[i], right behind the one before it.                        *)
Count(i) == Sectors(progs[i].len)

Layout(at) ==
  /\ at \in [1 .. Len(progs) + 1 -> 3 .. Len(image) + 1]
  /\ at[1] = 3 /\ at[Len(progs) + 1] = Len(image) + 1
  /\ \A i \in 1 .. Len(progs) : at[i + 1] = at[i] + Count(i)
  /\ \A i \in 1 .. Len(progs) : \A j \in 1 .. Count(i) :
       image[at[i] + j - 1] = [file |-> i, part |-> j]

(* Types, as far as they are needed.                                       *)
BootTypes ==
  /\ progs \in Seq([len : Lengths, place : Places])
  /\ image \in Seq([file : Nat, part : Nat])
  /\ info \in Seq([count : Nat, segment : Int, offset : Int])
  /\ sec \in Int /\ head \in Int /\ track \in Int
  /\ left \in Nat /\ entry \in Nat
  /\ mem = [a \in Memory |-> mem[a]]

(* Before the loader runs, the disk is at its start and memory is clear.   *)
AtRest ==
  /\ stage \in {"build", "quit", "boot"} => entry = 0 /\ left = 1 /\ Position = 2
  /\ entry = 0 => left <= 1 /\ \A a \in Memory : mem[a] = Clear

(* The list is that of the programs, which all passed the fit test.        *)
ListTells ==
  /\ Len(info) = Len(progs)
  /\ \A i \in 1 .. Len(progs) :
       LET d == Decoded(progs[i].place) IN
       /\ Fits(d, Count(i))
       /\ info[i] = [count |-> Count(i), segment |-> d.segment, offset |-> d.offset]

(* The loader is at the sector that it is about to read.                   *)
OnTrack ==
  /\ Len(image) >= 2 /\ image[2].file = 0
  /\ \E at : Layout(at) /\ (stage \in {"build", "boot", "load"} => Position + left = at[entry + 1])

(* The block it reads is one of the list, and no longer; the list ends     *)
(* behind the last program, or at an empty one.                            *)
InList ==
  /\ stage \in {"build", "boot", "load"} => entry <= Len(progs)
  /\ entry \in 1 .. Len(progs) => left <= Count(entry)
  /\ entry > Len(progs) => left = 0
  /\ stage = "done" /\ entry \in 1 .. Len(progs) => Count(entry) = 0
  /\ stage = "done" => entry > 0

(* The next sector goes behind the ones that have been read.               *)
Aims ==
  stage = "load" /\ entry > 0 /\ left > 0 =>
    /\ es \in 0 .. Word - 1 /\ bx \in 0 .. Word - 1 /\ bx % Sec = 0
    /\ es * Para + bx = Wanted(progs[entry].place) + (Count(entry) - left) * Sec

(* Sectors of program i that have been read, the memory they fill, and     *)
(* what belongs at a place in it.                                          *)
Read(i) == IF i < entry THEN Count(i) ELSE IF i = entry THEN Count(i) - left ELSE 0

Filled(i, a) == LET w == Wanted(progs[i].place) IN w <= a /\ a < w + Read(i) * Sec

ByteOf(i, a) == LET n == a - Wanted(progs[i].place) IN
                IF n < progs[i].len THEN <<i, n>> ELSE Clear

(* Memory holds the sectors read, later ones over earlier ones.            *)
Holds ==
  \A a \in Memory :
    /\ (\A i \in 1 .. Len(progs) : ~Filled(i, a)) => mem[a] = Clear
    /\ \A i \in 1 .. Len(progs) :
         Filled(i, a) /\ (\A j \in i + 1 .. Len(progs) : ~Filled(j, a)) => mem[a] = ByteOf(i, a)

(* The inductive invariant of the boot loader.                             *)
BootInvariant ==
  /\ BootTypes /\ AtRest
  /\ stage # "quit" => ListTells /\ OnTrack /\ InList /\ (AllWellPlaced => Aims /\ Holds)

(* Quotients and remainders of the sizes.                                  *)
LEMMA BootNumbers ==
  ASSUME BootSizes
  PROVE  /\ Word \in Nat \ {0} /\ Para \in Nat \ {0} /\ Sec \in Nat \ {0} /\ Limit \in Nat
         /\ Limit < Word * Para /\ Word * Para \in Nat
         /\ Word \div Para \in Nat \ {0} /\ Word = (Word \div Para) * Para
         /\ Para <= Word /\ Sec <= Word /\ Word % Sec = 0
<1>1. /\ Word \in Nat \ {0} /\ Para \in Nat \ {0} /\ Sec \in Nat \ {0}
      /\ Word % Sec = 0 /\ Word % Para = 0 /\ Limit \in 0 .. Word * Para - 1
  BY DEF BootSizes
<1>2. Word * Para \in Nat
  BY <1>1
<1>3. Word \div Para \in Nat /\ Word = (Word \div Para) * Para
  <2>1. Word \div Para \in Nat /\ Word % Para \in 0 .. Para - 1
        /\ Word = (Word \div Para) * Para + (Word % Para)
    BY <1>1, Quotient
  <2> QED BY <2>1, <1>1
<1>4. Word \div Para # 0
  BY <1>1, <1>3
<1>5. Para <= Word
  <2> DEFINE q == Word \div Para
  <2>1. q \in Nat \ {0} /\ Word = q * Para
    BY <1>3, <1>4
  <2> HIDE DEF q
  <2> QED BY <2>1, <1>1
<1>6. Sec <= Word
  <2>1. ~(Word < Sec)
    <3>1. SUFFICES ASSUME Word < Sec PROVE FALSE
      OBVIOUS
    <3>2. Word % Sec = Word
      BY <3>1, <1>1
    <3> QED BY <3>2, <1>1
  <2> QED BY <2>1, <1>1
<1> QED BY <1>1, <1>2, <1>3, <1>4, <1>5, <1>6

(* The remainder of a smaller number.                                      *)
LEMMA SmallMod ==
  ASSUME NEW d \in Nat \ {0}, NEW n \in 0 .. d - 1
  PROVE  n % d = n
<1>1. n = 0 * d + n
  OBVIOUS
<1> QED BY <1>1, Division

(* Between multiples of a number lies at least that number.                *)
LEMMA Multiples ==
  ASSUME NEW d \in Nat \ {0}, NEW x \in Nat, NEW y \in Nat, x % d = 0, y % d = 0
  PROVE  (x + d) % d = 0 /\ (x < y => x + d <= y)
<1>1. PICK p \in Nat : x = p * d
  <2>1. x \div d \in Nat /\ x = (x \div d) * d + (x % d)
    BY Quotient
  <2>2. x = (x \div d) * d
    BY <2>1
  <2> QED BY <2>1, <2>2
<1>2. PICK q \in Nat : y = q * d
  <2>1. y \div d \in Nat /\ y = (y \div d) * d + (y % d)
    BY Quotient
  <2>2. y = (y \div d) * d
    BY <2>1
  <2> QED BY <2>1, <2>2
<1>3. x + d = (p + 1) * d + 0
  BY <1>1
<1>4. (x + d) % d = 0
  BY <1>3, Division
<1>5. ASSUME x < y PROVE x + d <= y
  <2>1. p < q
    BY <1>1, <1>2, <1>5
  <2>2. PICK r \in Nat : q = p + 1 + r
    <3>1. q - p - 1 \in Nat /\ q = p + 1 + (q - p - 1)
      BY <2>1
    <3> QED BY <3>1
  <2>3. y = x + d + r * d /\ r * d \in Nat
    BY <2>2, <1>1, <1>2
  <2> QED BY <2>3
<1> QED BY <1>4, <1>5

(* What the fit test lets through is a flat address.                       *)
LEMMA FlatOnly ==
  ASSUME BootSizes, NEW p \in Places, NEW n \in Nat, Fits(Decoded(p), n)
  PROVE  /\ Wanted(p) = p.address /\ p.address \in Int
         /\ p.address + n * Sec <= Limit
         /\ Decoded(p).segment = Signed(p.address \div Para)
         /\ Decoded(p).offset = p.address % Para
<1>1. p.form # "pair"
  BY DEF Fits, Decoded
<1>2. p.form = "flat" /\ p.address \in Int
  BY <1>1 DEF BootSizes
<1> QED BY <1>1, <1>2 DEF Fits, Decoded, Wanted

(* Segment and offset make the address again, as words.                    *)
LEMMA AddressKept ==
  ASSUME BootSizes, NEW a \in Nat, a <= Limit,
         NEW s, NEW o, s = Signed(a \div Para) % Word, o = (a % Para) % Word
  PROVE  /\ s \in 0 .. Word - 1 /\ o \in 0 .. Word - 1 /\ o = a % Para
         /\ s * Para + o = a
<1> DEFINE q == a \div Para
           r == a % Para
<1>1. q \in Nat /\ r \in 0 .. Para - 1 /\ a = q * Para + r
  BY Quotient, BootNumbers
<1>2. q < Word
  <2>1. q * Para < Word * Para
    BY <1>1, BootNumbers
  <2> HIDE DEF q
  <2>2. ~(Word <= q)
    <3>1. SUFFICES ASSUME Word <= q PROVE FALSE
      OBVIOUS
    <3>2. PICK k \in Nat : q = Word + k
      <4>1. q - Word \in Nat /\ q = Word + (q - Word)
        BY <3>1, <1>1, BootNumbers
      <4> QED BY <4>1
    <3>3. q * Para = Word * Para + k * Para /\ k * Para \in Nat
      BY <3>2, BootNumbers
    <3> QED BY <3>3, <2>1, BootNumbers
  <2> QED BY <2>2, <1>1, BootNumbers
<1> HIDE DEF q, r
<1>3. Signed(q) % Word = q
  <2>1. q % Word = q
    BY <1>1, <1>2, BootNumbers, SmallMod
  <2>2. (q - Word) % Word = q
    BY <1>1, <1>2, BootNumbers
  <2>3. Signed(q) \in {q, q - Word}
    BY <2>1 DEF Signed
  <2> QED BY <2>1, <2>2, <2>3
<1>4. r % Word = r
  BY <1>1, BootNumbers, SmallMod
<1>5. s = q /\ o = r
  BY <1>3, <1>4 DEF q, r
<1> QED BY <1>1, <1>2, <1>5, BootNumbers DEF r

(* Files have sectors, and places have addresses.                          *)
LEMMA BootValues ==
  ASSUME BootSizes
  PROVE  /\ \A len \in Nat : Sectors(len) \in Nat
         /\ \A p \in Places : Wanted(p) \in Int
         /\ \A n \in Int : Signed(n) \in Int
         /\ Lengths \subseteq Nat
<1>1. ASSUME NEW len \in Nat PROVE Sectors(len) \in Nat
  <2>1. len + Sec - 1 \in Nat /\ Sec \in Nat \ {0}
    BY BootNumbers
  <2> QED BY <2>1, Quotient DEF Sectors
<1>2. ASSUME NEW p \in Places PROVE Wanted(p) \in Int
  BY BootNumbers DEF BootSizes, Wanted
<1>3. ASSUME NEW n \in Int PROVE Signed(n) \in Int
  BY BootNumbers DEF Signed
<1> QED BY <1>1, <1>2, <1>3 DEF BootSizes

(* The segment and offset of a place are integers.                         *)
LEMMA DecodedType ==
  ASSUME BootSizes, NEW p \in Places
  PROVE  Decoded(p).segment \in Int /\ Decoded(p).offset \in Int
<1>1. CASE p.form = "pair"
  BY <1>1, BootValues DEF Decoded, BootSizes
<1>2. CASE p.form # "pair"
  <2>1. p.address \in Int
    BY <1>2 DEF BootSizes
  <2>2. p.address \div Para \in Int /\ p.address % Para \in Int
    BY <2>1, BootNumbers
  <2> QED BY <1>2, <2>2, BootValues DEF Decoded
<1> QED BY <1>1, <1>2

(* The sectors and the place of a given program.                           *)
LEMMA ProgramFacts ==
  ASSUME BootSizes, BootTypes, NEW i \in 1 .. Len(progs)
  PROVE  /\ Count(i) \in Nat /\ Wanted(progs[i].place) \in Int
         /\ progs[i].len \in Nat /\ progs[i].place \in Places
<1>1. progs[i] \in [len : Lengths, place : Places]
  <2> DEFINE P == [len : Lengths, place : Places]
  <2>1. progs \in Seq(P)
    BY DEF BootTypes
  <2> HIDE DEF P
  <2>2. progs[i] \in P
    BY <2>1
  <2> QED BY <2>2 DEF P
<1> QED BY <1>1, BootValues DEF Count

(* Positions on the disk are numbers.                                      *)
LEMMA PositionType ==
  ASSUME BootSizes, BootTypes
  PROVE  Position \in Int
<1>1. track \in Int /\ head \in Int /\ sec \in Int /\ SPT \in Int /\ Heads \in Int
  BY DEF BootTypes, BootSizes
<1>2. track * Heads + head \in Int
  BY <1>1
<1> QED BY <1>1, <1>2 DEF Position

(* Before the first program nothing is filled.                             *)
LEMMA NothingFilled ==
  ASSUME BootSizes, BootTypes, entry = 0, NEW i \in 1 .. Len(progs), NEW a \in Memory
  PROVE  ~Filled(i, a)
<1>1. Read(i) = 0
  BY DEF Read
<1>2. Wanted(progs[i].place) \in Int /\ Sec \in Nat
  BY ProgramFacts, BootNumbers
<1> QED BY <1>1, <1>2, BootNumbers DEF Filled, Memory

(* Before the first program, memory is as it should be.                    *)
LEMMA HoldsAtRest ==
  BootSizes => (BootTypes /\ AtRest /\ entry = 0 => Holds)
BY NothingFilled DEF Holds, AtRest

(* The initial state.                                                      *)
LEMMA BootStarts ==
  ASSUME BootSizes, BootInit
  PROVE  BootInvariant
<1> USE BootNumbers
<1>1. /\ stage = "build" /\ progs = <<>> /\ info = <<>>
      /\ image = [i \in 1 .. 2 |-> [file |-> 0, part |-> i]]
      /\ sec = 2 /\ head = 0 /\ track = 0 /\ left = 1 /\ entry = 0
      /\ mem = [a \in Memory |-> Clear]
  BY DEF BootInit, Memory
<1>2. /\ image \in Seq([file : Nat, part : Nat]) /\ Len(image) = 2 /\ image[2].file = 0
      /\ Len(progs) = 0 /\ Len(info) = 0
  BY <1>1
<1>3. Position = 2
  BY <1>1 DEF Position, BootSizes
<1>4. BootTypes
  BY <1>1, <1>2 DEF BootTypes
<1>5. AtRest
  BY <1>1, <1>3 DEF AtRest
<1>6. ListTells
  BY <1>2 DEF ListTells
<1>7. OnTrack
  <2> DEFINE at == [i \in 1 .. 1 |-> 3]
  <2>1. Layout(at)
    BY <1>2 DEF Layout
  <2>2. Position + left = at[entry + 1]
    BY <1>1, <1>3
  <2> QED BY <2>1, <2>2, <1>2 DEF OnTrack
<1>8. InList /\ Aims
  BY <1>1, <1>2 DEF InList, Aims
<1> QED BY <1>4, <1>5, <1>6, <1>7, <1>8, <1>1, HoldsAtRest DEF BootInvariant

(* A builder that gives up leaves memory and disk alone.                   *)
LEMMA QuitKeeps ==
  ASSUME BootInvariant, stage = "build", Quit, BootTypes'
  PROVE  BootInvariant'
<1>1. /\ stage' = "quit" /\ sec' = sec /\ head' = head /\ track' = track
      /\ left' = left /\ entry' = entry /\ mem' = mem
  BY DEF Quit, disk
<1>2. AtRest'
  BY <1>1 DEF BootInvariant, AtRest, Position
<1> QED BY <1>1, <1>2 DEF BootInvariant

(* Writing the list, or not.                                               *)
LEMMA PatchKeeps ==
  ASSUME BootSizes, BootInvariant, Patch \/ GiveUp
  PROVE  BootInvariant'
<1>1. /\ stage = "build" /\ progs' = progs /\ image' = image /\ info' = info
      /\ sec' = sec /\ head' = head /\ track' = track
      /\ left' = left /\ entry' = entry /\ mem' = mem
  BY DEF Patch, GiveUp, Quit, builder, disk
<1>2. BootTypes'
  BY <1>1 DEF BootInvariant, BootTypes
<1>3. CASE Quit
  BY <1>1, <1>2, <1>3, QuitKeeps
<1>4. CASE stage' = "boot"
  <2>1. AtRest'
    BY <1>1, <1>4 DEF BootInvariant, AtRest, Position
  <2>2. ListTells'
    BY <1>1 DEF BootInvariant, ListTells, Count
  <2>3. OnTrack'
    <3>1. PICK at : Layout(at) /\ Position + left = at[entry + 1]
      BY <1>1 DEF BootInvariant, OnTrack
    <3>2. Layout(at)'
      BY <3>1, <1>1 DEF Layout, Count
    <3>3. (Position + left = at[entry + 1])'
      BY <3>1, <1>1 DEF Position
    <3> QED BY <3>2, <3>3, <1>1 DEF BootInvariant, OnTrack
  <2>4. entry = 0
    BY <1>1 DEF BootInvariant, AtRest
  <2>5. InList' /\ Aims'
    BY <2>4, <1>1, <1>4 DEF BootInvariant, InList, Aims, BootTypes
  <2>6. Holds'
    <3>1. BootSizes' /\ (entry = 0)'
      BY <2>4, <1>1 DEF BootSizes
    <3> QED BY <1>2, <2>1, <3>1, HoldsAtRest, PTL
  <2> QED BY <1>2, <2>1, <2>2, <2>3, <2>5, <2>6 DEF BootInvariant
<1> QED BY <1>3, <1>4 DEF Patch, GiveUp

(* Elements of a longer sequence.                                          *)
LEMMA Appended ==
  ASSUME NEW S, NEW s \in Seq(S), NEW x \in S
  PROVE  /\ Append(s, x) \in Seq(S) /\ Len(Append(s, x)) = Len(s) + 1
         /\ \A i \in 1 .. Len(s) : Append(s, x)[i] = s[i]
         /\ Append(s, x)[Len(s) + 1] = x
OBVIOUS

(* Elements of two sequences together.                                     *)
LEMMA Concatenated ==
  ASSUME NEW S, NEW s \in Seq(S), NEW t \in Seq(S)
  PROVE  /\ s \o t \in Seq(S) /\ Len(s \o t) = Len(s) + Len(t)
         /\ \A i \in 1 .. Len(s) : (s \o t)[i] = s[i]
         /\ \A i \in 1 .. Len(t) : (s \o t)[Len(s) + i] = t[i]
OBVIOUS

(* The sectors of a copied file.                                           *)
LEMMA CopiedSectors ==
  ASSUME BootSizes, NEW f \in Nat, NEW len \in Lengths
  PROVE  /\ Copied(f, len) \in Seq([file : Nat, part : Nat])
         /\ Len(Copied(f, len)) = Sectors(len)
         /\ \A j \in 1 .. Sectors(len) : Copied(f, len)[j] = [file |-> f, part |-> j]
<1> DEFINE R == [file : Nat, part : Nat]
           n == Sectors(len)
           e(j) == [file |-> f, part |-> j]
<1>1. Copied(f, len) = [j \in 1 .. n |-> e(j)]
  BY DEF Copied
<1>2. n \in Nat
  BY BootValues
<1>3. \A j \in 1 .. n : e(j) \in R
  BY <1>2
<1> HIDE DEF R, n, e
<1>4. /\ [j \in 1 .. n |-> e(j)] \in Seq(R)
      /\ Len([j \in 1 .. n |-> e(j)]) = n
  BY <1>2, <1>3
<1> QED BY <1>1, <1>4 DEF R, n, e

(* Builder and disk after a file was copied.                               *)
LEMMA CopyFacts ==
  ASSUME BootSizes, BootTypes, NEW len \in Lengths, NEW p \in Places,
         progs' = Append(progs, [len |-> len, place |-> p]),
         image' = image \o Copied(Len(progs) + 1, len)
  PROVE  /\ progs' \in Seq([len : Lengths, place : Places])
         /\ Len(progs') = Len(progs) + 1
         /\ \A i \in 1 .. Len(progs) : progs'[i] = progs[i]
         /\ progs'[Len(progs) + 1] = [len |-> len, place |-> p]
         /\ image' \in Seq([file : Nat, part : Nat])
         /\ Len(image') = Len(image) + Sectors(len)
         /\ \A k \in 1 .. Len(image) : image'[k] = image[k]
         /\ \A j \in 1 .. Sectors(len) :
              image'[Len(image) + j] = [file |-> Len(progs) + 1, part |-> j]
<1> DEFINE P == [len : Lengths, place : Places]
           R == [file : Nat, part : Nat]
           c == Copied(Len(progs) + 1, len)
           r == [len |-> len, place |-> p]
<1>1. progs \in Seq(P) /\ r \in P /\ image \in Seq(R) /\ Len(progs) + 1 \in Nat
  BY DEF BootTypes
<1>2. /\ c \in Seq(R) /\ Len(c) = Sectors(len)
      /\ \A j \in 1 .. Sectors(len) : c[j] = [file |-> Len(progs) + 1, part |-> j]
  BY <1>1, CopiedSectors
<1>3. progs' = Append(progs, r) /\ image' = image \o c
  OBVIOUS
<1> HIDE DEF P, R, c, r
<1>4. /\ Append(progs, r) \in Seq(P) /\ Len(Append(progs, r)) = Len(progs) + 1
      /\ \A i \in 1 .. Len(progs) : Append(progs, r)[i] = progs[i]
      /\ Append(progs, r)[Len(progs) + 1] = r
  BY <1>1, Appended, Zenon
<1>5. /\ image \o c \in Seq(R) /\ Len(image \o c) = Len(image) + Len(c)
      /\ \A i \in 1 .. Len(image) : (image \o c)[i] = image[i]
      /\ \A i \in 1 .. Len(c) : (image \o c)[Len(image) + i] = c[i]
  <2>1. image \in Seq(R) /\ c \in Seq(R)
    BY <1>1, <1>2
  <2>2. \A s, t \in Seq(R) :
          /\ s \o t \in Seq(R) /\ Len(s \o t) = Len(s) + Len(t)
          /\ \A i \in 1 .. Len(s) : (s \o t)[i] = s[i]
          /\ \A i \in 1 .. Len(t) : (s \o t)[Len(s) + i] = t[i]
    BY Concatenated
  <2> QED BY <2>1, <2>2, Zenon
<1>6. /\ progs' \in Seq(P) /\ Len(progs') = Len(progs) + 1
      /\ \A i \in 1 .. Len(progs) : progs'[i] = progs[i]
      /\ progs'[Len(progs) + 1] = r
  BY <1>3, <1>4, Zenon
<1>7. /\ image' \in Seq(R) /\ Len(image') = Len(image) + Sectors(len)
      /\ \A k \in 1 .. Len(image) : image'[k] = image[k]
      /\ \A j \in 1 .. Sectors(len) : image'[Len(image) + j] = [file |-> Len(progs) + 1, part |-> j]
  BY <1>3, <1>5, <1>2, Zenon
<1> QED BY <1>6, <1>7, Zenon DEF P, R, r

(* A file that is copied lies behind the others.                           *)
LEMMA CopyExtends ==
  ASSUME BootSizes, BootTypes, NEW at, Layout(at), NEW len \in Lengths,
         Len(progs') = Len(progs) + 1,
         \A i \in 1 .. Len(progs) : progs'[i] = progs[i],
         progs'[Len(progs) + 1].len = len,
         Len(image') = Len(image) + Sectors(len),
         \A k \in 1 .. Len(image) : image'[k] = image[k],
         \A j \in 1 .. Sectors(len) :
           image'[Len(image) + j] = [file |-> Len(progs) + 1, part |-> j]
  PROVE  \E next : Layout(next)' /\ next[1] = 3
<1>c. PICK n : n = Sectors(len)
  OBVIOUS
<1>d. PICK N : N = Len(progs)
  OBVIOUS
<1>2. /\ Len(progs') = N + 1
      /\ \A i \in 1 .. N : progs'[i] = progs[i]
      /\ progs'[N + 1].len = len
  BY <1>d
<1>5. /\ Len(image') = Len(image) + n
      /\ \A k \in 1 .. Len(image) : image'[k] = image[k]
      /\ \A j \in 1 .. n : image'[Len(image) + j] = [file |-> N + 1, part |-> j]
  BY <1>c, <1>d
<1>a. PICK next : next = [i \in 1 .. N + 2 |-> IF i <= N + 1 THEN at[i] ELSE Len(image) + 1 + n]
  OBVIOUS
<1>1. n \in Nat /\ N \in Nat /\ Len(image) \in Nat
  BY <1>c, <1>d, BootValues DEF BootTypes
<1>3. /\ \A i \in 1 .. N : Count(i)' = Count(i)
      /\ Count(N + 1)' = n
  BY <1>2, <1>c DEF Count, Sectors
<1>6. /\ at \in [1 .. N + 1 -> 3 .. Len(image) + 1] /\ at[1] = 3 /\ at[N + 1] = Len(image) + 1
      /\ \A i \in 1 .. N : at[i + 1] = at[i] + Count(i)
      /\ \A i \in 1 .. N : \A j \in 1 .. Count(i) :
           image[at[i] + j - 1] = [file |-> i, part |-> j]
  BY <1>d DEF Layout
<1>b. \A i \in 1 .. N + 1 : at[i] \in 3 .. Len(image) + 1 /\ at[i] \in Nat
  <2>1. \A i \in 1 .. N + 1 : at[i] \in 3 .. Len(image) + 1
    BY <1>6
  <2> QED BY <2>1, <1>1
<1>7. next \in [1 .. N + 2 -> 3 .. Len(image) + n + 1] /\ next[1] = 3 /\ next[N + 2] = Len(image) + 1 + n
      /\ \A i \in 1 .. N + 1 : next[i] = at[i]
  <2>1. ASSUME NEW i \in 1 .. N + 2
        PROVE  (IF i <= N + 1 THEN at[i] ELSE Len(image) + 1 + n) \in 3 .. Len(image) + n + 1
    <3>1. CASE i <= N + 1
      BY <3>1, <1>b, <1>1
    <3>2. CASE ~(i <= N + 1)
      BY <3>2, <1>1, <1>b
    <3> QED BY <3>1, <3>2
  <2> QED BY <1>a, <1>1, <1>6, <2>1
<1>9. ASSUME NEW i \in 1 .. N + 1 PROVE next[i + 1] = next[i] + Count(i)'
  <2>1. CASE i <= N
    BY <2>1, <1>1, <1>3, <1>6, <1>7
  <2>2. CASE i = N + 1
    BY <2>2, <1>1, <1>3, <1>6, <1>7
  <2> QED BY <2>1, <2>2, <1>1
<1>10. ASSUME NEW i \in 1 .. N + 1, NEW j \in 1 .. Count(i)'
       PROVE  image'[next[i] + j - 1] = [file |-> i, part |-> j]
  <2>1. CASE i <= N
    <3>1. next[i] = at[i] /\ j \in 1 .. Count(i) /\ Count(i) \in Nat
      BY <2>1, <1>1, <1>3, <1>7, <1>d, ProgramFacts
    <3>2. at[i] \in Nat /\ at[i + 1] = at[i] + Count(i) /\ at[i + 1] <= Len(image) + 1
      BY <2>1, <1>1, <1>6
    <3>3. at[i] + j - 1 <= Len(image)
      BY <3>1, <3>2, <1>1
    <3>4. at[i] >= 1
      BY <2>1, <1>1, <1>b
    <3>5. at[i] + j - 1 \in 1 .. Len(image)
      BY <3>1, <3>2, <3>3, <3>4, <1>1
    <3>6. image'[at[i] + j - 1] = image[at[i] + j - 1]
      BY <3>5, <1>5
    <3>7. i \in 1 .. N
      BY <2>1, <1>1
    <3> QED BY <3>1, <3>6, <3>7, <1>6
  <2>2. CASE i = N + 1
    <3>1. next[i] = Len(image) + 1 /\ j \in 1 .. n
      BY <2>2, <1>1, <1>3, <1>6, <1>7
    <3>2. next[i] + j - 1 = Len(image) + j
      BY <3>1, <1>1
    <3> QED BY <3>1, <3>2, <2>2, <1>5
  <2> QED BY <2>1, <2>2, <1>1
<1>11. /\ Len(progs') + 1 = N + 2 /\ Len(image') + 1 = Len(image) + n + 1
       /\ 1 .. Len(progs') = 1 .. N + 1
  BY <1>1, <1>2, <1>5
<1>12. Layout(next)'
  BY <1>1, <1>7, <1>9, <1>10, <1>11 DEF Layout
<1> QED BY <1>7, <1>12

(* A program is added to the image and, if it fits, to the list.           *)
LEMMA ProcessFileKeeps ==
  ASSUME BootSizes, BootInvariant, NEW len \in Lengths, NEW p \in Places, ProcessFile(len, p)
  PROVE  BootInvariant'
<1> DEFINE d == Decoded(p)
           n == Sectors(len)
           fits == Fits(d, n) /\ 3 * Len(info) + 3 <= NInfo
           e == [count |-> n, segment |-> d.segment, offset |-> d.offset]
           E == [count : Nat, segment : Int, offset : Int]
<1>1. /\ stage = "build" /\ progs' = Append(progs, [len |-> len, place |-> p])
      /\ image' = image \o Copied(Len(progs) + 1, len)
      /\ fits => /\ info' = Append(info, e) /\ stage' = stage
                 /\ sec' = sec /\ head' = head /\ track' = track
                 /\ left' = left /\ entry' = entry /\ mem' = mem
      /\ ~fits => Quit /\ info' = info
  BY DEF ProcessFile, disk
<1>2. BootTypes /\ stage # "quit" /\ entry = 0 /\ left = 1
  BY <1>1 DEF BootInvariant, AtRest
<1>3. /\ progs' \in Seq([len : Lengths, place : Places])
      /\ Len(progs') = Len(progs) + 1
      /\ \A i \in 1 .. Len(progs) : progs'[i] = progs[i]
      /\ progs'[Len(progs) + 1] = [len |-> len, place |-> p]
      /\ image' \in Seq([file : Nat, part : Nat])
      /\ Len(image') = Len(image) + n
      /\ \A k \in 1 .. Len(image) : image'[k] = image[k]
      /\ \A j \in 1 .. n : image'[Len(image) + j] = [file |-> Len(progs) + 1, part |-> j]
  BY <1>1, <1>2, CopyFacts
<1>4. info \in Seq(E) /\ e \in E
  BY <1>2, BootValues, DecodedType DEF BootTypes
<1>5. /\ Append(info, e) \in Seq(E) /\ Len(Append(info, e)) = Len(info) + 1
      /\ \A i \in 1 .. Len(info) : Append(info, e)[i] = info[i]
      /\ Append(info, e)[Len(info) + 1] = e
  <2> HIDE DEF e, E
  <2>1. \A s \in Seq(E), x \in E :
          /\ Append(s, x) \in Seq(E) /\ Len(Append(s, x)) = Len(s) + 1
          /\ \A i \in 1 .. Len(s) : Append(s, x)[i] = s[i]
          /\ Append(s, x)[Len(s) + 1] = x
    BY Appended
  <2> QED BY <1>4, <2>1, Zenon
<1>6. CASE ~fits
  <2>1. Quit /\ info' = info
    BY <1>1, <1>6
  <2>2. BootTypes'
    BY <2>1, <1>2, <1>3 DEF BootTypes, Quit, disk
  <2> QED BY <2>1, <2>2, <1>1, QuitKeeps
<1>7. CASE fits
  <2>1. /\ info' = Append(info, e) /\ stage' = stage
        /\ sec' = sec /\ head' = head /\ track' = track
        /\ left' = left /\ entry' = entry /\ mem' = mem
    BY <1>1, <1>7
  <2>2. BootTypes'
    BY <2>1, <1>2, <1>3, <1>5 DEF BootTypes
  <2>3. AtRest'
    BY <2>1 DEF BootInvariant, AtRest, Position
  <2>4. ListTells'
    <3>1. /\ Len(info) = Len(progs)
          /\ \A i \in 1 .. Len(progs) :
               /\ Fits(Decoded(progs[i].place), Count(i))
               /\ info[i] = [count |-> Count(i), segment |-> Decoded(progs[i].place).segment,
                             offset |-> Decoded(progs[i].place).offset]
      BY <1>2 DEF BootInvariant, ListTells
    <3>2. Len(info') = Len(progs')
      BY <3>1, <1>3, <1>5, <2>1
    <3>3. ASSUME NEW i \in 1 .. Len(progs')
          PROVE  /\ Fits(Decoded(progs'[i].place), Sectors(progs'[i].len))
                 /\ info'[i] = [count |-> Sectors(progs'[i].len),
                                segment |-> Decoded(progs'[i].place).segment,
                                offset |-> Decoded(progs'[i].place).offset]
      <4>1. CASE i <= Len(progs)
        <5>1. i \in 1 .. Len(progs) /\ i \in 1 .. Len(info)
          BY <4>1, <3>1, <1>2 DEF BootTypes
        <5>2. progs'[i] = progs[i] /\ info'[i] = info[i]
          BY <5>1, <1>3, <1>5, <2>1
        <5> QED BY <5>1, <5>2, <3>1 DEF Count
      <4>2. CASE i = Len(progs) + 1
        <5>1. progs'[i].place = p /\ progs'[i].len = len
          BY <4>2, <1>3
        <5>2. info'[i] = e
          BY <4>2, <3>1, <1>5, <2>1
        <5> QED BY <5>1, <5>2, <1>7
      <4> QED BY <4>1, <4>2, <1>3, <1>2 DEF BootTypes
    <3> QED BY <3>2, <3>3 DEF ListTells, Count, Fits, Decoded, Sectors, Signed
  <2>5. OnTrack'
    <3>1. PICK at : Layout(at) /\ Position + left = at[entry + 1]
      BY <1>1 DEF BootInvariant, OnTrack
    <3>2. at[entry + 1] = 3
      BY <3>1, <1>2 DEF Layout
    <3>3. PICK next : Layout(next)' /\ next[1] = 3
      <4>1. progs'[Len(progs) + 1].len = len
        BY <1>3
      <4> QED BY <3>1, <4>1, <1>2, <1>3, CopyExtends
    <3>4. (Position + left)' = next[entry' + 1]
      BY <3>1, <3>2, <3>3, <2>1, <1>2 DEF Position
    <3>5. Len(image') >= 2 /\ image'[2].file = 0
      <4>1. Len(image) >= 2 /\ image[2].file = 0 /\ n \in Nat /\ Len(image) \in Nat
        BY <1>2, BootValues DEF BootInvariant, OnTrack, BootTypes
      <4> QED BY <4>1, <1>3
    <3> QED BY <3>3, <3>4, <3>5 DEF OnTrack
  <2>6. InList' /\ Aims'
    BY <1>1, <1>2, <1>3, <2>1 DEF InList, Aims, BootTypes
  <2>7. Holds'
    <3>1. BootSizes' /\ (entry = 0)'
      BY <1>2, <2>1 DEF BootSizes
    <3> QED BY <2>2, <2>3, <3>1, HoldsAtRest, PTL
  <2> QED BY <2>2, <2>3, <2>4, <2>5, <2>6, <2>7 DEF BootInvariant
<1> QED BY <1>6, <1>7

(* A step that reads nothing keeps what memory holds.                      *)
LEMMA HoldsSame ==
  ASSUME Holds, progs' = progs, mem' = mem, \A i \in 1 .. Len(progs) : Read(i)' = Read(i)
  PROVE  Holds'
<1>1. ASSUME NEW i \in 1 .. Len(progs), NEW a
      PROVE  Filled(i, a)' = Filled(i, a) /\ ByteOf(i, a)' = ByteOf(i, a)
  BY DEF Filled, ByteOf, Wanted
<1>2. ASSUME NEW a \in Memory
      PROVE  /\ (\A i \in 1 .. Len(progs') : ~Filled(i, a)') => mem'[a] = Clear
             /\ \A i \in 1 .. Len(progs') :
                  Filled(i, a)' /\ (\A j \in i + 1 .. Len(progs') : ~Filled(j, a)')
                    => mem'[a] = ByteOf(i, a)'
  <2>1. /\ (\A i \in 1 .. Len(progs) : ~Filled(i, a)) => mem[a] = Clear
        /\ \A i \in 1 .. Len(progs) :
             Filled(i, a) /\ (\A j \in i + 1 .. Len(progs) : ~Filled(j, a))
               => mem[a] = ByteOf(i, a)
    BY DEF Holds
  <2>2. \A i \in 1 .. Len(progs) : \A j \in i + 1 .. Len(progs) : j \in 1 .. Len(progs)
    OBVIOUS
  <2> QED BY <2>1, <2>2, <1>1
<1> QED BY <1>2 DEF Holds, Memory, Clear

(* The properties that depend on the programs alone.                       *)
LEMMA SamePrograms ==
  ASSUME progs' = progs, image' = image, info' = info
  PROVE  /\ ListTells' = ListTells /\ AllWellPlaced' = AllWellPlaced
         /\ \A i \in 1 .. Len(progs) : Count(i)' = Count(i)
         /\ \A at : Layout(at)' = Layout(at)
BY DEF ListTells, Layout, Count, AllWellPlaced, WellPlaced, Wanted, Decoded, Fits,
       Sectors, Signed, Area

(* A step that does nothing else than begin to read, or give up.           *)
LEMMA StillKeeps ==
  ASSUME BootSizes, BootInvariant,
         progs' = progs, image' = image, info' = info,
         sec' = sec, head' = head, track' = track, es' = es, bx' = bx,
         left' = left, entry' = entry, mem' = mem,
         stage' # stage => \/ stage = "load" /\ stage' = "failed"
                           \/ stage = "boot" /\ stage' \in {"load", "notready"}
  PROVE  BootInvariant'
<1>2. BootTypes'
  BY DEF BootInvariant, BootTypes
<1>3. AtRest'
  BY DEF BootInvariant, AtRest, Position
<1>4. SUFFICES ASSUME stage' # "quit"
               PROVE  ListTells' /\ OnTrack' /\ InList' /\ (AllWellPlaced' => Aims' /\ Holds')
  BY <1>2, <1>3 DEF BootInvariant
<1>5. ListTells /\ OnTrack /\ InList /\ (AllWellPlaced => Aims /\ Holds)
  BY <1>4 DEF BootInvariant
<1>6. ListTells' /\ (AllWellPlaced' => AllWellPlaced)
  BY <1>5, SamePrograms
<1>7. OnTrack'
  <2>1. PICK at : Layout(at) /\ (stage \in {"build", "boot", "load"} => Position + left = at[entry + 1])
    BY <1>5 DEF OnTrack
  <2>2. Layout(at)'
    BY <2>1, SamePrograms
  <2>3. (stage \in {"build", "boot", "load"} => Position + left = at[entry + 1])'
    BY <2>1 DEF Position
  <2> QED BY <2>2, <2>3, <1>5 DEF OnTrack
<1>8. InList'
  BY <1>5, SamePrograms DEF InList
<1>9. ASSUME AllWellPlaced PROVE Aims' /\ Holds'
  <2>1. Aims'
    <3>1. stage = "boot" => entry = 0
      BY DEF BootInvariant, AtRest
    <3> QED BY <3>1, <1>5, <1>9 DEF Aims, Count, Wanted
  <2>2. \A i \in 1 .. Len(progs) : Read(i)' = Read(i)
    BY SamePrograms DEF Read
  <2>3. Holds'
    BY <2>2, <1>5, <1>9, HoldsSame
  <2> QED BY <2>1, <2>3
<1> QED BY <1>6, <1>7, <1>8, <1>9

(* The state of the drive.                                                 *)
LEMMA TestDiskKeeps ==
  ASSUME BootSizes, BootInvariant, TestDisk
  PROVE  BootInvariant'
<1>1. /\ stage = "boot" /\ stage' \in {"load", "notready"}
      /\ progs' = progs /\ image' = image /\ info' = info
      /\ sec' = sec /\ head' = head /\ track' = track /\ es' = es /\ bx' = bx
      /\ left' = left /\ entry' = entry /\ mem' = mem
  BY DEF TestDisk, builder, disk
<1> QED BY <1>1, StillKeeps

(* A failed attempt.                                                       *)
LEMMA ReadFailsKeeps ==
  ASSUME BootSizes, BootInvariant, ReadFails
  PROVE  BootInvariant'
<1>1. /\ stage = "load" /\ (stage' = stage \/ stage' = "failed")
      /\ progs' = progs /\ image' = image /\ info' = info
      /\ sec' = sec /\ head' = head /\ track' = track /\ es' = es /\ bx' = bx
      /\ left' = left /\ entry' = entry /\ mem' = mem
  BY DEF ReadFails, builder, disk
<1> QED BY <1>1, StillKeeps

(* The loader goes to the next program of the list, if there is one.       *)
LEMMA NextBlockKeeps ==
  ASSUME BootSizes, BootInvariant, NextBlock
  PROVE  BootInvariant'
<1> DEFINE e == entry + 1
           more == e <= Len(info) /\ info[e].count > 0
<1>1. /\ stage = "load" /\ left = 0 /\ entry' = e
      /\ progs' = progs /\ image' = image /\ info' = info
      /\ sec' = sec /\ head' = head /\ track' = track /\ mem' = mem
      /\ more => /\ left' = info[e].count /\ stage' = stage
                 /\ es' = info[e].segment % Word /\ bx' = info[e].offset % Word
      /\ ~more => stage' \in {"wild", "done"} /\ left' = left
  BY DEF NextBlock, builder, disk
<1>2. /\ BootTypes /\ ListTells /\ OnTrack /\ InList /\ entry \in Nat /\ Len(progs) \in Nat
      /\ Len(info) = Len(progs) /\ entry <= Len(progs)
  BY <1>1 DEF BootInvariant, BootTypes, ListTells, InList
<1>3. e \in 1 .. Len(progs) =>
        /\ Fits(Decoded(progs[e].place), Count(e)) /\ Count(e) \in Nat
        /\ info[e].count = Count(e)
        /\ info[e].segment = Decoded(progs[e].place).segment
        /\ info[e].offset = Decoded(progs[e].place).offset
  <2>1. SUFFICES ASSUME e \in 1 .. Len(progs)
                 PROVE  /\ Fits(Decoded(progs[e].place), Count(e)) /\ Count(e) \in Nat
                        /\ info[e].count = Count(e)
                        /\ info[e].segment = Decoded(progs[e].place).segment
                        /\ info[e].offset = Decoded(progs[e].place).offset
    OBVIOUS
  <2> HIDE DEF e
  <2>2. Count(e) \in Nat
    BY <2>1, <1>2, ProgramFacts
  <2>3. /\ Fits(Decoded(progs[e].place), Count(e))
        /\ info[e] = [count |-> Count(e), segment |-> Decoded(progs[e].place).segment,
                      offset |-> Decoded(progs[e].place).offset]
    BY <2>1, <1>2 DEF ListTells
  <2> QED BY <2>2, <2>3
<1>4. left' \in Nat
  BY <1>1, <1>2, <1>3
<1>5. BootTypes'
  BY <1>1, <1>2, <1>4 DEF BootTypes
<1>6. AtRest'
  BY <1>1, <1>2 DEF AtRest
<1>7. ListTells' /\ (AllWellPlaced' => AllWellPlaced)
  BY <1>1, <1>2, SamePrograms
<1>8. OnTrack'
  <2>1. PICK at : Layout(at) /\ Position + left = at[entry + 1]
    BY <1>1, <1>2 DEF OnTrack
  <2>2. Layout(at)'
    BY <2>1, <1>1, SamePrograms
  <2>3. ASSUME stage' \in {"build", "boot", "load"} PROVE (Position + left)' = at[entry' + 1]
    <3>1. more /\ left' = info[e].count
      BY <2>3, <1>1
    <3>2. e \in 1 .. Len(progs) /\ left' = Count(e) /\ Count(e) \in Nat
      BY <3>1, <1>2, <1>3
    <3>3. at[e + 1] = at[e] + Count(e)
      BY <3>2, <2>1 DEF Layout
    <3>4. Position' = Position /\ Position \in Int
      BY <1>1, <1>2, PositionType DEF Position
    <3>5. Position = at[e]
      BY <2>1, <1>1, <3>4
    <3>6. (Position + left)' = Position + left'
      BY <3>4
    <3> QED BY <3>2, <3>3, <3>5, <3>6, <1>1
  <2> QED BY <2>2, <2>3, <1>1, <1>2 DEF OnTrack
<1>9. InList'
  <2>1. Count(entry)' = Count(e)
    BY <1>1 DEF Count, Sectors
  <2> QED BY <2>1, <1>1, <1>2, <1>3 DEF InList
<1>10. ASSUME AllWellPlaced PROVE Aims'
  <2>1. SUFFICES ASSUME stage' = "load", left' > 0
                 PROVE  /\ es' \in 0 .. Word - 1 /\ bx' \in 0 .. Word - 1 /\ bx' % Sec = 0
                        /\ es' * Para + bx' = Wanted(progs[e].place) + (Count(e) - left') * Sec
    BY <1>1 DEF Aims, Count, Sectors, Wanted
  <2>2. more /\ e \in 1 .. Len(progs)
    BY <2>1, <1>1, <1>2
  <2> DEFINE p == progs[e].place
             a == p.address
  <2>3. /\ Wanted(p) = a /\ a \in Int /\ a + Count(e) * Sec <= Limit /\ Count(e) \in Nat
        /\ Decoded(p).segment = Signed(a \div Para) /\ Decoded(p).offset = a % Para
    BY <2>2, <1>2, <1>3, ProgramFacts, FlatOnly
  <2>4. a >= 2 * Sec /\ (a % Para) % Sec = 0
    BY <2>2, <2>3, <1>10 DEF AllWellPlaced, WellPlaced
  <2>5. a \in Nat /\ a <= Limit
    <3>1. Count(e) * Sec \in Nat /\ Sec \in Nat /\ Limit \in Nat
      BY <2>3, BootNumbers
    <3> QED BY <3>1, <2>3, <2>4
  <2>6. es' = Signed(a \div Para) % Word /\ bx' = (a % Para) % Word /\ left' = Count(e)
    BY <2>2, <2>3, <1>1, <1>3
  <2> HIDE DEF p, a, e
  <2>7. /\ es' \in 0 .. Word - 1 /\ bx' \in 0 .. Word - 1 /\ bx' = a % Para
        /\ es' * Para + bx' = a
    BY <2>5, <2>6, AddressKept
  <2>8. (Count(e) - left') * Sec = 0
    BY <2>6, <2>3, BootNumbers
  <2> QED BY <2>3, <2>4, <2>5, <2>7, <2>8 DEF p
<1>11. ASSUME AllWellPlaced PROVE Holds'
  <2>1. ASSUME NEW i \in 1 .. Len(progs) PROVE Read(i)' = Read(i)
    <3>1. Count(i)' = Count(i) /\ Count(i) \in Nat
      BY <1>1, <1>2, SamePrograms, ProgramFacts
    <3>2. CASE i < e
      BY <3>1, <3>2, <1>1, <1>2 DEF Read
    <3>3. CASE i = e
      <4>1. left' = Count(i)
        BY <3>3, <3>1, <1>1, <1>2, <1>3
      <4> QED BY <3>1, <3>3, <4>1, <1>1, <1>2 DEF Read
    <3>4. CASE i > e
      BY <3>1, <3>4, <1>1, <1>2 DEF Read
    <3> QED BY <3>2, <3>3, <3>4, <1>2
  <2> QED BY <2>1, <1>1, <1>11, HoldsSame DEF BootInvariant
<1> QED BY <1>5, <1>6, <1>7, <1>8, <1>9, <1>10, <1>11 DEF BootInvariant

(* Sectors, heads and tracks count the sectors of the disk one by one.     *)
LEMMA PositionSteps ==
  ASSUME BootSizes, BootTypes, NextSector
  PROVE  /\ Position' = Position + 1
         /\ sec' \in Int /\ head' \in Int /\ track' \in Int
<1>1. track \in Int /\ head \in Int /\ sec \in Int /\ SPT \in Int /\ Heads \in Int
  BY DEF BootTypes, BootSizes
<1>2. CASE sec # SPT
  BY <1>1, <1>2 DEF NextSector, Position
<1>3. CASE sec = SPT /\ head # Heads - 1
  <2>1. sec' = 1 /\ head' = head + 1 /\ track' = track
    BY <1>3 DEF NextSector
  <2>2. PICK k \in Int : k = track * Heads + head
    BY <1>1
  <2>3. track' * Heads + head' = k + 1
    BY <1>1, <2>1, <2>2
  <2>4. (k + 1) * SPT + 1 = k * SPT + SPT + 1
    BY <1>1
  <2> QED BY <1>1, <1>3, <2>1, <2>2, <2>3, <2>4 DEF Position
<1>4. CASE sec = SPT /\ head = Heads - 1
  <2>1. sec' = 1 /\ head' = 0 /\ track' = track + 1
    BY <1>4 DEF NextSector
  <2>2. PICK k \in Int : k = track * Heads + head
    BY <1>1
  <2>3. track' * Heads + head' = k + 1
    BY <1>1, <1>4, <2>1, <2>2
  <2>4. (k + 1) * SPT + 1 = k * SPT + SPT + 1
    BY <1>1
  <2> QED BY <1>1, <1>4, <2>1, <2>2, <2>3, <2>4 DEF Position
<1> QED BY <1>2, <1>3, <1>4

(* A sector that does not wrap within its segment is stored as it is.      *)
LEMMA StoredSector ==
  ASSUME BootSizes, BootTypes, es \in 0 .. Word - 1, bx \in 0 .. Word - 1, bx % Sec = 0,
         NEW base, base = es * Para + bx, NEW a \in Memory
  PROVE  /\ base <= a /\ a < base + Sec => Stored[a] = OnDisk(Position)[a - base]
         /\ ~(base <= a /\ a < base + Sec) => Stored[a] = mem[a]
<1>1. bx + Sec <= Word
  <2>1. bx \in Nat /\ Word \in Nat /\ Sec \in Nat \ {0} /\ Word % Sec = 0 /\ bx < Word
    BY BootNumbers
  <2> QED BY <2>1, Multiples
<1>2. base \in Nat /\ es * Para \in Nat /\ Sec \in Nat \ {0} /\ a \in Nat
  BY BootNumbers DEF Memory
<1>3. ASSUME NEW b \in 0 .. Sec - 1 PROVE At(b) = base + b
  <2>1. bx + b \in 0 .. Word - 1
    BY <1>1, BootNumbers
  <2>2. (bx + b) % Word = bx + b
    BY <2>1, BootNumbers, SmallMod
  <2> QED BY <2>2, <1>2, BootNumbers DEF At
<1>4. DOMAIN mem = Memory
  BY DEF BootTypes
<1>5. Stored[a] = IF \E b \in 0 .. Sec - 1 : At(b) = a
                    THEN OnDisk(Position)[CHOOSE b \in 0 .. Sec - 1 : At(b) = a] ELSE mem[a]
  BY <1>4 DEF Stored
<1>6. ASSUME base <= a /\ a < base + Sec PROVE Stored[a] = OnDisk(Position)[a - base]
  <2>1. a - base \in 0 .. Sec - 1 /\ base + (a - base) = a
    BY <1>2, <1>6
  <2>2. At(a - base) = a
    BY <2>1, <1>3
  <2>3. \A b \in 0 .. Sec - 1 : At(b) = a => b = a - base
    BY <1>2, <1>3
  <2>4. (CHOOSE b \in 0 .. Sec - 1 : At(b) = a) = a - base
    BY <2>1, <2>2, <2>3
  <2> QED BY <2>1, <2>2, <2>4, <1>5
<1>7. ASSUME ~(base <= a /\ a < base + Sec) PROVE Stored[a] = mem[a]
  <2>1. ~\E b \in 0 .. Sec - 1 : At(b) = a
    BY <1>2, <1>3, <1>7
  <2> QED BY <2>1, <1>5
<1> QED BY <1>6, <1>7

(* The second sector of the loader itself is blank as far as memory goes.  *)
LEMMA LoaderSector ==
  ASSUME BootSizes, BootTypes, AtRest, OnTrack, stage = "load", entry = 0, left > 0
  PROVE  \A a \in Memory : Stored[a] = Clear
<1>1. PICK at : Layout(at) /\ Position + left = at[entry + 1]
  BY DEF OnTrack
<1>2. Position = 2
  <2>1. left = 1 /\ at[entry + 1] = 3
    BY <1>1 DEF AtRest, BootTypes, Layout
  <2> QED BY <2>1, <1>1, PositionType
<1>3. \A b \in 0 .. Sec - 1 : OnDisk(2)[b] = Clear
  BY DEF OnDisk, OnTrack
<1>4. ASSUME NEW a \in Memory PROVE Stored[a] = Clear
  <2>1. Stored[a] = IF \E b \in 0 .. Sec - 1 : At(b) = a
                      THEN OnDisk(2)[CHOOSE b \in 0 .. Sec - 1 : At(b) = a] ELSE mem[a]
    BY <1>2 DEF Stored, BootTypes
  <2>2. mem[a] = Clear
    BY DEF AtRest
  <2> QED BY <2>1, <2>2, <1>3
<1> QED BY <1>4

(* The sector read from the disk is the next one of the program.           *)
LEMMA RightSectorRead ==
  ASSUME BootSizes, BootTypes, OnTrack, InList, stage = "load", entry > 0, left > 0,
         NEW b \in 0 .. Sec - 1, NEW n, n = (Count(entry) - left) * Sec + b
  PROVE  OnDisk(Position)[b] = IF n < progs[entry].len THEN <<entry, n>> ELSE Clear
<1>1. PICK at : Layout(at) /\ Position + left = at[entry + 1]
  BY DEF OnTrack
<1>2. entry \in 1 .. Len(progs) /\ left \in 1 .. Count(entry)
  BY DEF InList, BootTypes
<1>3. Count(entry) \in Nat
  BY <1>2, ProgramFacts
<1> DEFINE j == Count(entry) - left + 1
<1>4. j \in 1 .. Count(entry) /\ j - 1 = Count(entry) - left
  BY <1>2, <1>3
<1>5. /\ at[entry + 1] = at[entry] + Count(entry) /\ at[entry] \in 3 .. Len(image) + 1
      /\ at[entry + 1] \in 3 .. Len(image) + 1 /\ Len(image) \in Nat
      /\ image[at[entry] + j - 1] = [file |-> entry, part |-> j]
  <2> HIDE DEF j
  <2>1. Len(progs) \in Nat /\ Len(image) \in Nat /\ entry + 1 \in 1 .. Len(progs) + 1
    BY <1>2 DEF BootTypes
  <2>2. /\ at \in [1 .. Len(progs) + 1 -> 3 .. Len(image) + 1]
        /\ at[entry + 1] = at[entry] + Count(entry)
        /\ image[at[entry] + j - 1] = [file |-> entry, part |-> j]
    BY <1>1, <1>2, <1>4 DEF Layout
  <2> QED BY <1>2, <2>1, <2>2
<1>6. Position = at[entry] + j - 1 /\ Position <= Len(image)
  <2>1. at[entry] \in Int /\ at[entry + 1] \in Int /\ Position \in Int /\ left \in Int
    BY <1>2, <1>3, <1>5, PositionType
  <2>2. left >= 1 /\ at[entry + 1] <= Len(image) + 1 /\ Len(image) \in Int
    BY <1>2, <1>3, <1>5
  <2>3. \A x, y, z, l, c \in Int :
          z + l = y /\ y = x + c => z = x + (c - l + 1) - 1
    OBVIOUS
  <2>4. \A y, z, l, m \in Int : z + l = y /\ l >= 1 /\ y <= m + 1 => z <= m
    OBVIOUS
  <2>5. Position + left = at[entry + 1] /\ at[entry + 1] = at[entry] + Count(entry)
    BY <1>1, <1>5
  <2>6. Count(entry) \in Int
    BY <1>3
  <2>7. Position = at[entry] + (Count(entry) - left + 1) - 1
    BY <2>1, <2>3, <2>5, <2>6
  <2>8. Position <= Len(image)
    BY <2>1, <2>2, <2>4, <2>5
  <2> QED BY <2>7, <2>8
<1>7. image[Position] = [file |-> entry, part |-> j]
  BY <1>5, <1>6
<1> HIDE DEF j
<1>8. OnDisk(Position)[b] =
        LET m == (j - 1) * Sec + b IN
        IF entry > 0 /\ m < progs[entry].len THEN <<entry, m>> ELSE Clear
  BY <1>6, <1>7 DEF OnDisk
<1>9. (j - 1) * Sec + b = n
  BY <1>4
<1> QED BY <1>8, <1>9

(* The next sector goes behind this one, across the end of a segment too.  *)
LEMMA AddressAdvances ==
  ASSUME BootSizes, es \in 0 .. Word - 1, bx \in 0 .. Word - 1, bx % Sec = 0,
         Advance, es * Para + bx + 2 * Sec <= Limit
  PROVE  /\ es' \in 0 .. Word - 1 /\ bx' \in 0 .. Word - 1 /\ bx' % Sec = 0
         /\ es' * Para + bx' = es * Para + bx + Sec
<1> USE BootNumbers
<1>1. bx + Sec <= Word /\ (bx + Sec) % Sec = 0
  BY Multiples
<1>2. CASE bx = Word - Sec
  <2>1. bx' = 0 /\ es' = (es + Word \div Para) % Word
    BY <1>2 DEF Advance
  <2>2. PICK q \in Nat : q = Word \div Para /\ Word = q * Para
    OBVIOUS
  <2>3. (es + q) * Para = es * Para + Word /\ es * Para \in Nat
    BY <2>2
  <2>4. (es + q) * Para < Word * Para
    BY <2>3, <1>2
  <2>5. es + q < Word
    <3>1. SUFFICES ASSUME Word <= es + q PROVE FALSE
      BY <2>2
    <3>2. PICK k \in Nat : es + q = Word + k
      <4>1. es + q - Word \in Nat /\ es + q = Word + (es + q - Word)
        BY <3>1, <2>2
      <4> QED BY <4>1
    <3>3. (es + q) * Para = Word * Para + k * Para /\ k * Para \in Nat
      BY <3>2
    <3> QED BY <3>3, <2>4
  <2>6. es' = es + q
    BY <2>1, <2>2, <2>5, SmallMod
  <2>7. 0 % Sec = 0
    BY SmallMod
  <2> QED BY <2>1, <2>2, <2>3, <2>5, <2>6, <2>7, <1>2
<1>3. CASE bx # Word - Sec
  <2>1. bx' = (bx + Sec) % Word /\ es' = es
    BY <1>3 DEF Advance
  <2>2. bx + Sec \in 0 .. Word - 1
    BY <1>1, <1>3
  <2>3. bx' = bx + Sec
    BY <2>1, <2>2, SmallMod
  <2> QED BY <2>1, <2>2, <2>3, <1>1
<1> QED BY <1>2, <1>3

(* What the sectors of a program fill, before and after one more of them.  *)
LEMMA OneMoreFilled ==
  ASSUME BootSizes, BootTypes, progs' = progs, image' = image, info' = info, entry' = entry,
         entry \in 1 .. Len(progs), left \in 1 .. Count(entry), left' = left - 1,
         NEW base, base = Wanted(progs[entry].place) + (Count(entry) - left) * Sec,
         NEW a \in Memory, NEW e, e = entry
  PROVE  /\ \A i \in 1 .. Len(progs) : i # e => Filled(i, a)' = Filled(i, a)
         /\ Filled(e, a)' <=> Filled(e, a) \/ (base <= a /\ a < base + Sec)
         /\ \A i \in 1 .. Len(progs) : i > entry => ~Filled(i, a)
         /\ \A i \in 1 .. Len(progs) : ByteOf(i, a)' = ByteOf(i, a)
<1> DEFINE w(i) == Wanted(progs[i].place)
<1>1. \A i \in 1 .. Len(progs) : Count(i) \in Nat /\ Count(i)' = Count(i) /\ w(i) \in Int
  BY ProgramFacts, SamePrograms
<1>2. Sec \in Nat \ {0} /\ a \in Int /\ entry \in Nat /\ Len(progs) \in Nat
  BY BootNumbers DEF Memory, BootTypes
<1>3. ASSUME NEW i \in 1 .. Len(progs)
      PROVE  /\ Filled(i, a) <=> w(i) <= a /\ a < w(i) + Read(i) * Sec
             /\ Filled(i, a)' <=> w(i) <= a /\ a < w(i) + Read(i)' * Sec
             /\ ByteOf(i, a)' = ByteOf(i, a)
  BY DEF Filled, ByteOf, Wanted
<1>4. ASSUME NEW i \in 1 .. Len(progs), i # entry PROVE Read(i)' = Read(i)
  BY <1>4, <1>1 DEF Read
<1>5. ASSUME NEW i \in 1 .. Len(progs), i > entry PROVE ~Filled(i, a)
  <2>1. Read(i) = 0
    BY <1>5, <1>2 DEF Read
  <2>2. Read(i) * Sec = 0
    BY <2>1, <1>2
  <2> QED BY <2>2, <1>1, <1>2, <1>3
<1>6. PICK c \in Nat : c = Count(entry) - left
  BY <1>1
<1>7. Read(e) = c
  BY <1>6 DEF Read
<1>8. Read(e)' = c + 1
  <2>1. Count(e)' = Count(e) /\ Count(e) \in Nat
    BY <1>1
  <2> QED BY <2>1, <1>6 DEF Read
<1>9. c * Sec \in Nat /\ (c + 1) * Sec = c * Sec + Sec
  BY <1>2
<1>10. Filled(e, a)' <=> Filled(e, a) \/ (base <= a /\ a < base + Sec)
  <2> DEFINE v == w(e)
             m == c * Sec
  <2>1. v \in Int /\ m \in Nat /\ base = v + m
    BY <1>1, <1>6, <1>9
  <2>2. /\ Filled(e, a) <=> v <= a /\ a < v + m
        /\ Filled(e, a)' <=> v <= a /\ a < v + (m + Sec)
    BY <1>3, <1>7, <1>8, <1>9
  <2> HIDE DEF v, m
  <2> QED BY <2>1, <2>2, <1>2
<1>11. ASSUME NEW i \in 1 .. Len(progs), i # e PROVE Filled(i, a)' = Filled(i, a)
  <2>1. Filled(i, a)' \in BOOLEAN /\ Filled(i, a) \in BOOLEAN
    BY DEF Filled
  <2> QED BY <2>1, <1>11, <1>3, <1>4
<1> QED BY <1>3, <1>5, <1>10, <1>11

(* One sector is read.                                                     *)
LEMMA ReadSectorKeeps ==
  ASSUME BootSizes, BootInvariant, ReadSector
  PROVE  BootInvariant'
<1>1. /\ stage = "load" /\ left > 0 /\ mem' = Stored /\ Advance /\ NextSector
      /\ left' = left - 1 /\ entry' = entry /\ stage' \in {"wild", "toobig", "load"}
      /\ progs' = progs /\ image' = image /\ info' = info
  BY DEF ReadSector, builder
<1>2. /\ BootTypes /\ AtRest /\ ListTells /\ OnTrack /\ InList
      /\ AllWellPlaced => Aims /\ Holds
  BY <1>1 DEF BootInvariant
<1>3. left \in Nat /\ left' \in Nat /\ entry \in Nat /\ entry <= Len(progs)
  BY <1>1, <1>2 DEF BootTypes, InList
<1>4. Position' = Position + 1 /\ sec' \in Int /\ head' \in Int /\ track' \in Int
  BY <1>1, <1>2, PositionSteps
<1>5. BootTypes'
  <2>1. mem' = [a \in Memory |-> mem'[a]]
    BY <1>1, <1>2 DEF Stored, BootTypes
  <2> QED BY <2>1, <1>1, <1>2, <1>3, <1>4 DEF BootTypes, Memory
<1>6. AtRest'
  <2>1. entry = 0 => \A a \in Memory : mem'[a] = Clear
    BY <1>1, <1>2, LoaderSector
  <2>2. entry = 0 => left <= 1
    BY <1>2 DEF AtRest
  <2> QED BY <2>1, <2>2, <1>1, <1>3 DEF AtRest, Memory, Clear
<1>7. ListTells' /\ (AllWellPlaced' => AllWellPlaced)
  BY <1>1, <1>2, SamePrograms
<1>8. OnTrack'
  <2>1. PICK at : Layout(at) /\ Position + left = at[entry + 1]
    BY <1>1, <1>2 DEF OnTrack
  <2>2. Layout(at)'
    BY <2>1, <1>1, SamePrograms
  <2>3. Position' + left' = at[entry' + 1]
    BY <2>1, <1>1, <1>2, <1>3, <1>4, PositionType
  <2> QED BY <2>2, <2>3, <1>1, <1>2 DEF OnTrack
<1>9. InList'
  <2>1. Count(entry)' = Count(entry)
    BY <1>1 DEF Count, Sectors
  <2>2. entry \in 1 .. Len(progs) => Count(entry) \in Nat
    BY <1>2, ProgramFacts
  <2> QED BY <2>1, <2>2, <1>1, <1>2, <1>3 DEF InList
<1>10. ASSUME AllWellPlaced, entry = 0 PROVE Aims' /\ Holds'
  <2>1. BootSizes' /\ (entry = 0)'
    BY <1>1, <1>10 DEF BootSizes
  <2>2. Holds'
    BY <1>5, <1>6, <2>1, HoldsAtRest, PTL
  <2> QED BY <2>1, <2>2 DEF Aims
<1>11. ASSUME AllWellPlaced, entry # 0 PROVE Aims' /\ Holds'
  <2> DEFINE w == Wanted(progs[entry].place)
             base == es * Para + bx
  <2>1. entry \in 1 .. Len(progs) /\ left \in 1 .. Count(entry) /\ Count(entry) \in Nat /\ w \in Int
    BY <1>11, <1>1, <1>2, <1>3, ProgramFacts DEF InList
  <2>2. /\ es \in 0 .. Word - 1 /\ bx \in 0 .. Word - 1 /\ bx % Sec = 0
        /\ base = w + (Count(entry) - left) * Sec
    BY <1>11, <1>1, <1>2, <1>3 DEF Aims
  <2>3. PICK c \in Nat : c = Count(entry) - left
    BY <2>1
  <2>4. base \in Nat /\ Sec \in Nat \ {0} /\ c * Sec \in Nat /\ base = w + c * Sec
    BY <2>2, <2>3, BootNumbers
  <2>5. ASSUME stage' = "load", left' > 0
        PROVE  /\ es' \in 0 .. Word - 1 /\ bx' \in 0 .. Word - 1 /\ bx' % Sec = 0
               /\ es' * Para + bx' = w + (Count(entry) - left') * Sec
    <3>1. PICK k \in Nat : Count(entry) = c + 2 + k
      <4>1. left - 2 \in Nat /\ Count(entry) = c + 2 + (left - 2)
        BY <2>1, <2>3, <2>5, <1>1
      <4> QED BY <4>1
    <3>2. Count(entry) * Sec = c * Sec + 2 * Sec + k * Sec /\ k * Sec \in Nat
      BY <3>1, <2>4
    <3>3. w + Count(entry) * Sec <= Limit
      <4>1. Fits(Decoded(progs[entry].place), Count(entry)) /\ progs[entry].place \in Places
        BY <2>1, <1>2, ProgramFacts DEF ListTells
      <4> QED BY <4>1, <2>1, FlatOnly
    <3>4. base + 2 * Sec <= Limit
      <4> DEFINE m == c * Sec
                 t == Count(entry) * Sec
                 z == k * Sec
      <4>1. m \in Nat /\ z \in Nat /\ t = m + 2 * Sec + z /\ w + t <= Limit /\ base = w + m
        BY <3>2, <3>3, <2>4
      <4>2. Limit \in Nat /\ Sec \in Nat /\ w \in Int
        BY <2>1, <2>4, BootNumbers
      <4> HIDE DEF m, t, z, base, w
      <4> QED BY <4>1, <4>2
    <3>5. /\ es' \in 0 .. Word - 1 /\ bx' \in 0 .. Word - 1 /\ bx' % Sec = 0
          /\ es' * Para + bx' = base + Sec
      BY <3>4, <2>2, <1>1, AddressAdvances
    <3>6. Count(entry) - left' = c + 1
      BY <2>1, <2>3, <1>1
    <3>7. (c + 1) * Sec = c * Sec + Sec
      BY <2>4
    <3>8. base + Sec = w + (c * Sec + Sec)
      <4> DEFINE m == c * Sec
      <4>1. m \in Nat /\ base = w + m /\ Sec \in Nat /\ w \in Int
        BY <2>1, <2>4
      <4> HIDE DEF m, w, base
      <4>2. base + Sec = w + (m + Sec)
        BY <4>1
      <4> QED BY <4>2 DEF m
    <3> HIDE DEF w, base
    <3> QED BY <3>5, <3>6, <3>7, <3>8
  <2>6. Aims'
    BY <2>5, <1>1 DEF Aims, Count, Sectors, Wanted
  <2>7. PICK x, e : x = base /\ e = entry
    OBVIOUS
  <2>8. ASSUME NEW a \in Memory
        PROVE  /\ (\A i \in 1 .. Len(progs) : ~Filled(i, a)') => mem'[a] = Clear
               /\ \A i \in 1 .. Len(progs) :
                    Filled(i, a)' /\ (\A j \in i + 1 .. Len(progs) : ~Filled(j, a)')
                      => mem'[a] = ByteOf(i, a)'
    <3>1. /\ \A i \in 1 .. Len(progs) : i # e => Filled(i, a)' = Filled(i, a)
          /\ Filled(e, a)' <=> Filled(e, a) \/ (x <= a /\ a < x + Sec)
          /\ \A i \in 1 .. Len(progs) : i > e => ~Filled(i, a)
          /\ \A i \in 1 .. Len(progs) : ByteOf(i, a)' = ByteOf(i, a)
      BY <2>1, <2>2, <2>7, <1>1, <1>2, OneMoreFilled
    <3>2. /\ x <= a /\ a < x + Sec => mem'[a] = OnDisk(Position)[a - x]
          /\ ~(x <= a /\ a < x + Sec) => mem'[a] = mem[a]
      BY <2>2, <2>7, <1>1, <1>2, StoredSector
    <3>3. /\ (\A i \in 1 .. Len(progs) : ~Filled(i, a)) => mem[a] = Clear
          /\ \A i \in 1 .. Len(progs) :
               Filled(i, a) /\ (\A j \in i + 1 .. Len(progs) : ~Filled(j, a))
                 => mem[a] = ByteOf(i, a)
      BY <1>2, <1>11 DEF Holds
    <3>4. \A i \in 1 .. Len(progs) : \A j \in i + 1 .. Len(progs) : j \in 1 .. Len(progs)
      OBVIOUS
    <3>5. CASE x <= a /\ a < x + Sec
      <4>1. mem'[a] = ByteOf(e, a)
        <5>1. a - x \in 0 .. Sec - 1 /\ a - w = c * Sec + (a - x)
          BY <3>5, <2>1, <2>4, <2>7 DEF Memory
        <5>2. a - w = (Count(entry) - left) * Sec + (a - x)
          BY <5>1, <2>3
        <5>3. OnDisk(Position)[a - x] =
                IF a - w < progs[entry].len THEN <<entry, a - w>> ELSE Clear
          BY <5>1, <5>2, <1>1, <1>2, <1>3, <1>11, RightSectorRead
        <5> QED BY <5>3, <3>2, <3>5, <2>7 DEF ByteOf
      <4>2. Filled(e, a)' /\ e \in 1 .. Len(progs)
        BY <3>1, <3>5, <2>1, <2>7
      <4>3. ASSUME NEW i \in 1 .. Len(progs), Filled(i, a)',
                   \A j \in i + 1 .. Len(progs) : ~Filled(j, a)'
            PROVE  i = e
        <5>1. ~(i < e)
          BY <4>2, <4>3
        <5>2. ~(i > e)
          BY <4>2, <4>3, <3>1
        <5> QED BY <5>1, <5>2, <4>2
      <4> QED BY <4>1, <4>2, <4>3, <3>1
    <3>6. CASE ~(x <= a /\ a < x + Sec)
      <4>1. mem'[a] = mem[a]
        BY <3>2, <3>6
      <4>2. \A i \in 1 .. Len(progs) : Filled(i, a)' <=> Filled(i, a)
        BY <3>1, <3>6
      <4> QED BY <4>1, <4>2, <3>1, <3>3, <3>4
    <3> QED BY <3>5, <3>6
  <2>9. Holds'
    BY <2>8, <1>1 DEF Holds, Memory, Clear
  <2> QED BY <2>6, <2>9
<1> QED BY <1>5, <1>6, <1>7, <1>8, <1>9, <1>10, <1>11 DEF BootInvariant

(* Every step keeps the invariant.                                         *)
LEMMA BootStep ==
  ASSUME BootSizes, BootInvariant, [BootNext]_bootVars
  PROVE  BootInvariant'
<1>1. CASE \E len \in Lengths, p \in Places : ProcessFile(len, p)
  BY <1>1, ProcessFileKeeps
<1>2. CASE GiveUp \/ Patch
  BY <1>2, PatchKeeps
<1>3. CASE TestDisk
  BY <1>3, TestDiskKeeps
<1>4. CASE ReadSector
  BY <1>4, ReadSectorKeeps
<1>5. CASE ReadFails
  BY <1>5, ReadFailsKeeps
<1>6. CASE NextBlock
  BY <1>6, NextBlockKeeps
<1>7. CASE UNCHANGED bootVars
  <2>1. /\ stage' = stage /\ progs' = progs /\ image' = image /\ info' = info
        /\ sec' = sec /\ head' = head /\ track' = track /\ es' = es /\ bx' = bx
        /\ left' = left /\ entry' = entry /\ mem' = mem
    BY <1>7 DEF bootVars, builder, disk
  <2> QED BY <2>1, StillKeeps
<1> QED BY <1>1, <1>2, <1>3, <1>4, <1>5, <1>6, <1>7 DEF BootNext, Load

(* The inductive invariant of image builder and boot loader.               *)
THEOREM BootInvariance ==
  BootSpec => []BootInvariant
<1>0. BootSizes
  BY BootAssumption
<1> USE <1>0
<1>1. BootInit => BootInvariant
  BY BootStarts
<1>2. BootInvariant /\ [BootNext]_bootVars => BootInvariant'
  BY BootStep
<1> QED BY <1>1, <1>2, PTL DEF BootSpec

(* A sector of a well placed program misses the loader and its stack.      *)
LEMMA MissesLoader ==
  ASSUME BootSizes, BootInvariant, AllWellPlaced, stage = "load", entry > 0, left > 0,
         NEW b \in 0 .. Sec - 1
  PROVE  At(b) \notin Loader
<1> DEFINE w == Wanted(progs[entry].place)
           base == es * Para + bx
<1>1. BootTypes /\ InList /\ Aims
  BY DEF BootInvariant
<1>2. entry \in 1 .. Len(progs) /\ left \in 1 .. Count(entry)
  BY <1>1 DEF InList, BootTypes
<1>3. Count(entry) \in Nat /\ w \in Int
  BY <1>1, <1>2, ProgramFacts
<1>4. /\ es \in 0 .. Word - 1 /\ bx \in 0 .. Word - 1 /\ bx % Sec = 0
      /\ base = w + (Count(entry) - left) * Sec
  BY <1>1 DEF Aims
<1>5. At(b) = base + b
  <2>1. bx \in Nat /\ Word \in Nat /\ Sec \in Nat \ {0} /\ Word % Sec = 0 /\ bx < Word
    BY <1>4, BootNumbers
  <2>2. bx + Sec <= Word
    BY <2>1, <1>4, Multiples
  <2>3. bx + b \in 0 .. Word - 1
    BY <2>1, <2>2
  <2>4. (bx + b) % Word = bx + b
    BY <2>3, BootNumbers, SmallMod
  <2>5. es * Para \in Int
    BY <1>4, BootNumbers
  <2> QED BY <2>1, <2>4, <2>5 DEF At
<1>6. PICK c \in Nat, k \in Nat : c = Count(entry) - left /\ Count(entry) = c + 1 + k
  <2>1. Count(entry) - left \in Nat /\ left - 1 \in Nat
        /\ Count(entry) = (Count(entry) - left) + 1 + (left - 1)
    BY <1>2, <1>3
  <2> QED BY <2>1
<1>7. /\ Count(entry) * Sec = c * Sec + Sec + k * Sec
      /\ c * Sec \in Nat /\ k * Sec \in Nat /\ Sec \in Nat
  BY <1>6, BootNumbers
<1> DEFINE m == c * Sec
           z == k * Sec
           t == Count(entry) * Sec
<1>8. w <= At(b) /\ At(b) <= w + t - 1 /\ At(b) \in Int
  <2>1. m \in Nat /\ z \in Nat /\ t = m + Sec + z /\ Sec \in Nat
    BY <1>7
  <2>2. At(b) = w + m + b
    BY <1>3, <1>4, <1>5, <1>6, <1>7
  <2> HIDE DEF m, z, t, w
  <2> QED BY <2>1, <2>2, <1>3
<1>9. w >= 2 * Sec /\ Area(entry) \cap Stack = {}
  BY <1>2 DEF AllWellPlaced, WellPlaced
<1>10. At(b) \in Area(entry)
  <2>1. t \in Int
    BY <1>3, <1>7
  <2> HIDE DEF w, t
  <2>2. At(b) \in w .. w + t - 1
    BY <2>1, <1>3, <1>8
  <2> QED BY <2>2 DEF Area, Count, w, t
<1>11. At(b) \notin 0 .. 2 * Sec - 1
  BY <1>3, <1>8, <1>9, BootNumbers
<1> QED BY <1>9, <1>10, <1>11 DEF Loader

(* The loader gets lost only behind a list without an end: no sector of a  *)
(* well placed program goes over its code or its stack (bootstrap.S 49-53, *)
(* 93-107), for every size of the stack.                                   *)
THEOREM LoaderKept ==
  BootSpec => []LoaderSurvives
<1>0. BootSizes
  BY BootAssumption
<1> USE <1>0
<1>1. BootInit => LoaderSurvives
  BY DEF BootInit, LoaderSurvives
<1>2. BootInvariant /\ LoaderSurvives /\ [BootNext]_bootVars => LoaderSurvives'
  <2> SUFFICES ASSUME BootInvariant, LoaderSurvives, [BootNext]_bootVars,
                      stage' = "wild", AllWellPlaced'
               PROVE  3 * Len(info') >= Space
    BY DEF LoaderSurvives
  <2>1. CASE \E len \in Lengths, p \in Places : ProcessFile(len, p)
    BY <2>1 DEF ProcessFile, Quit
  <2>2. CASE GiveUp \/ Patch \/ TestDisk \/ ReadFails
    BY <2>2 DEF GiveUp, Patch, Quit, TestDisk, ReadFails
  <2>3. CASE ReadSector
    <3>1. stage = "load" /\ left > 0
          /\ progs' = progs /\ image' = image /\ info' = info
      BY <2>3 DEF ReadSector, builder
    <3>2. entry > 0 /\ \E b \in 0 .. Sec - 1 : At(b) \in Loader
      BY <2>3 DEF ReadSector
    <3>3. AllWellPlaced
      BY <3>1, SamePrograms
    <3> QED BY <3>1, <3>2, <3>3, MissesLoader
  <2>4. CASE NextBlock
    BY <2>4 DEF NextBlock, builder
  <2>5. CASE UNCHANGED bootVars
    <3>1. progs' = progs /\ image' = image /\ info' = info /\ stage' = stage
      BY <2>5 DEF bootVars, builder
    <3>2. AllWellPlaced
      BY <3>1, SamePrograms
    <3> QED BY <3>1, <3>2 DEF LoaderSurvives
  <2> QED BY <2>1, <2>2, <2>3, <2>4, <2>5 DEF BootNext, Load
<1> QED BY <1>1, <1>2, BootInvariance, PTL DEF BootSpec

(* Nothing is filled above the limit.                                      *)
LEMMA FilledBelowLimit ==
  ASSUME BootSizes, BootTypes, ListTells, InList, NEW i \in 1 .. Len(progs), NEW a \in Memory,
         Filled(i, a)
  PROVE  a <= Limit
<1> DEFINE w == Wanted(progs[i].place)
<1>1. Count(i) \in Nat /\ w \in Int /\ progs[i].place \in Places
  BY ProgramFacts
<1>2. w + Count(i) * Sec <= Limit
  BY <1>1, FlatOnly DEF ListTells
<1>3. Read(i) \in 0 .. Count(i)
  BY <1>1 DEF Read, InList, BootTypes
<1>4. PICK k \in Nat : Count(i) = Read(i) + k
  <2>1. Count(i) - Read(i) \in Nat /\ Count(i) = Read(i) + (Count(i) - Read(i))
    BY <1>1, <1>3
  <2> QED BY <2>1
<1> DEFINE m == Read(i) * Sec
           z == k * Sec
<1>5. Count(i) * Sec = m + z /\ m \in Nat /\ z \in Nat
  <2>1. Read(i) \in Nat /\ Sec \in Nat
    BY <1>1, <1>3, BootNumbers
  <2>2. \A r \in Nat : (r + k) * Sec = r * Sec + k * Sec /\ r * Sec \in Nat /\ k * Sec \in Nat
    BY <2>1
  <2> QED BY <2>1, <2>2, <1>4
<1>6. a < w + m /\ a \in Int /\ Limit \in Int
  BY BootNumbers DEF Filled, Memory
<1> HIDE DEF w, m, z
<1>7. w + (m + z) <= Limit
  BY <1>2, <1>5
<1> QED BY <1>1, <1>5, <1>6, <1>7

(* The fit test of BuildImage keeps what the loader writes below the limit *)
(* of conventional memory, for all sizes, files and places.                *)
THEOREM NothingAboveLimit ==
  BootSpec => []StaysBelowLimit
<1>0. BootSizes
  BY BootAssumption
<1> USE <1>0
<1>1. BootInvariant => StaysBelowLimit
  <2> SUFFICES ASSUME BootInvariant, AllWellPlaced, NEW a \in Memory, a > Limit
               PROVE  mem[a] = Clear
    BY DEF StaysBelowLimit, BootInvariant, BootTypes
  <2>1. CASE stage = "quit"
    BY <2>1 DEF BootInvariant, AtRest
  <2>2. CASE stage # "quit"
    <3>1. BootTypes /\ ListTells /\ InList /\ Holds
      BY <2>2 DEF BootInvariant
    <3>2. ASSUME NEW i \in 1 .. Len(progs) PROVE ~Filled(i, a)
      <4>1. ~(a <= Limit)
        BY BootNumbers DEF Memory
      <4> QED BY <4>1, <3>1, FilledBelowLimit
    <3> QED BY <3>1, <3>2 DEF Holds
  <2> QED BY <2>1, <2>2
<1> QED BY <1>1, BootInvariance, PTL

(* A set of numbers up to a bound that is not empty has a largest element. *)
LEMMA LargestNumber ==
  ASSUME NEW m \in Nat, NEW T, T \subseteq 1 .. m, T # {}
  PROVE  \E n \in T : \A k \in T : k <= n
<1> DEFINE U == {m - k : k \in T}
<1>1. U \subseteq Nat /\ U # {}
  <2>1. \A k \in T : m - k \in Nat
    OBVIOUS
  <2> QED BY <2>1
<1>2. PICK u \in U : \A v \in U : u <= v
  BY <1>1, LeastNumber
<1>3. PICK n \in T : u = m - n
  BY <1>2
<1>4. ASSUME NEW k \in T PROVE k <= n
  <2>1. m - k \in U
    OBVIOUS
  <2>2. m - n <= m - k
    BY <2>1, <1>2, <1>3
  <2>3. m \in Int /\ n \in Int /\ k \in Int
    BY <1>3
  <2> QED BY <2>2, <2>3
<1> QED BY <1>4

(* At the end of the list, all sectors of all programs have been read.     *)
LEMMA AllRead ==
  ASSUME BootSizes, BootTypes, InList, AllWellPlaced, stage = "done",
         NEW i \in 1 .. Len(progs)
  PROVE  Read(i) = Count(i)
<1>1. ASSUME NEW j \in 1 .. Len(progs) PROVE Count(j) # 0
  <2>1. progs[j].len \in Nat /\ progs[j].len > 0 /\ Sec \in Nat \ {0}
    BY ProgramFacts, BootNumbers DEF AllWellPlaced, WellPlaced
  <2> DEFINE x == progs[j].len + Sec - 1
  <2>2. x \in Nat /\ x >= Sec
    BY <2>1
  <2> HIDE DEF x
  <2>3. x \div Sec \in Nat /\ x % Sec \in 0 .. Sec - 1 /\ x = (x \div Sec) * Sec + (x % Sec)
    BY <2>1, <2>2, Quotient
  <2>4. x \div Sec # 0
    <3>1. SUFFICES ASSUME x \div Sec = 0 PROVE FALSE
      OBVIOUS
    <3>2. x = x % Sec
      BY <3>1, <2>1, <2>3
    <3> QED BY <3>2, <2>1, <2>2, <2>3
  <2> QED BY <2>4 DEF Count, Sectors, x
<1>2. entry \notin 1 .. Len(progs)
  BY <1>1 DEF InList
<1>3. entry > Len(progs) /\ entry \in Nat /\ Len(progs) \in Nat
  BY <1>2 DEF InList, BootTypes
<1> QED BY <1>3 DEF Read

(* A disk that loads puts every byte of every program where the command    *)
(* line of BuildImage said, and nothing anywhere else, for all sizes of    *)
(* sectors, segments and memory, all geometries, files and places.         *)
THEOREM EverythingLoaded ==
  BootSpec => []LoadsAll
<1>0. BootSizes
  BY BootAssumption
<1> USE <1>0
<1>1. BootInvariant => LoadsAll
  <2> SUFFICES ASSUME BootInvariant, stage = "done", AllWellPlaced, NEW a \in Memory
               PROVE  mem[a] = Intended(a)
    BY DEF LoadsAll, BootInvariant, BootTypes
  <2>1. BootTypes /\ InList /\ Holds
    BY DEF BootInvariant
  <2> DEFINE T == {i \in 1 .. Len(progs) : a \in Area(i)}
             L == CHOOSE i \in T : \A j \in T : j <= i
  <2>2. ASSUME NEW i \in 1 .. Len(progs) PROVE i \in T <=> Filled(i, a)
    <3> DEFINE w == Wanted(progs[i].place)
               m == Count(i) * Sec
    <3>1. Read(i) = Count(i) /\ w \in Int /\ Count(i) \in Nat
      BY <2>1, AllRead, ProgramFacts
    <3>2. m \in Nat /\ a \in Int
      <4>1. Sec \in Nat /\ a \in Int
        BY BootNumbers DEF Memory
      <4>2. \A c \in Nat : c * Sec \in Nat
        BY <4>1
      <4> QED BY <4>1, <4>2, <3>1
    <3>3. Filled(i, a) <=> w <= a /\ a < w + m
      BY <3>1 DEF Filled
    <3>4. i \in T <=> a \in w .. w + m - 1
      BY DEF Area, Count
    <3> HIDE DEF w, m, T
    <3> QED BY <3>1, <3>2, <3>3, <3>4
  <2>3. Intended(a) = LET n == a - Wanted(progs[L].place) IN
                        IF T # {} /\ n < progs[L].len THEN <<L, n>> ELSE Clear
    BY DEF Intended
  <2>4. CASE T = {}
    <3>1. mem[a] = Clear
      BY <2>4, <2>2, <2>1 DEF Holds
    <3> QED BY <3>1, <2>3, <2>4
  <2>5. CASE T # {}
    <3>1. Len(progs) \in Nat /\ T \subseteq 1 .. Len(progs)
      BY <2>1 DEF BootTypes
    <3> HIDE DEF T
    <3>2. \E n \in T : \A k \in T : k <= n
      BY <3>1, <2>5, LargestNumber
    <3>3. L \in T /\ \A j \in T : j <= L
      BY <3>2
    <3> HIDE DEF L
    <3>4. Filled(L, a) /\ L \in 1 .. Len(progs)
      BY <3>1, <3>3, <2>2
    <3>5. ASSUME NEW j \in L + 1 .. Len(progs) PROVE ~Filled(j, a)
      BY <3>1, <3>3, <3>4, <2>2
    <3>6. mem[a] = ByteOf(L, a)
      BY <3>4, <3>5, <2>1 DEF Holds
    <3> QED BY <3>6, <2>3, <2>5 DEF ByteOf
  <2> QED BY <2>4, <2>5
<1> QED BY <1>1, BootInvariance, PTL

==============================================================================

-------------------------------- MODULE Pci --------------------------------
(***************************************************************************)
(* The search for the IDE controller (pci.c, ide.c) as a pure algorithm.   *)
(* The three loops of _pci_find_device run far beyond the fields of the    *)
(* configuration address, into which bus, device and function are or'ed;   *)
(* widths and bounds are parameters with the relations of the real ones.   *)
(* An address is the set of its bits.  A configuration space maps the      *)
(* selected address to the first register: the device id in its upper      *)
(* word, the vendor id in its lower one.                                   *)
(***************************************************************************)
EXTENDS Integers

CONSTANTS FuncBits, SlotBits, BusBits,   \* 3, 5 and 8
          Buses, Slots, Funcs,           \* loop bounds: 65535, 65535, 255
          Words                          \* values of a word

Absent == [device |-> "ffff", vendor |-> "ffff"]

Registers == [device : Words, vendor : Words]

Width == BusBits + SlotBits + FuncBits

(* The powers of two that matter here.                                     *)
Power[n \in 0 .. Width] == IF n = 0 THEN 1 ELSE 2 * Power[n - 1]

(* The loops go through every number that fits into a field.               *)
ASSUME PciAssumption ==
  /\ {FuncBits, SlotBits, BusBits, Buses, Slots, Funcs} \subseteq Nat
  /\ Power[FuncBits] <= Funcs /\ Power[SlotBits] <= Slots /\ Power[BusBits] <= Buses
  /\ "ffff" \in Words

Addresses == SUBSET (0 .. Width - 1)

(* The bits of the number n, moved up by k; bits above the bus number are  *)
(* reserved and select nothing.                                            *)
Field(n, k) == {i \in k .. Width - 1 : (n \div Power[i - k]) % 2 = 1}

(* _pci_set_config_addr_state.                                             *)
ConfigAddress(bus, slot, func) ==
  Field(bus, SlotBits + FuncBits) \cup Field(slot, FuncBits) \cup Field(func, 0)

Register(space, a) == IF a \in DOMAIN space THEN space[a] ELSE Absent

(* Mutant: words are taken in the order of their offsets.                  *)
ReadWordInOrder(reg, offset) == IF offset % 4 = 0 THEN reg.vendor ELSE reg.device

(* _pci_read_config_data, word mode: an offset that is a multiple of four  *)
(* gives the upper word, the other even offsets the lower one.             *)
ReadWord(reg, offset) == IF offset % 4 = 0 THEN reg.device ELSE reg.vendor

Matches(reg, id) == ReadWord(reg, 0) = id.device /\ ReadWord(reg, 2) = id.vendor

Coordinates ==
  [bus : 0 .. Buses - 1, slot : 0 .. Slots - 1, func : 0 .. Funcs - 1]

(* The coordinates of probe n of the three nested loops.                   *)
Probe(n) == [bus |-> n \div (Slots * Funcs), slot |-> (n \div Funcs) % Slots,
             func |-> n % Funcs]

Selects(c) == ConfigAddress(c.bus, c.slot, c.func)

(* _pci_find_device: the first coordinates that answer with the wanted     *)
(* identity, or all ones.                                                  *)
NoDevice == [bus |-> -1, slot |-> -1, func |-> -1]

FindDevice(space, id) ==
  LET Found(n) == Matches(Register(space, Selects(Probe(n))), id)
      Last     == Buses * Slots * Funcs - 1
  IN  IF \E n \in 0 .. Last : Found(n)
      THEN Probe(CHOOSE n \in 0 .. Last : Found(n) /\ \A m \in 0 .. n - 1 : ~Found(m))
      ELSE NoDevice
=============================================================================

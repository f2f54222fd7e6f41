------------------------------ MODULE Startup ------------------------------
(***************************************************************************)
(* From the first instruction of _init to processes and interrupts: the    *)
(* handler table (support.c), the order in which system.c fills it, the    *)
(* entry and exit of handlers (isr_stubs.S), and the two interrupt         *)
(* controllers, external, that every handler has to reset.  Interrupts are *)
(* masked until the first process is restored, and in every handler.  What *)
(* the handlers do otherwise is in the modules of their drivers.           *)
(***************************************************************************)
EXTENDS Pci, FiniteSets, FiniteSetsExt

CONSTANTS Stray,      \* lines without a driver that may raise a request
          MaxRaise,   \* bound on the requests
          Spaces,     \* configuration spaces of the PCI bus
          IdeId       \* the wanted controller

VARIABLES step,       \* next step of _init, or 0 when it is over
          table,      \* __isr_table, for the lines and the system call
          mode,       \* "init", "process", "handler" or "panic"
          line,       \* line, or the system call, whose handler runs
          requested,  \* requests the controllers have latched
          open,       \* lines they do not mask
          master, slave,  \* lines in service
          raised,     \* requests made so far
          space, ide  \* the PCI bus, and what the search found there

pic  == <<requested, open, master, slave>>
vars == <<step, table, mode, line, pic, raised, space, ide>>

Timer    == 0     \* INT_VEC_TIMER, and so on, without the base 16#20
Keyboard == 1
Cascade  == 2     \* the master's line for the slave
Serial   == 4
Ata      == 14    \* ATA_INT_VEC_PRI_PATA
Syscall  == 96    \* INT_VEC_SYSCALL, no line of a controller
Handled  == {Timer, Keyboard, Serial, Ata}
Lines    == Handled \cup Stray
Vectors  == Lines \cup {Syscall}

ASSUME StartupAssumption ==
  /\ Stray \subseteq (0 .. 15) \ (Handled \cup {Cascade}) /\ MaxRaise \in Nat
  /\ IdeId \in Registers \ {Absent}
  /\ \A s \in Spaces : /\ DOMAIN s \subseteq Addresses
                       /\ \A a \in DOMAIN s : s[a] \in Registers

OnSlave(l)    == l >= 8
MasterLine(l) == IF OnSlave(l) THEN Cascade ELSE l

----------------------------------------------------------------------------
(* _init.                                                                  *)

Doing(n) == mode = "init" /\ step = n /\ step' = n + 1

Install(t, v, h) == [t EXCEPT ![v] = h]

(* init_idt: every vector gets the handler that panics; two lines may      *)
(* already be active.                                                      *)
InitIdt ==
  /\ Doing(1)
  /\ table' = [v \in Vectors |-> IF v \in {Timer, Keyboard} THEN "expected"
                                 ELSE "unexpected"]
  /\ UNCHANGED <<mode, line, pic, raised, space, ide>>

(* Mutant: the slave's lines stay masked.                                  *)
InitPicMaster ==
  /\ Doing(2)
  /\ requested' = {} /\ master' = {} /\ slave' = {}
  /\ open' = {l \in Lines : ~OnSlave(l)}
  /\ UNCHANGED <<table, mode, line, raised, space, ide>>

(* init_pic: nothing is requested or in service, all lines are open.       *)
InitPic ==
  /\ Doing(2)
  /\ requested' = {} /\ master' = {} /\ slave' = {}
  /\ open' = Lines
  /\ UNCHANGED <<table, mode, line, raised, space, ide>>

(* c_io_init.                                                              *)
InitConsole ==
  /\ Doing(3)
  /\ table' = Install(table, Keyboard, "keyboard")
  /\ UNCHANGED <<mode, line, pic, raised, space, ide>>

(* The disk's handler comes before the devices are looked for.             *)
InstallAta ==
  /\ Doing(4)
  /\ table' = Install(table, Ata, "ata")
  /\ UNCHANGED <<mode, line, pic, raised, space, ide>>

(* _dev_init, _pci_init, _ide_init, _disk_init.                            *)
InitDevices ==
  /\ Doing(5)
  /\ ide' = FindDevice(space, IdeId)
  /\ UNCHANGED <<table, mode, line, pic, raised, space>>

InstallRest ==
  /\ Doing(6)
  /\ table' = Install(Install(Install(table, Timer, "clock"), Syscall, "syscall"),
                      Serial, "sio")
  /\ UNCHANGED <<mode, line, pic, raised, space, ide>>

(* The processes are made, one is dispatched, and restoring it enables     *)
(* interrupts.                                                             *)
Start ==
  /\ mode = "init" /\ step = 7
  /\ step' = 0 /\ mode' = "process"
  /\ UNCHANGED <<table, line, pic, raised, space, ide>>

----------------------------------------------------------------------------
(* The interrupt controllers and the processor.                            *)

(* A device raises its line; the request is latched.                       *)
Raise(l) ==
  /\ raised < MaxRaise /\ mode # "panic"
  /\ raised' = raised + 1
  /\ requested' = requested \cup {l}
  /\ UNCHANGED <<step, table, mode, line, open, master, slave, space, ide>>

(* A controller passes on a request when nothing of the same or a higher   *)
(* priority is in service; the slave's lines have that of the cascade.     *)
Passes(l) ==
  /\ l \in requested \cap open
  /\ \A m \in master : MasterLine(l) < m
  /\ OnSlave(l) => \A s \in slave : l < s

Before(k, l) == \/ MasterLine(k) < MasterLine(l)
                \/ MasterLine(k) = MasterLine(l) /\ k < l

(* The request with the highest priority interrupts the process: isr_save  *)
(* calls the handler from the table.                                       *)
Acknowledge(l) ==
  /\ mode = "process" /\ Passes(l)
  /\ \A k \in requested \ {l} : Passes(k) => Before(l, k)
  /\ requested' = requested \ {l}
  /\ master' = master \cup {MasterLine(l)}
  /\ slave' = IF OnSlave(l) THEN slave \cup {l} ELSE slave
  /\ mode' = "handler" /\ line' = l
  /\ UNCHANGED <<step, table, open, raised, space, ide>>

(* A process makes a system call.                                          *)
SystemCall ==
  /\ mode = "process"
  /\ mode' = "handler" /\ line' = Syscall
  /\ UNCHANGED <<step, table, pic, raised, space, ide>>

(* The non-specific end of interrupt: the highest line in service is       *)
(* served, if there is one.                                                *)
Eoi(s) == IF s = {} THEN {} ELSE s \ {Min(s)}

(* Mutant: the slave is forgotten.                                         *)
ResetsSlaveNever(h, l) == FALSE

(* _ata_isr and the default handler reset the slave as well, for the       *)
(* vectors above 16#28.                                                    *)
ResetsSlave(h, l) == h \in {"ata", "expected"} /\ l > 8

(* The handler runs to its end, resets the controllers, and __isr_restore  *)
(* returns to a process; __default_unexpected_handler panics.              *)
Handle ==
  /\ mode = "handler"
  /\ IF table[line] = "unexpected"
     THEN mode' = "panic" /\ UNCHANGED <<master, slave>>
     ELSE /\ mode' = "process"
          /\ master' = Eoi(master)
          /\ slave' = IF ResetsSlave(table[line], line) THEN Eoi(slave) ELSE slave
  /\ UNCHANGED <<step, table, line, requested, open, raised, space, ide>>

----------------------------------------------------------------------------

Init ==
  /\ step = 1 /\ mode = "init" /\ line = Syscall
  /\ table = [v \in Vectors |-> "null"]
  /\ requested = {} /\ open = {} /\ master = {} /\ slave = {}
  /\ raised = 0
  /\ space \in Spaces /\ ide = NoDevice

InitStep == \/ InitIdt \/ InitPic \/ InitConsole \/ InstallAta
            \/ InitDevices \/ InstallRest \/ Start

Next == \/ InitStep \/ SystemCall \/ Handle
        \/ \E l \in Lines : Raise(l) \/ Acknowledge(l)

(* The processor runs its code and takes the interrupts it is given.       *)
Spec == /\ Init /\ [][Next]_vars
        /\ WF_vars(InitStep) /\ WF_vars(Handle)
        /\ SF_vars(\E l \in Lines : Acknowledge(l))

----------------------------------------------------------------------------
(* Properties.                                                             *)

(* Every variable keeps its type.                                          *)
TypeOK ==
  /\ step \in 0 .. 7 /\ mode \in {"init", "process", "handler", "panic"}
  /\ table \in [Vectors -> {"null", "expected", "unexpected", "keyboard",
                            "clock", "sio", "ata", "syscall"}]
  /\ line \in Vectors /\ requested \subseteq Lines /\ open \subseteq Lines
  /\ master \subseteq {MasterLine(l) : l \in Lines} /\ slave \subseteq Lines
  /\ raised \in 0 .. MaxRaise
  /\ space \in Spaces /\ ide \in Coordinates \cup {NoDevice}

(* Every handler leaves the controllers as it found them (clock.c 148,     *)
(* sio.c 166, ata.c 630-635, c_io.c 620): while a process runs no line is  *)
(* in service, so none is shut out, and the reset that _isr_syscall sends  *)
(* without having been called by a controller (syscalls.c 694) never ends  *)
(* the service of another line.                                            *)
NothingInService == mode = "process" => master = {} /\ slave = {}

(* A request latched after the controllers were set up reaches its handler *)
(* however handlers and system calls follow each other (system.c 143-186): *)
(* the only panic is over a line that has no driver, so every driver's     *)
(* handler is there in time for requests made long before.                 *)
RequestsServed ==
  \A l \in Lines :
    (l \in requested /\ step \notin {1, 2})
      ~> (l \notin requested \/ (mode = "panic" /\ line \in Stray))

(* The controller recorded by _ide_init is the one that was looked for:    *)
(* its coordinates select a register with the wanted identity, although    *)
(* they need not be its own (pci.c 73-125).                                *)
ControllerFound ==
  step = 0 =>
    IF \E a \in DOMAIN space : space[a] = IdeId
    THEN /\ ide # NoDevice
         /\ Register(space, Selects(ide)) = IdeId
    ELSE ide = NoDevice

----------------------------------------------------------------------------
(* Claims the code does not keep; see the README.                          *)

(* The coordinates are those of the controller, each within its field.     *)
CoordinatesExact ==
  step = 0 /\ ide # NoDevice =>
    /\ ide.func < 2^FuncBits /\ ide.slot < 2^SlotBits /\ ide.bus < 2^BusBits

(* The default handler resets the slave for each of its lines.             *)
SlaveReset == \A l \in 8 .. 15 : ResetsSlave("expected", l)

(* A request made while the system starts is served.                       *)
EarlyRequestsServed ==
  \A l \in Lines : l \in requested ~> (mode = "handler" /\ line = l) \/ mode = "panic"

=============================================================================

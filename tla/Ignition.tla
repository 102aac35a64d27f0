------------------------------ MODULE Ignition ------------------------------
(***************************************************************************)
(* From _start to the event loop (main.rs, proc/mod.rs): the primary core  *)
(* sets up what all cores share and opens IGNITION; then every core sets   *)
(* up itself in wakeup, concurrently, and none passes LATE_IGNITION before *)
(* the primary has run late_start.                                         *)
(*                                                                         *)
(* PROC_TABLE is a BTreeMap.  Up to 11 entries lie in one leaf, in the     *)
(* order of the keys, so an insertion moves the entries with larger keys.  *)
(* A reference into the table is the position of the entry.  With more     *)
(* cores the leaf splits, which this module does not model.                *)
(*                                                                         *)
(* The timer of each core is calibrated against the one PIT, whose 16-bit  *)
(* counter is latched by a command and then read byte by byte.             *)
(***************************************************************************)
EXTENDS Initrd, Acpi

CONSTANTS
  Machines,     \* pairs of an archive and a layout: what a core may boot from
  Core,         \* the APIC ids
  Bspid,        \* bootboot().bspid
  TICKS,        \* the values of the counter: 2^16
  BYTE,         \* the values of its low byte: 2^8
  PIT_DELAY,    \* pit_delay, 10 ms: 11933
  MaxGap,       \* the longest time between two latches, in ticks
  TimerWraps,   \* the cores whose local timer may start over while they wait
                \* for CALIB_LOCK or calibrate
  EntrySize,    \* the size of an entry of the tables that have one per core
  STACK_SIZE,   \* kernel_stack_size
  TOP,          \* the size of the address space: 2^64
  NONE

ASSUME CoreAssumption ==
  /\ Core \subseteq Nat /\ Bspid \in Core
  /\ NONE \notin Nat
  /\ TICKS \in Nat \ {0} /\ MaxGap \in Nat
  /\ \A m \in Machines : m[1] \in DOMAIN Archives /\ m[2] \in DOMAIN Layouts

(* PROC_TABLE is one leaf of a BTreeMap. *)
ASSUME LeafAssumption == IsFiniteSet(Core) /\ Cardinality(Core) <= 11

(* The tables that the id of a core indexes in wakeup. *)
Indexed == {"stacks", "gdt", "tss"}

ASSUME TableAssumption ==
  EntrySize \in [Indexed \cup {"nmi_stacks"} -> Nat \ {0}]

(* The stacks of the loader fit below the top of memory, which is a multiple of
   their size. *)
ASSUME StackAssumption ==
  /\ STACK_SIZE \in Nat \ {0} /\ TOP \in Nat /\ TOP % STACK_SIZE = 0
  /\ \A c \in Core : c * STACK_SIZE < TOP

VARIABLES
  pc,           \* where each core is
  shared,       \* how many of Tables are allocated and mapped
  IGNITION, LATE_IGNITION, MAPPED,    \* the Once flags
  late,         \* late_start has returned
  isvm,         \* debug::isvm
  stack,        \* the stack of each core as stack() computes it
  tss,          \* privilege_stack_table[0] of the core's TSS
  proc_table,   \* PROC_TABLE: the entries in the order of their keys
  ascending,    \* every core so far had a larger id than those before it
  gs_base,      \* KERNEL_GS_BASE: a position in proc_table
  instance,     \* the position that ProcInfo::instance returned
  calib,        \* the core that holds CALIB_LOCK
  pit,          \* the PIT: count, latch, and whether the high byte is next
  low, start,   \* pit_calib_sleep: the low byte, ref_timer_start
  lvt_lint,     \* the LINT registers of each core
  rsp           \* the stack that the core sits on

procVars == <<stack, tss, proc_table, ascending, gs_base, instance, rsp>>
pitVars == <<calib, pit, low, start>>
flags == <<IGNITION, LATE_IGNITION, MAPPED, late>>
bootVars == <<initrdVars, acpiVars>>
vars == <<bootVars, pc, shared, flags, isvm, procVars, pitVars, lvt_lint>>

is_primary(c) == c = Bspid

Init ==
  /\ \E m \in Machines : InitrdInit(m[1]) /\ AcpiInit(m[2])
  /\ pc = [c \in Core |-> "_start"]
  /\ shared = 0
  /\ IGNITION = FALSE /\ LATE_IGNITION = FALSE /\ MAPPED = FALSE
  /\ late = FALSE
  /\ isvm \in BOOLEAN
  /\ stack = [c \in Core |-> NONE] /\ tss = [c \in Core |-> NONE]
  /\ proc_table = <<>> /\ ascending = TRUE
  /\ gs_base = [c \in Core |-> NONE] /\ instance = [c \in Core |-> NONE]
  /\ calib = NONE
  /\ pit = [count |-> 0, latch |-> NONE, high |-> FALSE]
  /\ low = [c \in Core |-> 0] /\ start = [c \in Core |-> NONE]
  /\ lvt_lint = [c \in Core |-> [l \in 0..1 |-> 0]]
  /\ rsp = [c \in Core |-> NONE]

Goto(c, place) == pc' = [pc EXCEPT ![c] = place]

(* _start: the primary prepares the machine alone (memory, the PIC, the IDT and
   the handlers of cfgtb), the others wait. *)
Start(c) ==
  /\ pc[c] = "_start"
  /\ Goto(c, IF is_primary(c) THEN "initrd" ELSE "wait")
  /\ UNCHANGED <<bootVars, shared, flags, isvm, procVars, pitVars, lvt_lint>>

(* _start: the walk of the initrd. *)
ReadInitrd(c) ==
  /\ pc[c] = "initrd"
  /\ \/ init_map /\ UNCHANGED pc
     \/ reading = "done" /\ Goto(c, "acpi") /\ UNCHANGED initrdVars
  /\ UNCHANGED <<acpiVars, shared, flags, isvm, procVars, pitVars, lvt_lint>>

(* _start: the walk of the ACPI tables, which counts the cores. *)
WalkTables(c) ==
  /\ pc[c] = "acpi"
  /\ \/ acpi_init /\ UNCHANGED pc
     \/ walk = "done" /\ Goto(c, "ignite") /\ UNCHANGED acpiVars
  /\ UNCHANGED <<initrdVars, shared, flags, isvm, procVars, pitVars, lvt_lint>>

(* ignite: what is allocated, in this order. *)
Tables == <<"stacks", "gdt", "tss", "nmi_stacks", "df_stacks", "tasks",
            "proc_table">>

(* Mutant of AllShared: IGNITION is opened before the processor table is
   there. *)
AllButLast == shared >= Len(Tables) - 1

(* ignite: whether everything is allocated. *)
AllShared == shared = Len(Tables)

(* ignite: the next table, or the start signal. *)
ignite(c) ==
  /\ pc[c] = "ignite"
  /\ IF AllShared
     THEN IGNITION' = TRUE /\ Goto(c, "wakeup") /\ UNCHANGED shared
     ELSE shared' = shared + 1 /\ UNCHANGED <<IGNITION, pc>>
  /\ UNCHANGED <<bootVars, LATE_IGNITION, MAPPED, late, isvm, procVars,
                 pitVars, lvt_lint>>

(* wait: spin on IGNITION. *)
wait(c) ==
  /\ pc[c] = "wait" /\ IGNITION
  /\ Goto(c, "wakeup")
  /\ UNCHANGED <<bootVars, shared, flags, isvm, procVars, pitVars, lvt_lint>>

(* The loader gives the core with id n the stack below -n * STACK_SIZE; a local
   variable lies anywhere in it. *)
LoaderTop(c) == (TOP - c * STACK_SIZE) % TOP
Locals(c) == {TOP - c * STACK_SIZE - d : d \in 1..(STACK_SIZE - 1)}

(* Mutant of stack_base: no case for the stack at the top of memory. *)
align_up_only(x) == ((x + STACK_SIZE - 1) \div STACK_SIZE) * STACK_SIZE

(* stack(): the bottom of the stack that x is in; at the top of memory the
   rounding would overflow. *)
stack_base(x) ==
  IF x >= TOP - STACK_SIZE THEN 0
  ELSE ((x + STACK_SIZE - 1) \div STACK_SIZE) * STACK_SIZE

(* valloc_size, for numcores entries of a table: the bytes that are mapped, whole
   pages. *)
MappedBytes(table) ==
  ((numcores * EntrySize[table] + PAGE_SIZE - 1) \div PAGE_SIZE) * PAGE_SIZE

(* The entry of a core is mapped.  The cores are counted, but it is the APIC id
   that indexes.  The NMI stacks have the address of the TSS table. *)
EntryMapped(c, table) ==
  \E t \in IF table = "tss" THEN {"tss", "nmi_stacks"} ELSE {table} :
    (c + 1) * EntrySize[table] <= MappedBytes(t)

(* wakeup: the stack table, the TSS and the GDT of the core. *)
register(c) ==
  /\ pc[c] = "wakeup"
  /\ \A table \in Indexed : EntryMapped(c, table)
  /\ \E x \in Locals(c) :
       /\ stack' = [stack EXCEPT ![c] = stack_base(x)]
       /\ tss' = [tss EXCEPT ![c] = stack_base(x)]
  /\ Goto(c, "insert")
  /\ UNCHANGED <<bootVars, shared, flags, isvm, proc_table, ascending, gs_base,
                 instance, rsp, pitVars, lvt_lint>>

(* wakeup: one of the entries is not mapped, and the core has no IDT yet. *)
RegisterFaults(c) ==
  /\ pc[c] = "wakeup"
  /\ \E table \in Indexed : ~EntryMapped(c, table)
  /\ Goto(c, "fault_table")
  /\ UNCHANGED <<bootVars, shared, flags, isvm, procVars, pitVars, lvt_lint>>

ProcInfo(c) == [id |-> c, kernel_rsp |-> stack[c], quantum |-> NONE]

(* The entries before place k, and no others, have smaller ids than c. *)
Belongs(c, k) == \A i \in DOMAIN proc_table : i < k <=> proc_table[i].id < c

(* wakeup: the entry of the core; those with larger ids move. *)
insert(c) ==
  /\ pc[c] = "insert"
  /\ \E k \in 1..(Len(proc_table) + 1) :
       /\ Belongs(c, k)
       /\ proc_table' = [i \in 1..(Len(proc_table) + 1) |->
            IF i < k THEN proc_table[i]
            ELSE IF i = k THEN ProcInfo(c) ELSE proc_table[i - 1]]
       /\ ascending' = (ascending /\ k = Len(proc_table) + 1)
  /\ Goto(c, "gs_base")
  /\ UNCHANGED <<bootVars, shared, flags, isvm, stack, tss, gs_base, instance,
                 rsp, pitVars, lvt_lint>>

(* ProcInfo::instance: where the entry of c is now. *)
Position(c) == CHOOSE i \in DOMAIN proc_table : proc_table[i].id = c

(* wakeup: KERNEL_GS_BASE. *)
SetGsBase(c) ==
  /\ pc[c] = "gs_base"
  /\ gs_base' = [gs_base EXCEPT ![c] = Position(c)]
  /\ Goto(c, "apic")
  /\ UNCHANGED <<bootVars, shared, flags, isvm, stack, tss, proc_table,
                 ascending, instance, rsp, pitVars, lvt_lint>>

(* apic::init: the primary maps the registers, the others wait for that. *)
MapApic(c) ==
  /\ pc[c] = "apic"
  /\ is_primary(c) \/ MAPPED
  /\ MAPPED' = TRUE
  /\ Goto(c, "calib")
  /\ UNCHANGED <<bootVars, shared, IGNITION, LATE_IGNITION, late, isvm,
                 procVars, pitVars, lvt_lint>>

(* Mutant of CalibFree: the lock is not taken. *)
CalibAnyway == TRUE

(* pit_calib_sleep: CALIB_LOCK can be taken. *)
CalibFree == calib = NONE

(* apic::init, pit_calib_sleep: the registers of the local APIC are set, then
   the core spins for CALIB_LOCK. *)
LockPit(c) ==
  /\ pc[c] = "calib"
  /\ CalibFree
  /\ calib' = c
  /\ Goto(c, "reload")
  /\ UNCHANGED <<bootVars, shared, flags, isvm, procVars, pit, low, start,
                 lvt_lint>>

(* Mutant of Reload: the value one above the largest. *)
ReloadAbove(c) ==
  /\ pc[c] = "reload"
  /\ pit' = [pit EXCEPT !.count = TICKS]
  /\ Goto(c, "latch")
  /\ UNCHANGED <<bootVars, shared, flags, isvm, procVars, calib, low, start,
                 lvt_lint>>

(* pit_calib_sleep: the counter starts from its largest value. *)
Reload(c) ==
  /\ pc[c] = "reload"
  /\ pit' = [pit EXCEPT !.count = TICKS - 1]
  /\ Goto(c, "latch")
  /\ UNCHANGED <<bootVars, shared, flags, isvm, procVars, calib, low, start,
                 lvt_lint>>

(* pit_calib_sleep: the latch command, some time after the one before; the PIT
   ignores it while it holds a value that was not read. *)
Latch(c) ==
  /\ pc[c] = "latch"
  /\ \E gap \in 1..MaxGap :
       LET count == (pit.count - gap) % TICKS
       IN pit' = [pit EXCEPT !.count = count,
                             !.latch = IF @ = NONE THEN count ELSE @]
  /\ Goto(c, "low")
  /\ UNCHANGED <<bootVars, shared, flags, isvm, procVars, calib, low, start,
                 lvt_lint>>

(* The byte that the PIT returns, and its state afterwards. *)
PitByte ==
  LET value == IF pit.latch = NONE THEN pit.count ELSE pit.latch
  IN IF pit.high THEN value \div BYTE ELSE value % BYTE
PitRead(count) ==
  pit' = [count |-> count, latch |-> IF pit.high THEN NONE ELSE pit.latch,
          high |-> ~pit.high]

(* pit_calib_sleep: ref_lo. *)
ReadLow(c) ==
  /\ pc[c] = "low"
  /\ low' = [low EXCEPT ![c] = PitByte]
  /\ PitRead(pit.count)
  /\ Goto(c, "high")
  /\ UNCHANGED <<bootVars, shared, flags, isvm, procVars, calib, start,
                 lvt_lint>>

(* pit_calib_sleep goes on. *)
CalibLoop(c, place) ==
  /\ PitRead(pit.count)
  /\ Goto(c, place)
  /\ UNCHANGED <<calib, low>>

(* Mutant of CalibReturn: the guard of CALIB_LOCK is forgotten. *)
CalibReturnLocked(c, place) ==
  /\ PitRead(0)
  /\ low' = [low EXCEPT ![c] = 0] /\ start' = [start EXCEPT ![c] = NONE]
  /\ Goto(c, place)
  /\ UNCHANGED calib

(* pit_calib_sleep returns: the guard of CALIB_LOCK is dropped, and the count is
   not read again before the next core reloads it. *)
CalibReturn(c, place) ==
  /\ PitRead(0)
  /\ calib' = NONE
  /\ low' = [low EXCEPT ![c] = 0] /\ start' = [start EXCEPT ![c] = NONE]
  /\ Goto(c, place)

(* apic::init, pit_calib_sleep: the subtraction from timer_start may overflow. *)
TimerOverflows(c) == c \in TimerWraps

(* pit_calib_sleep: ref_hi.  The first value is ref_timer_start.  A later one
   that is larger ends the loop in a virtual machine, unless too little of the
   local timer is left to subtract from; elsewhere the subtraction of the PIT
   values overflows.  Either way the core panics with the lock held.  After a
   whole delay it is apic::init that subtracts, without the lock: it panics when
   the local timer has started over. *)
ReadHigh(c) ==
  LET now == low[c] + BYTE * PitByte
  IN /\ pc[c] = "high"
     /\ \/ /\ start[c] = NONE
           /\ start' = [start EXCEPT ![c] = now] /\ CalibLoop(c, "latch")
        \/ /\ start[c] # NONE /\ now > start[c]
           /\ \/ isvm /\ CalibReturn(c, "lint")
              \/ /\ ~isvm \/ TimerOverflows(c)
                 /\ CalibLoop(c, "panic_pit") /\ UNCHANGED start
        \/ /\ start[c] # NONE /\ now <= start[c] /\ start[c] - now < PIT_DELAY
           /\ CalibLoop(c, "latch") /\ UNCHANGED start
        \/ /\ start[c] # NONE /\ now <= start[c] /\ start[c] - now >= PIT_DELAY
           /\ \/ CalibReturn(c, "lint")
              \/ TimerOverflows(c) /\ CalibReturn(c, "panic_timer")
     /\ UNCHANGED <<bootVars, shared, flags, isvm, procVars, lvt_lint>>

(* apic::init: the NMI configurations that apply to core c, and the first of
   them whose LINT does not exist. *)
ConfigsOf(c) == SelectSeq(nmi_configs, LAMBDA e : e.id \in {c, 255})
InvalidLint(c) ==
  {i \in DOMAIN ConfigsOf(c) : ConfigsOf(c)[i].lint \notin {0, 1}}
ValidConfigs(c) ==
  IF InvalidLint(c) = {} THEN ConfigsOf(c)
  ELSE SubSeq(ConfigsOf(c), 1, Min(InvalidLint(c)) - 1)

(* apic::init: lint_setup for each of them, so that the last for a register
   stays; one that does not exist panics. *)
ConfigsOfLint(c, l) ==
  {i \in DOMAIN ValidConfigs(c) : ValidConfigs(c)[i].lint = l}
SetupLint(c) ==
  /\ pc[c] = "lint"
  /\ lvt_lint' = [lvt_lint EXCEPT ![c] = [l \in 0..1 |->
       IF ConfigsOfLint(c, l) = {} THEN @[l]
       ELSE ValidConfigs(c)[Max(ConfigsOfLint(c, l))].flags]]
  /\ Goto(c, IF InvalidLint(c) = {} THEN "instance" ELSE "panic_lint")
  /\ UNCHANGED <<bootVars, shared, flags, isvm, procVars, pitVars>>

(* wakeup: ProcInfo::instance finds the entry and unlocks the table. *)
GetInstance(c) ==
  /\ pc[c] = "instance"
  /\ instance' = [instance EXCEPT ![c] = Position(c)]
  /\ Goto(c, "quantum")
  /\ UNCHANGED <<bootVars, shared, flags, isvm, stack, tss, proc_table,
                 ascending, gs_base, rsp, pitVars, lvt_lint>>

(* wakeup: schedule_quantum is written through that reference; then the IDT is
   loaded and syscall is enabled.  The quantum is named by who measured it. *)
StoreQuantum(c) ==
  /\ pc[c] = "quantum"
  /\ proc_table' = [proc_table EXCEPT ![instance[c]].quantum = c]
  /\ instance' = [instance EXCEPT ![c] = NONE]
  /\ Goto(c, IF is_primary(c) THEN "late_start" ELSE "latewait")
  /\ UNCHANGED <<bootVars, shared, flags, isvm, stack, tss, ascending, gs_base,
                 rsp, pitVars, lvt_lint>>

(* late_start, on the primary. *)
late_start(c) ==
  /\ pc[c] = "late_start"
  /\ late' = TRUE
  /\ Goto(c, "late_ignition")
  /\ UNCHANGED <<bootVars, shared, IGNITION, LATE_IGNITION, MAPPED, isvm,
                 procVars, pitVars, lvt_lint>>

(* wakeup: the primary opens LATE_IGNITION. *)
OpenLate(c) ==
  /\ pc[c] = "late_ignition"
  /\ LATE_IGNITION' = TRUE
  /\ Goto(c, "enter")
  /\ UNCHANGED <<bootVars, shared, IGNITION, MAPPED, late, isvm, procVars,
                 pitVars, lvt_lint>>

(* Mutant of latewait: the wrong flag. *)
latewait_ignition(c) ==
  /\ pc[c] = "latewait" /\ IGNITION
  /\ Goto(c, "enter")
  /\ UNCHANGED <<bootVars, shared, flags, isvm, procVars, pitVars, lvt_lint>>

(* latewait: spin on LATE_IGNITION. *)
latewait(c) ==
  /\ pc[c] = "latewait" /\ LATE_IGNITION
  /\ Goto(c, "enter")
  /\ UNCHANGED <<bootVars, shared, flags, isvm, procVars, pitVars, lvt_lint>>

(* event_loop: the stack pointer is gs:[8], the kernel_rsp of the entry that
   KERNEL_GS_BASE denotes.  The core comes here again from its ticks. *)
event_loop(c) ==
  /\ pc[c] \in {"enter", "event_loop"}
  /\ rsp' = [rsp EXCEPT ![c] = proc_table[gs_base[c]].kernel_rsp]
  /\ Goto(c, "event_loop")
  /\ UNCHANGED <<bootVars, shared, flags, isvm, stack, tss, proc_table,
                 ascending, gs_base, instance, pitVars, lvt_lint>>

Step(c) ==
  \/ Start(c) \/ ReadInitrd(c) \/ WalkTables(c) \/ ignite(c) \/ wait(c)
  \/ register(c) \/ RegisterFaults(c) \/ insert(c) \/ SetGsBase(c) \/ MapApic(c)
  \/ LockPit(c) \/ Reload(c) \/ Latch(c) \/ ReadLow(c) \/ ReadHigh(c)
  \/ SetupLint(c) \/ GetInstance(c) \/ StoreQuantum(c)
  \/ late_start(c) \/ OpenLate(c) \/ latewait(c) \/ event_loop(c)

Next == \E c \in Core : Step(c)

Spec == Init /\ [][Next]_vars

(* Each core runs: nothing interrupts it before the event loop, and its spin
   locks and flags are taken at most once. *)
FairSpec == Spec /\ \A c \in Core : WF_vars(Step(c))

----------------------------------------------------------------------------
Places ==
  {"_start", "initrd", "acpi", "ignite", "wait", "wakeup", "fault_table",
   "insert", "gs_base", "apic", "calib", "reload", "latch", "low", "high",
   "panic_pit", "panic_timer", "lint", "panic_lint", "instance", "quantum", "late_start",
   "late_ignition", "latewait", "enter", "event_loop"}

(* The places of pit_calib_sleep with CALIB_LOCK held. *)
Calibrating == {"reload", "latch", "low", "high", "panic_pit"}

(* The places before the core has used what ignite allocates, and before it has
   used the registers of the APIC. *)
BeforeWakeup == {"_start", "initrd", "acpi", "ignite", "wait"}
BeforeApic ==
  BeforeWakeup \cup {"wakeup", "fault_table", "insert", "gs_base", "apic"}

TypeOK ==
  /\ InitrdTypeOK /\ AcpiTypeOK
  /\ pc \in [Core -> Places]
  /\ shared \in 0..Len(Tables)
  /\ {IGNITION, LATE_IGNITION, MAPPED, late, isvm, ascending} \subseteq BOOLEAN
  /\ calib \in Core \cup {NONE}
  /\ pit.count \in 0..(TICKS - 1)
  /\ pit.latch \in 0..(TICKS - 1) \cup {NONE}
  /\ \A i \in DOMAIN proc_table : proc_table[i].id \in Core

(* No core works with a table that ignite has not allocated, or with the APIC
   before the primary has mapped its registers, though the two flags are all
   that orders the cores ("A few things to do before waking up the other
   procs"). *)
SharedBeforeUse ==
  \A c \in Core :
    /\ pc[c] \notin BeforeWakeup =>
         reading = "done" /\ walk = "done" /\ shared = Len(Tables)
    /\ pc[c] \notin BeforeApic => MAPPED

(* late_start is "called by BSPID only after ignition but before processors are
   waiting in the event loop" (main.rs). *)
LateBarrier ==
  /\ late => IGNITION
  /\ \A c \in Core : pc[c] \in {"enter", "event_loop"} => late

(* The cores take turns at the PIT: every latch command takes effect and the
   bytes come low byte first, whichever way the core before left
   pit_calib_sleep. *)
PitInTurn ==
  /\ \A c \in Core : pc[c] \in Calibrating => calib = c
  /\ \A c \in Core : pc[c] = "latch" => pit.latch = NONE /\ ~pit.high
  /\ \A c \in Core : pc[c] = "high" => pit.latch # NONE /\ pit.high

(* If the cores enter PROC_TABLE in the order of their ids, no entry moves:
   every core sits on the stack the loader gave it, and has the quantum it
   measured itself. *)
InOrder ==
  ascending =>
    \A c \in Core :
      /\ pc[c] = "event_loop" => rsp[c] = LoaderTop(c)
      /\ pc[c] \in {"late_start", "late_ignition", "latewait", "enter",
                    "event_loop"} => proc_table[Position(c)].quantum = c

(* "before, we should sit in the bottom of the stack" (sys.rs): in the event
   loop a core is on its own kernel stack. *)
OwnStack == \A c \in Core : pc[c] = "event_loop" => rsp[c] = LoaderTop(c)

(* What stops the boot: an entry of the initrd whose size or path cannot be
   decoded, a table that cannot be read, a core whose id has no entry in the
   tables of ignite, an overflow of the arithmetic of a calibration outside a
   virtual machine or with a local timer that starts over, a LINT that does not
   exist. *)
Stopped ==
  \/ reading = "panic"
  \/ walk \in {"fault", "garbage", "panic_ioapic"}
  \/ \E c \in Core : pc[c] = "panic_pit" /\ (~isvm \/ TimerOverflows(c))
  \/ \E c \in Core : pc[c] \in {"fault_table", "panic_timer", "panic_lint"}

(* Otherwise every core reaches the event loop: no core waits for ever for a
   flag, for CALIB_LOCK or for the PIT, if it looks at the PIT at least every
   TICKS - PIT_DELAY ticks. *)
Awake == <>(Stopped \/ \A c \in Core : pc[c] = "event_loop")
=============================================================================

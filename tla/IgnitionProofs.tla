--------------------------- MODULE IgnitionProofs ---------------------------
(***************************************************************************)
(* For any set of cores, any delays of the PIT, any archive and any tables *)
(* of the firmware: the two flags order what the cores share               *)
(* (SharedBeforeUse, LateBarrier), the cores take turns at the PIT         *)
(* (PitInTurn), the walk of the initrd finds every file (FilesFound), the  *)
(* walk of the ACPI tables reads well placed tables whole (TablesRead),    *)
(* cores that come in the order of their ids keep their entries (InOrder), *)
(* and every variable keeps its type (TypeOK).                             *)
(***************************************************************************)
EXTENDS Ignition, TLAPS

(* Only the primary core is at the places where it works alone. *)
Alone == {"initrd", "acpi", "ignite", "late_start", "late_ignition"}
PcInv ==
  /\ pc \in [Core -> Places]
  /\ \A c \in Core : pc[c] \in Alone => c = Bspid

(* What a core that is past a flag can rely on: IGNITION is open when the
   primary has left ignite, and everything it did before is done. *)
FlagInv ==
  /\ pc[Bspid] \in {"acpi", "ignite"} => reading = "done"
  /\ pc[Bspid] = "ignite" => walk = "done"
  /\ IGNITION =>
       /\ pc[Bspid] \notin BeforeWakeup
       /\ reading = "done" /\ walk = "done" /\ shared = Len(Tables)
  /\ \A c \in Core : pc[c] \notin BeforeWakeup => IGNITION
  /\ \A c \in Core : pc[c] \notin BeforeApic => MAPPED

(* LATE_IGNITION is opened after late_start, late_start runs after IGNITION. *)
LateInv ==
  /\ late => IGNITION
  /\ LATE_IGNITION => late
  /\ pc[Bspid] = "late_ignition" => late
  /\ \A c \in Core : pc[c] \in {"enter", "event_loop"} => late

(* Where the holder of CALIB_LOCK is determines what the PIT holds; when nobody
   holds it the PIT is ready for a latch command. *)
PitValues ==
  [count : 0..(TICKS - 1), latch : 0..(TICKS - 1) \cup {NONE}, high : BOOLEAN]
PitType ==
  /\ pit \in PitValues
  /\ calib \in Core \cup {NONE}
PitInv ==
  /\ \A c \in Core : pc[c] \in Calibrating <=> calib = c
  /\ calib = NONE => pit.latch = NONE /\ ~pit.high
  /\ \A c \in Core : pc[c] \in {"reload", "latch"} => pit.latch = NONE /\ ~pit.high
  /\ \A c \in Core : pc[c] = "low" => pit.latch # NONE /\ ~pit.high
  /\ \A c \in Core : pc[c] = "high" => pit.latch # NONE /\ pit.high

IInv == PcInv /\ FlagInv /\ LateInv /\ PitType /\ PitInv

----------------------------------------------------------------------------
(* The invariant holds when the cores start. *)
LEMMA InitIInv == Init => IInv
  BY CoreAssumption
  DEF Init, IInv, PcInv, FlagInv, LateInv, PitType, PitValues, PitInv, Places, Alone,
      BeforeWakeup, BeforeApic, Calibrating, Tables

(* Facts about NONE and the PIT that the steps need. *)
LEMMA Constants ==
  /\ Bspid \in Core /\ NONE \notin Core
  /\ 0 \in 0..(TICKS - 1) /\ TICKS - 1 \in 0..(TICKS - 1)
  /\ NONE \notin 0..(TICKS - 1)
<1>1. 0..(TICKS - 1) \subseteq Nat
  BY CoreAssumption
<1>2. NONE \notin 0..(TICKS - 1) /\ Bspid \in Core /\ NONE \notin Core
  BY Zenon, <1>1, CoreAssumption
<1>3. 0 \in 0..(TICKS - 1) /\ TICKS - 1 \in 0..(TICKS - 1)
  BY CoreAssumption
<1> QED
  BY Zenon, <1>2, <1>3

(* A core that is past IGNITION, or passes it, goes on outside pit_calib_sleep and
   before late_start is over. *)
LEMMA GoesOn ==
  ASSUME IInv, NEW c \in Core, NEW p \in Places, Goto(c, p), IGNITION,
         pc[c] \notin Calibrating, p \notin BeforeWakeup \cup Calibrating,
         p \notin {"late_ignition", "enter", "event_loop"},
         p \in Alone => c = Bspid,
         p \notin BeforeApic => MAPPED', MAPPED => MAPPED',
         UNCHANGED <<bootVars, shared, IGNITION, late, LATE_IGNITION, pitVars>>
  PROVE  IInv'
<1>1. PcInv'
  BY Zenon DEF IInv, PcInv, Goto
<1>2. FlagInv'
  BY Zenon, Constants DEF IInv, PcInv, FlagInv, Goto, bootVars, initrdVars, acpiVars
<1>3. LateInv'
  BY Zenon, Constants DEF IInv, PcInv, LateInv, Goto
<1>4. PitType' /\ PitInv'
  BY Zenon DEF IInv, PcInv, PitType, PitInv, Goto, pitVars, Calibrating
<1> QED
  BY Zenon, <1>1, <1>2, <1>3, <1>4 DEF IInv

(* A core that takes CALIB_LOCK or holds it goes to a place of pit_calib_sleep, and
   leaves the PIT as the place needs it. *)
LEMMA Calibrates ==
  ASSUME IInv, NEW c \in Core, NEW p \in Calibrating, Goto(c, p),
         pc[c] \notin BeforeApic, calib \in {NONE, c}, calib' = c,
         pit' \in PitValues,
         p \in {"reload", "latch"} => pit'.latch = NONE /\ ~pit'.high,
         p = "low" => pit'.latch # NONE /\ ~pit'.high,
         p = "high" => pit'.latch # NONE /\ pit'.high,
         UNCHANGED <<bootVars, shared, flags>>
  PROVE  IInv'
<1>1. PcInv'
  BY Zenon DEF IInv, PcInv, Goto, Calibrating, Alone, Places
<1>2. FlagInv'
  BY Zenon, Constants DEF IInv, PcInv, FlagInv, Goto, bootVars, initrdVars, acpiVars,
     flags, Calibrating, BeforeApic, BeforeWakeup
<1>3. LateInv'
  BY Zenon, Constants DEF IInv, PcInv, LateInv, Goto, flags, Calibrating
<1>4. PitType' /\ PitInv'
  BY Zenon, Constants DEF IInv, PcInv, PitType, PitInv, Goto, Calibrating
<1> QED
  BY Zenon, <1>1, <1>2, <1>3, <1>4 DEF IInv

(* A core goes on when late_start is over. *)
LEMMA PastLate ==
  ASSUME IInv, NEW c \in Core,
         NEW p \in {"late_ignition", "enter", "event_loop"}, Goto(c, p),
         pc[c] \notin BeforeApic \cup Calibrating,
         p = "late_ignition" => c = Bspid, late',
         UNCHANGED <<bootVars, shared, IGNITION, MAPPED, pitVars>>
  PROVE  IInv'
<1>1. PcInv'
  BY Zenon DEF IInv, PcInv, Goto, Alone, Places
<1>2. FlagInv'
  BY Zenon, Constants DEF IInv, PcInv, FlagInv, Goto, bootVars, initrdVars, acpiVars,
     BeforeApic, BeforeWakeup
<1>3. LateInv'
  BY Zenon DEF IInv, FlagInv, LateInv, Goto, BeforeApic
<1>4. PitType' /\ PitInv'
  BY Zenon DEF IInv, PcInv, PitType, PitInv, Goto, pitVars, Calibrating
<1> QED
  BY Zenon, <1>1, <1>2, <1>3, <1>4 DEF IInv

(* The primary goes on alone, before IGNITION. *)
LEMMA WorksAlone ==
  ASSUME IInv, NEW c \in Core, NEW p \in BeforeWakeup, Goto(c, p),
         pc[c] \in BeforeWakeup, c = Bspid => ~IGNITION,
         p \in Alone => c = Bspid,
         c = Bspid /\ p \in {"acpi", "ignite"} => reading' = "done",
         c = Bspid /\ p = "ignite" => walk' = "done",
         c # Bspid => UNCHANGED bootVars,
         UNCHANGED <<shared, flags, pitVars>>
  PROVE  IInv'
<1>1. PcInv'
  BY Zenon DEF IInv, PcInv, Goto, BeforeWakeup, Places
<1>2. FlagInv'
  BY Zenon, Constants DEF IInv, PcInv, FlagInv, Goto, bootVars, initrdVars, acpiVars,
     flags, BeforeApic, BeforeWakeup
<1>3. LateInv'
  BY Zenon, Constants DEF IInv, PcInv, LateInv, Goto, flags, BeforeWakeup
<1>4. PitType' /\ PitInv'
  BY Zenon DEF IInv, PcInv, PitType, PitInv, Goto, pitVars, Calibrating, BeforeWakeup
<1> QED
  BY Zenon, <1>1, <1>2, <1>3, <1>4 DEF IInv

(* Every step of a core keeps the invariant. *)
LEMMA NextIInv == IInv /\ [Next]_vars => IInv'
<1> SUFFICES ASSUME IInv, [Next]_vars PROVE IInv'
  BY Zenon
<1>0. /\ pc[Bspid] \in BeforeWakeup => ~IGNITION
      /\ \A c \in Core : pc[c] \in Alone => c = Bspid
      /\ \A c \in Core : pc[c] \notin BeforeWakeup => IGNITION
      /\ \A c \in Core : pc[c] \notin BeforeApic => MAPPED
  BY Zenon DEF IInv, PcInv, FlagInv
<1>1. ASSUME NEW c \in Core, Start(c) PROVE IInv'
  BY Zenon, <1>0, <1>1, WorksAlone DEF Start, is_primary, bootVars, BeforeWakeup, Alone
<1>2. ASSUME NEW c \in Core, ReadInitrd(c) PROVE IInv'
  <2>1. c = Bspid /\ pc[c] = "initrd"
    BY Zenon, <1>0, <1>2 DEF ReadInitrd, Alone
  <2>2. \E p \in {"initrd", "acpi"} :
          Goto(c, p) /\ (p = "acpi" => reading' = "done")
    BY Zenon, <1>2, <2>1 DEF ReadInitrd, Goto, initrdVars, IInv, PcInv
  <2> QED
    BY Zenon, <1>0, <1>2, <2>1, <2>2, WorksAlone DEF ReadInitrd, BeforeWakeup
<1>3. ASSUME NEW c \in Core, WalkTables(c) PROVE IInv'
  <2>1. c = Bspid /\ pc[c] = "acpi" /\ reading' = "done"
    BY Zenon, <1>0, <1>3 DEF WalkTables, Alone, initrdVars, IInv, FlagInv
  <2>2. \E p \in {"acpi", "ignite"} :
          Goto(c, p) /\ (p = "ignite" => walk' = "done")
    BY Zenon, <1>3, <2>1 DEF WalkTables, Goto, acpiVars, IInv, PcInv
  <2> QED
    BY Zenon, <1>0, <1>3, <2>1, <2>2, WorksAlone DEF WalkTables, BeforeWakeup
<1>4. ASSUME NEW c \in Core, ignite(c) PROVE IInv'
  <2>1. /\ c = Bspid /\ pc[c] = "ignite" /\ ~IGNITION
        /\ reading = "done" /\ walk = "done"
    BY Zenon, <1>0, <1>4 DEF ignite, Alone, IInv, FlagInv, BeforeWakeup
  <2>2. CASE AllShared
    <3>1. /\ Goto(c, "wakeup") /\ IGNITION' /\ shared' = Len(Tables)
          /\ reading' = "done" /\ walk' = "done"
      BY Zenon, <1>4, <2>1, <2>2 DEF ignite, AllShared, bootVars, initrdVars, acpiVars
    <3>2. PcInv'
      BY Zenon, <3>1 DEF IInv, PcInv, Goto, Places, Alone
    <3>3. FlagInv'
      BY Zenon, <1>4, <2>1, <3>1 DEF ignite, Goto, IInv, PcInv, FlagInv, BeforeWakeup,
         BeforeApic
    <3>4. LateInv'
      BY Zenon, <1>4, <2>1, <3>1 DEF ignite, Goto, IInv, PcInv, LateInv
    <3>5. PitType' /\ PitInv'
      BY Zenon, <1>4, <2>1, <3>1 DEF ignite, Goto, IInv, PcInv, PitType, PitInv,
         pitVars, Calibrating
    <3> QED
      BY Zenon, <3>2, <3>3, <3>4, <3>5 DEF IInv
  <2>3. CASE ~AllShared
    BY Zenon, <1>4, <2>1, <2>3 DEF ignite, bootVars, initrdVars, acpiVars, pitVars,
       IInv, PcInv, FlagInv, LateInv, PitType, PitInv
  <2> QED
    BY Zenon, <2>2, <2>3
<1>5. ASSUME NEW c \in Core, wait(c) PROVE IInv'
  <2>1. Goto(c, "wakeup") /\ pc[c] = "wait"
    BY Zenon, <1>5 DEF wait
  <2> QED
    BY Zenon, <1>0, <1>5, <2>1, GoesOn DEF wait, flags, Places, Alone, BeforeApic,
       BeforeWakeup, Calibrating
<1>6. ASSUME NEW c \in Core, register(c) PROVE IInv'
  <2>1. Goto(c, "insert") /\ pc[c] = "wakeup"
    BY Zenon, <1>6 DEF register
  <2> QED
    BY Zenon, <1>0, <1>6, <2>1, GoesOn DEF register, flags, Places, Alone, BeforeApic,
       BeforeWakeup, Calibrating
<1>6f. ASSUME NEW c \in Core, RegisterFaults(c) PROVE IInv'
  <2>1. Goto(c, "fault_table") /\ pc[c] = "wakeup"
    BY Zenon, <1>6f DEF RegisterFaults
  <2> QED
    BY Zenon, <1>0, <1>6f, <2>1, GoesOn DEF RegisterFaults, flags, Places, Alone,
       BeforeApic, BeforeWakeup, Calibrating
<1>7. ASSUME NEW c \in Core, insert(c) PROVE IInv'
  <2>1. Goto(c, "gs_base") /\ pc[c] = "insert"
    BY Zenon, <1>7 DEF insert
  <2> QED
    BY Zenon, <1>0, <1>7, <2>1, GoesOn DEF insert, flags, Places, Alone, BeforeApic,
       BeforeWakeup, Calibrating
<1>8. ASSUME NEW c \in Core, SetGsBase(c) PROVE IInv'
  <2>1. Goto(c, "apic") /\ pc[c] = "gs_base"
    BY Zenon, <1>8 DEF SetGsBase
  <2> QED
    BY Zenon, <1>0, <1>8, <2>1, GoesOn DEF SetGsBase, flags, Places, Alone, BeforeApic,
       BeforeWakeup, Calibrating
<1>9. ASSUME NEW c \in Core, MapApic(c) PROVE IInv'
  <2>1. Goto(c, "calib") /\ pc[c] = "apic"
    BY Zenon, <1>9 DEF MapApic
  <2> QED
    BY Zenon, <1>0, <1>9, <2>1, GoesOn DEF MapApic, flags, Places, Alone, BeforeApic,
       BeforeWakeup, Calibrating
<1>10. ASSUME NEW c \in Core, LockPit(c) PROVE IInv'
  <2>1. /\ Goto(c, "reload") /\ pc[c] = "calib"
        /\ calib = NONE /\ calib' = c /\ pit' = pit
    BY Zenon, <1>10 DEF LockPit, CalibFree
  <2>2. pit \in PitValues /\ pit.latch = NONE /\ ~pit.high
    BY Zenon, <2>1 DEF IInv, PitType, PitInv
  <2> QED
    BY Zenon, <1>10, <2>1, <2>2, Calibrates DEF LockPit, Calibrating, BeforeApic,
       BeforeWakeup
<1>11. ASSUME NEW c \in Core, Reload(c) PROVE IInv'
  <2>1. /\ Goto(c, "latch") /\ pc[c] = "reload"
        /\ calib = c /\ calib' = c /\ pit' = [pit EXCEPT !.count = TICKS - 1]
    BY Zenon, <1>11 DEF Reload, IInv, PitInv, Calibrating
  <2>2. pit \in PitValues /\ pit.latch = NONE /\ ~pit.high
    BY Zenon, <2>1 DEF IInv, PitType, PitInv
  <2>3. pit' \in PitValues /\ pit'.latch = NONE /\ ~pit'.high
    BY Zenon, <2>1, <2>2, Constants DEF PitValues
  <2> QED
    BY Zenon, <1>11, <2>1, <2>3, Calibrates DEF Reload, Calibrating, BeforeApic,
       BeforeWakeup
<1>12. ASSUME NEW c \in Core, Latch(c) PROVE IInv'
  <2>1. Goto(c, "low") /\ pc[c] = "latch" /\ calib = c /\ calib' = c
    BY Zenon, <1>12 DEF Latch, IInv, PitInv, Calibrating
  <2>2. pit \in PitValues /\ pit.latch = NONE /\ ~pit.high
    BY Zenon, <2>1 DEF IInv, PitType, PitInv
  <2>3. PICK gap \in 1..MaxGap :
          LET count == (pit.count - gap) % TICKS
          IN pit' = [pit EXCEPT !.count = count,
                                !.latch = IF @ = NONE THEN count ELSE @]
    BY Zenon, <1>12 DEF Latch
  <2> DEFINE count == (pit.count - gap) % TICKS
  <2>4. count \in 0..(TICKS - 1)
    BY <2>2, CoreAssumption DEF PitValues
  <2>5. pit' = [pit EXCEPT !.count = count, !.latch = count]
    BY Zenon, <2>2, <2>3 DEF PitValues
  <2> HIDE DEF count
  <2>6. pit' \in PitValues /\ pit'.latch # NONE /\ ~pit'.high
    BY Zenon, <2>2, <2>4, <2>5, Constants DEF PitValues
  <2> QED
    BY Zenon, <1>12, <2>1, <2>6, Calibrates DEF Latch, Calibrating, BeforeApic,
       BeforeWakeup
<1>13. ASSUME NEW c \in Core, ReadLow(c) PROVE IInv'
  <2>1. Goto(c, "high") /\ pc[c] = "low" /\ calib = c /\ calib' = c
    BY Zenon, <1>13 DEF ReadLow, IInv, PitInv, Calibrating
  <2>2. pit \in PitValues /\ pit.latch # NONE /\ ~pit.high
    BY Zenon, <2>1 DEF IInv, PitType, PitInv
  <2>3. pit' = [count |-> pit.count, latch |-> pit.latch, high |-> TRUE]
    BY Zenon, <1>13, <2>2 DEF ReadLow, PitRead
  <2>4. pit' \in PitValues /\ pit'.latch # NONE /\ pit'.high
    BY Zenon, <2>2, <2>3 DEF PitValues
  <2> QED
    BY Zenon, <1>13, <2>1, <2>4, Calibrates DEF ReadLow, Calibrating, BeforeApic,
       BeforeWakeup
<1>14. ASSUME NEW c \in Core, ReadHigh(c) PROVE IInv'
  <2>1. /\ pc[c] = "high" /\ pit.high /\ calib = c /\ pit \in PitValues
        /\ UNCHANGED <<bootVars, shared, flags>>
    BY Zenon, <1>14 DEF ReadHigh, IInv, PitInv, PitType, Calibrating
  <2>2. ASSUME NEW p \in {"lint", "panic_timer"}, CalibReturn(c, p) PROVE IInv'
    <3>1. /\ Goto(c, p) /\ calib' = NONE
          /\ pit' = [count |-> 0, latch |-> NONE, high |-> FALSE]
      BY Zenon, <2>1, <2>2 DEF CalibReturn, PitRead
    <3>2. PcInv'
      BY Zenon, <3>1 DEF IInv, PcInv, Goto, Places, Alone
    <3>3. FlagInv'
      BY Zenon, <2>1, <3>1, Constants DEF IInv, PcInv, FlagInv, Goto, bootVars,
         initrdVars, acpiVars, flags, BeforeApic, BeforeWakeup
    <3>4. LateInv'
      BY Zenon, <2>1, <3>1, Constants DEF IInv, PcInv, LateInv, Goto, flags
    <3>5. pit' \in PitValues /\ pit'.latch = NONE /\ ~pit'.high
      BY Zenon, <3>1, Constants DEF PitValues
    <3>6. \A d \in Core : pc'[d] \notin Calibrating
      BY Zenon, <2>1, <3>1 DEF IInv, PcInv, PitInv, Goto, Calibrating
    <3>7. PitType' /\ PitInv'
      BY Zenon, <3>1, <3>5, <3>6, Constants DEF PitType, PitInv, Calibrating
    <3> QED
      BY Zenon, <3>2, <3>3, <3>4, <3>7 DEF IInv
  <2>3. ASSUME NEW p \in {"latch", "panic_pit"}, CalibLoop(c, p) PROVE IInv'
    <3>1. /\ Goto(c, p) /\ calib' = c
          /\ pit' = [count |-> pit.count, latch |-> NONE, high |-> FALSE]
      BY Zenon, <2>1, <2>3 DEF CalibLoop, PitRead
    <3>2. pit' \in PitValues /\ pit'.latch = NONE /\ ~pit'.high
      BY Zenon, <2>1, <3>1 DEF PitValues
    <3> QED
      BY Zenon, <2>1, <3>1, <3>2, Calibrates DEF Calibrating, BeforeApic,
         BeforeWakeup
  <2> QED
    BY Zenon, <1>14, <2>2, <2>3 DEF ReadHigh
<1>15. ASSUME NEW c \in Core, SetupLint(c) PROVE IInv'
  <2>1. /\ Goto(c, "instance") \/ Goto(c, "panic_lint")
        /\ pc[c] = "lint" /\ UNCHANGED <<bootVars, shared, flags, pitVars>>
    BY Zenon, <1>15 DEF SetupLint
  <2> QED
    BY Zenon, <1>0, <2>1, GoesOn DEF flags, Places, Alone, BeforeApic, BeforeWakeup,
       Calibrating
<1>16. ASSUME NEW c \in Core, GetInstance(c) PROVE IInv'
  <2>1. Goto(c, "quantum") /\ pc[c] = "instance"
    BY Zenon, <1>16 DEF GetInstance
  <2> QED
    BY Zenon, <1>0, <1>16, <2>1, GoesOn DEF GetInstance, flags, Places, Alone, BeforeApic,
       BeforeWakeup, Calibrating
<1>17. ASSUME NEW c \in Core, StoreQuantum(c) PROVE IInv'
  <2>1. /\ IF c = Bspid THEN Goto(c, "late_start") ELSE Goto(c, "latewait")
        /\ pc[c] = "quantum"
    BY Zenon, <1>17 DEF StoreQuantum, is_primary
  <2> QED
    BY Zenon, <1>0, <1>17, <2>1, GoesOn DEF StoreQuantum, flags, Places, Alone, BeforeApic,
       BeforeWakeup, Calibrating
<1>18. ASSUME NEW c \in Core, late_start(c) PROVE IInv'
  <2>1. /\ Goto(c, "late_ignition") /\ pc[c] = "late_start" /\ late'
        /\ c = Bspid
    BY Zenon, <1>18, <1>0 DEF late_start, Alone
  <2> QED
    BY Zenon, <1>18, <2>1, PastLate DEF late_start, flags, BeforeApic, BeforeWakeup,
       Calibrating
<1>19. ASSUME NEW c \in Core, OpenLate(c) PROVE IInv'
  <2>1. /\ Goto(c, "enter") /\ pc[c] = "late_ignition" /\ late'
    BY Zenon, <1>19, <1>0 DEF OpenLate, Alone, IInv, LateInv
  <2> QED
    BY Zenon, <1>19, <2>1, PastLate DEF OpenLate, flags, BeforeApic, BeforeWakeup,
       Calibrating
<1>20. ASSUME NEW c \in Core, latewait(c) PROVE IInv'
  <2>1. /\ Goto(c, "enter") /\ pc[c] = "latewait" /\ late'
    BY Zenon, <1>20 DEF latewait, flags, IInv, LateInv
  <2> QED
    BY Zenon, <1>20, <2>1, PastLate DEF latewait, flags, BeforeApic, BeforeWakeup,
       Calibrating
<1>21. ASSUME NEW c \in Core, event_loop(c) PROVE IInv'
  <2>1. /\ Goto(c, "event_loop") /\ pc[c] \in {"enter", "event_loop"} /\ late'
    BY Zenon, <1>21 DEF event_loop, flags, IInv, LateInv
  <2> QED
    BY Zenon, <1>21, <2>1, PastLate DEF event_loop, flags, BeforeApic, BeforeWakeup,
       Calibrating
<1>22. CASE UNCHANGED vars
  BY Zenon, <1>22 DEF vars, bootVars, initrdVars, acpiVars, flags, pitVars, IInv, PcInv,
     FlagInv, LateInv, PitType, PitInv
<1> QED
  BY Zenon, <1>1, <1>2, <1>3, <1>4, <1>5, <1>6, <1>6f, <1>7, <1>8, <1>9, <1>10, <1>11, <1>12,
     <1>13, <1>14, <1>15, <1>16, <1>17, <1>18, <1>19, <1>20, <1>21, <1>22
     DEF Next, Step

----------------------------------------------------------------------------
(* Quotient and remainder. *)
LEMMA Division ==
  ASSUME NEW x \in Nat, NEW p \in Nat \ {0}
  PROVE  /\ x \div p \in Nat /\ x % p \in 0..(p - 1)
         /\ x = p * (x \div p) + (x % p)
  OBVIOUS

(* Multiplication is monotonic. *)
LEMMA Times ==
  ASSUME NEW p \in Nat, NEW m \in Nat, NEW n \in Nat, m <= n
  PROVE  p * m \in Nat /\ p * n \in Nat /\ p * m <= p * n
  OBVIOUS

(* A number between two multiples that follow each other. *)
LEMMA Quotient ==
  ASSUME NEW x \in Nat, NEW p \in Nat \ {0}, NEW q \in Nat,
         p * q <= x, x < p * q + p
  PROVE  x \div p = q /\ x % p = x - p * q
<1> DEFINE d == x \div p
<1>1. d \in Nat /\ x % p \in 0..(p - 1) /\ x = p * d + (x % p)
  BY Zenon, Division
<1> HIDE DEF d
<1>2. p * (d + 1) = p * d + p /\ p * (q + 1) = p * q + p
  BY <1>1
<1>3. ~(d + 1 <= q)
  <2> SUFFICES ASSUME d + 1 <= q PROVE FALSE
    BY Zenon
  <2>1. p * (d + 1) <= p * q
    BY <1>1, Times
  <2>2. p * d \in Nat /\ p * q \in Nat
    BY <1>1
  <2> QED
    BY <1>1, <1>2, <2>1, <2>2
<1>4. ~(q + 1 <= d)
  <2> SUFFICES ASSUME q + 1 <= d PROVE FALSE
    BY Zenon
  <2>1. p * (q + 1) <= p * d
    BY <1>1, Times
  <2>2. p * d \in Nat /\ p * q \in Nat
    BY <1>1
  <2> QED
    BY <1>1, <1>2, <2>1, <2>2
<1>5. d = q
  BY <1>1, <1>3, <1>4
<1>6. p * q \in Nat
  OBVIOUS
<1> QED
  BY <1>1, <1>5, <1>6 DEF d

----------------------------------------------------------------------------
(* What the archive says of entry k: it names a path, and what is then found. *)
first == Archives[archive].first
Names(k, path) ==
  entries[k].path = path /\ ~entries[k].dot /\ entries[k].ftype \in {"0", "5"}
Leads(k) ==
  IF entries[k].ftype = "0"
  THEN [kind |-> "File", first |-> first[k] + 1, size |-> entries[k].size]
  ELSE [kind |-> "Directory"]

(* INITRD is what the entries before i say, the last one for each path. *)
FoundBefore(i) ==
  /\ \A path \in DOMAIN initrd :
       \E k \in 1..(i - 1) :
         /\ Names(k, path) /\ \A m \in (k + 1)..(i - 1) : ~Names(m, path)
         /\ entries[k].size \in Nat /\ initrd[path] = Leads(k)
  /\ \A k \in 1..(i - 1) :
       Names(k, entries[k].path) => entries[k].path \in DOMAIN initrd

(* The walk is at the header of an entry, or behind the last one, and does not end
   before that when the archive is whole. *)
Reached(i) ==
  /\ current_header = first[i] /\ FoundBefore(i)
  /\ reading = "done" /\ WholeArchive => i = Len(entries) + 1
WalkInv ==
  /\ archive \in DOMAIN Archives /\ reading \in {"walk", "done", "panic"}
  /\ \E i \in 1..(Len(entries) + 1) : Reached(i)

(* The archive in memory. *)
LEMMA TheArchive ==
  ASSUME archive \in DOMAIN Archives
  PROVE  /\ Len(entries) \in Nat /\ DOMAIN entries = 1..Len(entries)
         /\ first \in [1..(Len(entries) + 1) -> Nat \ {0}] /\ first[1] = 1
         /\ \A i \in 1..Len(entries) :
              /\ memory[first[i]] = Header(entries[i])
              /\ Len(entries[i].content) \in Nat
              /\ entries[i].size \in Nat =>
                   BLOCK * Len(entries[i].content)
                     \in entries[i].size..(entries[i].size + BLOCK - 1)
              /\ first[i + 1] = first[i] + 1 + Len(entries[i].content)
              /\ first[i] < first[Len(entries) + 1]
              /\ SubSeq(memory, first[i] + 1, first[i + 1] - 1) = entries[i].content
         /\ ~memory[first[Len(entries) + 1]].ustar
         /\ Len(memory) = first[Len(entries) + 1] + 1
         /\ initrd_size \in Nat
<1>1. IsArchive(Archives[archive])
  BY Zenon, ArchiveAssumption
<1> QED
  BY Zenon, <1>1 DEF IsArchive, entries, memory, first, initrd_size

(* The size in a header leads to the next header. *)
LEMMA NextHeader ==
  ASSUME archive \in DOMAIN Archives, NEW i \in 1..Len(entries), entries[i].size \in Nat
  PROVE  /\ ContentBlocks(entries[i].size) = Len(entries[i].content)
         /\ first[i] + 1 + ContentBlocks(entries[i].size) = first[i + 1]
<1> DEFINE n == Len(entries[i].content)
           z == entries[i].size
           x == z + BLOCK - 1
<1>1. /\ BLOCK \in Nat \ {0} /\ n \in Nat /\ z \in Nat /\ BLOCK * n \in z..(z + BLOCK - 1)
      /\ first[i + 1] = first[i] + 1 + n
  BY Zenon, TheArchive, ArchiveAssumption
<1>2. ContentBlocks(z) = x \div BLOCK
  BY Zenon DEF ContentBlocks
<1> HIDE DEF n, z
<1>3. x \in Nat /\ BLOCK * n <= x /\ x < BLOCK * n + BLOCK
  BY <1>1
<1> HIDE DEF x
<1>4. x \div BLOCK = n
  BY Zenon, <1>1, <1>3, Quotient
<1> QED
  BY Zenon, <1>1, <1>2, <1>4 DEF n, z

(* A whole archive is not over at a header. *)
LEMMA WholeGoesOn ==
  ASSUME archive \in DOMAIN Archives, NEW i \in 1..Len(entries), WholeArchive
  PROVE  first[i] * BLOCK <= initrd_size
<1> DEFINE a == first[i]
           z == Len(memory) - 2
<1>1. a \in Nat /\ z \in Nat /\ a <= z /\ initrd_size \in Nat
  <2>1. Len(entries) \in Nat
    BY Zenon, TheArchive
  <2>2. i \in 1..(Len(entries) + 1) /\ Len(entries) + 1 \in 1..(Len(entries) + 1)
    BY <2>1
  <2>3. first[i] \in Nat \ {0} /\ first[Len(entries) + 1] \in Nat \ {0}
    BY Zenon, <2>2, TheArchive
  <2>4. first[i] < first[Len(entries) + 1] /\ Len(memory) = first[Len(entries) + 1] + 1
    BY Zenon, TheArchive
  <2>5. initrd_size \in Nat
    BY Zenon, TheArchive
  <2> QED
    BY <2>3, <2>4, <2>5
<1>2. BLOCK \in Nat /\ initrd_size >= BLOCK * z
  BY Zenon, ArchiveAssumption DEF WholeArchive
<1> HIDE DEF a, z
<1>3. BLOCK * a \in Nat /\ BLOCK * z \in Nat /\ BLOCK * a <= BLOCK * z
  BY Zenon, <1>1, <1>2, Times
<1>4. a * BLOCK = BLOCK * a
  BY <1>1, <1>2
<1>5. a * BLOCK <= initrd_size
  BY <1>1, <1>2, <1>3, <1>4
<1> QED
  BY Zenon, <1>5 DEF a

(* init_map keeps the invariant. *)
LEMMA WalkStep ==
  ASSUME WalkInv, init_map
  PROVE  WalkInv'
<1> DEFINE n == Len(entries)
           h == memory[current_header]
<1>1. PICK i \in 1..(n + 1) : Reached(i)
  BY Zenon DEF WalkInv
<1>2. archive \in DOMAIN Archives /\ reading = "walk" /\ archive' = archive
  BY Zenon DEF WalkInv, init_map
<1>3. entries' = entries /\ first' = first /\ memory' = memory /\ initrd_size' = initrd_size
  BY Zenon, <1>2 DEF entries, first, memory, initrd_size
<1>4. n \in Nat /\ current_header = first[i]
  BY Zenon, <1>1, <1>2, TheArchive DEF Reached
<1>5. CASE current_header * BLOCK > initrd_size \/ ~h.ustar
  <2>1. reading' = "done" /\ UNCHANGED <<current_header, initrd>>
    BY Zenon, <1>5 DEF init_map
  <2>2. ASSUME WholeArchive, i # n + 1 PROVE FALSE
    <3>1. i \in 1..n
      BY <1>4, <2>2
    <3>2. h = Header(entries[i])
      BY Zenon, <1>2, <1>4, <3>1, TheArchive
    <3>3. h.ustar
      BY <3>2 DEF Header
    <3>4. current_header * BLOCK <= initrd_size /\ initrd_size \in Nat
      <4>1. first[i] * BLOCK <= initrd_size
        BY Zenon, <1>2, <2>2, <3>1, WholeGoesOn
      <4>2. initrd_size \in Nat
        BY Zenon, <1>2, TheArchive
      <4> QED
        BY Zenon, <1>4, <4>1, <4>2
    <3>5. current_header * BLOCK \in Nat
      <4>1. i \in 1..(n + 1)
        BY Zenon
      <4>2. first[i] \in Nat
        BY Zenon, <1>2, <4>1, TheArchive
      <4> QED
        BY <1>4, <4>2, ArchiveAssumption
    <3> QED
      BY <1>5, <3>3, <3>4, <3>5
  <2>3. WholeArchive' = WholeArchive
    BY Zenon, <1>3 DEF WholeArchive
  <2>4. FoundBefore(i)'
    BY <1>1, <1>3, <2>1 DEF Reached, FoundBefore, Names, Leads
  <2>5. Reached(i)'
    BY Zenon, <1>3, <1>4, <2>1, <2>2, <2>3, <2>4 DEF Reached
  <2> QED
    BY Zenon, <1>1, <1>2, <1>3, <2>1, <2>5 DEF WalkInv
<1>6. CASE ~(current_header * BLOCK > initrd_size \/ ~h.ustar) /\ ~Unwraps(h)
  <2>1. reading' = "panic" /\ UNCHANGED <<current_header, initrd>>
    BY Zenon, <1>6 DEF init_map
  <2>2. FoundBefore(i)'
    BY <1>1, <1>3, <2>1 DEF Reached, FoundBefore, Names, Leads
  <2>3. Reached(i)'
    BY Zenon, <1>3, <1>4, <2>1, <2>2 DEF Reached
  <2> QED
    BY Zenon, <1>1, <1>2, <1>3, <2>1, <2>3 DEF WalkInv
<1>7. CASE ~(current_header * BLOCK > initrd_size \/ ~h.ustar) /\ Unwraps(h)
  <2>1. /\ current_header' = current_header + 1 + ContentBlocks(h.size)
        /\ initrd' = Insert(h, current_header) /\ reading' = reading
    BY Zenon, <1>7 DEF init_map
  <2>2. i \in 1..n
    <3>1. i # n + 1
      BY Zenon, <1>2, <1>4, <1>7, TheArchive
    <3> QED
      BY <1>4, <3>1
  <2> DEFINE e == entries[i]
  <2>3. h = Header(e)
    BY Zenon, <1>2, <1>4, <2>2, TheArchive
  <2>4. /\ h.size = e.size /\ h.path = e.path /\ h.dot = e.dot /\ h.ftype = e.ftype
    BY <2>3 DEF Header
  <2>5. e.size \in Nat
    BY Zenon, <1>7, <2>4 DEF Unwraps
  <2>6. current_header' = first[i + 1]
    BY Zenon, <1>2, <1>4, <2>1, <2>2, <2>4, <2>5, NextHeader
  <2>7. entry_type(h) = (IF e.ftype = "0" THEN "File" ELSE IF e.ftype = "5" THEN "Directory" ELSE "None")
    BY Zenon, <2>4 DEF entry_type
  <2>8. Names(i, e.path) <=> ~(entry_type(h) = "None" \/ h.dot)
    BY Zenon, <2>4, <2>7 DEF Names
  <2>9. (i + 1) - 1 = i /\ i \in Nat /\ i + 1 \in 1..(n + 1) /\ i \in 1..((i + 1) - 1)
    BY <2>2, <1>4
  <2>10. ASSUME ~Names(i, e.path) PROVE FoundBefore(i + 1)'
    <3>1. initrd' = initrd
      BY Zenon, <2>1, <2>8, <2>10 DEF Insert
    <3>2. \A path : ~Names(i, path)
      BY Zenon, <2>10 DEF Names
    <3>3. ASSUME NEW path \in DOMAIN initrd
          PROVE  \E k \in 1..i :
                   /\ Names(k, path) /\ \A m \in (k + 1)..i : ~Names(m, path)
                   /\ entries[k].size \in Nat /\ initrd[path] = Leads(k)
      <4>1. PICK k \in 1..(i - 1) :
              /\ Names(k, path) /\ \A m \in (k + 1)..(i - 1) : ~Names(m, path)
              /\ entries[k].size \in Nat /\ initrd[path] = Leads(k)
        BY Zenon, <1>1 DEF Reached, FoundBefore
      <4>2. \A m \in (k + 1)..i : m \in (k + 1)..(i - 1) \/ m = i
        BY <2>9
      <4>3. k \in 1..i
        BY <2>9
      <4> QED
        BY Zenon, <3>2, <4>1, <4>2, <4>3
    <3>4. \A k \in 1..i : k \in 1..(i - 1) \/ k = i
      BY <2>9
    <3>5. \A k \in 1..i : Names(k, entries[k].path) => entries[k].path \in DOMAIN initrd
      BY <1>1, <3>2, <3>4 DEF Reached, FoundBefore
    <3> QED
      BY <1>3, <2>9, <3>1, <3>3, <3>5 DEF FoundBefore, Names, Leads
  <2>11. ASSUME Names(i, e.path) PROVE FoundBefore(i + 1)'
    <3>1. initrd' = [p \in DOMAIN initrd \cup {e.path} |->
                       IF p # e.path THEN initrd[p] ELSE Leads(i)]
      <4>1. e.ftype \in {"0", "5"}
        BY Zenon, <2>11 DEF Names
      <4>2. (IF entry_type(h) = "File" THEN content(h, current_header)
             ELSE [kind |-> "Directory"]) = Leads(i)
        BY Zenon, <1>4, <2>4, <2>7, <4>1 DEF Leads, content
      <4>3. Insert(h, current_header) =
              [p \in DOMAIN initrd \cup {h.path} |->
                 IF p # h.path THEN initrd[p]
                 ELSE IF entry_type(h) = "File" THEN content(h, current_header)
                 ELSE [kind |-> "Directory"]]
        BY Zenon, <2>8, <2>11 DEF Insert
      <4> QED
        BY Zenon, <2>1, <2>4, <4>2, <4>3
    <3>2. ASSUME NEW path \in DOMAIN initrd'
          PROVE  \E k \in 1..i :
                   /\ Names(k, path) /\ \A m \in (k + 1)..i : ~Names(m, path)
                   /\ entries[k].size \in Nat /\ initrd'[path] = Leads(k)
      <4>1. CASE path = e.path
        <5>1. initrd'[path] = Leads(i)
          BY Zenon, <3>1, <4>1
        <5>2. \A m \in (i + 1)..i : FALSE
          BY <2>9
        <5> QED
          BY Zenon, <2>5, <2>9, <2>11, <4>1, <5>1, <5>2
      <4>2. CASE path # e.path
        <5>1. path \in DOMAIN initrd /\ initrd'[path] = initrd[path]
          BY Zenon, <3>1, <4>2
        <5>2. PICK k \in 1..(i - 1) :
                /\ Names(k, path) /\ \A m \in (k + 1)..(i - 1) : ~Names(m, path)
                /\ entries[k].size \in Nat /\ initrd[path] = Leads(k)
          BY Zenon, <1>1, <5>1 DEF Reached, FoundBefore
        <5>3. \A m \in (k + 1)..i : m \in (k + 1)..(i - 1) \/ m = i
          BY <2>9
        <5>4. k \in 1..i /\ ~Names(i, path)
          BY <2>9, <4>2 DEF Names
        <5> QED
          BY Zenon, <5>1, <5>2, <5>3, <5>4
      <4> QED
        BY Zenon, <4>1, <4>2
    <3>3. \A k \in 1..i : k \in 1..(i - 1) \/ k = i
      BY <2>9
    <3>4. \A k \in 1..i : Names(k, entries[k].path) => entries[k].path \in DOMAIN initrd'
      BY Zenon, <1>1, <3>1, <3>3 DEF Reached, FoundBefore
    <3> QED
      BY Zenon, <1>3, <2>9, <3>2, <3>4 DEF FoundBefore, Names, Leads
  <2>12. Reached(i + 1)'
    BY Zenon, <1>2, <1>3, <2>1, <2>6, <2>10, <2>11 DEF Reached
  <2> QED
    BY Zenon, <1>2, <1>3, <2>1, <2>9, <2>12 DEF WalkInv
<1> QED
  BY Zenon, <1>5, <1>6, <1>7

(* What the walk has found when it is over. *)
LEMMA WalkFinds ==
  ASSUME WalkInv
  PROVE  FilesFound
<1> SUFFICES ASSUME reading = "done", WholeArchive, NEW j \in DOMAIN entries
             PROVE  open_file(entries[j].path) = Archived(entries[j].path)
  BY Zenon DEF FilesFound
<1> DEFINE n == Len(entries)
           path == entries[j].path
           named == {k \in DOMAIN entries : Names(k, path)}
<1>1. archive \in DOMAIN Archives
  BY Zenon DEF WalkInv
<1>2. n \in Nat /\ DOMAIN entries = 1..n /\ (n + 1) - 1 = n
  BY <1>1, TheArchive
<1>3. FoundBefore(n + 1)
  BY Zenon DEF WalkInv, Reached
<1>4. Archived(path) = IF named = {} \/ entries[Max(named)].ftype = "5" THEN <<>>
                       ELSE <<entries[Max(named)].content>>
  BY Zenon DEF Archived, Names
<1>5. CASE path \in DOMAIN initrd
  <2>1. PICK k \in 1..n :
          /\ Names(k, path) /\ \A m \in (k + 1)..n : ~Names(m, path)
          /\ entries[k].size \in Nat /\ initrd[path] = Leads(k)
    BY Zenon, <1>2, <1>3, <1>5 DEF FoundBefore
  <2>2. k \in named
    BY Zenon, <1>2, <2>1
  <2>3. \A m \in named : m \in 1..n /\ ~(m \in (k + 1)..n)
    BY Zenon, <1>2, <2>1
  <2>4. \A m \in named : m \in Nat /\ k >= m
    BY <1>2, <2>3
  <2> HIDE DEF named
  <2>5. Max(named) = k
    <3>1. \A x \in named : (\A y \in named : x >= y) => x = k
      BY <2>2, <2>4
    <3>2. \A y \in named : k >= y
      BY Zenon, <2>4
    <3> QED
      BY Zenon, <2>2, <3>1, <3>2 DEF Max
  <2>6. CASE entries[k].ftype = "0"
    <3>1. initrd[path] = [kind |-> "File", first |-> first[k] + 1, size |-> entries[k].size]
      BY Zenon, <2>1, <2>6 DEF Leads
    <3>2. open_file(path) =
            <<SubSeq(memory, first[k] + 1, first[k] + 1 + ContentBlocks(entries[k].size) - 1)>>
      <4>1. /\ initrd[path].kind = "File" /\ initrd[path].first = first[k] + 1
            /\ initrd[path].size = entries[k].size
        BY <3>1
      <4> QED
        BY Zenon, <1>5, <4>1 DEF open_file
    <3>3. first[k] + 1 + ContentBlocks(entries[k].size) - 1 = first[k + 1] - 1
      <4>1. first[k] + 1 + ContentBlocks(entries[k].size) = first[k + 1]
        BY Zenon, <1>1, <2>1, NextHeader
      <4>2. ContentBlocks(entries[k].size) \in Nat
        BY Zenon, <1>1, <2>1, NextHeader, TheArchive
      <4>3. k \in 1..(n + 1)
        BY <1>2
      <4>4. first[k] \in Nat
        BY Zenon, <1>1, <4>3, TheArchive
      <4> DEFINE a == first[k]
                 b == first[k + 1]
                 d == ContentBlocks(entries[k].size)
      <4>5. a \in Nat /\ d \in Nat /\ a + 1 + d = b
        BY Zenon, <4>1, <4>2, <4>4
      <4> HIDE DEF a, b, d
      <4>6. a + 1 + d - 1 = b - 1
        BY <4>5
      <4> QED
        BY Zenon, <4>6 DEF a, b, d
    <3>4. SubSeq(memory, first[k] + 1, first[k + 1] - 1) = entries[k].content
      BY Zenon, <1>1, TheArchive
    <3>5. open_file(path) = <<entries[k].content>>
      BY Zenon, <3>2, <3>3, <3>4
    <3> QED
      BY Zenon, <1>4, <2>2, <2>5, <2>6, <3>5
  <2>7. CASE entries[k].ftype # "0"
    <3>1. initrd[path] = [kind |-> "Directory"] /\ entries[k].ftype = "5"
      BY Zenon, <2>1, <2>7 DEF Leads, Names
    <3>2. open_file(path) = <<>>
      BY <3>1 DEF open_file
    <3> QED
      BY Zenon, <1>4, <2>5, <3>1, <3>2
  <2> QED
    BY Zenon, <2>6, <2>7
<1>6. CASE path \notin DOMAIN initrd
  <2>1. named = {}
    BY <1>2, <1>3, <1>6 DEF FoundBefore, Names
  <2>2. open_file(path) = <<>>
    BY Zenon, <1>6 DEF open_file
  <2> QED
    BY Zenon, <1>4, <2>1, <2>2
<1> QED
  BY Zenon, <1>5, <1>6

----------------------------------------------------------------------------
(* What a table of a layout is. *)
IsTable(t) == t.adr \in Nat /\ t.len \in Nat \ {0}

(* A table has a page at least, and one that begins at a page has as many frames
   as map_table maps. *)
LEMMA TablePages ==
  ASSUME NEW t, IsTable(t)
  PROVE  /\ FirstFrame(t) \in Nat /\ LastFrame(t) \in Nat /\ MappedPages(t) \in Nat \ {0}
         /\ t.adr % PAGE_SIZE \in 0..(PAGE_SIZE - 1)
         /\ t.adr = PAGE_SIZE * FirstFrame(t) + (t.adr % PAGE_SIZE)
         /\ t.adr % PAGE_SIZE = 0 => LastFrame(t) = FirstFrame(t) + MappedPages(t) - 1
         /\ (t.adr % PAGE_SIZE) + t.len <= PAGE_SIZE => LastFrame(t) = FirstFrame(t)
<1> DEFINE P == PAGE_SIZE
           a == t.adr
           n == t.len
<1>1. P \in Nat \ {0} /\ a \in Nat /\ n \in Nat \ {0}
  BY Zenon, AcpiAssumption DEF IsTable
<1>2. /\ FirstFrame(t) = a \div P /\ LastFrame(t) = (a + n - 1) \div P
      /\ MappedPages(t) = (n + P - 1) \div P
  BY Zenon DEF FirstFrame, LastFrame, MappedPages
<1> HIDE DEF P, a, n
<1> DEFINE f == a \div P
           o == a % P
<1>3. f \in Nat /\ o \in 0..(P - 1) /\ a = P * f + o
  BY Zenon, <1>1, Division
<1> DEFINE q == (n - 1) \div P
           r == (n - 1) % P
<1>4. q \in Nat /\ r \in 0..(P - 1) /\ n - 1 = P * q + r
  <2>1. n - 1 \in Nat
    BY <1>1
  <2> QED
    BY Zenon, <1>1, <2>1, Division
<1>5. (a + n - 1) \in Nat /\ (n + P - 1) \in Nat
  BY <1>1
<1>6. (a + n - 1) \div P \in Nat
  BY Zenon, <1>1, <1>5, Division
<1> HIDE DEF f, o, q, r
<1>7. (n + P - 1) \div P = q + 1
  <2>1. P * (q + 1) = P * q + P /\ P * q \in Nat
    BY <1>1, <1>4
  <2>2. P * (q + 1) <= n + P - 1 /\ n + P - 1 < P * (q + 1) + P
    BY <1>1, <1>4, <2>1
  <2>3. q + 1 \in Nat
    BY <1>4
  <2> QED
    BY Zenon, <1>1, <1>5, <2>2, <2>3, Quotient
<1>8. ASSUME o = 0 PROVE (a + n - 1) \div P = f + q
  <2>1. P * (f + q) = P * f + P * q /\ P * q \in Nat /\ P * f \in Nat
    BY <1>1, <1>3, <1>4
  <2>2. P * (f + q) <= a + n - 1 /\ a + n - 1 < P * (f + q) + P
    BY <1>1, <1>3, <1>4, <1>8, <2>1
  <2>3. f + q \in Nat
    BY <1>3, <1>4
  <2> QED
    BY Zenon, <1>1, <1>5, <2>2, <2>3, Quotient
<1>9. ASSUME o + n <= P PROVE (a + n - 1) \div P = f
  <2>1. P * f \in Nat
    BY <1>1, <1>3
  <2>2. P * f <= a + n - 1 /\ a + n - 1 < P * f + P
    BY <1>1, <1>3, <1>9, <2>1
  <2> QED
    BY Zenon, <1>1, <1>3, <1>5, <2>2, Quotient
<1>10. f = a \div P /\ o = a % P
  BY Zenon DEF f, o
<1>11. /\ FirstFrame(t) = f /\ LastFrame(t) \in Nat /\ MappedPages(t) = q + 1
       /\ o = 0 => LastFrame(t) = f + q
       /\ o + n <= P => LastFrame(t) = f
  BY Zenon, <1>2, <1>6, <1>7, <1>8, <1>9, <1>10
<1>12. o = t.adr % PAGE_SIZE
  BY Zenon, <1>10 DEF a, P
<1> QED
  BY <1>3, <1>4, <1>11, <1>12 DEF a, n, P

(* The frame f is mapped by vmemmap vm, and in the window w the pages from there
   show as many frames as some table that begins in f has pages. *)
Serves(f, vm, w) ==
  \E i \in DOMAIN tables :
    /\ FirstFrame(tables[i]) = f /\ vm[f] \in Nat
    /\ \A j \in 0..(MappedPages(tables[i]) - 1) :
         vm[f] + j \in DOMAIN w /\ w[vm[f] + j] = f + j

(* The window: the pages in use are below pgindex, what vmemmap says of a frame
   is true, and the XSDT stays mapped while its entries are read. *)
WindowInv ==
  /\ layout \in DOMAIN Layouts /\ index \in 1..(Len(tables) + 1)
  /\ pgindex \in Nat /\ \A p \in DOMAIN window : p \in Nat /\ p < pgindex
  /\ \A f \in DOMAIN vmemmap : Serves(f, vmemmap, window)
  /\ index >= 2 => FirstFrame(tables[1]) \in DOMAIN vmemmap

(* The tables of this machine. *)
LEMMA TheTables ==
  ASSUME layout \in DOMAIN Layouts
  PROVE  /\ Len(tables) \in Nat \ {0} /\ DOMAIN tables = 1..Len(tables)
         /\ \A i \in DOMAIN tables : IsTable(tables[i])
         /\ \A i, j \in DOMAIN tables :
              \/ tables[i].adr + tables[i].len <= tables[j].adr
              \/ tables[j].adr + tables[j].len <= tables[i].adr
              \/ tables[i].adr = tables[j].adr /\ tables[i].len = tables[j].len
  BY Zenon, AcpiAssumption DEF tables, IsTable

(* A well placed table whose first frame is mapped is shown whole, though the
   pages may have been mapped for another table. *)
LEMMA ShownWhole ==
  ASSUME layout \in DOMAIN Layouts, NEW i \in DOMAIN tables, WellPlaced(tables[i]),
         NEW vm, NEW w, Serves(FirstFrame(tables[i]), vm, w)
  PROVE  Whole(tables[i], vm[FirstFrame(tables[i])], w)
<1> DEFINE t == tables[i]
           f == FirstFrame(t)
           P == PAGE_SIZE
<1>1. PICK k \in DOMAIN tables :
        /\ FirstFrame(tables[k]) = f /\ vm[f] \in Nat
        /\ \A j \in 0..(MappedPages(tables[k]) - 1) :
             vm[f] + j \in DOMAIN w /\ w[vm[f] + j] = f + j
  BY Zenon DEF Serves
<1> DEFINE u == tables[k]
<1>2. IsTable(t) /\ IsTable(u)
  BY Zenon, TheTables
<1>3. \/ t.adr + t.len <= u.adr \/ u.adr + u.len <= t.adr
      \/ t.adr = u.adr /\ t.len = u.len
  BY Zenon, TheTables
<1>p. P \in Nat \ {0}
  BY Zenon, AcpiAssumption
<1>4. /\ f \in Nat /\ LastFrame(t) \in Nat /\ MappedPages(t) \in Nat \ {0}
      /\ t.adr % P \in 0..(P - 1) /\ t.adr = P * f + (t.adr % P)
      /\ t.adr % P = 0 => LastFrame(t) = f + MappedPages(t) - 1
      /\ (t.adr % P) + t.len <= P => LastFrame(t) = f
  BY Zenon, <1>2, TablePages
<1>5. /\ MappedPages(u) \in Nat \ {0}
      /\ u.adr % P \in 0..(P - 1) /\ u.adr = P * f + (u.adr % P)
  BY Zenon, <1>1, <1>2, TablePages
<1>6. WellPlaced(t) /\ t.adr \in Nat /\ t.len \in Nat \ {0} /\ u.adr \in Nat
      /\ u.len \in Nat \ {0}
  BY Zenon, <1>2 DEF IsTable
<1>7. P * f \in Nat
  BY <1>4, <1>p
<1>8. MappedPages(t) = MappedPages(u) \/ t.adr # u.adr \/ t.len # u.len
  BY Zenon DEF MappedPages
<1> HIDE DEF t, u, f, P
<1>9. LastFrame(t) - f \in 0..(MappedPages(u) - 1)
  <2>1. CASE (t.adr % P) + t.len <= P
    BY <2>1, <1>4, <1>5
  <2>2. CASE ~((t.adr % P) + t.len <= P)
    <3>1. t.adr % P = 0
      BY Zenon, <1>6, <2>2 DEF WellPlaced, P
    <3>2. t.adr = u.adr /\ t.len = u.len
      <4> DEFINE b == P * f
                 o == u.adr % P
                 r == t.adr % P
      <4>1. b \in Nat /\ o \in 0..(P - 1) /\ u.adr = b + o
        BY Zenon, <1>5, <1>7
      <4>2. t.adr = b + r /\ r = 0 /\ ~(r + t.len <= P)
        BY Zenon, <1>4, <2>2, <3>1
      <4> HIDE DEF b, o, r
      <4>3. t.adr = b /\ P < t.len
        BY <1>6, <1>p, <4>1, <4>2
      <4> QED
        BY <1>3, <1>6, <1>p, <4>1, <4>3
    <3> QED
      BY <1>4, <1>5, <1>8, <3>1, <3>2
  <2> QED
    BY Zenon, <2>1, <2>2
<1> DEFINE p == vm[f]
<1>10. p \in Nat /\ FirstFrame(t) = f
  BY Zenon, <1>1 DEF f
<1>11. \A q \in Through(t, p) : q \in DOMAIN w /\ w[q] = f + q - p
  <2> SUFFICES ASSUME NEW q \in Through(t, p) PROVE q \in DOMAIN w /\ w[q] = f + q - p
    BY Zenon
  <2>1. q - p \in 0..(MappedPages(u) - 1) /\ p + (q - p) = q /\ q \in Nat
    BY <1>4, <1>5, <1>9, <1>10 DEF Through
  <2>2. p + (q - p) \in DOMAIN w /\ w[p + (q - p)] = f + (q - p)
    BY Zenon, <1>1, <2>1 DEF u
  <2> QED
    BY Zenon, <1>4, <1>10, <2>1, <2>2
<1>12. Whole(t, p, w)
  BY Zenon, <1>10, <1>11 DEF Whole, Mapped
<1> QED
  BY Zenon, <1>12 DEF t, f

(* getvadr keeps what was mapped, and maps a table that was not. *)
LEMMA GetvadrKeeps ==
  ASSUME WindowInv, NEW i \in DOMAIN tables, getvadr(tables[i]), UNCHANGED layout
  PROVE  /\ pgindex' \in Nat /\ \A p \in DOMAIN window' : p \in Nat /\ p < pgindex'
         /\ \A f \in DOMAIN vmemmap' : Serves(f, vmemmap', window')
         /\ DOMAIN vmemmap \subseteq DOMAIN vmemmap'
         /\ FirstFrame(tables[i]) \in DOMAIN vmemmap'
<1> DEFINE t == tables[i]
           g == FirstFrame(t)
<1>1. CASE g \in DOMAIN vmemmap
  BY Zenon, <1>1 DEF getvadr, WindowInv
<1>2. CASE g \notin DOMAIN vmemmap
  <2> DEFINE n == MappedPages(t)
             new == pgindex..(pgindex + n - 1)
  <2>1. /\ window' = [p \in DOMAIN window \cup new |->
                        IF p \in new THEN g + p - pgindex ELSE window[p]]
        /\ pgindex' = pgindex + (1 + (n - 1))
        /\ vmemmap' = [f \in DOMAIN vmemmap \cup {g} |->
                         IF f = g THEN pgindex ELSE vmemmap[f]]
    BY Zenon, <1>2 DEF getvadr, MapTable, PagesUsed
  <2>2. g \in Nat /\ n \in Nat \ {0}
    BY Zenon, TheTables, TablePages DEF WindowInv
  <2>3. pgindex \in Nat /\ \A p \in DOMAIN window : p \in Nat /\ p < pgindex
    BY Zenon DEF WindowInv
  <2>4. FirstFrame(tables[i]) = g /\ MappedPages(tables[i]) = n
    BY Zenon
  <2> HIDE DEF t, g, n
  <2>5. pgindex' \in Nat /\ \A p \in DOMAIN window' : p \in Nat /\ p < pgindex'
    BY <2>1, <2>2, <2>3
  <2>6. ASSUME NEW f \in DOMAIN vmemmap' PROVE Serves(f, vmemmap', window')
    <3>1. CASE f = g
      <4>1. vmemmap'[f] = pgindex
        BY Zenon, <2>1, <3>1
      <4>2. \A j \in 0..(n - 1) : pgindex + j \in new
        BY <2>2, <2>3
      <4>3. \A j \in 0..(n - 1) :
              pgindex + j \in DOMAIN window' /\ window'[pgindex + j] = g + j
        BY <2>1, <2>2, <2>3, <4>2
      <4> QED
        BY Zenon, <2>3, <2>4, <3>1, <4>1, <4>3 DEF Serves
    <3>2. CASE f # g
      <4>1. f \in DOMAIN vmemmap /\ vmemmap'[f] = vmemmap[f]
        BY Zenon, <2>1, <3>2
      <4>2. PICK k \in DOMAIN tables :
              /\ FirstFrame(tables[k]) = f /\ vmemmap[f] \in Nat
              /\ \A j \in 0..(MappedPages(tables[k]) - 1) :
                   vmemmap[f] + j \in DOMAIN window /\ window[vmemmap[f] + j] = f + j
        BY Zenon, <4>1 DEF WindowInv, Serves
      <4>3. \A p \in DOMAIN window : p \in DOMAIN window' /\ window'[p] = window[p]
        BY <2>1, <2>2, <2>3
      <4>4. \A j \in 0..(MappedPages(tables[k]) - 1) :
              vmemmap'[f] + j \in DOMAIN window' /\ window'[vmemmap'[f] + j] = f + j
        BY Zenon, <4>1, <4>2, <4>3
      <4> QED
        BY Zenon, <4>1, <4>2, <4>4 DEF Serves
    <3> QED
      BY Zenon, <3>1, <3>2
  <2> QED
    BY Zenon, <2>1, <2>4, <2>5, <2>6
<1> QED
  BY Zenon, <1>1, <1>2

(* Read leaves a well placed table out of torn when its first frame is mapped. *)
LEMMA ReadsWell ==
  ASSUME layout \in DOMAIN Layouts, TablesRead, NEW i \in DOMAIN tables, NEW next, NEW skip,
         Read(tables[i], next, skip),
         Serves(FirstFrame(tables[i]), vmemmap', window')
  PROVE  TablesRead'
<1>1. CASE WellPlaced(tables[i])
  <2>1. Whole(tables[i], vmemmap'[FirstFrame(tables[i])], window')
    BY Zenon, <1>1, ShownWhole
  <2> QED
    BY Zenon, <2>1 DEF Read, TablesRead
<1>2. CASE ~WellPlaced(tables[i])
  <2>1. torn' \subseteq torn \cup {tables[i]}
    BY Zenon DEF Read
  <2> QED
    BY Zenon, <1>2, <2>1 DEF TablesRead
<1> QED
  BY Zenon, <1>1, <1>2

(* The walk keeps the window and reads every well placed table whole. *)
LEMMA WalkKeeps ==
  ASSUME WindowInv, TablesRead, acpi_init
  PROVE  WindowInv' /\ TablesRead'
<1>1. ASSUME VisitXsdt PROVE WindowInv' /\ TablesRead'
  <2>1. /\ layout' = layout /\ index' = 2 /\ getvadr(tables[1])
        /\ Read(tables[1], "xsdt", "done")
    BY Zenon, <1>1 DEF VisitXsdt
  <2>2. layout \in DOMAIN Layouts
    BY Zenon DEF WindowInv
  <2>3. 1 \in DOMAIN tables /\ 2 \in 1..(Len(tables) + 1)
    BY <2>2, TheTables
  <2>4. tables' = tables
    BY Zenon, <2>1 DEF tables
  <2>5. /\ pgindex' \in Nat /\ \A p \in DOMAIN window' : p \in Nat /\ p < pgindex'
        /\ \A f \in DOMAIN vmemmap' : Serves(f, vmemmap', window')
        /\ FirstFrame(tables[1]) \in DOMAIN vmemmap'
    BY Zenon, <2>1, <2>3, GetvadrKeeps
  <2>6. TablesRead'
    BY Zenon, <2>1, <2>2, <2>3, <2>5, ReadsWell
  <2>7. \A f \in DOMAIN vmemmap' : Serves(f, vmemmap, window)'
    BY Zenon, <2>4, <2>5 DEF Serves
  <2> QED
    BY Zenon, <2>1, <2>2, <2>3, <2>4, <2>5, <2>6, <2>7 DEF WindowInv
<1>2. ASSUME VisitTable PROVE WindowInv' /\ TablesRead'
  <2> DEFINE x == tables[1]
  <2>1. layout' = layout /\ index \in 2..Len(tables)
    BY Zenon, <1>2 DEF VisitTable
  <2>2. layout \in DOMAIN Layouts
    BY Zenon DEF WindowInv
  <2>3. /\ 1 \in DOMAIN tables /\ index \in DOMAIN tables /\ index >= 2
        /\ index + 1 \in 1..(Len(tables) + 1) /\ index + 1 >= 2
    BY <2>1, <2>2, TheTables
  <2>4. tables' = tables
    BY Zenon, <2>1 DEF tables
  <2>5. FirstFrame(x) \in DOMAIN vmemmap
    BY Zenon, <2>3 DEF WindowInv
  <2>6. CASE ~Whole(x, vmemmap[FirstFrame(x)], window)
    <3>1. torn' = torn \cup {x} /\ UNCHANGED <<index, vmemmap, pgindex, window>>
      BY Zenon, <1>2, <2>6 DEF VisitTable
    <3>2. Serves(FirstFrame(x), vmemmap, window)
      BY Zenon, <2>5 DEF WindowInv
    <3>3. ~WellPlaced(x)
      BY Zenon, <2>2, <2>3, <2>6, <3>2, ShownWhole
    <3>4. TablesRead'
      BY Zenon, <3>1, <3>3 DEF TablesRead
    <3> QED
      BY <2>1, <2>4, <3>1, <3>4 DEF WindowInv, Serves
  <2>7. CASE Whole(x, vmemmap[FirstFrame(x)], window)
    <3>1. PICK next : getvadr(tables[index]) /\ Read(tables[index], next, "xsdt")
      BY Zenon, <1>2, <2>7 DEF VisitTable
    <3>2. index' = index + 1
      BY Zenon, <1>2, <2>7 DEF VisitTable
    <3>3. /\ pgindex' \in Nat /\ \A p \in DOMAIN window' : p \in Nat /\ p < pgindex'
          /\ \A f \in DOMAIN vmemmap' : Serves(f, vmemmap', window')
          /\ DOMAIN vmemmap \subseteq DOMAIN vmemmap'
          /\ FirstFrame(tables[index]) \in DOMAIN vmemmap'
      BY Zenon, <2>1, <2>3, <3>1, GetvadrKeeps
    <3>4. TablesRead'
      BY Zenon, <2>2, <2>3, <3>1, <3>3, ReadsWell
    <3>5. \A f \in DOMAIN vmemmap' : Serves(f, vmemmap, window)'
      BY Zenon, <2>4, <3>3 DEF Serves
    <3> QED
      BY Zenon, <2>1, <2>2, <2>3, <2>4, <2>5, <3>2, <3>3, <3>4, <3>5 DEF WindowInv
  <2> QED
    BY Zenon, <2>6, <2>7
<1>3. ASSUME VisitEnd \/ MadtEntry \/ MadtEnd PROVE WindowInv' /\ TablesRead'
  <2>1. UNCHANGED <<layout, index, vmemmap, pgindex, window, torn>>
    BY Zenon, <1>3 DEF VisitEnd, MadtEntry, MadtEnd
  <2> QED
    BY <2>1 DEF WindowInv, TablesRead, Serves, tables
<1> QED
  BY Zenon, <1>1, <1>2, <1>3 DEF acpi_init

----------------------------------------------------------------------------
(* A walk that has reached the header of an entry has the types it should. *)
LEMMA InitrdTypes ==
  ASSUME WalkInv
  PROVE  InitrdTypeOK
<1> DEFINE n == Len(entries)
<1>1. PICK i \in 1..(n + 1) : Reached(i)
  BY Zenon DEF WalkInv
<1>2. archive \in DOMAIN Archives
  BY Zenon DEF WalkInv
<1>3. /\ n \in Nat /\ first \in [1..(n + 1) -> Nat \ {0}]
      /\ \A k \in 1..n : first[k] < first[n + 1]
      /\ Len(memory) = first[n + 1] + 1
  BY Zenon, <1>2, TheArchive
<1> HIDE DEF n
<1>4. current_header = first[i]
  BY Zenon, <1>1 DEF Reached
<1>5. first[i] \in Nat \ {0} /\ first[n + 1] \in Nat /\ first[i] <= first[n + 1]
  BY <1>1, <1>3
<1>6. current_header \in 1..(Len(memory) + 1)
  BY <1>3, <1>4, <1>5
<1>7. ASSUME NEW p \in DOMAIN initrd PROVE initrd[p].kind \in {"File", "Directory"}
  <2>1. PICK k : initrd[p] = Leads(k)
    BY Zenon, <1>1 DEF Reached, FoundBefore
  <2> QED
    BY <2>1 DEF Leads
<1> QED
  BY Zenon, <1>6, <1>7 DEF InitrdTypeOK, WalkInv

(* getvadr maps frames. *)
LEMMA MapsFrames ==
  ASSUME WindowInv, AcpiTypeOK, NEW i \in DOMAIN tables, getvadr(tables[i])
  PROVE  \A p \in DOMAIN window' : window'[p] \in Nat
<1> DEFINE g == FirstFrame(tables[i])
           n == MappedPages(tables[i])
           new == pgindex..(pgindex + n - 1)
<1>1. CASE g \in DOMAIN vmemmap
  BY Zenon, <1>1 DEF getvadr, AcpiTypeOK
<1>2. CASE g \notin DOMAIN vmemmap
  <2>1. window' = [p \in DOMAIN window \cup new |->
                     IF p \in new THEN g + p - pgindex ELSE window[p]]
    BY Zenon, <1>2 DEF getvadr, MapTable
  <2>2. g \in Nat /\ n \in Nat \ {0} /\ pgindex \in Nat
    BY Zenon, TheTables, TablePages DEF WindowInv
  <2>3. \A p \in DOMAIN window : window[p] \in Nat
    BY Zenon DEF AcpiTypeOK
  <2> HIDE DEF g, n
  <2> QED
    BY <2>1, <2>2, <2>3
<1> QED
  BY Zenon, <1>1, <1>2

(* The walk of the tables keeps its types. *)
LEMMA AcpiTypes ==
  ASSUME WindowInv, AcpiTypeOK, acpi_init, WindowInv'
  PROVE  AcpiTypeOK'
<1> DEFINE Walks == {"xsdt", "madt", "done", "fault", "garbage", "panic_ioapic"}
<1>1. layout \in DOMAIN Layouts /\ walk \in Walks /\ numcores \in Nat
  BY Zenon DEF WindowInv, AcpiTypeOK
<1>2. ASSUME NEW t, NEW next \in Walks, NEW skip \in Walks, Read(t, next, skip)
      PROVE  walk' \in Walks
  BY Zenon, <1>2 DEF Read
<1>3. walk' \in Walks /\ numcores' \in Nat /\ \A p \in DOMAIN window' : window'[p] \in Nat
  <2>1. CASE VisitXsdt
    <3>1. 1 \in DOMAIN tables
      BY <1>1, TheTables
    <3>2. /\ getvadr(tables[1]) /\ Read(tables[1], "xsdt", "done")
          /\ numcores' = numcores
      BY Zenon, <2>1 DEF VisitXsdt, results
    <3> QED
      BY Zenon, <1>1, <1>2, <3>1, <3>2, MapsFrames
  <2>2. CASE VisitTable
    <3>1. index \in DOMAIN tables /\ numcores' = numcores
      BY <1>1, <2>2, TheTables DEF VisitTable, results
    <3>2. CASE UNCHANGED window /\ walk' = "garbage"
      BY Zenon, <1>1, <3>1, <3>2 DEF AcpiTypeOK
    <3>3. CASE /\ getvadr(tables[index])
               /\ \E next \in Walks : Read(tables[index], next, "xsdt")
      BY Zenon, <1>1, <1>2, <3>1, <3>3, MapsFrames
    <3> QED
      BY Zenon, <2>2, <3>2, <3>3 DEF VisitTable
  <2>3. CASE VisitEnd \/ MadtEnd
    BY Zenon, <1>1, <2>3 DEF VisitEnd, MadtEnd, results, AcpiTypeOK
  <2>4. CASE MadtEntry
    <3>1. /\ window' = window /\ walk' \in {walk, "panic_ioapic"}
          /\ numcores' \in {numcores, numcores + 1}
      BY Zenon, <2>4 DEF MadtEntry, results
    <3> QED
      BY <1>1, <3>1 DEF AcpiTypeOK
  <2> QED
    BY Zenon, <2>1, <2>2, <2>3, <2>4 DEF acpi_init
<1>4. \A f \in DOMAIN vmemmap' : vmemmap'[f] \in Nat
  BY Zenon DEF WindowInv, Serves
<1> QED
  BY Zenon, <1>3, <1>4 DEF AcpiTypeOK, WindowInv

----------------------------------------------------------------------------
(* The two walks. *)
BootInv == WalkInv /\ WindowInv /\ TablesRead /\ AcpiTypeOK

LEMMA InitBoot == Init => BootInv
<1> SUFFICES ASSUME Init PROVE BootInv
  BY Zenon
<1>1. PICK m \in Machines : InitrdInit(m[1]) /\ AcpiInit(m[2])
  BY Zenon DEF Init
<1>2. archive \in DOMAIN Archives /\ layout \in DOMAIN Layouts
  BY Zenon, <1>1, CoreAssumption DEF InitrdInit, AcpiInit
<1>3. WalkInv
  <2>1. Len(entries) \in Nat /\ first[1] = 1
    BY Zenon, <1>2, TheArchive
  <2>2. current_header = 1 /\ initrd = <<>> /\ reading = "walk"
    BY Zenon, <1>1 DEF InitrdInit
  <2>3. DOMAIN initrd = {}
    BY <2>2
  <2>4. FoundBefore(1)
    BY <2>3 DEF FoundBefore
  <2>5. Reached(1)
    BY Zenon, <2>1, <2>2, <2>4 DEF Reached
  <2>6. 1 \in 1..(Len(entries) + 1)
    BY <2>1
  <2> QED
    BY Zenon, <1>2, <2>2, <2>5, <2>6 DEF WalkInv
<1>4. /\ walk = "xsdt" /\ index = 1 /\ pgindex = 0 /\ torn = {} /\ numcores = 0
      /\ vmemmap = <<>> /\ window = <<>>
  BY Zenon, <1>1 DEF AcpiInit
<1>5. DOMAIN vmemmap = {} /\ DOMAIN window = {}
  BY <1>4
<1>6. Len(tables) \in Nat \ {0}
  BY Zenon, <1>2, TheTables
<1>7. 1 \in 1..(Len(tables) + 1)
  BY <1>6
<1>8. WindowInv
  BY <1>2, <1>4, <1>5, <1>7 DEF WindowInv
<1>9. TablesRead /\ AcpiTypeOK
  BY Zenon, <1>4, <1>5, <1>7 DEF TablesRead, AcpiTypeOK
<1> QED
  BY Zenon, <1>3, <1>8, <1>9 DEF BootInv

(* Only two steps are about the walks. *)
LEMMA OtherSteps ==
  ASSUME NEW c \in Core, Step(c)
  PROVE  ReadInitrd(c) \/ WalkTables(c) \/ UNCHANGED bootVars
<1>1. CASE Start(c) \/ ignite(c) \/ wait(c) \/ register(c) \/ RegisterFaults(c)
  BY Zenon, <1>1 DEF Start, ignite, wait, register, RegisterFaults
<1>2. CASE insert(c) \/ SetGsBase(c) \/ MapApic(c) \/ LockPit(c)
  BY Zenon, <1>2 DEF insert, SetGsBase, MapApic, LockPit
<1>3. CASE Reload(c) \/ Latch(c) \/ ReadLow(c) \/ ReadHigh(c)
  BY Zenon, <1>3 DEF Reload, Latch, ReadLow, ReadHigh
<1>4. CASE SetupLint(c) \/ GetInstance(c) \/ StoreQuantum(c)
  BY Zenon, <1>4 DEF SetupLint, GetInstance, StoreQuantum
<1>5. CASE late_start(c) \/ OpenLate(c) \/ latewait(c) \/ event_loop(c)
  BY Zenon, <1>5 DEF late_start, OpenLate, latewait, event_loop
<1> QED
  BY Zenon, <1>1, <1>2, <1>3, <1>4, <1>5 DEF Step

(* A walk that takes no step is where it was. *)
LEMMA WalkStays ==
  ASSUME WalkInv, UNCHANGED initrdVars
  PROVE  WalkInv'
<1>1. /\ archive' = archive /\ current_header' = current_header
      /\ initrd' = initrd /\ reading' = reading
  BY Zenon DEF initrdVars
<1>2. entries' = entries /\ first' = first /\ memory' = memory /\ initrd_size' = initrd_size
  BY Zenon, <1>1 DEF entries, first, memory, initrd_size
<1>3. \A i : Reached(i)' <=> Reached(i)
  BY <1>1, <1>2 DEF Reached, FoundBefore, Names, Leads, WholeArchive
<1> QED
  BY Zenon, <1>1, <1>2, <1>3 DEF WalkInv

LEMMA WindowStays ==
  ASSUME WindowInv, TablesRead, AcpiTypeOK, UNCHANGED acpiVars
  PROVE  WindowInv' /\ TablesRead' /\ AcpiTypeOK'
<1>1. UNCHANGED <<layout, walk, index, vmemmap, pgindex, window, torn, numcores>>
  BY Zenon DEF acpiVars
<1>2. tables' = tables
  BY Zenon, <1>1 DEF tables
<1> QED
  BY <1>1, <1>2 DEF WindowInv, TablesRead, AcpiTypeOK, Serves

LEMMA NextBoot == BootInv /\ [Next]_vars => BootInv'
<1> SUFFICES ASSUME BootInv, [Next]_vars PROVE BootInv'
  BY Zenon
<1>1. \/ init_map /\ UNCHANGED acpiVars
      \/ acpi_init /\ UNCHANGED initrdVars
      \/ UNCHANGED <<initrdVars, acpiVars>>
  <2>1. CASE UNCHANGED vars
    BY Zenon, <2>1 DEF vars, bootVars
  <2>2. ASSUME NEW c \in Core, Step(c)
        PROVE  \/ init_map /\ UNCHANGED acpiVars
               \/ acpi_init /\ UNCHANGED initrdVars
               \/ UNCHANGED <<initrdVars, acpiVars>>
    BY Zenon, <2>2, OtherSteps DEF ReadInitrd, WalkTables, bootVars
  <2> QED
    BY Zenon, <2>1, <2>2 DEF Next
<1>2. WalkInv'
  BY Zenon, <1>1, WalkStep, WalkStays DEF BootInv
<1>3. WindowInv' /\ TablesRead' /\ AcpiTypeOK'
  BY Zenon, <1>1, WalkKeeps, AcpiTypes, WindowStays DEF BootInv
<1> QED
  BY Zenon, <1>2, <1>3 DEF BootInv

----------------------------------------------------------------------------
(* The places before a core has computed its stack, before it is in PROC_TABLE,
   before KERNEL_GS_BASE is set, and after it has stored its quantum. *)
BeforeStack == BeforeWakeup \cup {"wakeup", "fault_table"}
BeforeEntry == BeforeStack \cup {"insert"}
BeforeGs == BeforeEntry \cup {"gs_base"}
Measured == {"late_start", "late_ignition", "latewait", "enter", "event_loop"}

(* The types, and the stack that stack() computes. *)
ProcEntry == [id : Core, kernel_rsp : Nat \cup {NONE}, quantum : Core \cup {NONE}]
TableInv ==
  /\ proc_table \in Seq(ProcEntry) /\ ascending \in BOOLEAN
  /\ stack \in [Core -> Nat \cup {NONE}]
  /\ DOMAIN gs_base = Core /\ DOMAIN instance = Core /\ DOMAIN rsp = Core
  /\ \A c \in Core : pc[c] \notin BeforeStack => stack[c] = LoaderTop(c)

(* What entry i says, and what its core knows of it. *)
EntryInv(i) ==
  LET c == proc_table[i].id
  IN /\ proc_table[i].kernel_rsp = LoaderTop(c)
     /\ pc[c] \notin BeforeGs => gs_base[c] = i
     /\ pc[c] = "quantum" => instance[c] = i
     /\ pc[c] \in Measured => proc_table[i].quantum = c

(* While the cores come in the order of their ids, the table is sorted, every core
   that is past insert has an entry, and its references are to that entry. *)
Sorted ==
  \A i, j \in DOMAIN proc_table : i < j => proc_table[i].id < proc_table[j].id
OrderInv ==
  ascending =>
    /\ Sorted
    /\ \A i \in DOMAIN proc_table : EntryInv(i)
    /\ \A c \in Core : pc[c] \notin BeforeEntry =>
         \E i \in DOMAIN proc_table : proc_table[i].id = c
    /\ \A c \in Core : pc[c] = "event_loop" => rsp[c] = LoaderTop(c)

----------------------------------------------------------------------------
(* stack(): whichever local variable it looks at, it finds the stack that the
   loader gave the core. *)
LEMMA OwnBase ==
  ASSUME NEW c \in Core, NEW x \in Locals(c)
  PROVE  stack_base(x) = LoaderTop(c) /\ LoaderTop(c) \in Nat
<1> DEFINE S == STACK_SIZE
           k == TOP \div S
           b == c * S
<1>1. /\ S \in Nat \ {0} /\ TOP \in Nat /\ TOP % S = 0 /\ c * S < TOP /\ c \in Nat
  BY Zenon, StackAssumption, CoreAssumption
<1>2. k \in Nat /\ TOP = S * k
  <2>1. k \in Nat /\ TOP = S * k + (TOP % S)
    BY Zenon, <1>1, Division
  <2> HIDE DEF S, k
  <2>2. S * k \in Nat
    BY <1>1, <2>1
  <2> QED
    BY <1>1, <2>1, <2>2
<1>3. PICK d \in 1..(S - 1) : x = TOP - b - d
  BY Zenon DEF Locals
<1>4. stack_base(x) = IF x >= TOP - S THEN 0 ELSE ((x + S - 1) \div S) * S
  BY Zenon DEF stack_base
<1>5. LoaderTop(c) = (TOP - b) % TOP
  BY Zenon DEF LoaderTop
<1> HIDE DEF S, k
<1>6. b = S * c /\ b \in Nat /\ b < TOP
  BY <1>1
<1>7. CASE c = 0
  <2>1. b = 0
    BY <1>1, <1>6, <1>7
  <2>2. TOP * 1 = TOP /\ TOP \in Nat \ {0}
    BY <1>1, <1>6
  <2>3. TOP % TOP = 0
    BY <2>2, Quotient
  <2>4. TOP - b = TOP /\ x >= TOP - S
    BY <1>1, <1>3, <2>1, <2>2
  <2> QED
    BY <1>4, <1>5, <2>3, <2>4
<1>8. CASE c # 0
  <2>1. S * 1 = S /\ S * 1 <= S * c
    BY <1>1, <1>8, Times
  <2>2. ~(k <= c)
    BY <1>1, <1>2, <1>6, Times
  <2> DEFINE q == k - c
  <2>3. q \in Nat
    BY <1>1, <1>2, <2>2
  <2>4. S * q = TOP - b
    BY <1>1, <1>2, <1>6, <2>3
  <2> HIDE DEF b, q
  <2>5. b >= S /\ TOP - b \in Nat
    BY <1>1, <1>6, <2>1
  <2>6. x + S - 1 \in Nat /\ S * q <= x + S - 1 /\ x + S - 1 < S * q + S /\ ~(x >= TOP - S)
    BY <1>1, <1>3, <1>6, <2>4, <2>5
  <2>7. (x + S - 1) \div S = q
    BY Zenon, <1>1, <2>3, <2>6, Quotient
  <2>8. q * S = TOP - b
    BY <1>1, <2>3, <2>4
  <2>9. TOP * 0 = 0 /\ TOP - b < TOP * 0 + TOP /\ TOP \in Nat \ {0} /\ 0 \in Nat
    BY <1>1, <1>6, <2>5
  <2>10. (TOP - b) % TOP = TOP - b
    BY <2>5, <2>9, Quotient
  <2> QED
    BY Zenon, <1>4, <1>5, <2>5, <2>6, <2>7, <2>8, <2>10
<1> QED
  BY Zenon, <1>7, <1>8

(* In a sorted table the entry of c is where ProcInfo::instance looks. *)
LEMMA PositionIs ==
  ASSUME proc_table \in Seq(ProcEntry), Sorted, NEW i \in DOMAIN proc_table
  PROVE  Position(proc_table[i].id) = i
<1> DEFINE c == proc_table[i].id
<1>1. /\ i \in Nat \ {0} /\ DOMAIN proc_table = 1..Len(proc_table) /\ Len(proc_table) \in Nat
      /\ \A j \in DOMAIN proc_table : j \in Nat /\ proc_table[j].id \in Nat
  <2>1. DOMAIN proc_table = 1..Len(proc_table) /\ Len(proc_table) \in Nat
    OBVIOUS
  <2>2. \A j \in DOMAIN proc_table : proc_table[j] \in ProcEntry
    OBVIOUS
  <2>3. \A j \in DOMAIN proc_table : proc_table[j].id \in Nat
    BY Zenon, <2>2, CoreAssumption DEF ProcEntry
  <2> QED
    BY <2>1, <2>3
<1>2. ASSUME NEW j \in DOMAIN proc_table PROVE proc_table[j].id = c => j = i
  <2> DEFINE a == proc_table[j].id
  <2>1. (j < i => a < c) /\ (i < j => c < a) /\ (i = j => a = c)
    BY Zenon DEF Sorted
  <2>2. a \in Nat /\ c \in Nat /\ j \in Nat /\ i \in Nat
    BY Zenon, <1>1
  <2> HIDE DEF a, c
  <2>3. a = c => j = i
    BY <2>1, <2>2
  <2> QED
    BY Zenon, <2>3 DEF a, c
<1>3. \A j \in DOMAIN proc_table : proc_table[j].id = c => j = i
  BY Zenon, <1>1, <1>2
<1> QED
  BY Zenon, <1>3 DEF Position

(* When the cores start. *)
LEMMA InitOrder == Init => TableInv /\ OrderInv
<1> SUFFICES ASSUME Init PROVE TableInv /\ OrderInv
  BY Zenon
<1>1. proc_table = <<>> /\ ascending = TRUE /\ pc = [c \in Core |-> "_start"]
  BY Zenon DEF Init
<1>2. proc_table \in Seq(ProcEntry) /\ DOMAIN proc_table = {}
  BY <1>1
<1>3. \A c \in Core : pc[c] \in BeforeWakeup /\ pc[c] # "event_loop"
  BY Zenon, <1>1 DEF BeforeWakeup
<1>4. TableInv
  BY Zenon, <1>1, <1>2, <1>3 DEF TableInv, Init, BeforeStack
<1>5. OrderInv
  BY Zenon, <1>2, <1>3 DEF OrderInv, Sorted, BeforeEntry, BeforeStack
<1> QED
  BY Zenon, <1>4, <1>5

(* The entries are of cores. *)
LEMMA EntryType ==
  ASSUME TableInv
  PROVE  \A i \in DOMAIN proc_table : proc_table[i].id \in Core
<1>1. \A i \in DOMAIN proc_table : proc_table[i] \in ProcEntry
  BY DEF TableInv
<1> QED
  BY Zenon, <1>1 DEF ProcEntry

(* A core that goes from p to q passes none of the places that the invariant tells
   apart. *)
Passes(p, q) ==
  /\ p \in BeforeStack => q \in BeforeStack
  /\ p \in BeforeEntry => q \in BeforeEntry
  /\ p \in BeforeGs => q \in BeforeGs
  /\ q \in Measured => p \in Measured
  /\ q \notin {"quantum", "event_loop"}

(* A step that leaves the processor table and the references alone. *)
LEMMA ElsewhereOrder ==
  ASSUME PcInv, TableInv, OrderInv, UNCHANGED procVars, NEW c \in Core, NEW p, Goto(c, p),
         Passes(pc[c], p)
  PROVE  TableInv' /\ OrderInv'
<1>1. \A d \in Core : pc'[d] = pc[d] \/ (d = c /\ pc'[d] = p)
  <2>1. pc \in [Core -> Places] /\ pc' = [pc EXCEPT ![c] = p]
    BY Zenon DEF PcInv, Goto
  <2>2. \A d \in Core : pc'[d] = IF d = c THEN p ELSE pc[d]
    BY Zenon, <2>1
  <2> QED
    BY Zenon, <2>2
<1>2. /\ proc_table' = proc_table /\ ascending' = ascending /\ stack' = stack
      /\ gs_base' = gs_base /\ instance' = instance /\ rsp' = rsp
  BY Zenon DEF procVars
<1>3. \A d \in Core :
        /\ pc[d] \in BeforeStack => pc'[d] \in BeforeStack
        /\ pc[d] \in BeforeEntry => pc'[d] \in BeforeEntry
        /\ pc[d] \in BeforeGs => pc'[d] \in BeforeGs
        /\ pc'[d] \in Measured => pc[d] \in Measured
        /\ pc'[d] \in {"quantum", "event_loop"} => pc[d] = pc'[d]
  BY Zenon, <1>1 DEF Passes
<1>4. TableInv'
  BY Zenon, <1>2, <1>3 DEF TableInv
<1>5. ASSUME ascending' PROVE \A i \in DOMAIN proc_table' : EntryInv(i)'
  <2>1. \A i \in DOMAIN proc_table : EntryInv(i) /\ proc_table[i].id \in Core
    BY Zenon, <1>2, <1>5, EntryType DEF OrderInv
  <2> QED
    BY Zenon, <1>2, <1>3, <2>1 DEF EntryInv
<1>6. OrderInv'
  <2> SUFFICES ASSUME ascending' PROVE OrderInv'
    BY Zenon DEF OrderInv
  <2>1. Sorted'
    BY Zenon, <1>2 DEF OrderInv, Sorted
  <2>2. \A d \in Core : pc'[d] \notin BeforeEntry =>
          \E i \in DOMAIN proc_table' : proc_table'[i].id = d
    BY Zenon, <1>2, <1>3 DEF OrderInv
  <2>3. \A d \in Core : pc'[d] = "event_loop" => rsp'[d] = LoaderTop(d)
    BY Zenon, <1>2, <1>3 DEF OrderInv
  <2> QED
    BY Zenon, <1>5, <2>1, <2>2, <2>3 DEF OrderInv
<1> QED
  BY Zenon, <1>4, <1>6

(* wakeup: the stack. *)
LEMMA RegisterOrder ==
  ASSUME PcInv, TableInv, OrderInv, NEW c \in Core, register(c)
  PROVE  TableInv' /\ OrderInv'
<1>1. PICK x \in Locals(c) : stack' = [stack EXCEPT ![c] = stack_base(x)]
  BY Zenon DEF register
<1>2. /\ pc[c] = "wakeup" /\ pc' = [pc EXCEPT ![c] = "insert"]
      /\ UNCHANGED <<proc_table, ascending, gs_base, instance, rsp>>
  BY Zenon DEF register, Goto
<1>3. stack_base(x) = LoaderTop(c) /\ LoaderTop(c) \in Nat
  BY Zenon, OwnBase
<1>4. \A d \in Core : pc'[d] = IF d = c THEN "insert" ELSE pc[d]
  BY Zenon, <1>2 DEF PcInv
<1>5. \A d \in Core : stack'[d] = IF d = c THEN LoaderTop(c) ELSE stack[d]
  BY Zenon, <1>1, <1>3 DEF TableInv
<1>6. stack' \in [Core -> Nat \cup {NONE}]
  BY Zenon, <1>1, <1>3 DEF TableInv
<1>7. TableInv'
  BY Zenon, <1>2, <1>4, <1>5, <1>6 DEF TableInv
<1>8. /\ "insert" \in BeforeEntry /\ "insert" \in BeforeGs /\ "insert" \notin Measured
      /\ "insert" # "quantum" /\ "insert" # "event_loop"
  BY Zenon DEF BeforeEntry, BeforeGs, Measured
<1>9. ASSUME ascending' PROVE \A i \in DOMAIN proc_table' : EntryInv(i)'
  <2>1. \A i \in DOMAIN proc_table : EntryInv(i) /\ proc_table[i].id \in Core
    BY Zenon, <1>2, <1>9, EntryType DEF OrderInv
  <2> QED
    BY <1>2, <1>4, <1>8, <2>1 DEF EntryInv
<1>10. OrderInv'
  BY Zenon, <1>2, <1>4, <1>8, <1>9 DEF OrderInv, Sorted
<1> QED
  BY Zenon, <1>7, <1>10

(* wakeup: the entry.  When the ids before are smaller it comes last. *)
LEMMA InsertOrder ==
  ASSUME PcInv, TableInv, OrderInv, NEW c \in Core, insert(c)
  PROVE  TableInv' /\ OrderInv'
<1> DEFINE n == Len(proc_table)
           e == ProcInfo(c)
<1>1. /\ pc[c] = "insert" /\ pc' = [pc EXCEPT ![c] = "gs_base"]
      /\ UNCHANGED <<stack, gs_base, instance, rsp>>
  BY Zenon DEF insert, Goto
<1>2. /\ proc_table \in Seq(ProcEntry) /\ n \in Nat /\ DOMAIN proc_table = 1..n
      /\ \A i \in 1..n : proc_table[i] \in ProcEntry
  BY DEF TableInv
<1>3. PICK k \in 1..(n + 1) :
        /\ Belongs(c, k) /\ ascending' = (ascending /\ k = n + 1)
        /\ proc_table' = [i \in 1..(n + 1) |->
             IF i < k THEN proc_table[i] ELSE IF i = k THEN e ELSE proc_table[i - 1]]
  BY Zenon DEF insert
<1>4. e \in ProcEntry /\ e.id = c /\ e.kernel_rsp = stack[c] /\ stack[c] = LoaderTop(c)
  BY Zenon, <1>1 DEF ProcInfo, ProcEntry, TableInv, BeforeStack, BeforeWakeup
<1>5. \A d \in Core : pc'[d] = IF d = c THEN "gs_base" ELSE pc[d]
  BY Zenon, <1>1 DEF PcInv
<1> HIDE DEF n, e
<1>6. DOMAIN proc_table' = 1..(n + 1)
  BY Zenon, <1>3
<1>7. proc_table' \in Seq(ProcEntry)
  <2> DEFINE f == [i \in 1..(n + 1) |->
               IF i < k THEN proc_table[i] ELSE IF i = k THEN e ELSE proc_table[i - 1]]
  <2>1. ASSUME NEW i \in 1..(n + 1) PROVE f[i] \in ProcEntry
    <3>1. i < k => i \in 1..n
      BY <1>2, <1>3
    <3>2. ~(i < k) /\ i # k => i - 1 \in 1..n
      BY <1>2, <1>3
    <3> QED
      BY Zenon, <1>2, <1>4, <3>1, <3>2
  <2>2. n + 1 \in Nat
    BY <1>2
  <2>3. f = [i \in 1..(n + 1) |-> f[i]]
    BY Zenon
  <2>4. proc_table' = f
    BY Zenon, <1>3
  <2> HIDE DEF f
  <2>5. [i \in 1..(n + 1) |-> f[i]] \in Seq(ProcEntry)
    BY <2>1, <2>2
  <2> QED
    BY Zenon, <2>3, <2>4, <2>5
<1>8. TableInv'
  <2>1. \A d \in Core : pc'[d] \notin BeforeStack => stack'[d] = LoaderTop(d)
    BY Zenon, <1>1, <1>4, <1>5 DEF TableInv
  <2>2. ascending' \in BOOLEAN
    BY Zenon, <1>3 DEF TableInv
  <2> QED
    BY Zenon, <1>1, <1>7, <2>1, <2>2 DEF TableInv
<1>9. OrderInv'
  <2> SUFFICES ASSUME ascending' PROVE OrderInv'
    BY Zenon DEF OrderInv
  <2>1. ascending /\ k = n + 1
    BY Zenon, <1>3
  <2>2. proc_table'[n + 1] = e /\ \A i \in 1..n : proc_table'[i] = proc_table[i]
    BY <1>2, <1>3, <2>1
  <2>3. \A i \in 1..n : proc_table[i].id < c /\ proc_table[i].id \in Core
    BY <1>2, <1>3, <2>1 DEF Belongs, ProcEntry
  <2>4. \A i \in 1..(n + 1) : i \in 1..n \/ i = n + 1
    BY <1>2
  <2>5. Sorted'
    <3> SUFFICES ASSUME NEW i \in 1..(n + 1), NEW j \in 1..(n + 1), i < j
                 PROVE  proc_table'[i].id < proc_table'[j].id
      BY Zenon, <1>6 DEF Sorted
    <3>1. i \in 1..n
      BY <1>2
    <3>2. CASE j = n + 1
      BY Zenon, <1>4, <2>2, <2>3, <3>1, <3>2
    <3>3. CASE j # n + 1
      BY Zenon, <1>2, <2>1, <2>2, <2>4, <3>1, <3>3 DEF OrderInv, Sorted
    <3> QED
      BY Zenon, <3>2, <3>3
  <2>6. ASSUME NEW i \in 1..(n + 1) PROVE EntryInv(i)'
    <3>1. CASE i = n + 1
      <4>1. proc_table'[i].id = c /\ proc_table'[i].kernel_rsp = LoaderTop(c)
        BY Zenon, <1>4, <2>2, <3>1
      <4>2. pc'[c] = "gs_base"
        BY Zenon, <1>5
      <4> QED
        BY Zenon, <4>1, <4>2 DEF EntryInv, BeforeGs, Measured
    <3>2. CASE i # n + 1
      <4>1. i \in 1..n /\ proc_table'[i] = proc_table[i] /\ EntryInv(i)
        BY Zenon, <1>2, <2>1, <2>2, <2>4, <3>2 DEF OrderInv
      <4>2. proc_table[i].id \in Core /\ proc_table[i].id # c
        BY <2>3, <4>1, CoreAssumption
      <4>3. pc'[proc_table[i].id] = pc[proc_table[i].id]
        BY Zenon, <1>5, <4>2
      <4> QED
        BY Zenon, <1>1, <4>1, <4>3 DEF EntryInv
    <3> QED
      BY Zenon, <3>1, <3>2
  <2>7. ASSUME NEW d \in Core, pc'[d] \notin BeforeEntry
        PROVE  \E i \in DOMAIN proc_table' : proc_table'[i].id = d
    <3>1. CASE d = c
      <4>1. n + 1 \in DOMAIN proc_table' /\ proc_table'[n + 1].id = c
        BY <1>2, <1>4, <1>6, <2>2
      <4> QED
        BY Zenon, <3>1, <4>1
    <3>2. CASE d # c
      <4>1. PICK i \in 1..n : proc_table[i].id = d
        BY Zenon, <1>2, <1>5, <2>1, <2>7, <3>2 DEF OrderInv
      <4>2. i \in DOMAIN proc_table' /\ proc_table'[i].id = d
        BY <1>2, <1>6, <2>2, <4>1
      <4> QED
        BY Zenon, <4>2
    <3> QED
      BY Zenon, <3>1, <3>2
  <2>8. \A d \in Core : pc'[d] = "event_loop" => rsp'[d] = LoaderTop(d)
    BY <1>1, <1>5, <2>1 DEF OrderInv
  <2> QED
    BY Zenon, <1>6, <2>5, <2>6, <2>7, <2>8 DEF OrderInv
<1> QED
  BY Zenon, <1>8, <1>9

(* A step that leaves the table alone and changes what core c knows of its entry. *)
LEMMA OwnOrder ==
  ASSUME PcInv, TableInv, OrderInv, NEW c \in Core, NEW p, Goto(c, p),
         UNCHANGED <<proc_table, ascending, stack>>,
         DOMAIN gs_base' = Core, DOMAIN instance' = Core, DOMAIN rsp' = Core,
         \A d \in Core \ {c} :
           gs_base'[d] = gs_base[d] /\ instance'[d] = instance[d] /\ rsp'[d] = rsp[d],
         pc[c] \notin BeforeEntry, p \notin BeforeEntry,
         \A i \in DOMAIN proc_table : ascending /\ proc_table[i].id = c => EntryInv(i)',
         ascending /\ p = "event_loop" => rsp'[c] = LoaderTop(c)
  PROVE  TableInv' /\ OrderInv'
<1>1. \A d \in Core : pc'[d] = IF d = c THEN p ELSE pc[d]
  <2>1. pc \in [Core -> Places] /\ pc' = [pc EXCEPT ![c] = p]
    BY Zenon DEF PcInv, Goto
  <2> QED
    BY Zenon, <2>1
<1>2. pc[c] \notin BeforeStack
  BY Zenon DEF BeforeEntry
<1>3. TableInv'
  BY Zenon, <1>1, <1>2 DEF TableInv
<1>4. OrderInv'
  <2> SUFFICES ASSUME ascending' PROVE OrderInv'
    BY Zenon DEF OrderInv
  <2>1. Sorted'
    BY Zenon DEF OrderInv, Sorted
  <2>2. ASSUME NEW i \in DOMAIN proc_table PROVE EntryInv(i)'
    <3>1. CASE proc_table[i].id = c
      BY Zenon, <3>1
    <3>2. CASE proc_table[i].id # c
      <4>1. EntryInv(i) /\ proc_table[i].id \in Core \ {c}
        BY Zenon, <3>2, EntryType DEF OrderInv
      <4> QED
        BY Zenon, <1>1, <4>1 DEF EntryInv
    <3> QED
      BY Zenon, <3>1, <3>2
  <2>3. \A d \in Core : pc'[d] \notin BeforeEntry =>
          \E i \in DOMAIN proc_table' : proc_table'[i].id = d
    BY Zenon, <1>1 DEF OrderInv
  <2>4. \A d \in Core : pc'[d] = "event_loop" => rsp'[d] = LoaderTop(d)
    BY Zenon, <1>1 DEF OrderInv
  <2> QED
    BY Zenon, <2>1, <2>2, <2>3, <2>4 DEF OrderInv
<1> QED
  BY Zenon, <1>3, <1>4

(* wakeup: KERNEL_GS_BASE. *)
LEMMA GsOrder ==
  ASSUME PcInv, TableInv, OrderInv, NEW c \in Core, SetGsBase(c)
  PROVE  TableInv' /\ OrderInv'
<1>1. /\ pc[c] = "gs_base" /\ Goto(c, "apic") /\ gs_base' = [gs_base EXCEPT ![c] = Position(c)]
      /\ UNCHANGED <<proc_table, ascending, stack, instance, rsp>>
  BY Zenon DEF SetGsBase
<1>2. DOMAIN gs_base = Core /\ DOMAIN instance = Core /\ DOMAIN rsp = Core
      /\ proc_table \in Seq(ProcEntry)
  BY Zenon DEF TableInv
<1>3. DOMAIN gs_base' = Core /\ \A d \in Core : gs_base'[d] = IF d = c THEN Position(c) ELSE gs_base[d]
  BY Zenon, <1>1, <1>2
<1>4. pc[c] \notin BeforeEntry /\ "apic" \notin BeforeEntry
  BY Zenon, <1>1 DEF BeforeEntry, BeforeStack, BeforeWakeup
<1>5. pc'[c] = "apic"
  BY Zenon, <1>1 DEF Goto, PcInv
<1>6. ASSUME NEW i \in DOMAIN proc_table, ascending, proc_table[i].id = c PROVE EntryInv(i)'
  <2>1. EntryInv(i) /\ Sorted
    BY Zenon, <1>6 DEF OrderInv
  <2>2. Position(c) = i
    BY Zenon, <1>2, <1>6, <2>1, PositionIs
  <2> QED
    BY Zenon, <1>1, <1>3, <1>5, <1>6, <2>1, <2>2 DEF EntryInv, Measured
<1> QED
  BY Zenon, <1>1, <1>2, <1>3, <1>4, <1>6, OwnOrder

(* wakeup: ProcInfo::instance. *)
LEMMA InstanceOrder ==
  ASSUME PcInv, TableInv, OrderInv, NEW c \in Core, GetInstance(c)
  PROVE  TableInv' /\ OrderInv'
<1>1. /\ pc[c] = "instance" /\ Goto(c, "quantum") /\ instance' = [instance EXCEPT ![c] = Position(c)]
      /\ UNCHANGED <<proc_table, ascending, stack, gs_base, rsp>>
  BY Zenon DEF GetInstance
<1>2. DOMAIN gs_base = Core /\ DOMAIN instance = Core /\ DOMAIN rsp = Core
      /\ proc_table \in Seq(ProcEntry)
  BY Zenon DEF TableInv
<1>3. DOMAIN instance' = Core /\ \A d \in Core : instance'[d] = IF d = c THEN Position(c) ELSE instance[d]
  BY Zenon, <1>1, <1>2
<1>4. pc[c] \notin BeforeEntry /\ "quantum" \notin BeforeEntry /\ pc[c] \notin BeforeGs
  BY Zenon, <1>1 DEF BeforeGs, BeforeEntry, BeforeStack, BeforeWakeup
<1>5. pc'[c] = "quantum"
  BY Zenon, <1>1 DEF Goto, PcInv
<1>6. ASSUME NEW i \in DOMAIN proc_table, ascending, proc_table[i].id = c PROVE EntryInv(i)'
  <2>1. EntryInv(i) /\ Sorted
    BY Zenon, <1>6 DEF OrderInv
  <2>2. Position(c) = i
    BY Zenon, <1>2, <1>6, <2>1, PositionIs
  <2> QED
    BY Zenon, <1>1, <1>3, <1>4, <1>5, <1>6, <2>1, <2>2 DEF EntryInv, Measured
<1> QED
  BY Zenon, <1>1, <1>2, <1>3, <1>4, <1>6, OwnOrder

(* event_loop: the stack pointer. *)
LEMMA LoopOrder ==
  ASSUME PcInv, TableInv, OrderInv, NEW c \in Core, event_loop(c)
  PROVE  TableInv' /\ OrderInv'
<1>1. /\ pc[c] \in {"enter", "event_loop"} /\ Goto(c, "event_loop")
      /\ rsp' = [rsp EXCEPT ![c] = proc_table[gs_base[c]].kernel_rsp]
      /\ UNCHANGED <<proc_table, ascending, stack, gs_base, instance>>
  BY Zenon DEF event_loop
<1>2. DOMAIN gs_base = Core /\ DOMAIN instance = Core /\ DOMAIN rsp = Core
  BY Zenon DEF TableInv
<1>3. /\ DOMAIN rsp' = Core /\ rsp'[c] = proc_table[gs_base[c]].kernel_rsp
      /\ \A d \in Core \ {c} : rsp'[d] = rsp[d]
  BY Zenon, <1>1, <1>2
<1>4. /\ pc[c] \notin BeforeEntry /\ "event_loop" \notin BeforeEntry /\ pc[c] \notin BeforeGs
      /\ pc[c] \in Measured
  BY Zenon, <1>1 DEF BeforeGs, BeforeEntry, BeforeStack, BeforeWakeup, Measured
<1>5. pc'[c] = "event_loop"
  BY Zenon, <1>1 DEF Goto, PcInv
<1>6. ASSUME NEW i \in DOMAIN proc_table, ascending, proc_table[i].id = c PROVE EntryInv(i)'
  <2>1. EntryInv(i)
    BY Zenon, <1>6 DEF OrderInv
  <2> QED
    BY Zenon, <1>1, <1>4, <1>5, <1>6, <2>1 DEF EntryInv, Measured
<1>7. ASSUME ascending PROVE rsp'[c] = LoaderTop(c)
  <2>1. PICK i \in DOMAIN proc_table : proc_table[i].id = c
    BY Zenon, <1>4, <1>7 DEF OrderInv
  <2>2. EntryInv(i)
    BY Zenon, <1>7 DEF OrderInv
  <2> QED
    BY Zenon, <1>3, <1>4, <2>1, <2>2 DEF EntryInv
<1> QED
  BY Zenon, <1>1, <1>2, <1>3, <1>4, <1>6, <1>7, OwnOrder

(* wakeup: the quantum. *)
LEMMA QuantumOrder ==
  ASSUME PcInv, TableInv, OrderInv, NEW c \in Core, StoreQuantum(c)
  PROVE  TableInv' /\ OrderInv'
<1> DEFINE k == instance[c]
           n == Len(proc_table)
<1>1. /\ pc[c] = "quantum"
      /\ proc_table' = [proc_table EXCEPT ![k] = [@ EXCEPT !.quantum = c]]
      /\ instance' = [instance EXCEPT ![c] = NONE]
      /\ UNCHANGED <<stack, ascending, gs_base, rsp>>
  BY Zenon DEF StoreQuantum
<1>2. PICK p \in {"late_start", "latewait"} : pc' = [pc EXCEPT ![c] = p]
  BY Zenon DEF StoreQuantum, Goto
<1>3. /\ proc_table \in Seq(ProcEntry) /\ n \in Nat /\ DOMAIN proc_table = 1..n
      /\ \A i \in 1..n : proc_table[i] \in ProcEntry
  BY DEF TableInv
<1>4. \A d \in Core : pc'[d] = IF d = c THEN p ELSE pc[d]
  BY Zenon, <1>2 DEF PcInv
<1>5. /\ DOMAIN instance' = Core /\ \A d \in Core \ {c} : instance'[d] = instance[d]
  BY Zenon, <1>1 DEF TableInv
<1>6. /\ pc[c] \notin BeforeGs /\ pc[c] \notin BeforeEntry /\ pc[c] \notin BeforeStack
      /\ p \notin BeforeGs /\ p \notin BeforeEntry /\ p \in Measured
  BY Zenon, <1>1, <1>2 DEF BeforeGs, BeforeEntry, BeforeStack, BeforeWakeup, Measured
<1> HIDE DEF k, n
<1>7. /\ DOMAIN proc_table' = 1..n
      /\ \A i \in 1..n : proc_table'[i] =
           IF i = k THEN [proc_table[i] EXCEPT !.quantum = c] ELSE proc_table[i]
  BY Zenon, <1>1, <1>3
<1>8. \A i \in 1..n :
        /\ proc_table'[i] \in ProcEntry /\ proc_table'[i].id = proc_table[i].id
        /\ proc_table'[i].kernel_rsp = proc_table[i].kernel_rsp
        /\ proc_table'[i].quantum = IF i = k THEN c ELSE proc_table[i].quantum
  BY <1>3, <1>7 DEF ProcEntry
<1>9. proc_table' \in Seq(ProcEntry)
  <2>1. proc_table' = [i \in 1..n |-> proc_table'[i]]
    BY Zenon, <1>1, <1>7
  <2>2. [i \in 1..n |-> proc_table'[i]] \in Seq(ProcEntry)
    BY <1>3, <1>8
  <2> QED
    BY Zenon, <2>1, <2>2
<1>10. TableInv'
  BY Zenon, <1>1, <1>4, <1>5, <1>6, <1>9 DEF TableInv
<1>11. OrderInv'
  <2> SUFFICES ASSUME ascending' PROVE OrderInv'
    BY Zenon DEF OrderInv
  <2>1. ascending
    BY Zenon, <1>1
  <2>2. Sorted'
    BY Zenon, <1>3, <1>7, <1>8, <2>1 DEF OrderInv, Sorted
  <2>3. ASSUME NEW i \in 1..n PROVE EntryInv(i)'
    <3>1. EntryInv(i) /\ proc_table[i].id \in Core
      BY Zenon, <1>3, <2>1, EntryType DEF OrderInv
    <3>2. CASE proc_table[i].id = c
      <4>1. k = i
        BY Zenon, <1>1, <3>1, <3>2 DEF EntryInv, k
      <4>2. proc_table'[i].quantum = c /\ pc'[c] = p /\ proc_table'[i].id = c
        BY Zenon, <1>4, <1>8, <3>2, <4>1
      <4>3. p # "quantum"
        BY Zenon
      <4> QED
        BY Zenon, <1>1, <1>6, <1>8, <3>1, <3>2, <4>2, <4>3 DEF EntryInv
    <3>3. CASE proc_table[i].id # c
      <4>1. PICK m \in 1..n : proc_table[m].id = c
        BY Zenon, <1>3, <1>6, <2>1 DEF OrderInv
      <4>2. k = m
        BY Zenon, <1>1, <1>3, <2>1, <4>1 DEF OrderInv, EntryInv, k
      <4>3. proc_table'[i] = proc_table[i]
        BY Zenon, <1>7, <3>3, <4>1, <4>2
      <4>4. pc'[proc_table[i].id] = pc[proc_table[i].id]
            /\ instance'[proc_table[i].id] = instance[proc_table[i].id]
        BY Zenon, <1>4, <1>5, <3>1, <3>3
      <4> QED
        BY Zenon, <1>1, <3>1, <4>3, <4>4 DEF EntryInv
    <3> QED
      BY Zenon, <3>2, <3>3
  <2>4. \A d \in Core : pc'[d] \notin BeforeEntry =>
          \E i \in DOMAIN proc_table' : proc_table'[i].id = d
    <3>1. \A d \in Core : pc'[d] \notin BeforeEntry => \E i \in 1..n : proc_table[i].id = d
      BY Zenon, <1>3, <1>4, <1>6, <2>1 DEF OrderInv
    <3> QED
      BY <1>7, <1>8, <3>1
  <2>5. \A d \in Core : pc'[d] = "event_loop" => rsp'[d] = LoaderTop(d)
    BY Zenon, <1>1, <1>4, <2>1 DEF OrderInv
  <2> QED
    BY Zenon, <1>7, <2>2, <2>3, <2>4, <2>5 DEF OrderInv
<1> QED
  BY Zenon, <1>10, <1>11

(* Places between which a core passes none that the invariant tells apart. *)
Between ==
  {"apic", "calib", "reload", "latch", "low", "high", "panic_pit", "panic_timer",
   "lint", "panic_lint", "instance"}
LEMMA SamePlaces ==
  ASSUME NEW p, NEW q,
         \/ p \in BeforeStack /\ q \in BeforeStack
         \/ p \in Between /\ q \in Between
         \/ p \in Measured \ {"event_loop"} /\ q \in Measured \ {"event_loop"}
  PROVE  Passes(p, q)
  BY Zenon DEF Passes, Between, BeforeStack, BeforeEntry, BeforeGs, BeforeWakeup, Measured

(* The steps that have nothing to do with the processor table. *)
PlainStep(c) ==
  \/ Start(c) \/ ReadInitrd(c) \/ WalkTables(c) \/ ignite(c) \/ wait(c)
  \/ RegisterFaults(c)
  \/ MapApic(c) \/ LockPit(c) \/ Reload(c) \/ Latch(c) \/ ReadLow(c) \/ ReadHigh(c)
  \/ SetupLint(c) \/ late_start(c) \/ OpenLate(c) \/ latewait(c)
LEMMA PlainOrder ==
  ASSUME PcInv, TableInv, OrderInv, NEW c \in Core, PlainStep(c)
  PROVE  TableInv' /\ OrderInv'
<1>0. UNCHANGED pc => Goto(c, pc[c])
  BY Zenon DEF PcInv, Goto
<1>1. CASE Start(c) \/ ReadInitrd(c) \/ WalkTables(c) \/ ignite(c) \/ wait(c)
           \/ RegisterFaults(c)
  <2>1. /\ UNCHANGED procVars /\ pc[c] \in BeforeStack
        /\ \E p \in BeforeStack : Goto(c, p)
    <3>1. CASE Start(c)
      BY Zenon, <3>1 DEF Start, BeforeStack, BeforeWakeup
    <3>2. CASE ReadInitrd(c)
      BY Zenon, <1>0, <3>2 DEF ReadInitrd, BeforeStack, BeforeWakeup
    <3>3. CASE WalkTables(c)
      BY Zenon, <1>0, <3>3 DEF WalkTables, BeforeStack, BeforeWakeup
    <3>4. CASE ignite(c)
      BY Zenon, <1>0, <3>4 DEF ignite, BeforeStack, BeforeWakeup
    <3>5. CASE wait(c)
      BY Zenon, <3>5 DEF wait, BeforeStack, BeforeWakeup
    <3>6. CASE RegisterFaults(c)
      BY Zenon, <3>6 DEF RegisterFaults, BeforeStack, BeforeWakeup
    <3> QED
      BY Zenon, <1>1, <3>1, <3>2, <3>3, <3>4, <3>5, <3>6
  <2> QED
    BY Zenon, <2>1, SamePlaces, ElsewhereOrder
<1>2. CASE MapApic(c) \/ LockPit(c) \/ Reload(c) \/ Latch(c) \/ ReadLow(c) \/ ReadHigh(c)
           \/ SetupLint(c)
  <2>1. UNCHANGED procVars /\ pc[c] \in Between /\ \E p \in Between : Goto(c, p)
    <3>1. CASE MapApic(c)
      BY Zenon, <3>1 DEF MapApic, Between
    <3>2. CASE LockPit(c)
      BY Zenon, <3>2 DEF LockPit, Between
    <3>3. CASE Reload(c)
      BY Zenon, <3>3 DEF Reload, Between
    <3>4. CASE Latch(c)
      BY Zenon, <3>4 DEF Latch, Between
    <3>5. CASE ReadLow(c)
      BY Zenon, <3>5 DEF ReadLow, Between
    <3>6. CASE ReadHigh(c)
      BY Zenon, <3>6 DEF ReadHigh, CalibReturn, CalibLoop, Between
    <3>7. CASE SetupLint(c)
      <4>1. /\ Goto(c, "instance") \/ Goto(c, "panic_lint")
            /\ pc[c] = "lint" /\ UNCHANGED procVars
        BY Zenon, <3>7 DEF SetupLint
      <4> QED
        BY Zenon, <4>1 DEF Between
    <3> QED
      BY Zenon, <1>2, <3>1, <3>2, <3>3, <3>4, <3>5, <3>6, <3>7
  <2> QED
    BY Zenon, <2>1, SamePlaces, ElsewhereOrder
<1>3. CASE late_start(c) \/ OpenLate(c) \/ latewait(c)
  <2>1. /\ UNCHANGED procVars /\ pc[c] \in Measured \ {"event_loop"}
        /\ \E p \in Measured \ {"event_loop"} : Goto(c, p)
    BY Zenon, <1>3 DEF late_start, OpenLate, latewait, Measured
  <2> QED
    BY Zenon, <2>1, SamePlaces, ElsewhereOrder
<1> QED
  BY Zenon, <1>1, <1>2, <1>3 DEF PlainStep

(* Every step of a core keeps the order. *)
LEMMA NextOrder ==
  ASSUME PcInv, TableInv, OrderInv, [Next]_vars
  PROVE  TableInv' /\ OrderInv'
<1>1. ASSUME NEW c \in Core, Step(c) PROVE TableInv' /\ OrderInv'
  <2>1. \/ PlainStep(c) \/ register(c) \/ insert(c) \/ SetGsBase(c) \/ GetInstance(c)
        \/ StoreQuantum(c) \/ event_loop(c)
    BY Zenon, <1>1 DEF Step, PlainStep
  <2> QED
    BY Zenon, <2>1, PlainOrder, RegisterOrder, InsertOrder, GsOrder, InstanceOrder,
       QuantumOrder, LoopOrder
<1>2. ASSUME UNCHANGED vars PROVE TableInv' /\ OrderInv'
  <2>1. UNCHANGED <<pc, procVars>>
    BY Zenon, <1>2 DEF vars
  <2>2. /\ proc_table' = proc_table /\ ascending' = ascending /\ stack' = stack
        /\ gs_base' = gs_base /\ instance' = instance /\ rsp' = rsp /\ pc' = pc
    BY Zenon, <2>1 DEF procVars
  <2> QED
    BY Zenon, <2>2 DEF TableInv, OrderInv, Sorted, EntryInv
<1> QED
  BY Zenon, <1>1, <1>2 DEF Next

(* What the order gives. *)
LEMMA OrderGives ==
  ASSUME TableInv, OrderInv
  PROVE  InOrder
<1> SUFFICES ASSUME ascending, NEW c \in Core, pc[c] \in Measured
             PROVE  proc_table[Position(c)].quantum = c
  BY Zenon DEF InOrder, OrderInv, Measured
<1>1. pc[c] \notin BeforeEntry
  BY Zenon DEF Measured, BeforeEntry, BeforeStack, BeforeWakeup
<1>2. PICK i \in DOMAIN proc_table : proc_table[i].id = c
  BY Zenon, <1>1 DEF OrderInv
<1>3. EntryInv(i) /\ Sorted /\ proc_table \in Seq(ProcEntry)
  BY Zenon DEF OrderInv, TableInv
<1>4. Position(c) = i
  BY Zenon, <1>2, <1>3, PositionIs
<1> QED
  BY Zenon, <1>2, <1>3, <1>4 DEF EntryInv

----------------------------------------------------------------------------
(* The tables that are allocated, and the flags. *)
SettingsInv ==
  /\ shared \in 0..Len(Tables)
  /\ IGNITION \in BOOLEAN /\ LATE_IGNITION \in BOOLEAN /\ MAPPED \in BOOLEAN
  /\ late \in BOOLEAN /\ isvm \in BOOLEAN

(* They have their types when the cores start. *)
LEMMA InitSettings == Init => SettingsInv
<1> SUFFICES ASSUME Init PROVE SettingsInv
  BY Zenon
<1>1. shared \in 0..Len(Tables)
  BY DEF Init, Tables
<1>2. /\ IGNITION = FALSE /\ LATE_IGNITION = FALSE /\ MAPPED = FALSE /\ late = FALSE
      /\ isvm \in BOOLEAN
  BY Zenon DEF Init
<1> QED
  BY Zenon, <1>1, <1>2 DEF SettingsInv

(* Only four steps set one of them, and none makes it more than it can be. *)
LEMMA NextSettings == SettingsInv /\ [Next]_vars => SettingsInv'
<1> SUFFICES ASSUME SettingsInv, [Next]_vars PROVE SettingsInv'
  BY Zenon
<1>1. ASSUME UNCHANGED <<shared, flags, isvm>> PROVE SettingsInv'
  BY Zenon, <1>1 DEF SettingsInv, flags
<1>2. ASSUME NEW c \in Core, Step(c) PROVE SettingsInv'
  <2>1. CASE Start(c) \/ ReadInitrd(c) \/ WalkTables(c) \/ wait(c) \/ register(c)
             \/ RegisterFaults(c)
    BY Zenon, <1>1, <2>1 DEF Start, ReadInitrd, WalkTables, wait, register,
       RegisterFaults
  <2>2. CASE ignite(c)
    <3>1. shared' \in 0..Len(Tables)
      BY <2>2 DEF ignite, AllShared, SettingsInv, Tables
    <3>2. /\ IGNITION' = TRUE \/ UNCHANGED IGNITION
          /\ UNCHANGED <<LATE_IGNITION, MAPPED, late, isvm>>
      BY Zenon, <2>2 DEF ignite
    <3> QED
      BY Zenon, <3>1, <3>2 DEF SettingsInv
  <2>3. CASE insert(c) \/ SetGsBase(c) \/ LockPit(c) \/ Reload(c) \/ Latch(c)
    BY Zenon, <1>1, <2>3 DEF insert, SetGsBase, LockPit, Reload, Latch
  <2>4. CASE MapApic(c) \/ late_start(c) \/ OpenLate(c)
    BY Zenon, <2>4 DEF MapApic, late_start, OpenLate, SettingsInv
  <2>5. CASE ReadLow(c) \/ ReadHigh(c) \/ SetupLint(c) \/ GetInstance(c)
    BY Zenon, <1>1, <2>5 DEF ReadLow, ReadHigh, SetupLint, GetInstance
  <2>6. CASE StoreQuantum(c) \/ latewait(c) \/ event_loop(c)
    BY Zenon, <1>1, <2>6 DEF StoreQuantum, latewait, event_loop
  <2> QED
    BY Zenon, <1>2, <2>1, <2>2, <2>3, <2>4, <2>5, <2>6 DEF Step
<1>3. UNCHANGED vars => UNCHANGED <<shared, flags, isvm>>
  BY Zenon DEF vars
<1> QED
  BY Zenon, <1>1, <1>2, <1>3 DEF Next

----------------------------------------------------------------------------
(* The invariant holds in every state of a boot. *)
THEOREM Invariance == Spec => []IInv
  BY InitIInv, NextIInv, PTL DEF Spec

(* No core works with what another has not yet set up, for any set of cores. *)
THEOREM SharedReady == Spec => []SharedBeforeUse
<1>1. IInv => SharedBeforeUse
  BY Zenon DEF IInv, FlagInv, SharedBeforeUse
<1> QED
  BY Invariance, <1>1, PTL

(* late_start is over when the first core enters the event loop, and has not
   begun before IGNITION. *)
THEOREM LateStartFirst == Spec => []LateBarrier
<1>1. IInv => LateBarrier
  BY Zenon DEF IInv, LateInv, LateBarrier
<1> QED
  BY Invariance, <1>1, PTL

(* The cores take turns at the PIT: no latch command is ignored and no byte is
   read out of order, whatever the delays between the accesses. *)
THEOREM PitTurns == Spec => []PitInTurn
<1>1. IInv => PitInTurn
  BY Zenon DEF IInv, PitInv, PitInTurn
<1> QED
  BY Invariance, <1>1, PTL

(* The walks hold their invariants from the start of a boot to its end. *)
THEOREM WalksInvariant == Spec => []BootInv
  BY InitBoot, NextBoot, PTL DEF Spec

(* For any archive, however its entries follow each other: when init_map has read
   a whole archive, every path leads to what was last archived under it. *)
THEOREM FilesAreFound == Spec => []FilesFound
<1>1. BootInv => FilesFound
  BY Zenon, WalkFinds DEF BootInv
<1> QED
  BY WalksInvariant, <1>1, PTL

(* For any tables of the firmware and any page size: a well placed table is read
   from its own frames. *)
THEOREM TablesAreRead == Spec => []TablesRead
<1>1. BootInv => TablesRead
  BY Zenon DEF BootInv
<1> QED
  BY WalksInvariant, <1>1, PTL

(* The order of the processor table holds in every state of a boot. *)
THEOREM OrderInvariant == Spec => [](TableInv /\ OrderInv)
<1>1. IInv /\ TableInv /\ OrderInv /\ [Next]_vars => (TableInv /\ OrderInv)'
  BY Zenon, NextOrder DEF IInv
<1> QED
  BY InitOrder, Invariance, <1>1, PTL DEF Spec

(* Cores that enter PROC_TABLE in the order of their ids, at most eleven as one leaf
   of the table holds, each keep the entry with their own stack and their own quantum. *)
THEOREM EntriesStay == Spec => []InOrder
<1>1. TableInv /\ OrderInv => InOrder
  BY Zenon, OrderGives
<1> QED
  BY OrderInvariant, <1>1, PTL

(* The variables of a boot have their types. *)
THEOREM TypeCorrect == Spec => []TypeOK
<1>1. IInv /\ BootInv /\ TableInv /\ SettingsInv => TypeOK
  <2> SUFFICES ASSUME IInv, BootInv, TableInv, SettingsInv PROVE TypeOK
    BY Zenon
  <2>1. InitrdTypeOK /\ AcpiTypeOK
    BY Zenon, InitrdTypes DEF BootInv
  <2>2. \A i \in DOMAIN proc_table : proc_table[i].id \in Core
    BY Zenon, EntryType
  <2>3. /\ pc \in [Core -> Places] /\ calib \in Core \cup {NONE}
        /\ pit.count \in 0..(TICKS - 1) /\ pit.latch \in 0..(TICKS - 1) \cup {NONE}
    BY Zenon DEF IInv, PcInv, PitType, PitValues
  <2>4. {IGNITION, LATE_IGNITION, MAPPED, late, isvm, ascending} \subseteq BOOLEAN
    BY Zenon DEF SettingsInv, TableInv
  <2> QED
    BY Zenon, <2>1, <2>2, <2>3, <2>4 DEF TypeOK, SettingsInv
<1>2. Spec => []SettingsInv
  BY InitSettings, NextSettings, PTL DEF Spec
<1> QED
  BY Invariance, WalksInvariant, OrderInvariant, <1>1, <1>2, PTL
=============================================================================

----------------------------- MODULE Scheduler -----------------------------
(***************************************************************************)
(* The task scheduler of the kernel (proc/task.rs), with the two ways a    *)
(* core enters it: the local APIC timer (interrupts/lapic/timer.rs and     *)
(* timer.asm) and the system call (proc/syscall.rs and syscall.asm).       *)
(*                                                                         *)
(* Every core runs the kernel with interrupts off and shares with the      *)
(* others the list TASKS behind a spin::RwLock, and one spin::RwLock per   *)
(* task.  A step of the model is the code between two points another core  *)
(* can observe: an acquisition or a release of one of those locks.         *)
(*                                                                         *)
(* CLOCK and the `since' of a running task are only ever subtracted from   *)
(* each other, and CLOCK only grows, so the model keeps the differences    *)
(* (`elapsed' and, for the tick in progress, `lag') up to LifeExpectancy.  *)
(* Task ids are compared for equality only: a new task takes any id that   *)
(* no reference to a task holds.                                           *)
(***************************************************************************)
EXTENDS Sequences, Integers

CONSTANTS
  Core,            \* the cores (local APIC ids)
  Task,            \* the ids a task may take; bounds the tasks alive at once
  NONE,            \* Rust's Option::None, and a free lock
  MAX_TICK_MISS,   \* task.rs: ticks a core may give up before it waits
  LifeExpectancy,  \* Task::life_expectancy of a task of priority 0
  ExecCanPanic     \* whether Task::exec may panic, and /bin/init fail to load

ASSUME CoreAssumption == NONE \notin Core
ASSUME TaskAssumption == NONE \notin Task
ASSUME BoundAssumption ==
  /\ MAX_TICK_MISS \in Nat
  /\ LifeExpectancy \in Nat \ {0}
  /\ ExecCanPanic \in BOOLEAN

VARIABLES
  tasks,           \* TASKS, the list itself
  writer,          \* the core that holds TASKS for writing
  upgradeable,     \* the core that holds TASKS upgradeably
  readers,         \* the cores that hold TASKS for reading
  state,           \* Task.state
  elapsed,         \* CLOCK - since of a Running task
  procstate,       \* Task.procstate, against what the task last executed
  taskWriter,      \* the core that holds the lock of a task for writing
  taskReaders,     \* the cores that hold the lock of a task for reading
  pc,              \* where each core executes
  current_task,    \* ProcInfo.current_task
  tick_miss,       \* ProcInfo.tick_miss
  isr,             \* the timer vector is in service at the local APIC
  lag,             \* tick: CLOCK minus the local `clock'
  index,           \* the loop variable of tick's scan and exit_current's find
  best,            \* tick: best_task, an index of the list and a held guard
  exiting,         \* exit_current: the reference taken from current_task
  proc_state,      \* tick: its argument, the state timer_inter_1 pushed
  reset_timer      \* continue_current: its argument

listVars == <<tasks, writer, upgradeable, readers>>
taskVars == <<state, elapsed, procstate>>
lockVars == <<taskWriter, taskReaders>>
coreVars == <<current_task, tick_miss, isr>>
localVars == <<lag, index, best, exiting, proc_state, reset_timer>>
vars == <<listVars, taskVars, lockVars, pc, coreVars, localVars>>

NoBest == [i |-> 0, t |-> NONE]

(* The operators on sequences that the list of tasks needs: its elements and
   Vec::remove. *)
ToSet(s) == {s[i] : i \in DOMAIN s}
RemoveAt(s, i) == SubSeq(s, 1, i - 1) \o SubSeq(s, i + 1, Len(s))

(* Where interrupts are enabled: user code, the hlt loop of event_loop, and
   the first instruction of syscall_handle_1 (`cli' has not executed yet:
   SFMASK is left at its reset value by syscall::enable). *)
Interruptible == {"user", "event_loop", "syscall_entry"}

(* A core that holds TASKS for reading is at one of these points of tick. *)
Scanning == {"expire", "scan", "look"}

Panicked == {"panic_unreachable", "panic_no_task", "panic_exec", "panic_fault"}

PC == Interruptible \cup Scanning \cup Panicked \cup
      {"tick", "save", "list", "continue", "resume", "syscall", "spawn",
       "exec", "exit", "find", "found", "remove", "syscall_return"}

----------------------------------------------------------------------------
(* spin::RwLock, as the scheduler uses it.  An upgradeable guard admits the
   readers already in and keeps every other core out. *)

(* Mutant of CanWrite: the readers that are in are not waited for. *)
CanWriteOverReaders == writer = NONE /\ upgradeable = NONE

CanReadUpgradeable == writer = NONE /\ upgradeable = NONE
CanWrite == writer = NONE /\ upgradeable = NONE /\ readers = {}
CanReadTask(t) == taskWriter[t] = NONE
CanWriteTask(t) == taskWriter[t] = NONE /\ taskReaders[t] = {}

Goto(c, there) == pc' = [pc EXCEPT ![c] = there]

(* Mutant of Priority: the newest task has a higher one. *)
NewestPriority(t) == IF t = tasks[Len(tasks)] THEN 1 ELSE 0

(* Task::new_locked: every task is created with priority 0. *)
Priority(t) == 0

(* Ids that no list entry and no core refers to. *)
FreshTask ==
  Task \ (ToSet(tasks) \cup {current_task[c] : c \in Core}
                       \cup {exiting[c] : c \in Core})

(* Task::new_locked: a Pending task with a first processor state is pushed
   at the end of the list. *)
NewTask(t) ==
  /\ tasks' = Append(tasks, t)
  /\ state' = [state EXCEPT ![t] = "Pending"]
  /\ elapsed' = [elapsed EXCEPT ![t] = 0]
  /\ procstate' = [procstate EXCEPT ![t] = "fresh"]

Saturate(n) == IF n < LifeExpectancy THEN n ELSE LifeExpectancy

Init ==
  /\ tasks = << >>
  /\ writer = NONE /\ upgradeable = NONE /\ readers = {}
  /\ state = [t \in Task |-> "Pending"]
  /\ elapsed = [t \in Task |-> 0]
  /\ procstate = [t \in Task |-> "fresh"]
  /\ taskWriter = [t \in Task |-> NONE]
  /\ taskReaders = [t \in Task |-> {}]
  /\ pc = [c \in Core |-> "event_loop"]
  /\ current_task = [c \in Core |-> NONE]
  /\ tick_miss = [c \in Core |-> 0]
  /\ isr = [c \in Core |-> FALSE]
  /\ lag = [c \in Core |-> 0]
  /\ index = [c \in Core |-> 0]
  /\ best = [c \in Core |-> NoBest]
  /\ exiting = [c \in Core |-> NONE]
  /\ proc_state = [c \in Core |-> "fresh"]
  /\ reset_timer = [c \in Core |-> FALSE]

----------------------------------------------------------------------------
(* User code.  A procstate is "stale" when the task has executed since its
   registers were last stored there. *)
UserRun(c) ==
  /\ pc[c] = "user"
  /\ procstate' = [procstate EXCEPT ![current_task[c]] = "stale"]
  /\ UNCHANGED <<listVars, state, elapsed, lockVars, pc, coreVars, localVars>>

UserSyscall(c) ==
  /\ pc[c] = "user"
  /\ procstate' = [procstate EXCEPT ![current_task[c]] = "stale"]
  /\ Goto(c, "syscall_entry")
  /\ UNCHANGED <<listVars, state, elapsed, lockVars, coreVars, localVars>>

----------------------------------------------------------------------------
(* The timer interrupt.  The local APIC delivers no second timer interrupt
   until the first one has got its EOI.  timer_inter_1 pushes the registers
   and timer_inter_2 hands them to tick; pushed at the first instruction of
   syscall_handle_1, they hold a kernel address. *)
TimerInterrupt(c) ==
  /\ pc[c] \in Interruptible
  /\ ~isr[c]
  /\ isr' = [isr EXCEPT ![c] = TRUE]
  /\ proc_state' = [proc_state EXCEPT ![c] =
                      IF pc[c] = "syscall_entry" THEN "kernel" ELSE "fresh"]
  /\ Goto(c, "tick")
  /\ UNCHANGED <<listVars, taskVars, lockVars, current_task, tick_miss,
                 lag, index, best, exiting, reset_timer>>

(* Mutant of TickMiss: a core never starts to wait for the list. *)
TickMissForEver(c) ==
  /\ pc[c] = "tick"
  /\ ~CanReadUpgradeable
  /\ tick_miss' = [tick_miss EXCEPT ![c] = @ + 1]
  /\ proc_state' = [proc_state EXCEPT ![c] = "fresh"]
  /\ reset_timer' = [reset_timer EXCEPT ![c] = TRUE]
  /\ Goto(c, "continue")
  /\ UNCHANGED <<listVars, taskVars, lockVars, current_task, isr, lag, index,
                 best, exiting>>

(* tick: the list is locked upgradeably, waiting for it only after too many
   misses. *)
TickAcquire(c) ==
  /\ pc[c] = "tick"
  /\ CanReadUpgradeable
  /\ upgradeable' = c
  /\ Goto(c, "save")
  /\ UNCHANGED <<tasks, writer, readers, taskVars, lockVars, coreVars,
                 localVars>>

TickMiss(c) ==
  /\ pc[c] = "tick"
  /\ tick_miss[c] <= MAX_TICK_MISS
  /\ ~CanReadUpgradeable
  /\ tick_miss' = [tick_miss EXCEPT ![c] = @ + 1]
  /\ proc_state' = [proc_state EXCEPT ![c] = "fresh"]
  /\ reset_timer' = [reset_timer EXCEPT ![c] = TRUE]
  /\ Goto(c, "continue")
  /\ UNCHANGED <<listVars, taskVars, lockVars, current_task, isr, lag, index,
                 best, exiting>>

(* CLOCK.fetch_add: every difference with CLOCK grows by one. *)
AdvanceClock(c) ==
  /\ elapsed' = [t \in Task |-> IF state[t] = "Running"
                                THEN Saturate(elapsed[t] + 1) ELSE 0]
  /\ lag' = [d \in Core |-> IF d = c THEN 1
                            ELSE IF pc[d] \in {"list"} \cup Scanning
                            THEN Saturate(lag[d] + 1) ELSE 0]

(* tick: the clock advances, and the state of the interrupted task is kept. *)
TickSave(c) ==
  /\ pc[c] = "save"
  /\ tick_miss' = [tick_miss EXCEPT ![c] = 0]
  /\ AdvanceClock(c)
  /\ IF current_task[c] = NONE
     THEN UNCHANGED procstate
     ELSE /\ CanWriteTask(current_task[c])
          /\ procstate' = [procstate EXCEPT ![current_task[c]] = proc_state[c]]
  /\ proc_state' = [proc_state EXCEPT ![c] = "fresh"]
  /\ Goto(c, "list")
  /\ UNCHANGED <<listVars, state, lockVars, current_task, isr, index, best,
                 exiting, reset_timer>>

(* tick: with no task at all the guard is upgraded, once the readers have
   left, and /bin/init is loaded; then the guard becomes a reader's. *)
TickRunInit(c) ==
  /\ pc[c] = "list"
  /\ tasks = << >>
  /\ readers = {}
  /\ \E t \in FreshTask : NewTask(t)
  /\ upgradeable' = NONE
  /\ readers' = {c}
  /\ Goto(c, "expire")
  /\ UNCHANGED <<writer, lockVars, coreVars, localVars>>

(* tick: /bin/init cannot be loaded, or Task::exec panics on it, and the core
   stops with the list held for writing. *)
TickInitFails(c) ==
  /\ ExecCanPanic
  /\ pc[c] = "list"
  /\ tasks = << >>
  /\ readers = {}
  /\ upgradeable' = NONE
  /\ writer' = c
  /\ Goto(c, "panic_exec")
  /\ UNCHANGED <<tasks, readers, taskVars, lockVars, coreVars, localVars>>

TickDowngrade(c) ==
  /\ pc[c] = "list"
  /\ tasks # << >>
  /\ upgradeable' = NONE
  /\ readers' = readers \cup {c}
  /\ Goto(c, "expire")
  /\ UNCHANGED <<tasks, writer, taskVars, lockVars, coreVars, localVars>>

(* Mutant of EndTick: the guard of the list is not dropped. *)
EndTickLocked(c) ==
  /\ lag' = [lag EXCEPT ![c] = 0]
  /\ reset_timer' = [reset_timer EXCEPT ![c] = TRUE]
  /\ Goto(c, "continue")
  /\ UNCHANGED readers

(* tick returns, dropping the reader's guard, to timer_inter_2, which calls
   continue_current(true). *)
EndTick(c) ==
  /\ readers' = readers \ {c}
  /\ lag' = [lag EXCEPT ![c] = 0]
  /\ reset_timer' = [reset_timer EXCEPT ![c] = TRUE]
  /\ Goto(c, "continue")

(* The locals of the scan that follows. *)
StartScan(c) ==
  /\ index' = [index EXCEPT ![c] = 1]
  /\ best' = [best EXCEPT ![c] = NoBest]
  /\ Goto(c, "scan")

(* Mutant of TickRelease: the released task is not made Pending again. *)
TickReleaseRunning(c) ==
  /\ pc[c] = "expire"
  /\ current_task[c] # NONE
  /\ CanWriteTask(current_task[c])
  /\ state[current_task[c]] = "Running"
  /\ elapsed[current_task[c]] >= LifeExpectancy
  /\ current_task' = [current_task EXCEPT ![c] = NONE]
  /\ StartScan(c)
  /\ UNCHANGED <<listVars, taskVars, lockVars, tick_miss, isr, lag, exiting,
                 proc_state, reset_timer>>

(* tick: a task that has lived long enough is taken from the core. *)
TickRelease(c) ==
  /\ pc[c] = "expire"
  /\ current_task[c] # NONE
  /\ CanWriteTask(current_task[c])
  /\ state[current_task[c]] = "Running"
  /\ elapsed[current_task[c]] >= LifeExpectancy
  /\ current_task' = [current_task EXCEPT ![c] = NONE]
  /\ state' = [state EXCEPT ![current_task[c]] = "Pending"]
  /\ elapsed' = [elapsed EXCEPT ![current_task[c]] = 0]
  /\ StartScan(c)
  /\ UNCHANGED <<listVars, procstate, lockVars, tick_miss, isr, lag, exiting,
                 proc_state, reset_timer>>

(* tick: a younger one stays; any other state than Running is what take_if
   calls unreachable. *)
TickKeep(c) ==
  /\ pc[c] = "expire"
  /\ current_task[c] # NONE
  /\ CanReadTask(current_task[c])
  /\ IF state[current_task[c]] # "Running"
     THEN /\ Goto(c, "panic_unreachable")
          /\ UNCHANGED <<readers, lag, reset_timer>>
     ELSE /\ elapsed[current_task[c]] < LifeExpectancy
          /\ EndTick(c)
  /\ UNCHANGED <<tasks, writer, upgradeable, taskVars, lockVars, coreVars,
                 index, best, exiting, proc_state>>

TickNoTask(c) ==
  /\ pc[c] = "expire"
  /\ current_task[c] = NONE
  /\ StartScan(c)
  /\ UNCHANGED <<listVars, taskVars, lockVars, coreVars, lag, exiting,
                 proc_state, reset_timer>>

(* tick: the scan tries the lock of the next task and skips a busy one. *)
ScanTryWrite(c) ==
  /\ pc[c] = "scan"
  /\ index[c] <= Len(tasks)
  /\ CanWriteTask(tasks[index[c]])
  /\ taskWriter' = [taskWriter EXCEPT ![tasks[index[c]]] = c]
  /\ Goto(c, "look")
  /\ UNCHANGED <<listVars, taskVars, taskReaders, coreVars, localVars>>

ScanBusy(c) ==
  /\ pc[c] = "scan"
  /\ index[c] <= Len(tasks)
  /\ ~CanWriteTask(tasks[index[c]])
  /\ index' = [index EXCEPT ![c] = @ + 1]
  /\ UNCHANGED <<listVars, taskVars, lockVars, pc, coreVars, lag, best,
                 exiting, proc_state, reset_timer>>

(* Mutant of IsCandidate: the test of the task's state is forgotten. *)
AnyCandidate(t) == TRUE

(* tick: only a Pending task is a candidate. *)
IsCandidate(t) == state[t] = "Pending"

(* tick: the guard of a task that is not a better candidate is dropped.  A
   better candidate replaces the guard kept in best_task, not its index. *)
ScanLook(c) ==
  /\ pc[c] = "look"
  /\ LET t == tasks[index[c]]
         b == best[c]
     IN \/ /\ IsCandidate(t)
           /\ b = NoBest
           /\ best' = [best EXCEPT ![c] = [i |-> index[c], t |-> t]]
           /\ UNCHANGED taskWriter
        \/ /\ IsCandidate(t) => b # NoBest
           /\ IF IsCandidate(t) /\ Priority(t) > Priority(b.t)
              THEN /\ best' = [best EXCEPT ![c].t = t]
                   /\ taskWriter' = [taskWriter EXCEPT ![b.t] = NONE]
              ELSE /\ taskWriter' = [taskWriter EXCEPT ![t] = NONE]
                   /\ UNCHANGED best
  /\ index' = [index EXCEPT ![c] = @ + 1]
  /\ Goto(c, "scan")
  /\ UNCHANGED <<listVars, taskVars, taskReaders, coreVars, lag, exiting,
                 proc_state, reset_timer>>

(* tick: the candidate is marked Running through its guard, the core takes
   the list entry at the candidate's index; every guard is dropped. *)
ScanEnd(c) ==
  /\ pc[c] = "scan"
  /\ index[c] > Len(tasks)
  /\ IF best[c] = NoBest
     THEN UNCHANGED <<state, elapsed, current_task, taskWriter>>
     ELSE /\ state' = [state EXCEPT ![best[c].t] = "Running"]
          /\ elapsed' = [elapsed EXCEPT ![best[c].t] = lag[c]]
          /\ current_task' = [current_task EXCEPT ![c] = tasks[best[c].i]]
          /\ taskWriter' = [taskWriter EXCEPT ![best[c].t] = NONE]
  /\ best' = [best EXCEPT ![c] = NoBest]
  /\ index' = [index EXCEPT ![c] = 0]
  /\ EndTick(c)
  /\ UNCHANGED <<tasks, writer, upgradeable, procstate, taskReaders,
                 tick_miss, isr, exiting, proc_state>>

----------------------------------------------------------------------------
(* continue_current: the memory map is applied under the lock of the task,
   which is dropped before the saved state is loaded. *)
ContinueTask(c) ==
  /\ pc[c] = "continue"
  /\ current_task[c] # NONE
  /\ CanReadTask(current_task[c])
  /\ Goto(c, "resume")
  /\ UNCHANGED <<listVars, taskVars, lockVars, coreVars, localVars>>

(* continue_current: no task, no EOI and no timer reset. *)
ContinueIdle(c) ==
  /\ pc[c] = "continue"
  /\ current_task[c] = NONE
  /\ Goto(c, "event_loop")
  /\ UNCHANGED <<listVars, taskVars, lockVars, coreVars, localVars>>

(* TaskProcState::apply: iretq to user mode.  A kernel address faults there,
   and page_fault panics. *)
Resume(c) ==
  /\ pc[c] = "resume"
  /\ isr' = [isr EXCEPT ![c] = @ /\ ~reset_timer[c]]
  /\ IF procstate[current_task[c]] = "kernel"
     THEN Goto(c, "panic_fault") /\ UNCHANGED procstate
     ELSE /\ Goto(c, "user")
          /\ procstate' = [procstate EXCEPT ![current_task[c]] = "fresh"]
  /\ UNCHANGED <<listVars, state, elapsed, lockVars, current_task, tick_miss,
                 localVars>>

----------------------------------------------------------------------------
(* The system call: syscall_handle_1 pushes the state of the task, which
   syscall_handle_2 stores. *)
SyscallSave(c) ==
  /\ pc[c] = "syscall_entry"
  /\ IF current_task[c] = NONE
     THEN Goto(c, "panic_no_task") /\ UNCHANGED procstate
     ELSE /\ CanWriteTask(current_task[c])
          /\ procstate' = [procstate EXCEPT ![current_task[c]] = "fresh"]
          /\ Goto(c, "syscall")
  /\ UNCHANGED <<listVars, state, elapsed, lockVars, coreVars, localVars>>

(* GetPid, DebugDraw and a number that is no system call: at most the lock
   of the core's own task is read. *)
SyscallOther(c) ==
  /\ pc[c] = "syscall"
  /\ CanReadTask(current_task[c])
  /\ Goto(c, "syscall_return")
  /\ UNCHANGED <<listVars, taskVars, lockVars, coreVars, localVars>>

SyscallSpawn(c) ==
  /\ pc[c] = "syscall"
  /\ Goto(c, "spawn")
  /\ UNCHANGED <<listVars, taskVars, lockVars, coreVars, localVars>>

SpawnAcquire(c) ==
  /\ pc[c] = "spawn"
  /\ CanWrite
  /\ writer' = c
  /\ Goto(c, "exec")
  /\ UNCHANGED <<tasks, upgradeable, readers, taskVars, lockVars, coreVars,
                 localVars>>

(* Task::exec_initrd succeeds and pushes a task, or fails and pushes none. *)
SpawnExec(c) ==
  /\ pc[c] = "exec"
  /\ \/ \E t \in FreshTask : NewTask(t)
     \/ UNCHANGED <<tasks, taskVars>>
  /\ writer' = NONE
  /\ Goto(c, "syscall_return")
  /\ UNCHANGED <<upgradeable, readers, lockVars, coreVars, localVars>>

(* Task::exec panics, and the core stops with the list held for writing: on an
   entry whose sums overflow or that has more bytes in the file than in memory,
   or for lack of a frame for a page table. *)
SpawnPanics(c) ==
  /\ ExecCanPanic
  /\ pc[c] = "exec"
  /\ Goto(c, "panic_exec")
  /\ UNCHANGED <<listVars, taskVars, lockVars, coreVars, localVars>>

(* Mutant of SyscallExit: current_task is cloned instead of taken. *)
SyscallExitClone(c) ==
  /\ pc[c] = "syscall"
  /\ CanReadTask(current_task[c])
  /\ exiting' = [exiting EXCEPT ![c] = current_task[c]]
  /\ Goto(c, "exit")
  /\ UNCHANGED <<listVars, taskVars, lockVars, coreVars, lag, index, best,
                 proc_state, reset_timer>>

(* exit_current takes the reference of the core and looks the task up in the
   list, reading the lock of one entry after the other. *)
SyscallExit(c) ==
  /\ pc[c] = "syscall"
  /\ CanReadTask(current_task[c])
  /\ exiting' = [exiting EXCEPT ![c] = current_task[c]]
  /\ current_task' = [current_task EXCEPT ![c] = NONE]
  /\ Goto(c, "exit")
  /\ UNCHANGED <<listVars, taskVars, lockVars, tick_miss, isr, lag, index,
                 best, proc_state, reset_timer>>

(* exit_current drops its guard of the list and its reference to the task. *)
LeaveExit(c) ==
  /\ upgradeable' = NONE
  /\ exiting' = [exiting EXCEPT ![c] = NONE]
  /\ index' = [index EXCEPT ![c] = 0]
  /\ Goto(c, "syscall_return")

ExitAcquire(c) ==
  /\ pc[c] = "exit"
  /\ CanReadUpgradeable
  /\ upgradeable' = c
  /\ index' = [index EXCEPT ![c] = 1]
  /\ Goto(c, "find")
  /\ UNCHANGED <<tasks, writer, readers, taskVars, lockVars, coreVars, lag,
                 best, exiting, proc_state, reset_timer>>

ExitFind(c) ==
  /\ pc[c] = "find"
  /\ IF index[c] > Len(tasks)
     THEN LeaveExit(c) /\ UNCHANGED <<tasks, taskReaders>>
     ELSE /\ CanReadTask(tasks[index[c]])
          /\ taskReaders' =
               [taskReaders EXCEPT ![tasks[index[c]]] = @ \cup {c}]
          /\ Goto(c, "found")
          /\ UNCHANGED <<tasks, upgradeable, index, exiting>>
  /\ UNCHANGED <<writer, readers, taskVars, taskWriter, coreVars, lag, best,
                 proc_state, reset_timer>>

ExitFound(c) ==
  /\ pc[c] = "found"
  /\ taskReaders' = [taskReaders EXCEPT ![tasks[index[c]]] = @ \ {c}]
  /\ IF tasks[index[c]] = exiting[c]
     THEN Goto(c, "remove") /\ UNCHANGED index
     ELSE Goto(c, "find") /\ index' = [index EXCEPT ![c] = @ + 1]
  /\ UNCHANGED <<listVars, taskVars, taskWriter, coreVars, lag, best, exiting,
                 proc_state, reset_timer>>

(* exit_current: upgraded once the readers have left, the list loses the
   entry. *)
ExitRemove(c) ==
  /\ pc[c] = "remove"
  /\ readers = {}
  /\ tasks' = RemoveAt(tasks, index[c])
  /\ LeaveExit(c)
  /\ UNCHANGED <<writer, readers, taskVars, lockVars, coreVars, lag, best,
                 proc_state, reset_timer>>

(* syscall_handle_2: without a task the core goes to the event loop, else
   the result is written to the saved state. *)
SyscallIdle(c) ==
  /\ pc[c] = "syscall_return"
  /\ current_task[c] = NONE
  /\ Goto(c, "event_loop")
  /\ UNCHANGED <<listVars, taskVars, lockVars, coreVars, localVars>>

SyscallResult(c) ==
  /\ pc[c] = "syscall_return"
  /\ current_task[c] # NONE
  /\ CanWriteTask(current_task[c])
  /\ reset_timer' = [reset_timer EXCEPT ![c] = FALSE]
  /\ Goto(c, "continue")
  /\ UNCHANGED <<listVars, taskVars, lockVars, coreVars, lag, index, best,
                 exiting, proc_state>>

----------------------------------------------------------------------------
User(c) == UserRun(c) \/ UserSyscall(c)

Tick(c) ==
  \/ TickAcquire(c) \/ TickMiss(c) \/ TickSave(c) \/ TickRunInit(c)
  \/ TickInitFails(c) \/ TickDowngrade(c)
  \/ TickRelease(c) \/ TickKeep(c) \/ TickNoTask(c) \/ ScanTryWrite(c)
  \/ ScanBusy(c) \/ ScanLook(c) \/ ScanEnd(c)

Continue(c) == ContinueTask(c) \/ ContinueIdle(c) \/ Resume(c)

Syscall(c) ==
  \/ SyscallSave(c) \/ SyscallOther(c) \/ SyscallSpawn(c)
  \/ SpawnAcquire(c) \/ SpawnExec(c) \/ SpawnPanics(c)
  \/ SyscallExit(c) \/ ExitAcquire(c) \/ ExitFind(c) \/ ExitFound(c) \/ ExitRemove(c)
  \/ SyscallIdle(c) \/ SyscallResult(c)

Kernel(c) == Tick(c) \/ Continue(c) \/ Syscall(c)

Next == \E c \in Core : User(c) \/ TimerInterrupt(c) \/ Kernel(c)

Spec == Init /\ [][Next]_vars

(* A core executes the kernel to its end.  A spinning core may lose a lock to
   others for a while, but every holder gives it back within a bounded number
   of its own steps and takes it again only at its next tick or system call,
   so a lock that is released again and again is eventually seen free. *)
FairSpec == Spec /\ \A c \in Core : SF_vars(Kernel(c))

----------------------------------------------------------------------------
(* The values the variables take. *)
ListType ==
  /\ tasks \in Seq(Task)
  /\ writer \in Core \cup {NONE}
  /\ upgradeable \in Core \cup {NONE}
  /\ readers \in SUBSET Core

TaskType ==
  /\ state \in [Task -> {"Pending", "Running"}]
  /\ elapsed \in [Task -> 0..LifeExpectancy]
  /\ procstate \in [Task -> {"fresh", "stale", "kernel"}]
  /\ taskWriter \in [Task -> Core \cup {NONE}]
  /\ taskReaders \in [Task -> SUBSET Core]

CoreType ==
  /\ pc \in [Core -> PC]
  /\ current_task \in [Core -> Task \cup {NONE}]
  /\ tick_miss \in [Core -> 0..(MAX_TICK_MISS + 1)]
  /\ isr \in [Core -> BOOLEAN]

LocalType ==
  /\ lag \in [Core -> 0..LifeExpectancy]
  /\ index \in [Core -> Nat]
  /\ best \in [Core -> [i : Nat, t : Task \cup {NONE}]]
  /\ exiting \in [Core -> Task \cup {NONE}]
  /\ proc_state \in [Core -> {"fresh", "kernel"}]
  /\ reset_timer \in [Core -> BOOLEAN]

(* The type invariant: among the rest, a core never misses more than
   MAX_TICK_MISS + 1 ticks in a row (tick waits for the list after that). *)
TypeOK == ListType /\ TaskType /\ CoreType /\ LocalType

(* The tasks a core answers for: the one it runs, the one it is exiting. *)
Owned(c) == {current_task[c], exiting[c]} \ {NONE}

(* A task runs on at most one core: whatever the interleaving of the ticks,
   the exits and the spawns of the cores, no two cores refer to the same task
   as the one they run or exit (tick, exit_current). *)
OneOwner == \A c, d \in Core : c # d => Owned(c) \cap Owned(d) = {}

(* The task of a core is Running and in the list, so the unreachable!() of
   take_if in tick is not reached, and user code always has a task behind it,
   so neither is the expect() of syscall_handle_2. *)
CurrentIsRunning ==
  \A c \in Core :
    /\ pc[c] \notin {"panic_unreachable", "panic_no_task"}
    /\ pc[c] \in {"user", "syscall_entry", "resume"} => current_task[c] # NONE
    /\ current_task[c] # NONE => /\ state[current_task[c]] = "Running"
                                 /\ current_task[c] \in ToSet(tasks)

(* No task is lost: a task of the list that is Running is the task of some
   core or is being removed by one, so there is a core whose tick will release
   it or whose exit_current will remove it. *)
NoLostTask ==
  \A t \in ToSet(tasks) :
    state[t] = "Running" => \E c \in Core : t \in Owned(c)

(* The list does not move under a core that walks it: neither under the scan
   of a tick, whose index dispatches a task at the end, nor under the find of
   exit_current, whose index is removed after the upgrade. *)
ListStable ==
  [][\A c \in Core :
       /\ pc[c] \in Scanning => tasks' = tasks
       /\ pc[c] \in {"find", "found", "remove"} =>
            tasks' = tasks \/ pc'[c] = "syscall_return"]_vars

(* The FIXME in continue_current: between the drop of the lock of the task and
   the load of its saved state, no other core writes that state. *)
ResumeStable ==
  [][\A c \in Core :
       pc[c] = "resume" /\ pc'[c] = "resume" =>
         procstate'[current_task[c]] = procstate[current_task[c]]]_vars

(* "Save task state, if there was a task that is" (task.rs): what continue_
   current loads is what the task was last executing, not an older state. *)
ResumesWhereInterrupted ==
  \A c \in Core :
    pc[c] = "resume" => procstate[current_task[c]] # "stale"

(* "the timer tick will call event_loop again" (sys.rs): the timer can
   interrupt a core that sits in the event loop. *)
EventLoopTicks == \A c \in Core : pc[c] = "event_loop" => ~isr[c]

(* A core that entered the kernel leaves it for user code, for the event loop
   or by a panic: nobody waits for a lock for ever, unless a core has panicked in
   Task::exec, where it holds TASKS for writing. *)
KernelReturns ==
  \A c \in Core :
    []<>(\/ pc[c] \in Interruptible \cup Panicked
         \/ \E d \in Core : pc[d] = "panic_exec")
============================================================================

-------------------------- MODULE SchedulerProofs --------------------------
(***************************************************************************)
(* The inductive invariant of Scheduler and the theorems that follow from  *)
(* it, for every set of cores and of tasks, and every bound on ticks and   *)
(* lives.  The lemmas show one conjunct of the invariant each; where a     *)
(* conjunct is about every core, one lemma is about the core that steps    *)
(* and one about the others.                                               *)
(***************************************************************************)
EXTENDS Scheduler, TLAPS

(* Where a core holds TASKS upgradeably, and for writing. *)
Upgradeable == {"save", "list", "find", "found", "remove"}
Writing == {"exec", "panic_exec"}

(* Where exit_current holds the task it removes. *)
Exiting == {"exit", "find", "found", "remove"}

(* Where a core has a task, and where it has none. *)
HasTask == {"user", "syscall_entry", "resume", "syscall", "spawn", "exec",
            "panic_fault"}
HasNone == {"event_loop", "scan", "look"} \cup Exiting

(* The program counters tell who holds the lock of the list, and the lock
   excludes what spin::RwLock excludes. *)
ListLock ==
  /\ \A c \in Core : upgradeable = c <=> pc[c] \in Upgradeable
  /\ \A c \in Core : writer = c <=> pc[c] \in Writing
  /\ \A c \in Core : c \in readers <=> pc[c] \in Scanning
  /\ writer # NONE => upgradeable = NONE /\ readers = {}

(* No task is in the list twice. *)
ListDistinct ==
  \A i, j \in 1..Len(tasks) : tasks[i] = tasks[j] => i = j

(* What a core in the scan of tick knows: the guards it holds, and that its
   candidate is a Pending entry of the list at the index it keeps. *)
ScanOf(c) ==
  /\ pc[c] \in {"scan", "look"} => index[c] >= 1
  /\ pc[c] = "look" => /\ index[c] <= Len(tasks)
                       /\ taskWriter[tasks[index[c]]] = c
                       /\ tasks[index[c]] # best[c].t
  /\ best[c].t # NONE => /\ pc[c] \in {"scan", "look"}
                         /\ best[c].i \in 1..Len(tasks)
                         /\ tasks[best[c].i] = best[c].t
                         /\ taskWriter[best[c].t] = c
                         /\ state[best[c].t] = "Pending"
  /\ best[c].t = NONE => best[c].i = 0

ScanInv == \A c \in Core : ScanOf(c)

(* Whether t is an entry of the list. *)
Listed(t) == \E i \in 1..Len(tasks) : tasks[i] = t

(* What a core in exit_current knows: its task is in the list, not before
   the entry it looks at. *)
ExitOf(c) ==
  /\ exiting[c] # NONE <=> pc[c] \in Exiting
  /\ exiting[c] # NONE => Listed(exiting[c])
  /\ pc[c] \in {"find", "found", "remove"} => index[c] >= 1
  /\ pc[c] \in {"found", "remove"} => index[c] <= Len(tasks)
  /\ pc[c] \in {"find", "found"} =>
       \A i \in 1..Len(tasks) : tasks[i] = exiting[c] => i >= index[c]
  /\ pc[c] = "remove" => tasks[index[c]] = exiting[c]

ExitInv == \A c \in Core : ExitOf(c)

(* What a core owns is Running and in the list. *)
OwnOf(c) ==
  /\ pc[c] \notin {"panic_unreachable", "panic_no_task"}
  /\ pc[c] \in HasTask => current_task[c] # NONE
  /\ pc[c] \in HasNone => current_task[c] = NONE
  /\ current_task[c] # NONE => /\ state[current_task[c]] = "Running"
                               /\ Listed(current_task[c])
  /\ exiting[c] # NONE => state[exiting[c]] = "Running"

OwnInv == \A c \in Core : OwnOf(c)

(* No two cores own the same task, pair by pair. *)
OwnerInv ==
  \A c, d \in Core : c # d =>
    /\ current_task[c] # NONE => /\ current_task[c] # current_task[d]
                                 /\ current_task[c] # exiting[d]
    /\ exiting[c] # NONE => exiting[c] # exiting[d]

(* A Running entry of the list has an owner. *)
LostInv ==
  \A i \in 1..Len(tasks) :
    state[tasks[i]] = "Running" =>
      \E c \in Core : current_task[c] = tasks[i] \/ exiting[c] = tasks[i]

(* The inductive invariant. *)
IInv ==
  /\ TypeOK /\ ListLock /\ ListDistinct /\ ScanInv
  /\ ExitInv /\ OwnInv /\ OwnerInv /\ LostInv

(* The types that matter to the lock of the list. *)
LockType ==
  /\ writer \in Core \cup {NONE}
  /\ upgradeable \in Core \cup {NONE}
  /\ readers \in SUBSET Core
  /\ pc \in [Core -> PC]

(* A step of core c. *)
Step(c) == User(c) \/ TimerInterrupt(c) \/ Kernel(c)

----------------------------------------------------------------------------
(* The actions that change each variable. *)
Changes(c) ==
  /\ \/ tasks' = tasks \/ TickRunInit(c) \/ SpawnExec(c) \/ ExitRemove(c)
  /\ \/ writer' = writer \/ TickInitFails(c) \/ SpawnAcquire(c)
     \/ SpawnExec(c)
  /\ \/ upgradeable' = upgradeable \/ TickAcquire(c) \/ TickRunInit(c)
     \/ TickInitFails(c) \/ TickDowngrade(c) \/ ExitAcquire(c)
     \/ ExitFind(c) \/ ExitRemove(c)
  /\ \/ readers' = readers \/ TickRunInit(c) \/ TickDowngrade(c)
     \/ TickKeep(c) \/ ScanEnd(c)
  /\ \/ state' = state \/ TickRunInit(c) \/ TickRelease(c) \/ ScanEnd(c)
     \/ SpawnExec(c)
  /\ \/ elapsed' = elapsed \/ TickSave(c) \/ TickRunInit(c) \/ TickRelease(c)
     \/ ScanEnd(c) \/ SpawnExec(c)
  /\ \/ procstate' = procstate \/ UserRun(c) \/ UserSyscall(c) \/ TickSave(c)
     \/ TickRunInit(c) \/ Resume(c) \/ SyscallSave(c) \/ SpawnExec(c)
  /\ \/ taskWriter' = taskWriter \/ ScanTryWrite(c) \/ ScanLook(c)
     \/ ScanEnd(c)
  /\ \/ taskReaders' = taskReaders \/ ExitFind(c) \/ ExitFound(c)
  /\ \/ current_task' = current_task \/ TickRelease(c) \/ ScanEnd(c)
     \/ SyscallExit(c)
  /\ \/ tick_miss' = tick_miss \/ TickMiss(c) \/ TickSave(c)
  /\ \/ isr' = isr \/ TimerInterrupt(c) \/ Resume(c)
  /\ \/ lag' = lag \/ TickSave(c) \/ TickKeep(c) \/ ScanEnd(c)
  /\ \/ index' = index \/ TickRelease(c) \/ TickNoTask(c) \/ ScanBusy(c)
     \/ ScanLook(c) \/ ScanEnd(c) \/ ExitAcquire(c) \/ ExitFind(c)
     \/ ExitFound(c) \/ ExitRemove(c)
  /\ \/ best' = best \/ TickRelease(c) \/ TickNoTask(c) \/ ScanLook(c)
     \/ ScanEnd(c)
  /\ \/ exiting' = exiting \/ SyscallExit(c) \/ ExitFind(c) \/ ExitRemove(c)
  /\ \/ proc_state' = proc_state \/ TimerInterrupt(c) \/ TickMiss(c)
     \/ TickSave(c)
  /\ \/ reset_timer' = reset_timer \/ TickMiss(c) \/ TickKeep(c) \/ ScanEnd(c)
     \/ SyscallResult(c)

(* What a step changes. *)
LEMMA StepChanges ==
  ASSUME NEW c, Step(c)
  PROVE  Changes(c)
  <1>. USE DEF listVars, taskVars, lockVars, coreVars, localVars
  <1>1. CASE User(c) \/ TimerInterrupt(c)
    <2>1. CASE UserRun(c)
      BY Zenon, <2>1 DEF Changes, UserRun
    <2>2. CASE UserSyscall(c)
      BY Zenon, <2>2 DEF Changes, UserSyscall
    <2>3. CASE TimerInterrupt(c)
      BY Zenon, <2>3 DEF Changes, TimerInterrupt
    <2>. QED  BY Zenon, <1>1, <2>1, <2>2, <2>3 DEF User
  <1>2. CASE Tick(c)
    <2>1. CASE TickAcquire(c)
      BY Zenon, <2>1 DEF Changes, TickAcquire
    <2>2. CASE TickMiss(c)
      BY Zenon, <2>2 DEF Changes, TickMiss
    <2>3. CASE TickSave(c)
      BY Zenon, <2>3 DEF Changes, TickSave, AdvanceClock
    <2>4. CASE TickRunInit(c)
      BY Zenon, <2>4 DEF Changes, TickRunInit
    <2>5. CASE TickInitFails(c)
      BY Zenon, <2>5 DEF Changes, TickInitFails
    <2>6. CASE TickDowngrade(c)
      BY Zenon, <2>6 DEF Changes, TickDowngrade
    <2>7. CASE TickRelease(c)
      BY Zenon, <2>7 DEF Changes, TickRelease, StartScan
    <2>8. CASE TickKeep(c)
      BY Zenon, <2>8 DEF Changes, TickKeep, EndTick
    <2>9. CASE TickNoTask(c)
      BY Zenon, <2>9 DEF Changes, TickNoTask, StartScan
    <2>10. CASE ScanTryWrite(c)
      BY Zenon, <2>10 DEF Changes, ScanTryWrite
    <2>11. CASE ScanBusy(c)
      BY Zenon, <2>11 DEF Changes, ScanBusy
    <2>12. CASE ScanLook(c)
      BY Zenon, <2>12 DEF Changes, ScanLook
    <2>13. CASE ScanEnd(c)
      BY Zenon, <2>13 DEF Changes, ScanEnd, EndTick
    <2>. QED  BY Zenon, <1>2, <2>1, <2>2, <2>3, <2>4, <2>5, <2>6, <2>7, <2>8, <2>9
                 , <2>10, <2>11, <2>12, <2>13 DEF Tick
  <1>3. CASE Continue(c)
    <2>1. CASE ContinueTask(c)
      BY Zenon, <2>1 DEF Changes, ContinueTask
    <2>2. CASE ContinueIdle(c)
      BY Zenon, <2>2 DEF Changes, ContinueIdle
    <2>3. CASE Resume(c)
      BY Zenon, <2>3 DEF Changes, Resume
    <2>. QED  BY Zenon, <1>3, <2>1, <2>2, <2>3 DEF Continue
  <1>4. CASE Syscall(c)
    <2>1. CASE SyscallSave(c)
      BY Zenon, <2>1 DEF Changes, SyscallSave
    <2>2. CASE SyscallOther(c)
      BY Zenon, <2>2 DEF Changes, SyscallOther
    <2>3. CASE SyscallSpawn(c)
      BY Zenon, <2>3 DEF Changes, SyscallSpawn
    <2>4. CASE SpawnAcquire(c)
      BY Zenon, <2>4 DEF Changes, SpawnAcquire
    <2>5. CASE SpawnExec(c)
      BY Zenon, <2>5 DEF Changes, SpawnExec
    <2>5p. CASE SpawnPanics(c)
      BY Zenon, <2>5p DEF Changes, SpawnPanics
    <2>6. CASE SyscallExit(c)
      BY Zenon, <2>6 DEF Changes, SyscallExit
    <2>7. CASE ExitAcquire(c)
      BY Zenon, <2>7 DEF Changes, ExitAcquire
    <2>8. CASE ExitFind(c)
      BY Zenon, <2>8 DEF Changes, ExitFind, LeaveExit
    <2>9. CASE ExitFound(c)
      BY Zenon, <2>9 DEF Changes, ExitFound
    <2>10. CASE ExitRemove(c)
      BY Zenon, <2>10 DEF Changes, ExitRemove, LeaveExit
    <2>11. CASE SyscallIdle(c)
      BY Zenon, <2>11 DEF Changes, SyscallIdle
    <2>12. CASE SyscallResult(c)
      BY Zenon, <2>12 DEF Changes, SyscallResult
    <2>. QED  BY Zenon, <1>4, <2>1, <2>2, <2>3, <2>4, <2>5, <2>5p, <2>6, <2>7, <2>8, <2>9
                 , <2>10, <2>11, <2>12 DEF Syscall
  <1>. QED  BY Zenon, <1>1, <1>2, <1>3, <1>4 DEF Step, Kernel

(* The two actions that may push a new task. *)
LEMMA NewTasks ==
  ASSUME NEW c
  PROVE  /\ TickRunInit(c) => \E u \in FreshTask : NewTask(u)
         /\ SpawnExec(c) => \/ \E u \in FreshTask : NewTask(u)
                            \/ UNCHANGED <<tasks, state, elapsed, procstate>>
  BY Zenon DEF TickRunInit, SpawnExec, taskVars

(* exit_current: Vec::remove(index) moves the entries behind the index one
   place forward and keeps the others. *)
LEMMA RemoveAtFacts ==
  ASSUME NEW S, NEW s \in Seq(S), NEW i \in 1..Len(s)
  PROVE  /\ RemoveAt(s, i) \in Seq(S)
         /\ Len(RemoveAt(s, i)) = Len(s) - 1
         /\ \A j \in 1..(Len(s) - 1) :
              RemoveAt(s, i)[j] = IF j < i THEN s[j] ELSE s[j + 1]
  <1>1. /\ SubSeq(s, 1, i - 1) \in Seq(S)
        /\ Len(SubSeq(s, 1, i - 1)) = i - 1
        /\ \A j \in 1..(i - 1) : SubSeq(s, 1, i - 1)[j] = s[j]
    OBVIOUS
  <1>2. /\ SubSeq(s, i + 1, Len(s)) \in Seq(S)
        /\ Len(SubSeq(s, i + 1, Len(s))) = Len(s) - i
        /\ \A j \in 1..(Len(s) - i) : SubSeq(s, i + 1, Len(s))[j] = s[j + i]
    OBVIOUS
  <1>. DEFINE a == SubSeq(s, 1, i - 1)
              b == SubSeq(s, i + 1, Len(s))
  <1>3. /\ a \o b \in Seq(S)
        /\ Len(a \o b) = Len(a) + Len(b)
        /\ \A j \in 1..(Len(a) + Len(b)) :
             (a \o b)[j] = IF j <= Len(a) THEN a[j] ELSE b[j - Len(a)]
    <2>. HIDE DEF a, b
    <2>. a \in Seq(S) /\ b \in Seq(S)
      BY Zenon, <1>1, <1>2 DEF a, b
    <2>. QED  OBVIOUS
  <1>4. Len(a) = i - 1 /\ Len(b) = Len(s) - i
    BY Zenon, <1>1, <1>2
  <1>5. ASSUME NEW j \in 1..(Len(s) - 1)
        PROVE  (a \o b)[j] = IF j < i THEN s[j] ELSE s[j + 1]
    <2>1. CASE j < i
      <3>1. (a \o b)[j] = a[j]
        <4>. HIDE DEF a, b
        <4>1. j \in 1..(Len(a) + Len(b)) /\ j <= Len(a)
          BY <2>1, <1>4
        <4>. QED  BY Zenon, <4>1, <1>3
      <3>2. j \in 1..(i - 1)
        BY <2>1
      <3>3. a[j] = s[j]
        BY Zenon, <3>2, <1>1 DEF a
      <3>. HIDE DEF a, b
      <3>. QED  BY Zenon, <3>1, <3>3, <2>1
    <2>2. CASE j >= i
      <3>1. (a \o b)[j] = b[j - (i - 1)]
        <4>. HIDE DEF a, b
        <4>1. j \in 1..(Len(a) + Len(b)) /\ ~(j <= Len(a))
          BY <2>2, <1>4
        <4>2. (a \o b)[j] = b[j - Len(a)]
          BY Zenon, <4>1, <1>3
        <4>. QED  BY Zenon, <4>2, <1>4
      <3>2. /\ j - (i - 1) \in 1..(Len(s) - i)
            /\ (j - (i - 1)) + i = j + 1
        BY <2>2
      <3>3. b[j - (i - 1)] = s[(j - (i - 1)) + i]
        BY Zenon, <3>2, <1>2
      <3>4. ~(j < i)
        BY <2>2
      <3>. HIDE DEF a, b
      <3>. QED  BY Zenon, <3>1, <3>2, <3>3, <3>4
    <2>3. j < i \/ j >= i
      OBVIOUS
    <2>. HIDE DEF a, b
    <2>. QED  BY Zenon, <2>1, <2>2, <2>3
  <1>6. RemoveAt(s, i) = a \o b
    BY Zenon DEF RemoveAt
  <1>. HIDE DEF a, b
  <1>7. RemoveAt(s, i) \in Seq(S)
    BY Zenon, <1>3, <1>6
  <1>8. Len(RemoveAt(s, i)) = Len(s) - 1
    BY <1>3, <1>4, <1>6
  <1>9. \A j \in 1..(Len(s) - 1) :
          RemoveAt(s, i)[j] = IF j < i THEN s[j] ELSE s[j + 1]
    BY Zenon, <1>5, <1>6
  <1>. QED  BY Zenon, <1>7, <1>8, <1>9

(* The arithmetic of an index: no entry is at or after one past the end. *)
LEMMA PastTheEnd ==
  ASSUME NEW m \in Nat, NEW n \in Nat, m > n
  PROVE  ~ \E i \in 1..n : i >= m
  OBVIOUS

(* The arithmetic of an index: a number between the ends is one. *)
LEMMA WithinTheEnds ==
  ASSUME NEW m \in Nat, NEW n \in Nat, m >= 1, m <= n
  PROVE  m \in 1..n
  OBVIOUS

(* The arithmetic of Vec::remove: where an entry behind the index goes. *)
LEMMA OneForward ==
  ASSUME NEW n \in Nat, NEW i \in 1..n, NEW k \in 1..n, i # k
  PROVE  /\ i < k \/ i > k
         /\ i < k => i \in 1..(n - 1)
         /\ i > k => i - 1 \in 1..(n - 1) /\ ~(i - 1 < k)
  OBVIOUS

(* A ledger of ticks stays below the life expectancy. *)
LEMMA SaturateFacts ==
  /\ \A n \in Nat : Saturate(n) \in 0..LifeExpectancy
  /\ 0 \in 0..LifeExpectancy
  /\ 1 \in 0..LifeExpectancy
  BY BoundAssumption DEF Saturate

(* A function keeps its type when one of its values is replaced. *)
LEMMA Replaced ==
  ASSUME NEW S, NEW T, NEW f \in [S -> T], NEW x, NEW v \in T
  PROVE  [f EXCEPT ![x] = v] \in [S -> T]
  BY Zenon

(* new_locked: Vec::push keeps the entries and adds one. *)
LEMMA AppendFacts ==
  ASSUME NEW S, NEW s \in Seq(S), NEW e \in S
  PROVE  /\ Append(s, e) \in Seq(S)
         /\ Len(Append(s, e)) = Len(s) + 1
         /\ \A j \in 1..Len(s) : Append(s, e)[j] = s[j]
         /\ Append(s, e)[Len(s) + 1] = e
  OBVIOUS

(* The list of tasks after new_locked has pushed task u. *)
LEMMA ListPushed ==
  ASSUME ListType, NEW u \in Task, tasks' = Append(tasks, u)
  PROVE  /\ Len(tasks') = Len(tasks) + 1
         /\ \A j \in 1..Len(tasks) : tasks'[j] = tasks[j]
         /\ \A j \in 1..Len(tasks) : tasks[j] \in Task
         /\ tasks'[Len(tasks) + 1] = u
         /\ Len(tasks) \in Nat
  <1>1. tasks \in Seq(Task)
    BY Zenon DEF ListType
  <1>2. Len(tasks) \in Nat /\ \A j \in 1..Len(tasks) : tasks[j] \in Task
    BY <1>1
  <1>. QED  BY <1>1, <1>2, AppendFacts

(* The list of tasks after exit_current has removed the entry i. *)
LEMMA ListRemoved ==
  ASSUME ListType, NEW i \in 1..Len(tasks), tasks' = RemoveAt(tasks, i)
  PROVE  /\ Len(tasks') = Len(tasks) - 1
         /\ \A j \in 1..(Len(tasks) - 1) :
              tasks'[j] = IF j < i THEN tasks[j] ELSE tasks[j + 1]
         /\ Len(tasks) \in Nat
  <1>1. tasks \in Seq(Task)
    BY Zenon DEF ListType
  <1>2. Len(tasks) \in Nat
    BY <1>1
  <1>. QED  BY Zenon, <1>1, <1>2, RemoveAtFacts

(* The types of the list and of the tasks after new_locked. *)
LEMMA NewTaskType ==
  ASSUME ListType, TaskType, NEW t \in FreshTask, NewTask(t)
  PROVE  /\ tasks' \in Seq(Task)
         /\ state' \in [Task -> {"Pending", "Running"}]
         /\ elapsed' \in [Task -> 0..LifeExpectancy]
         /\ procstate' \in [Task -> {"fresh", "stale", "kernel"}]
  <1>1. t \in Task
    BY Zenon DEF FreshTask
  <1>2. tasks \in Seq(Task)
    BY Zenon DEF ListType
  <1>3. tasks' = Append(tasks, t)
    BY Zenon DEF NewTask
  <1>4. tasks' \in Seq(Task)
    BY Zenon, <1>1, <1>2, <1>3, AppendFacts
  <1>5. state' \in [Task -> {"Pending", "Running"}]
    <2>1. state \in [Task -> {"Pending", "Running"}]
      BY Zenon DEF TaskType
    <2>2. state' = [state EXCEPT ![t] = "Pending"]
      BY Zenon DEF NewTask
    <2>. QED  BY Zenon, <2>1, <2>2
  <1>6. elapsed' \in [Task -> 0..LifeExpectancy]
    <2>1. elapsed \in [Task -> 0..LifeExpectancy]
      BY Zenon DEF TaskType
    <2>2. elapsed' = [elapsed EXCEPT ![t] = 0]
      BY Zenon DEF NewTask
    <2>. QED  BY Zenon, <2>1, <2>2, SaturateFacts, Replaced
  <1>7. procstate' \in [Task -> {"fresh", "stale", "kernel"}]
    <2>1. procstate \in [Task -> {"fresh", "stale", "kernel"}]
      BY Zenon DEF TaskType
    <2>2. procstate' = [procstate EXCEPT ![t] = "fresh"]
      BY Zenon DEF NewTask
    <2>. QED  BY Zenon, <2>1, <2>2
  <1>. QED  BY Zenon, <1>4, <1>5, <1>6, <1>7

(* exit_current: the index it removes is that of its own task. *)
LEMMA ExitIndex ==
  ASSUME ListType, LocalType, ExitInv, NEW c \in Core, pc[c] = "remove"
  PROVE  index[c] \in 1..Len(tasks) /\ tasks[index[c]] = exiting[c]
  <1>1. ExitOf(c)
    BY Zenon DEF ExitInv
  <1>2. index[c] \in Nat /\ Len(tasks) \in Nat
    BY DEF LocalType, ListType
  <1>3. pc[c] \in {"find", "found", "remove"} /\ pc[c] \in {"found", "remove"}
    BY Zenon
  <1>4. index[c] >= 1
    BY Zenon, <1>1, <1>3 DEF ExitOf
  <1>5. index[c] <= Len(tasks)
    BY Zenon, <1>1, <1>3 DEF ExitOf
  <1>6. tasks[index[c]] = exiting[c]
    BY Zenon, <1>1 DEF ExitOf
  <1>. QED  BY Zenon, <1>2, <1>4, <1>5, <1>6, WithinTheEnds

(* A candidate of the scan is a Pending entry of the list, and the core holds
   its lock. *)
LEMMA BestFacts ==
  ASSUME LocalType, ScanInv, NEW c \in Core, best[c] # NoBest
  PROVE  /\ best[c].t \in Task
         /\ best[c].i \in 1..Len(tasks)
         /\ tasks[best[c].i] = best[c].t
         /\ taskWriter[best[c].t] = c
         /\ state[best[c].t] = "Pending"
  <1>1. best[c] \in [i : Nat, t : Task \cup {NONE}] /\ ScanOf(c)
    BY Zenon DEF LocalType, ScanInv
  <1>2. best[c] = [i |-> best[c].i, t |-> best[c].t]
    BY Zenon, <1>1
  <1>3. best[c].t # NONE
    BY Zenon, <1>1, <1>2 DEF ScanOf, NoBest
  <1>. QED  BY Zenon, <1>1, <1>3 DEF ScanOf

----------------------------------------------------------------------------
(* The type of the list and its lock. *)
LEMMA ListTypeStep ==
  ASSUME ListType, LocalType, TaskType, ExitInv, NEW c \in Core, Step(c)
  PROVE  ListType'
  <1>. USE DEF ListType, listVars
  <1>1. CASE TickAcquire(c)
    BY Zenon, <1>1 DEF TickAcquire
  <1>2. CASE TickRunInit(c)
    <2>1. PICK t \in FreshTask : NewTask(t)
      BY Zenon, <1>2 DEF TickRunInit
    <2>2. tasks' \in Seq(Task)
      BY Zenon, <2>1, NewTaskType
    <2>3. upgradeable' = NONE /\ readers' = {c} /\ UNCHANGED writer
      BY Zenon, <1>2 DEF TickRunInit
    <2>. QED  BY Zenon, <2>2, <2>3
  <1>3. CASE TickInitFails(c)
    BY Zenon, <1>3 DEF TickInitFails
  <1>4. CASE TickDowngrade(c)
    BY Zenon, <1>4 DEF TickDowngrade
  <1>5. CASE TickKeep(c)
    <2>1. CASE state[current_task[c]] # "Running"
      BY Zenon, <1>5, <2>1 DEF TickKeep, EndTick
    <2>2. CASE ~(state[current_task[c]] # "Running")
      BY Zenon, <1>5, <2>2 DEF TickKeep, EndTick
    <2>. QED  BY Zenon, <2>1, <2>2
  <1>6. CASE ScanEnd(c)
    <2>1. CASE best[c] = NoBest
      BY Zenon, <1>6, <2>1 DEF ScanEnd, EndTick, NoBest
    <2>2. CASE ~(best[c] = NoBest)
      BY Zenon, <1>6, <2>2 DEF ScanEnd, EndTick, NoBest
    <2>. QED  BY Zenon, <2>1, <2>2
  <1>7. CASE SpawnAcquire(c)
    BY Zenon, <1>7 DEF SpawnAcquire
  <1>8. CASE SpawnExec(c)
    <2>1. tasks' \in Seq(Task)
      <3>1. CASE \E t \in FreshTask : NewTask(t)
        BY Zenon, <3>1, NewTaskType
      <3>2. CASE UNCHANGED tasks
        BY Zenon, <3>2
      <3>. QED  BY Zenon, <1>8, <3>1, <3>2 DEF SpawnExec
    <2>2. writer' = NONE /\ UNCHANGED <<upgradeable, readers>>
      BY Zenon, <1>8 DEF SpawnExec
    <2>. QED  BY Zenon, <2>1, <2>2
  <1>9. CASE ExitAcquire(c)
    BY Zenon, <1>9 DEF ExitAcquire
  <1>10. CASE ExitFind(c)
    <2>1. CASE index[c] > Len(tasks)
      BY Zenon, <1>10, <2>1 DEF ExitFind, LeaveExit
    <2>2. CASE ~(index[c] > Len(tasks))
      BY Zenon, <1>10, <2>2 DEF ExitFind, LeaveExit
    <2>. QED  BY Zenon, <2>1, <2>2
  <1>11. CASE ExitRemove(c)
    <2>1. index[c] \in 1..Len(tasks)
      BY Zenon, <1>11, ExitIndex DEF ExitRemove
    <2>2. /\ tasks' = RemoveAt(tasks, index[c]) /\ upgradeable' = NONE
          /\ UNCHANGED <<writer, readers>>
      BY Zenon, <1>11 DEF ExitRemove, LeaveExit
    <2>3. tasks' \in Seq(Task)
      BY Zenon, <2>1, <2>2, RemoveAtFacts
    <2>. QED  BY Zenon, <2>2, <2>3
  <1>12. CASE UNCHANGED listVars
    BY Zenon, <1>12
  <1>. QED  BY Zenon, <1>1, <1>2, <1>3, <1>4, <1>5, <1>6, <1>7, <1>8, <1>9, <1>10,
               <1>11, <1>12,
               StepChanges DEF Changes, listVars

(* The types of the fields and the locks of the tasks. *)
LEMMA TaskTypeStep ==
  ASSUME TypeOK, NEW c \in Core, Step(c)
  PROVE  TaskType'
  <1>. USE DEF TypeOK, TaskType, taskVars, lockVars
  <1>1. CASE UserRun(c)
    BY Zenon, <1>1, BoundAssumption DEF UserRun
  <1>2. CASE UserSyscall(c)
    BY Zenon, <1>2, BoundAssumption DEF UserSyscall
  <1>3. CASE TickSave(c)
    <2>1. /\ elapsed' \in [Task -> 0..LifeExpectancy]
          /\ UNCHANGED <<state, taskWriter, taskReaders>>
      <3>1. \A t \in Task : elapsed[t] + 1 \in Nat
        OBVIOUS
      <3>2. elapsed' = [t \in Task |-> IF state[t] = "Running"
                                      THEN Saturate(elapsed[t] + 1) ELSE 0]
        BY Zenon, <1>3 DEF TickSave, AdvanceClock
      <3>3. UNCHANGED <<state, taskWriter, taskReaders>>
        BY Zenon, <1>3 DEF TickSave
      <3>. QED  BY Zenon, <3>1, <3>2, <3>3, SaturateFacts
    <2>2. procstate' \in [Task -> {"fresh", "stale", "kernel"}]
      BY Zenon, <1>3 DEF TickSave, TypeOK, LocalType
    <2>. QED  BY Zenon, <2>1, <2>2
  <1>4. CASE TickRunInit(c)
    <2>1. PICK t \in FreshTask : NewTask(t)
      BY Zenon, <1>4 DEF TickRunInit
    <2>2. UNCHANGED <<taskWriter, taskReaders>>
      BY Zenon, <1>4 DEF TickRunInit
    <2>. QED  BY Zenon, <2>1, <2>2, NewTaskType
  <1>5. CASE TickRelease(c)
    <2>1. 0 \in 0..LifeExpectancy
      BY BoundAssumption
    <2>. QED  BY Zenon, <1>5, <2>1 DEF TickRelease
  <1>6. CASE ScanTryWrite(c)
    BY Zenon, <1>6, BoundAssumption DEF ScanTryWrite
  <1>7. CASE ScanLook(c)
    BY Zenon, <1>7, BoundAssumption DEF ScanLook, NoBest, Priority, IsCandidate
  <1>8. CASE ScanEnd(c)
    <2>1. lag[c] \in 0..LifeExpectancy
      BY Zenon DEF TypeOK, LocalType
    <2>. QED  BY Zenon, <1>8, <2>1 DEF ScanEnd, EndTick, NoBest
  <1>9. CASE Resume(c)
    <2>1. CASE procstate[current_task[c]] = "kernel"
      BY Zenon, <1>9, <2>1, BoundAssumption DEF Resume
    <2>2. CASE ~(procstate[current_task[c]] = "kernel")
      BY Zenon, <1>9, <2>2, BoundAssumption DEF Resume
    <2>. QED  BY Zenon, <2>1, <2>2
  <1>10. CASE SyscallSave(c)
    <2>1. CASE current_task[c] = NONE
      BY Zenon, <1>10, <2>1, BoundAssumption DEF SyscallSave
    <2>2. CASE ~(current_task[c] = NONE)
      BY Zenon, <1>10, <2>2, BoundAssumption DEF SyscallSave
    <2>. QED  BY Zenon, <2>1, <2>2
  <1>11. CASE SpawnExec(c)
    <2>1. UNCHANGED <<taskWriter, taskReaders>>
      BY Zenon, <1>11 DEF SpawnExec
    <2>2. CASE \E t \in FreshTask : NewTask(t)
      <3>1. PICK t \in FreshTask : NewTask(t)
        BY Zenon, <2>2
      <3>. QED  BY Zenon, <2>1, <3>1, NewTaskType
    <2>3. CASE UNCHANGED taskVars
      BY Zenon, <2>1, <2>3
    <2>. QED  BY Zenon, <1>11, <2>2, <2>3 DEF SpawnExec
  <1>12. CASE ExitFind(c)
    <2>1. CASE index[c] > Len(tasks)
      BY Zenon, <1>12, <2>1, BoundAssumption DEF ExitFind, LeaveExit
    <2>2. CASE ~(index[c] > Len(tasks))
      <3>1. taskReaders' = [taskReaders EXCEPT ![tasks[index[c]]] =
                                              @ \cup {c}]
        BY Zenon, <1>12, <2>2 DEF ExitFind
      <3>2. UNCHANGED <<state, elapsed, procstate, taskWriter>>
        BY Zenon, <1>12 DEF ExitFind
      <3>3. taskReaders' \in [Task -> SUBSET Core]
        BY Zenon, <3>1
      <3>. QED  BY Zenon, <3>2, <3>3
    <2>. QED  BY Zenon, <2>1, <2>2
  <1>13. CASE ExitFound(c)
    <2>1. CASE tasks[index[c]] = exiting[c]
      BY Zenon, <1>13, <2>1, BoundAssumption DEF ExitFound
    <2>2. CASE ~(tasks[index[c]] = exiting[c])
      BY Zenon, <1>13, <2>2, BoundAssumption DEF ExitFound
    <2>. QED  BY Zenon, <2>1, <2>2
  <1>14. CASE UNCHANGED <<taskVars, lockVars>>
    BY Zenon, <1>14
  <1>. QED  BY Zenon, <1>1, <1>2, <1>3, <1>4, <1>5, <1>6, <1>7, <1>8, <1>9, <1>10,
               <1>11, <1>12, <1>13, <1>14,
               StepChanges DEF Changes, taskVars, lockVars

(* The types of the state of the cores. *)
LEMMA CoreTypeStep ==
  ASSUME TypeOK, ScanInv, NEW c \in Core, Step(c)
  PROVE  CoreType'
  <1>. USE DEF TypeOK, CoreType, coreVars, Goto, PC, Interruptible, Scanning,
               Panicked
  <1>1. CASE UserRun(c)
    BY Zenon, <1>1, BoundAssumption DEF UserRun
  <1>2. CASE UserSyscall(c)
    BY Zenon, <1>2, BoundAssumption DEF UserSyscall
  <1>3. CASE TimerInterrupt(c)
    BY Zenon, <1>3, BoundAssumption DEF TimerInterrupt
  <1>4. CASE TickAcquire(c)
    BY Zenon, <1>4, BoundAssumption DEF TickAcquire
  <1>5. CASE TickMiss(c)
    <2>1. tick_miss' \in [Core -> 0..(MAX_TICK_MISS + 1)]
      BY <1>5, BoundAssumption DEF TickMiss
    <2>. QED  BY Zenon, <1>5, <2>1 DEF TickMiss
  <1>6. CASE TickSave(c)
    <2>1. /\ tick_miss' = [tick_miss EXCEPT ![c] = 0]
          /\ pc' = [pc EXCEPT ![c] = "list"]
          /\ UNCHANGED <<current_task, isr>>
      BY Zenon, <1>6 DEF TickSave
    <2>2. 0 \in 0..(MAX_TICK_MISS + 1)
      BY BoundAssumption
    <2>. QED  BY Zenon, <2>1, <2>2
  <1>7. CASE TickRunInit(c)
    BY Zenon, <1>7, BoundAssumption DEF TickRunInit, NewTask, FreshTask
  <1>8. CASE TickInitFails(c)
    BY Zenon, <1>8, BoundAssumption DEF TickInitFails
  <1>9. CASE TickDowngrade(c)
    BY Zenon, <1>9, BoundAssumption DEF TickDowngrade
  <1>10. CASE TickRelease(c)
    BY Zenon, <1>10, BoundAssumption DEF TickRelease, StartScan
  <1>11. CASE TickKeep(c)
    <2>1. CASE state[current_task[c]] # "Running"
      BY Zenon, <1>11, <2>1, BoundAssumption DEF TickKeep, EndTick
    <2>2. CASE ~(state[current_task[c]] # "Running")
      BY Zenon, <1>11, <2>2, BoundAssumption DEF TickKeep, EndTick
    <2>. QED  BY Zenon, <2>1, <2>2
  <1>12. CASE TickNoTask(c)
    BY Zenon, <1>12, BoundAssumption DEF TickNoTask, StartScan
  <1>13. CASE ScanTryWrite(c)
    BY Zenon, <1>13, BoundAssumption DEF ScanTryWrite
  <1>14. CASE ScanBusy(c)
    BY Zenon, <1>14, BoundAssumption DEF ScanBusy
  <1>15. CASE ScanLook(c)
    BY Zenon, <1>15, BoundAssumption DEF ScanLook, NoBest, Priority, IsCandidate
  <1>16. CASE ScanEnd(c)
    <2>1. best[c] # NoBest => best[c].i \in 1..Len(tasks)
      BY Zenon, BestFacts
    <2>2. best[c] # NoBest => tasks[best[c].i] \in Task
      <3>1. tasks \in Seq(Task)
        BY Zenon DEF ListType
      <3>. QED  BY <2>1, <3>1
    <2>3. current_task' \in [Core -> Task \cup {NONE}]
      <3>1. CASE best[c] = NoBest
        BY Zenon, <1>16, <3>1 DEF ScanEnd
      <3>2. CASE best[c] # NoBest
        <4>1. current_task' = [current_task EXCEPT ![c] = tasks[best[c].i]]
          BY Zenon, <1>16, <3>2 DEF ScanEnd
        <4>. QED  BY Zenon, <2>2, <3>2, <4>1
      <3>. QED  BY Zenon, <3>1, <3>2
    <2>4. pc' = [pc EXCEPT ![c] = "continue"] /\ UNCHANGED <<tick_miss, isr>>
      BY Zenon, <1>16 DEF ScanEnd, EndTick
    <2>. QED  BY Zenon, <2>3, <2>4
  <1>17. CASE ContinueTask(c)
    BY Zenon, <1>17, BoundAssumption DEF ContinueTask
  <1>18. CASE ContinueIdle(c)
    BY Zenon, <1>18, BoundAssumption DEF ContinueIdle
  <1>19. CASE Resume(c)
    <2>1. CASE procstate[current_task[c]] = "kernel"
      BY Zenon, <1>19, <2>1, BoundAssumption DEF Resume
    <2>2. CASE ~(procstate[current_task[c]] = "kernel")
      BY Zenon, <1>19, <2>2, BoundAssumption DEF Resume
    <2>. QED  BY Zenon, <2>1, <2>2
  <1>20. CASE SyscallSave(c)
    <2>1. CASE current_task[c] = NONE
      BY Zenon, <1>20, <2>1, BoundAssumption DEF SyscallSave
    <2>2. CASE ~(current_task[c] = NONE)
      BY Zenon, <1>20, <2>2, BoundAssumption DEF SyscallSave
    <2>. QED  BY Zenon, <2>1, <2>2
  <1>21. CASE SyscallOther(c)
    BY Zenon, <1>21, BoundAssumption DEF SyscallOther
  <1>22. CASE SyscallSpawn(c)
    BY Zenon, <1>22, BoundAssumption DEF SyscallSpawn
  <1>23. CASE SpawnAcquire(c)
    BY Zenon, <1>23, BoundAssumption DEF SpawnAcquire
  <1>24. CASE SpawnExec(c)
    BY Zenon, <1>24, BoundAssumption DEF SpawnExec, NewTask, FreshTask
  <1>24p. CASE SpawnPanics(c)
    BY Zenon, <1>24p, BoundAssumption DEF SpawnPanics
  <1>25. CASE SyscallExit(c)
    BY Zenon, <1>25, BoundAssumption DEF SyscallExit
  <1>26. CASE ExitAcquire(c)
    BY Zenon, <1>26, BoundAssumption DEF ExitAcquire
  <1>27. CASE ExitFind(c)
    <2>1. CASE index[c] > Len(tasks)
      BY Zenon, <1>27, <2>1, BoundAssumption DEF ExitFind, LeaveExit
    <2>2. CASE ~(index[c] > Len(tasks))
      BY Zenon, <1>27, <2>2, BoundAssumption DEF ExitFind, LeaveExit
    <2>. QED  BY Zenon, <2>1, <2>2
  <1>28. CASE ExitFound(c)
    <2>1. CASE tasks[index[c]] = exiting[c]
      BY Zenon, <1>28, <2>1, BoundAssumption DEF ExitFound
    <2>2. CASE ~(tasks[index[c]] = exiting[c])
      BY Zenon, <1>28, <2>2, BoundAssumption DEF ExitFound
    <2>. QED  BY Zenon, <2>1, <2>2
  <1>29. CASE ExitRemove(c)
    BY Zenon, <1>29, BoundAssumption DEF ExitRemove, LeaveExit
  <1>30. CASE SyscallIdle(c)
    BY Zenon, <1>30, BoundAssumption DEF SyscallIdle
  <1>31. CASE SyscallResult(c)
    BY Zenon, <1>31, BoundAssumption DEF SyscallResult
  <1>32. CASE UNCHANGED <<coreVars, pc>>
    BY Zenon, <1>32
  <1>. QED  BY Zenon, <1>1, <1>2, <1>3, <1>4, <1>5, <1>6, <1>7, <1>8, <1>9, <1>10,
               <1>11, <1>12, <1>13, <1>14, <1>15, <1>16, <1>17, <1>18,
               <1>19, <1>20, <1>21, <1>22, <1>23, <1>24, <1>24p, <1>25, <1>26,
               <1>27, <1>28, <1>29, <1>30, <1>31, <1>32
            DEF Step, User, Kernel, Tick, Continue, Syscall

(* The types of the locals. *)
LEMMA LocalTypeStep ==
  ASSUME LocalType, ListType, CoreType, ScanInv, NEW c \in Core, Step(c)
  PROVE  LocalType'
  <1>. USE DEF LocalType, localVars
  <1>1. CASE TimerInterrupt(c)
    BY Zenon, <1>1, BoundAssumption DEF TimerInterrupt
  <1>2. CASE TickMiss(c)
    BY Zenon, <1>2, BoundAssumption DEF TickMiss
  <1>3. CASE TickSave(c)
    <2>1. \A d \in Core : lag[d] + 1 \in Nat
      OBVIOUS
    <2>2. lag' = [d \in Core |->
                    IF d = c THEN 1
                    ELSE IF pc[d] \in {"list"} \cup Scanning
                    THEN Saturate(lag[d] + 1) ELSE 0]
      BY Zenon, <1>3 DEF TickSave, AdvanceClock
    <2>3. lag' \in [Core -> 0..LifeExpectancy]
      BY Zenon, <2>1, <2>2, SaturateFacts
    <2>4. proc_state' = [proc_state EXCEPT ![c] = "fresh"]
      BY Zenon, <1>3 DEF TickSave
    <2>5. proc_state' \in [Core -> {"fresh", "kernel"}]
      BY Zenon, <2>4
    <2>6. UNCHANGED <<index, best, exiting, reset_timer>>
      BY Zenon, <1>3 DEF TickSave
    <2>. QED  BY Zenon, <2>3, <2>5, <2>6
  <1>4. CASE TickRelease(c)
    BY Zenon, <1>4 DEF TickRelease, StartScan, NoBest
  <1>5. CASE TickKeep(c)
    <2>1. lag' \in [Core -> 0..LifeExpectancy]
      <3>1. lag' = lag \/ lag' = [lag EXCEPT ![c] = 0]
        BY Zenon, <1>5 DEF TickKeep, EndTick
      <3>. QED  BY Zenon, <3>1, SaturateFacts, Replaced
    <2>2. reset_timer' \in [Core -> BOOLEAN]
      BY Zenon, <1>5 DEF TickKeep, EndTick
    <2>. QED  BY Zenon, <1>5, <2>1, <2>2 DEF TickKeep
  <1>6. CASE TickNoTask(c)
    BY Zenon, <1>6 DEF TickNoTask, StartScan, NoBest
  <1>7. CASE ScanBusy(c)
    BY <1>7, BoundAssumption DEF ScanBusy
  <1>8. CASE ScanLook(c)
    <2>1. tasks[index[c]] \in Task
      BY <1>8 DEF ScanLook, ScanInv, ScanOf, ListType
    <2>2. best' \in [Core -> [i : Nat, t : Task \cup {NONE}]]
      BY <1>8, <2>1 DEF ScanLook, NoBest, Priority, IsCandidate
    <2>3. index' \in [Core -> Nat]
      BY <1>8 DEF ScanLook
    <2>. QED  BY Zenon, <1>8, <2>2, <2>3 DEF ScanLook
  <1>9. CASE ScanEnd(c)
    <2>1. /\ lag' = [lag EXCEPT ![c] = 0]
          /\ reset_timer' = [reset_timer EXCEPT ![c] = TRUE]
          /\ best' = [best EXCEPT ![c] = NoBest]
          /\ index' = [index EXCEPT ![c] = 0]
          /\ UNCHANGED <<exiting, proc_state>>
      BY Zenon, <1>9 DEF ScanEnd, EndTick
    <2>2. lag' \in [Core -> 0..LifeExpectancy]
      BY Zenon, <2>1, SaturateFacts, Replaced
    <2>3. best' \in [Core -> [i : Nat, t : Task \cup {NONE}]]
      BY Zenon, <2>1 DEF NoBest
    <2>4. index' \in [Core -> Nat] /\ reset_timer' \in [Core -> BOOLEAN]
      BY Zenon, <2>1
    <2>. QED  BY Zenon, <2>1, <2>2, <2>3, <2>4
  <1>10. CASE SyscallExit(c)
    BY Zenon, <1>10 DEF SyscallExit, CoreType
  <1>11. CASE ExitAcquire(c)
    BY Zenon, <1>11, BoundAssumption DEF ExitAcquire
  <1>12. CASE ExitFind(c)
    <2>1. index' \in [Core -> Nat]
      <3>1. CASE index' = [index EXCEPT ![c] = 0]
        BY Zenon, <3>1
      <3>2. CASE UNCHANGED index
        BY Zenon, <3>2
      <3>. QED  BY Zenon, <1>12, <3>1, <3>2 DEF ExitFind, LeaveExit
    <2>2. exiting' \in [Core -> Task \cup {NONE}]
      BY Zenon, <1>12 DEF ExitFind, LeaveExit
    <2>. QED  BY Zenon, <1>12, <2>1, <2>2 DEF ExitFind
  <1>13. CASE ExitFound(c)
    <2>1. /\ index' = index \/ index' = [index EXCEPT ![c] = @ + 1]
          /\ UNCHANGED <<lag, best, exiting, proc_state, reset_timer>>
      BY Zenon, <1>13 DEF ExitFound
    <2>2. index' \in [Core -> Nat]
      BY <2>1
    <2>. QED  BY Zenon, <2>1, <2>2
  <1>14. CASE ExitRemove(c)
    BY Zenon, <1>14, BoundAssumption DEF ExitRemove, LeaveExit
  <1>15. CASE SyscallResult(c)
    BY Zenon, <1>15, BoundAssumption DEF SyscallResult
  <1>16. CASE UNCHANGED localVars
    BY Zenon, <1>16
  <1>. QED  BY Zenon, <1>1, <1>2, <1>3, <1>4, <1>5, <1>6, <1>7, <1>8, <1>9, <1>10,
               <1>11, <1>12, <1>13, <1>14, <1>15, <1>16,
               StepChanges DEF Changes, localVars

(* The lock of the list keeps its discipline. *)
LEMMA ListLockStep ==
  ASSUME LockType, ListLock, OwnInv, NEW c \in Core, Step(c)
  PROVE  ListLock'
  <1>. USE DEF LockType, ListLock, Upgradeable, Writing, Scanning,
           Interruptible, CanReadUpgradeable, CanWrite, listVars, Goto
  <1>1. CASE UserRun(c)
    BY Zenon, <1>1, CoreAssumption DEF UserRun
  <1>2. CASE UserSyscall(c)
    BY Zenon, <1>2, CoreAssumption DEF UserSyscall
  <1>3. CASE TimerInterrupt(c)
    BY Zenon, <1>3, CoreAssumption DEF TimerInterrupt
  <1>4. CASE TickAcquire(c)
    BY Zenon, <1>4, CoreAssumption DEF TickAcquire
  <1>5. CASE TickMiss(c)
    BY Zenon, <1>5, CoreAssumption DEF TickMiss
  <1>6. CASE TickSave(c)
    <2>1. /\ pc[c] = "save" /\ pc' = [pc EXCEPT ![c] = "list"]
          /\ UNCHANGED <<tasks, writer, upgradeable, readers>>
      BY Zenon, <1>6 DEF TickSave
    <2>. QED  BY Zenon, <2>1, CoreAssumption
  <1>7. CASE TickRunInit(c)
    <2>1. /\ pc[c] = "list" /\ pc' = [pc EXCEPT ![c] = "expire"]
          /\ upgradeable' = NONE /\ readers' = {c} /\ readers = {}
          /\ UNCHANGED writer
      BY Zenon, <1>7 DEF TickRunInit
    <2>. QED  BY Zenon, <2>1, CoreAssumption
  <1>8. CASE TickInitFails(c)
    BY Zenon, <1>8, CoreAssumption DEF TickInitFails
  <1>9. CASE TickDowngrade(c)
    BY Zenon, <1>9, CoreAssumption DEF TickDowngrade
  <1>10. CASE TickRelease(c)
    BY Zenon, <1>10, CoreAssumption DEF TickRelease, StartScan
  <1>11. CASE TickKeep(c)
    <2>1. pc[c] = "expire" /\ state[current_task[c]] = "Running"
      BY Zenon, <1>11 DEF TickKeep, OwnInv, OwnOf
    <2>2. EndTick(c) /\ UNCHANGED <<writer, upgradeable>>
      BY Zenon, <1>11, <2>1 DEF TickKeep
    <2>. QED  BY Zenon, <2>1, <2>2, CoreAssumption DEF EndTick
  <1>12. CASE TickNoTask(c)
    BY Zenon, <1>12, CoreAssumption DEF TickNoTask, StartScan
  <1>13. CASE ScanTryWrite(c)
    BY Zenon, <1>13, CoreAssumption DEF ScanTryWrite
  <1>14. CASE ScanBusy(c)
    BY Zenon, <1>14, CoreAssumption DEF ScanBusy
  <1>15. CASE ScanLook(c)
    BY Zenon, <1>15, CoreAssumption DEF ScanLook, NoBest, Priority, IsCandidate
  <1>16. CASE ScanEnd(c)
    BY Zenon, <1>16, CoreAssumption DEF ScanEnd, EndTick, NoBest
  <1>17. CASE ContinueTask(c)
    BY Zenon, <1>17, CoreAssumption DEF ContinueTask
  <1>18. CASE ContinueIdle(c)
    BY Zenon, <1>18, CoreAssumption DEF ContinueIdle
  <1>19. CASE Resume(c)
    <2>1. /\ pc[c] = "resume"
          /\ UNCHANGED <<tasks, writer, upgradeable, readers>>
          /\ \/ pc' = [pc EXCEPT ![c] = "panic_fault"]
             \/ pc' = [pc EXCEPT ![c] = "user"]
      BY Zenon, <1>19 DEF Resume
    <2>2. CASE pc' = [pc EXCEPT ![c] = "panic_fault"]
      BY Zenon, <2>1, <2>2, CoreAssumption
    <2>3. CASE pc' = [pc EXCEPT ![c] = "user"]
      BY Zenon, <2>1, <2>3, CoreAssumption
    <2>. QED  BY Zenon, <2>1, <2>2, <2>3
  <1>20. CASE SyscallSave(c)
    <2>1. /\ pc[c] = "syscall_entry"
          /\ UNCHANGED <<tasks, writer, upgradeable, readers>>
          /\ \/ pc' = [pc EXCEPT ![c] = "panic_no_task"]
             \/ pc' = [pc EXCEPT ![c] = "syscall"]
      BY Zenon, <1>20 DEF SyscallSave
    <2>2. CASE pc' = [pc EXCEPT ![c] = "panic_no_task"]
      BY Zenon, <2>1, <2>2, CoreAssumption
    <2>3. CASE pc' = [pc EXCEPT ![c] = "syscall"]
      BY Zenon, <2>1, <2>3, CoreAssumption
    <2>. QED  BY Zenon, <2>1, <2>2, <2>3
  <1>21. CASE SyscallOther(c)
    BY Zenon, <1>21, CoreAssumption DEF SyscallOther
  <1>22. CASE SyscallSpawn(c)
    BY Zenon, <1>22, CoreAssumption DEF SyscallSpawn
  <1>23. CASE SpawnAcquire(c)
    BY Zenon, <1>23, CoreAssumption DEF SpawnAcquire
  <1>24. CASE SpawnExec(c)
    <2>1. /\ pc[c] = "exec" /\ pc' = [pc EXCEPT ![c] = "syscall_return"]
          /\ writer' = NONE /\ UNCHANGED <<upgradeable, readers>>
      BY Zenon, <1>24 DEF SpawnExec
    <2>. QED  BY Zenon, <2>1, CoreAssumption
  <1>24p. CASE SpawnPanics(c)
    BY Zenon, <1>24p, CoreAssumption DEF SpawnPanics
  <1>25. CASE SyscallExit(c)
    BY Zenon, <1>25, CoreAssumption DEF SyscallExit
  <1>26. CASE ExitAcquire(c)
    BY Zenon, <1>26, CoreAssumption DEF ExitAcquire
  <1>27. CASE ExitFind(c)
    <2>1. CASE index[c] > Len(tasks)
      BY Zenon, <1>27, <2>1, CoreAssumption DEF ExitFind, LeaveExit
    <2>2. CASE ~(index[c] > Len(tasks))
      BY Zenon, <1>27, <2>2, CoreAssumption DEF ExitFind, LeaveExit
    <2>. QED  BY Zenon, <2>1, <2>2
  <1>28. CASE ExitFound(c)
    <2>1. CASE tasks[index[c]] = exiting[c]
      BY Zenon, <1>28, <2>1, CoreAssumption DEF ExitFound
    <2>2. CASE ~(tasks[index[c]] = exiting[c])
      BY Zenon, <1>28, <2>2, CoreAssumption DEF ExitFound
    <2>. QED  BY Zenon, <2>1, <2>2
  <1>29. CASE ExitRemove(c)
    BY Zenon, <1>29, CoreAssumption DEF ExitRemove, LeaveExit
  <1>30. CASE SyscallIdle(c)
    BY Zenon, <1>30, CoreAssumption DEF SyscallIdle
  <1>31. CASE SyscallResult(c)
    BY Zenon, <1>31, CoreAssumption DEF SyscallResult
  <1>. QED  BY Zenon, <1>1, <1>2, <1>3, <1>4, <1>5, <1>6, <1>7, <1>8, <1>9, <1>10,
               <1>11, <1>12, <1>13, <1>14, <1>15, <1>16, <1>17, <1>18, <1>19,
               <1>20, <1>21, <1>22, <1>23, <1>24, <1>24p, <1>25, <1>26, <1>27, <1>28,
               <1>29, <1>30, <1>31
            DEF Step, User, Kernel, Tick, Continue, Syscall

----------------------------------------------------------------------------
(* An id that new_locked may take belongs to no entry and to no core. *)
LEMMA FreshFacts ==
  ASSUME ListType, NEW t \in FreshTask
  PROVE  /\ t \in Task
         /\ ~Listed(t)
         /\ \A d \in Core : current_task[d] # t /\ exiting[d] # t
  <1>1. t \in Task /\ t \notin ToSet(tasks)
    BY Zenon DEF FreshTask
  <1>2. ToSet(tasks) = {tasks[i] : i \in 1..Len(tasks)}
    BY DEF ToSet, ListType
  <1>3. ~Listed(t)
    BY Zenon, <1>1, <1>2 DEF Listed
  <1>4. ASSUME NEW d \in Core
        PROVE  current_task[d] # t /\ exiting[d] # t
    BY Zenon DEF FreshTask
  <1>. QED  BY Zenon, <1>1, <1>3, <1>4

(* A step leaves the program counter and the locals of the other cores. *)
LEMMA OthersKept ==
  ASSUME CoreType, LocalType, NEW c \in Core, NEW d \in Core, d # c, Step(c)
  PROVE  /\ pc'[d] = pc[d]
         /\ index'[d] = index[d]
         /\ best'[d] = best[d]
         /\ exiting'[d] = exiting[d]
         /\ current_task'[d] = current_task[d]
  <1>. USE DEF CoreType, LocalType, localVars, coreVars, Goto
  <1>1. CASE UserRun(c)
    BY Zenon, <1>1 DEF UserRun
  <1>2. CASE UserSyscall(c)
    BY Zenon, <1>2 DEF UserSyscall
  <1>3. CASE TimerInterrupt(c)
    BY Zenon, <1>3 DEF TimerInterrupt
  <1>4. CASE TickAcquire(c)
    BY Zenon, <1>4 DEF TickAcquire
  <1>5. CASE TickMiss(c)
    BY Zenon, <1>5 DEF TickMiss
  <1>6. CASE TickSave(c)
    BY Zenon, <1>6 DEF TickSave, AdvanceClock, Saturate
  <1>7. CASE TickRunInit(c)
    BY Zenon, <1>7 DEF TickRunInit, NewTask, FreshTask
  <1>8. CASE TickInitFails(c)
    BY Zenon, <1>8 DEF TickInitFails
  <1>9. CASE TickDowngrade(c)
    BY Zenon, <1>9 DEF TickDowngrade
  <1>10. CASE TickRelease(c)
    BY Zenon, <1>10 DEF TickRelease, StartScan
  <1>11. CASE TickKeep(c)
    BY Zenon, <1>11 DEF TickKeep, EndTick
  <1>12. CASE TickNoTask(c)
    BY Zenon, <1>12 DEF TickNoTask, StartScan
  <1>13. CASE ScanTryWrite(c)
    BY Zenon, <1>13 DEF ScanTryWrite
  <1>14. CASE ScanBusy(c)
    BY Zenon, <1>14 DEF ScanBusy
  <1>15. CASE ScanLook(c)
    BY Zenon, <1>15 DEF ScanLook, NoBest, Priority, IsCandidate
  <1>16. CASE ScanEnd(c)
    BY Zenon, <1>16 DEF ScanEnd, EndTick, NoBest
  <1>17. CASE ContinueTask(c)
    BY Zenon, <1>17 DEF ContinueTask
  <1>18. CASE ContinueIdle(c)
    BY Zenon, <1>18 DEF ContinueIdle
  <1>19. CASE Resume(c)
    BY Zenon, <1>19 DEF Resume
  <1>20. CASE SyscallSave(c)
    BY Zenon, <1>20 DEF SyscallSave
  <1>21. CASE SyscallOther(c)
    BY Zenon, <1>21 DEF SyscallOther
  <1>22. CASE SyscallSpawn(c)
    BY Zenon, <1>22 DEF SyscallSpawn
  <1>23. CASE SpawnAcquire(c)
    BY Zenon, <1>23 DEF SpawnAcquire
  <1>24. CASE SpawnExec(c)
    BY Zenon, <1>24 DEF SpawnExec, NewTask, FreshTask
  <1>24p. CASE SpawnPanics(c)
    BY Zenon, <1>24p DEF SpawnPanics
  <1>25. CASE SyscallExit(c)
    BY Zenon, <1>25 DEF SyscallExit
  <1>26. CASE ExitAcquire(c)
    BY Zenon, <1>26 DEF ExitAcquire
  <1>27. CASE ExitFind(c)
    BY Zenon, <1>27 DEF ExitFind, LeaveExit
  <1>28. CASE ExitFound(c)
    BY Zenon, <1>28 DEF ExitFound
  <1>29. CASE ExitRemove(c)
    BY Zenon, <1>29 DEF ExitRemove, LeaveExit
  <1>30. CASE SyscallIdle(c)
    BY Zenon, <1>30 DEF SyscallIdle
  <1>31. CASE SyscallResult(c)
    BY Zenon, <1>31 DEF SyscallResult
  <1>. QED  BY Zenon, <1>1, <1>2, <1>3, <1>4, <1>5, <1>6, <1>7, <1>8, <1>9, <1>10,
               <1>11, <1>12, <1>13, <1>14, <1>15, <1>16, <1>17, <1>18, <1>19,
               <1>20, <1>21, <1>22, <1>23, <1>24, <1>24p, <1>25, <1>26, <1>27, <1>28,
               <1>29, <1>30, <1>31
            DEF Step, User, Kernel, Tick, Continue, Syscall

(* The list changes only when a core holds it alone. *)
LEMMA ListKept ==
  ASSUME LockType, ListLock, NEW c \in Core, Step(c), NEW d \in Core,
         pc[d] \in Scanning \/ (d # c /\ pc[d] \in Upgradeable)
  PROVE  tasks' = tasks
  <1>. USE DEF LockType, ListLock, Upgradeable, Writing, Scanning
  <1>1. CASE TickRunInit(c)
    BY Zenon, <1>1, CoreAssumption DEF TickRunInit
  <1>2. CASE SpawnExec(c)
    BY Zenon, <1>2, CoreAssumption DEF SpawnExec
  <1>3. CASE ExitRemove(c)
    BY Zenon, <1>3, CoreAssumption DEF ExitRemove
  <1>4. CASE UNCHANGED tasks
    BY Zenon, <1>4
  <1>. QED  BY Zenon, <1>1, <1>2, <1>3, <1>4, StepChanges DEF Changes

(* The lock of a task another core holds for writing stays with it, and the
   task stays Pending. *)
LEMMA TaskLockKept ==
  ASSUME TypeOK, ListLock, ScanInv, NEW c \in Core, Step(c),
         NEW d \in Core, d # c, NEW t \in Task, taskWriter[t] = d
  PROVE  /\ taskWriter'[t] = d
         /\ state[t] = "Pending" => state'[t] = "Pending"
  <1>. USE DEF TypeOK, TaskType
  <1>1. CASE (\E u \in FreshTask : NewTask(u)) /\ UNCHANGED taskWriter
    BY Zenon, <1>1 DEF NewTask, FreshTask
  <1>2. CASE TickRelease(c)
    BY Zenon, <1>2 DEF TickRelease, lockVars
  <1>3. CASE ScanTryWrite(c)
    BY Zenon, <1>3, CoreAssumption DEF ScanTryWrite, CanWriteTask, taskVars
  <1>4. CASE ScanLook(c)
    BY <1>4 DEF ScanLook, Priority, ScanInv, ScanOf, taskVars
  <1>5. CASE ScanEnd(c)
    <2>1. CASE best[c] = NoBest
      BY Zenon, <1>5, <2>1 DEF ScanEnd
    <2>2. CASE best[c] # NoBest
      <3>1. taskWriter[best[c].t] = c
        BY Zenon, <2>2, BestFacts
      <3>. QED  BY Zenon, <1>5, <2>2, <3>1 DEF ScanEnd
    <2>. QED  BY Zenon, <2>1, <2>2
  <1>6. CASE UNCHANGED <<state, taskWriter>>
    BY Zenon, <1>6
  <1>. QED  BY Zenon, <1>1, <1>2, <1>3, <1>4, <1>5, <1>6, StepChanges,
               NewTasks DEF Changes

(* An entry stays in the list unless its exit removes it. *)
LEMMA ListedKept ==
  ASSUME ListType, LocalType, ExitInv, NEW c \in Core, Step(c),
         NEW t, Listed(t), pc[c] = "remove" => t # exiting[c]
  PROVE  Listed(t)'
  <1>1. PICK i \in 1..Len(tasks) : tasks[i] = t
    BY Zenon DEF Listed
  <1>2. CASE \E u \in FreshTask : NewTask(u)
    <2>1. PICK u \in FreshTask : NewTask(u)
      BY Zenon, <1>2
    <2>2. u \in Task
      BY Zenon DEF FreshTask
    <2>3. tasks' = Append(tasks, u)
      BY Zenon, <2>1 DEF NewTask
    <2>4. Len(tasks') = Len(tasks) + 1 /\ tasks'[i] = tasks[i]
      BY Zenon, <2>2, <2>3, ListPushed
    <2>. QED  BY <1>1, <2>4 DEF Listed, ListType
  <1>3. CASE ExitRemove(c)
    <2>1. /\ index[c] \in 1..Len(tasks)
          /\ tasks[index[c]] = exiting[c]
      BY Zenon, <1>3, ExitIndex DEF ExitRemove
    <2>2. i # index[c]
      BY Zenon, <1>1, <1>3, <2>1 DEF ExitRemove
    <2>3. tasks' = RemoveAt(tasks, index[c])
      BY Zenon, <1>3 DEF ExitRemove
    <2>4. /\ Len(tasks') = Len(tasks) - 1
          /\ \A j \in 1..(Len(tasks) - 1) :
               tasks'[j] = IF j < index[c] THEN tasks[j] ELSE tasks[j + 1]
      BY Zenon, <2>1, <2>3, ListRemoved
    <2>5. Len(tasks) \in Nat
      BY DEF ListType
    <2>6. CASE i < index[c]
      <3>1. i \in 1..(Len(tasks) - 1)
        BY Zenon, <2>1, <2>2, <2>5, <2>6, OneForward
      <3>2. i \in 1..Len(tasks') /\ tasks'[i] = t
        BY Zenon, <1>1, <2>4, <2>6, <3>1
      <3>. QED  BY Zenon, <3>2 DEF Listed
    <2>7. CASE i > index[c]
      <3>1. i - 1 \in 1..(Len(tasks) - 1) /\ ~(i - 1 < index[c])
        BY Zenon, <2>1, <2>2, <2>5, <2>7, OneForward
      <3>2. i - 1 \in 1..Len(tasks') /\ tasks'[i - 1] = tasks[(i - 1) + 1]
        BY Zenon, <2>4, <3>1
      <3>3. (i - 1) + 1 = i
        OBVIOUS
      <3>4. tasks'[i - 1] = t
        BY Zenon, <1>1, <3>2, <3>3
      <3>. QED  BY Zenon, <3>2, <3>4 DEF Listed
    <2>8. i < index[c] \/ i > index[c]
      BY Zenon, <2>1, <2>2, <2>5, OneForward
    <2>. QED  BY Zenon, <2>6, <2>7, <2>8
  <1>4. CASE UNCHANGED tasks
    BY Zenon, <1>1, <1>4 DEF Listed
  <1>. QED  BY Zenon, <1>2, <1>3, <1>4, StepChanges, NewTasks DEF Changes

(* A Running task that is not the one of the core that steps stays Running. *)
LEMMA RunningKept ==
  ASSUME TypeOK, NEW c \in Core, Step(c), NEW t \in Task,
         state[t] = "Running", Listed(t), t # current_task[c]
  PROVE  state'[t] = "Running"
  <1>. USE DEF TypeOK, TaskType
  <1>1. CASE \E u \in FreshTask : NewTask(u)
    <2>1. PICK u \in FreshTask : NewTask(u)
      BY Zenon, <1>1
    <2>2. ListType
      BY Zenon
    <2>3. u # t
      BY Zenon, <2>2, FreshFacts
    <2>4. state' = [state EXCEPT ![u] = "Pending"]
      BY Zenon, <2>1 DEF NewTask
    <2>. QED  BY Zenon, <2>3, <2>4
  <1>2. CASE TickRelease(c)
    BY Zenon, <1>2 DEF TickRelease
  <1>3. CASE ScanEnd(c)
    BY Zenon, <1>3 DEF ScanEnd
  <1>4. CASE UNCHANGED state
    BY Zenon, <1>4
  <1>. QED  BY Zenon, <1>1, <1>2, <1>3, <1>4, StepChanges, NewTasks DEF Changes

----------------------------------------------------------------------------
(* The list has no task twice: new_locked pushes a fresh one. *)
LEMMA ListDistinctStep ==
  ASSUME ListType, LocalType, ExitInv, ListDistinct, NEW c \in Core, Step(c)
  PROVE  ListDistinct'
  <1>1. CASE \E u \in FreshTask : NewTask(u)
    <2>1. PICK u \in FreshTask : NewTask(u)
      BY Zenon, <1>1
    <2>2. u \in Task /\ \A i \in 1..Len(tasks) : tasks[i] # u
      BY Zenon, FreshFacts DEF Listed
    <2>3. tasks' = Append(tasks, u)
      BY Zenon, <2>1 DEF NewTask
    <2>4. /\ Len(tasks') = Len(tasks) + 1
          /\ \A j \in 1..Len(tasks) : tasks'[j] = tasks[j]
          /\ tasks'[Len(tasks) + 1] = u
          /\ Len(tasks) \in Nat
      BY Zenon, <2>2, <2>3, ListPushed
    <2>. QED  BY <2>2, <2>4 DEF ListDistinct
  <1>2. CASE ExitRemove(c)
    <2>1. index[c] \in 1..Len(tasks)
      <3>1. ExitOf(c) /\ pc[c] = "remove"
        BY Zenon, <1>2 DEF ExitRemove, ExitInv
      <3>2. index[c] \in Nat /\ Len(tasks) \in Nat
        BY DEF LocalType, ListType
      <3>. QED  BY <3>1, <3>2 DEF ExitOf
    <2>2. tasks' = RemoveAt(tasks, index[c])
      BY Zenon, <1>2 DEF ExitRemove
    <2>3. /\ Len(tasks') = Len(tasks) - 1
          /\ \A j \in 1..(Len(tasks) - 1) :
               tasks'[j] = IF j < index[c] THEN tasks[j] ELSE tasks[j + 1]
          /\ Len(tasks) \in Nat
      BY Zenon, <2>1, <2>2, ListRemoved
    <2>. QED  BY <2>1, <2>3 DEF ListDistinct
  <1>3. CASE UNCHANGED tasks
    BY Zenon, <1>3 DEF ListDistinct
  <1>. QED  BY Zenon, <1>1, <1>2, <1>3, StepChanges, NewTasks DEF Changes

(* What the other cores know in their scans stays true. *)
LEMMA ScanOthers ==
  ASSUME TypeOK, ListLock, ScanInv, NEW c \in Core, Step(c),
         NEW d \in Core, d # c
  PROVE  ScanOf(d)'
  <1>1. /\ pc'[d] = pc[d] /\ index'[d] = index[d] /\ best'[d] = best[d]
    BY Zenon, OthersKept DEF TypeOK
  <1>2. pc[d] \in {"scan", "look"} => tasks' = tasks
    BY Zenon, ListKept DEF TypeOK, ListType, CoreType, LockType, Scanning
  <1>3. \A t \in Task : taskWriter[t] = d =>
          /\ taskWriter'[t] = d
          /\ state[t] = "Pending" => state'[t] = "Pending"
    BY Zenon, TaskLockKept
  <1>4. ScanOf(d)
    BY Zenon DEF ScanInv
  <1>5. best[d].t \in Task \cup {NONE} /\ index[d] \in Nat
    BY Zenon DEF TypeOK, LocalType
  <1>6. pc[d] = "look" => tasks[index[d]] \in Task
    BY <1>4, <1>5 DEF ScanOf, TypeOK, ListType
  <1>. QED  BY Zenon, <1>1, <1>2, <1>3, <1>4, <1>5, <1>6 DEF ScanOf

(* The numbers that an index of the list is compared with. *)
LEMMA IndexNat ==
  ASSUME TypeOK, NEW c \in Core
  PROVE  /\ index[c] \in Nat /\ Len(tasks) \in Nat
         /\ \A i \in 1..Len(tasks) : tasks[i] \in Task
  <1>1. index \in [Core -> Nat]
    BY Zenon DEF TypeOK, LocalType
  <1>2. tasks \in Seq(Task)
    BY Zenon DEF TypeOK, ListType
  <1>. QED  BY <1>1, <1>2

(* The entries of a list are what its indices hold. *)
LEMMA EntriesOf ==
  ASSUME NEW S, NEW s \in Seq(S)
  PROVE  ToSet(s) = {s[i] : i \in 1..Len(s)}
  <1>1. DOMAIN s = 1..Len(s)
    OBVIOUS
  <1>. QED  BY Zenon, <1>1 DEF ToSet

(* Two entries of the list are two tasks. *)
LEMMA DistinctEntries ==
  ASSUME ListDistinct, NEW i \in 1..Len(tasks), NEW j \in 1..Len(tasks), i # j
  PROVE  tasks[i] # tasks[j]
  BY Zenon DEF ListDistinct

(* What a core knows in its own scan. *)
LEMMA ScanSelf ==
  ASSUME TypeOK, ScanInv, NEW c \in Core, Step(c)
  PROVE  ScanOf(c)'
  <1>1. ScanOf(c)
    BY Zenon DEF ScanInv
  <1>. USE <1>1 DEF TypeOK
  <1>2. CASE TickRelease(c) \/ TickNoTask(c)
    <2>1. StartScan(c)
      BY Zenon, <1>2 DEF TickRelease, TickNoTask
    <2>2. index'[c] = 1 /\ best'[c] = NoBest /\ pc'[c] = "scan"
      BY Zenon, <2>1 DEF StartScan, Goto, LocalType, CoreType
    <2>3. best'[c].t = NONE /\ best'[c].i = 0
      BY <2>2 DEF NoBest
    <2>. QED  BY <2>2, <2>3 DEF ScanOf
  <1>3. CASE ScanTryWrite(c)
    <2>1. tasks[index[c]] \in Task
      <3>1. pc[c] = "scan" /\ index[c] <= Len(tasks)
        BY Zenon, <1>3, IndexNat DEF ScanTryWrite
      <3>2. index[c] >= 1
        BY Zenon, <3>1 DEF ScanOf
      <3>. QED  BY Zenon, <3>1, <3>2, IndexNat, WithinTheEnds
    <2>2. tasks[index[c]] # best[c].t
      BY Zenon, <1>3, <2>1, CoreAssumption, TaskAssumption
         DEF ScanTryWrite, ScanOf, CanWriteTask
    <2>. QED  BY Zenon, <1>3, <2>1, <2>2, CoreAssumption
              DEF ScanTryWrite, ScanOf, Goto, listVars, taskVars, localVars,
                  CoreType, TaskType, LocalType
  <1>4. CASE ScanBusy(c)
    <2>1. /\ pc[c] = "scan" /\ UNCHANGED <<pc, tasks, state, taskWriter, best>>
          /\ index' = [index EXCEPT ![c] = @ + 1]
      BY Zenon, <1>4 DEF ScanBusy, listVars, taskVars, lockVars
    <2>2. index[c] \in Nat /\ index'[c] = index[c] + 1
      BY Zenon, <2>1 DEF LocalType
    <2>3. index[c] >= 1 => index'[c] >= 1
      BY <2>2
    <2>. QED  BY Zenon, <2>1, <2>3 DEF ScanOf
  <1>5. CASE ScanLook(c)
    <2>1. /\ index[c] \in 1..Len(tasks)
          /\ tasks[index[c]] \in Task
          /\ taskWriter[tasks[index[c]]] = c
          /\ tasks[index[c]] # best[c].t
      BY <1>5 DEF ScanLook, ScanOf, ListType, LocalType
    <2>2. /\ pc'[c] = "scan" /\ index'[c] = index[c] + 1
          /\ UNCHANGED <<tasks, state>>
      BY Zenon, <1>5 DEF ScanLook, Goto, listVars, taskVars, CoreType, LocalType
    <2>. index'[c] >= 1
      BY <2>1, <2>2, IndexNat
    <2>3. CASE /\ best[c] = NoBest
               /\ IsCandidate(tasks[index[c]])
               /\ best' = [best EXCEPT ![c] = [i |-> index[c],
                                               t |-> tasks[index[c]]]]
               /\ UNCHANGED taskWriter
      <3>1. best'[c].i = index[c] /\ best'[c].t = tasks[index[c]]
        BY Zenon, <2>3 DEF LocalType
      <3>2. best'[c].t # NONE
        BY Zenon, <2>1, <3>1, TaskAssumption
      <3>3. state[tasks[index[c]]] = "Pending"
        BY Zenon, <2>3 DEF IsCandidate
      <3>4. /\ best'[c].i \in 1..Len(tasks') /\ tasks'[best'[c].i] = best'[c].t
            /\ taskWriter'[best'[c].t] = c /\ state'[best'[c].t] = "Pending"
        BY Zenon, <2>1, <2>2, <2>3, <3>1, <3>3
      <3>. QED  BY Zenon, <2>2, <3>2, <3>4 DEF ScanOf
    <2>4. CASE /\ taskWriter' = [taskWriter EXCEPT ![tasks[index[c]]] = NONE]
               /\ UNCHANGED best
      <3>1. best[c].t # NONE => taskWriter'[best[c].t] = taskWriter[best[c].t]
        BY <2>1, <2>4 DEF TaskType
      <3>. QED  BY Zenon, <2>2, <2>4, <3>1 DEF ScanOf
    <2>. QED  BY <1>5, <2>3, <2>4 DEF ScanLook, Priority
  <1>6. CASE ScanEnd(c)
    BY Zenon, <1>6 DEF ScanEnd, EndTick, Goto, NoBest, ScanOf, LocalType, CoreType
  <1>7. CASE /\ pc'[c] \notin {"scan", "look"} /\ pc[c] \notin {"scan", "look"}
             /\ UNCHANGED best
    BY Zenon, <1>7 DEF ScanOf
  <1>. QED  BY Zenon, <1>2, <1>3, <1>4, <1>5, <1>6, <1>7
            DEF CoreType, Step, User, Kernel, Tick, Continue, Syscall, Goto,
                localVars, EndTick, LeaveExit, Interruptible, UserRun,
                UserSyscall, TimerInterrupt, TickAcquire, TickMiss, TickSave,
                TickRunInit, TickInitFails, TickDowngrade, TickKeep,
                ContinueTask, ContinueIdle, Resume, SyscallSave, SyscallOther,
                SyscallSpawn, SpawnAcquire, SpawnExec, SpawnPanics, SyscallExit,
                ExitAcquire, ExitFind, ExitFound, ExitRemove, SyscallIdle,
                SyscallResult

(* What every core knows in its scan stays true. *)
LEMMA ScanInvStep ==
  ASSUME TypeOK, ListLock, ScanInv, NEW c \in Core, Step(c)
  PROVE  ScanInv'
  <1>. SUFFICES ASSUME NEW d \in Core PROVE ScanOf(d)'
    BY Zenon DEF ScanInv
  <1>1. CASE d = c
    BY Zenon, <1>1, ScanSelf
  <1>2. CASE d # c
    BY Zenon, <1>2, ScanOthers
  <1>. QED  BY Zenon, <1>1, <1>2

(* What the other cores know in exit_current stays true. *)
LEMMA ExitOthers ==
  ASSUME TypeOK, ListLock, ExitInv, OwnerInv, NEW c \in Core, Step(c),
         NEW d \in Core, d # c
  PROVE  ExitOf(d)'
  <1>1. pc'[d] = pc[d] /\ index'[d] = index[d] /\ exiting'[d] = exiting[d]
    BY Zenon, OthersKept DEF TypeOK
  <1>2. pc[d] \in {"find", "found", "remove"} => tasks' = tasks
    BY Zenon, ListKept DEF TypeOK, ListType, CoreType, LockType, Upgradeable
  <1>3. ExitOf(d)
    BY Zenon DEF ExitInv
  <1>4. exiting[d] # NONE => Listed(exiting[d])'
    <2>. HAVE exiting[d] # NONE
    <2>1. Listed(exiting[d]) /\ exiting[d] # exiting[c]
      BY Zenon, <1>3 DEF ExitOf, OwnerInv
    <2>2. \A t : Listed(t) /\ t # exiting[c] => Listed(t)'
      BY Zenon, ListedKept DEF TypeOK
    <2>. QED  BY Zenon, <1>1, <2>1, <2>2 DEF Listed
  <1>. QED  BY Zenon, <1>1, <1>2, <1>3, <1>4 DEF ExitOf

(* What a core knows in its own exit_current. *)
LEMMA ExitSelf ==
  ASSUME TypeOK, ExitInv, OwnInv, NEW c \in Core, Step(c)
  PROVE  ExitOf(c)'
  <1>1. ExitOf(c)
    BY Zenon DEF ExitInv
  <1>. USE <1>1 DEF TypeOK
  <1>2. CASE SyscallExit(c)
    <2>1. Listed(current_task[c]) /\ current_task[c] # NONE
      BY Zenon, <1>2 DEF SyscallExit, OwnInv, OwnOf, HasTask
    <2>2. /\ exiting'[c] = current_task[c] /\ pc'[c] = "exit"
          /\ UNCHANGED tasks
      BY Zenon, <1>2 DEF SyscallExit, Goto, listVars, CoreType, LocalType
    <2>. QED  BY Zenon, <2>1, <2>2 DEF ExitOf, Listed, Exiting
  <1>3. CASE ExitAcquire(c)
    <2>1. /\ exiting'[c] = exiting[c] /\ pc'[c] = "find" /\ index'[c] = 1
          /\ UNCHANGED tasks /\ pc[c] = "exit"
      BY Zenon, <1>3 DEF ExitAcquire, Goto, CoreType, LocalType
    <2>2. exiting[c] # NONE /\ Listed(exiting[c])
      BY Zenon, <2>1 DEF ExitOf, Exiting
    <2>3. Listed(exiting[c])'
      BY Zenon, <2>1, <2>2 DEF Listed
    <2>4. \A i \in 1..Len(tasks) : i >= 1
      OBVIOUS
    <2>5. /\ \A i \in 1..Len(tasks') : tasks'[i] = exiting'[c] => i >= index'[c]
          /\ index'[c] >= 1
      BY <2>1, <2>4
    <2>6. exiting'[c] # NONE
      BY Zenon, <2>1, <2>2
    <2>. QED  BY Zenon, <2>1, <2>3, <2>5, <2>6 DEF ExitOf, Exiting
  <1>4. CASE ExitFind(c)
    <2>1. CASE index[c] > Len(tasks)
      <3>1. /\ exiting'[c] = NONE /\ pc'[c] = "syscall_return"
        BY Zenon, <1>4, <2>1 DEF ExitFind, LeaveExit, Goto, CoreType, LocalType
      <3>. QED  BY Zenon, <3>1 DEF ExitOf, Exiting
    <2>2. CASE ~(index[c] > Len(tasks))
      <3>1. /\ UNCHANGED <<exiting, index, tasks>>
            /\ pc'[c] = "found" /\ pc[c] = "find"
        BY Zenon, <1>4, <2>2 DEF ExitFind, Goto, CoreType
      <3>2. index[c] <= Len(tasks)
        BY <2>2 DEF LocalType, ListType
      <3>. QED  BY Zenon, <3>1, <3>2 DEF ExitOf, Exiting, Listed
    <2>. QED  BY Zenon, <2>1, <2>2
  <1>5. CASE ExitFound(c)
    <2>1. /\ UNCHANGED <<exiting, tasks>> /\ pc[c] = "found"
          /\ index[c] \in Nat
      BY Zenon, <1>5 DEF ExitFound, listVars, LocalType
    <2>2. CASE tasks[index[c]] = exiting[c]
      <3>1. UNCHANGED index /\ pc'[c] = "remove"
        BY Zenon, <1>5, <2>2 DEF ExitFound, Goto, CoreType
      <3>. QED  BY Zenon, <2>1, <2>2, <3>1 DEF ExitOf, Exiting, Listed
    <2>3. CASE tasks[index[c]] # exiting[c]
      <3>1. index'[c] = index[c] + 1 /\ pc'[c] = "find"
        BY Zenon, <1>5, <2>3 DEF ExitFound, Goto, CoreType, LocalType
      <3>2. /\ exiting[c] # NONE /\ Listed(exiting[c]) /\ index[c] >= 1
            /\ \A i \in 1..Len(tasks) : tasks[i] = exiting[c] => i >= index[c]
        BY Zenon, <2>1 DEF ExitOf, Exiting
      <3>3. Listed(exiting[c])'
        BY Zenon, <2>1, <3>2 DEF Listed
      <3>4. ASSUME NEW i \in 1..Len(tasks), tasks[i] = exiting[c]
            PROVE  i >= index'[c]
        <4>1. i # index[c] /\ i >= index[c]
          BY Zenon, <2>3, <3>2, <3>4
        <4>. QED  BY <2>1, <3>1, <4>1
      <3>5. index'[c] >= 1
        BY <2>1, <3>1, <3>2
      <3>. QED  BY Zenon, <2>1, <3>1, <3>2, <3>3, <3>4, <3>5 DEF ExitOf, Exiting
    <2>. QED  BY Zenon, <2>2, <2>3
  <1>6. CASE ExitRemove(c)
    <2>1. exiting'[c] = NONE /\ pc'[c] = "syscall_return"
      BY Zenon, <1>6 DEF ExitRemove, LeaveExit, Goto, CoreType, LocalType
    <2>. QED  BY Zenon, <2>1 DEF ExitOf, Exiting
  <1>7. CASE /\ pc'[c] \notin Exiting /\ pc[c] \notin Exiting
             /\ UNCHANGED exiting
    BY Zenon, <1>7 DEF ExitOf, Exiting
  <1>8. CASE User(c) \/ TimerInterrupt(c)
    BY Zenon, <1>7, <1>8 DEF CoreType, User, UserRun, UserSyscall, TimerInterrupt,
                      Goto, Interruptible, Exiting, localVars
  <1>9. CASE Tick(c)
    BY Zenon, <1>7, <1>9 DEF CoreType, Tick, Goto, localVars, EndTick, StartScan,
                      Exiting, TickAcquire, TickMiss, TickSave, TickRunInit,
                      TickInitFails, TickDowngrade, TickRelease, TickKeep,
                      TickNoTask, ScanTryWrite, ScanBusy, ScanLook, ScanEnd
  <1>10. CASE Continue(c)
    BY Zenon, <1>7, <1>10 DEF CoreType, Continue, ContinueTask, ContinueIdle, Resume,
                       Goto, localVars, Exiting
  <1>11. CASE Syscall(c)
    BY Zenon, <1>2, <1>3, <1>4, <1>5, <1>6, <1>7, <1>11
       DEF CoreType, Syscall, Goto, localVars, Exiting, SyscallSave,
           SyscallOther, SyscallSpawn, SpawnAcquire, SpawnExec, SpawnPanics, SyscallIdle,
           SyscallResult
  <1>. QED  BY Zenon, <1>8, <1>9, <1>10, <1>11 DEF Step, Kernel

(* What every core knows in exit_current stays true. *)
LEMMA ExitInvStep ==
  ASSUME TypeOK, ListLock, ExitInv, OwnInv, OwnerInv, NEW c \in Core, Step(c)
  PROVE  ExitInv'
  <1>. SUFFICES ASSUME NEW d \in Core PROVE ExitOf(d)'
    BY Zenon DEF ExitInv
  <1>1. CASE d = c
    BY Zenon, <1>1, ExitSelf
  <1>2. CASE d # c
    BY Zenon, <1>2, ExitOthers
  <1>. QED  BY Zenon, <1>1, <1>2

(* What the other cores own stays Running and in the list. *)
LEMMA OwnOthers ==
  ASSUME TypeOK, ExitInv, OwnInv, OwnerInv, NEW c \in Core, Step(c),
         NEW d \in Core, d # c
  PROVE  OwnOf(d)'
  <1>1. /\ pc'[d] = pc[d] /\ exiting'[d] = exiting[d]
        /\ current_task'[d] = current_task[d]
    BY Zenon, OthersKept DEF TypeOK
  <1>2. OwnOf(d) /\ ExitOf(d)
    BY Zenon DEF OwnInv, ExitInv
  <1>3. \A t : Listed(t) /\ t # exiting[c] => Listed(t)'
    BY Zenon, ListedKept DEF TypeOK
  <1>4. \A t \in Task :
          state[t] = "Running" /\ Listed(t) /\ t # current_task[c] =>
            state'[t] = "Running"
    BY Zenon, RunningKept
  <1>5. /\ current_task[d] \in Task \cup {NONE}
        /\ exiting[d] \in Task \cup {NONE}
    BY Zenon DEF TypeOK, CoreType, LocalType
  <1>6. current_task[d] # NONE => /\ current_task[d] # current_task[c]
                                  /\ current_task[d] # exiting[c]
    BY Zenon DEF OwnerInv
  <1>7. exiting[d] # NONE => exiting[d] # current_task[c]
    BY Zenon DEF OwnerInv
  <1>8. current_task[d] # NONE => Listed(current_task[d])'
    BY Zenon, <1>1, <1>2, <1>3, <1>6 DEF OwnOf, Listed
  <1>9. current_task[d] # NONE => state'[current_task[d]] = "Running"
    BY Zenon, <1>2, <1>4, <1>5, <1>6 DEF OwnOf
  <1>10. exiting[d] # NONE => state'[exiting[d]] = "Running"
    BY Zenon, <1>2, <1>4, <1>5, <1>7 DEF OwnOf, ExitOf
  <1>. QED  BY Zenon, <1>1, <1>2, <1>8, <1>9, <1>10 DEF OwnOf

(* A step of a core keeps its own task Running and in the list, gives it up,
   or takes one that it marks Running. *)
LEMMA OwnTask ==
  ASSUME TypeOK, ScanInv, ExitInv, OwnInv, NEW c \in Core, Step(c)
  PROVE  current_task'[c] # NONE => /\ state'[current_task'[c]] = "Running"
                                    /\ Listed(current_task[c])'
  <1>1. OwnOf(c) /\ ExitOf(c) /\ ScanOf(c)
    BY Zenon DEF OwnInv, ExitInv, ScanInv
  <1>2. pc[c] \in Exiting => current_task[c] = NONE
    BY Zenon, <1>1 DEF OwnOf, HasNone
  <1>3. Listed(current_task[c]) /\ current_task[c] # NONE =>
          \E i \in 1..Len(tasks') : tasks'[i] = current_task[c]
    <2>. HAVE Listed(current_task[c]) /\ current_task[c] # NONE
    <2>1. \A t : Listed(t) /\ (pc[c] = "remove" => t # exiting[c]) =>
                   Listed(t)'
      BY Zenon, ListedKept DEF TypeOK
    <2>2. pc[c] # "remove"
      BY Zenon, <1>2 DEF Exiting
    <2>. QED  BY Zenon, <2>1, <2>2 DEF Listed
  <1>4. CASE TickRelease(c) \/ SyscallExit(c)
    BY Zenon, <1>4 DEF TickRelease, SyscallExit, TypeOK, CoreType
  <1>5. CASE ScanEnd(c)
    <2>1. UNCHANGED tasks /\ current_task[c] = NONE
      BY Zenon, <1>1, <1>5 DEF ScanEnd, OwnOf, HasNone
    <2>2. CASE best[c] = NoBest
      BY Zenon, <1>5, <2>1, <2>2 DEF ScanEnd
    <2>3. CASE best[c] # NoBest
      <3>1. /\ best[c].t \in Task
            /\ best[c].i \in 1..Len(tasks)
            /\ tasks[best[c].i] = best[c].t
        BY Zenon, <2>3, BestFacts DEF TypeOK
      <3>2. /\ state' = [state EXCEPT ![best[c].t] = "Running"]
            /\ current_task'[c] = best[c].t
        BY Zenon, <1>5, <2>3, <3>1 DEF ScanEnd, TypeOK, CoreType
      <3>. QED  BY Zenon, <2>1, <3>1, <3>2 DEF TypeOK, TaskType, Listed
    <2>. QED  BY Zenon, <2>2, <2>3
  <1>6. CASE (\E u \in FreshTask : NewTask(u)) /\ UNCHANGED current_task
    <2>1. PICK u \in FreshTask : NewTask(u)
      BY Zenon, <1>6
    <2>2. current_task[c] # u
      BY Zenon, FreshFacts DEF TypeOK
    <2>. QED  BY Zenon, <1>1, <1>3, <1>6, <2>1, <2>2
              DEF NewTask, OwnOf, Listed, TypeOK, TaskType, CoreType
  <1>7. CASE UNCHANGED <<state, current_task>>
    BY Zenon, <1>1, <1>3, <1>7 DEF OwnOf, Listed
  <1>. QED  BY Zenon, <1>4, <1>5, <1>6, <1>7, StepChanges, NewTasks DEF Changes

(* A core that exits a task gets it Running, and it stays so. *)
LEMMA OwnExit ==
  ASSUME TypeOK, ExitInv, OwnInv, NEW c \in Core, Step(c)
  PROVE  exiting'[c] # NONE => state'[exiting'[c]] = "Running"
  <1>1. OwnOf(c) /\ ExitOf(c)
    BY Zenon DEF OwnInv, ExitInv
  <1>2. CASE SyscallExit(c)
    <2>1. exiting'[c] = current_task[c] /\ UNCHANGED state
      BY Zenon, <1>2 DEF SyscallExit, taskVars, TypeOK, LocalType
    <2>. QED  BY Zenon, <1>1, <2>1 DEF OwnOf
  <1>3. CASE exiting'[c] = exiting[c] /\ exiting[c] # NONE
    <2>1. pc[c] \in Exiting
      BY Zenon, <1>1, <1>3 DEF ExitOf
    <2>2. UNCHANGED state
      BY Zenon, <2>1 DEF Exiting, Step, User, Kernel, Tick, Continue, Syscall,
                  taskVars, Interruptible, UserRun, UserSyscall,
                  TimerInterrupt, TickAcquire, TickMiss, TickSave,
                  TickRunInit, TickInitFails, TickDowngrade, TickRelease,
                  TickKeep, TickNoTask, ScanTryWrite, ScanBusy, ScanLook,
                  ScanEnd, ContinueTask, ContinueIdle, Resume, SyscallSave,
                  SyscallOther, SyscallSpawn, SpawnAcquire, SpawnExec, SpawnPanics,
                  SyscallExit, ExitAcquire, ExitFind, ExitFound, ExitRemove,
                  SyscallIdle, SyscallResult
    <2>. QED  BY Zenon, <1>1, <1>3, <2>2 DEF OwnOf
  <1>4. CASE exiting'[c] = NONE
    BY Zenon, <1>4
  <1>. QED  BY Zenon, <1>2, <1>3, <1>4
            DEF Step, User, Kernel, Tick, Continue, Syscall, localVars,
                LeaveExit, TypeOK, LocalType, UserRun, UserSyscall,
                TimerInterrupt, TickAcquire, TickMiss, TickSave, TickRunInit,
                TickInitFails, TickDowngrade, TickRelease, TickKeep,
                TickNoTask, ScanTryWrite, ScanBusy, ScanLook, ScanEnd,
                ContinueTask, ContinueIdle, Resume, SyscallSave, SyscallOther,
                SyscallSpawn, SpawnAcquire, SpawnExec, SpawnPanics, ExitAcquire, ExitFind,
                ExitFound, ExitRemove, SyscallIdle, SyscallResult

(* Where a core has a task and where it has none. *)
LEMMA OwnPc ==
  ASSUME TypeOK, OwnInv, NEW c \in Core, Step(c)
  PROVE  /\ pc'[c] \notin {"panic_unreachable", "panic_no_task"}
         /\ pc'[c] \in HasTask => current_task'[c] # NONE
         /\ pc'[c] \in HasNone => current_task'[c] = NONE
  <1>1. OwnOf(c)
    BY Zenon DEF OwnInv
  <1>2. pc \in [Core -> PC] /\ current_task \in [Core -> Task \cup {NONE}]
    BY Zenon DEF TypeOK, CoreType
  <1>. USE <1>1, <1>2 DEF HasTask, HasNone, Exiting, Goto, OwnOf, coreVars
  <1>3. CASE UserRun(c)
    BY Zenon, <1>3 DEF UserRun
  <1>4. CASE UserSyscall(c)
    BY Zenon, <1>4 DEF UserSyscall
  <1>5. CASE TimerInterrupt(c)
    BY Zenon, <1>5 DEF TimerInterrupt, Interruptible
  <1>6. CASE TickAcquire(c)
    BY Zenon, <1>6 DEF TickAcquire
  <1>7. CASE TickMiss(c)
    BY Zenon, <1>7 DEF TickMiss
  <1>8. CASE TickSave(c)
    BY Zenon, <1>8 DEF TickSave
  <1>9. CASE TickRunInit(c)
    BY Zenon, <1>9 DEF TickRunInit
  <1>10. CASE TickInitFails(c)
    BY Zenon, <1>10 DEF TickInitFails
  <1>11. CASE TickDowngrade(c)
    BY Zenon, <1>11 DEF TickDowngrade
  <1>12. CASE TickRelease(c)
    BY Zenon, <1>12 DEF TickRelease, StartScan
  <1>13. CASE TickKeep(c)
    <2>1. CASE state[current_task[c]] # "Running"
      BY Zenon, <1>13, <2>1 DEF TickKeep, EndTick
    <2>2. CASE ~(state[current_task[c]] # "Running")
      BY Zenon, <1>13, <2>2 DEF TickKeep, EndTick
    <2>. QED  BY Zenon, <2>1, <2>2
  <1>14. CASE TickNoTask(c)
    BY Zenon, <1>14 DEF TickNoTask, StartScan
  <1>15. CASE ScanTryWrite(c)
    BY Zenon, <1>15 DEF ScanTryWrite
  <1>16. CASE ScanBusy(c)
    BY Zenon, <1>16 DEF ScanBusy
  <1>17. CASE ScanLook(c)
    BY Zenon, <1>17 DEF ScanLook
  <1>18. CASE ScanEnd(c)
    BY Zenon, <1>18 DEF ScanEnd, EndTick
  <1>19. CASE ContinueTask(c)
    BY Zenon, <1>19 DEF ContinueTask
  <1>20. CASE ContinueIdle(c)
    BY Zenon, <1>20 DEF ContinueIdle
  <1>21. CASE Resume(c)
    <2>1. CASE procstate[current_task[c]] = "kernel"
      BY Zenon, <1>21, <2>1 DEF Resume
    <2>2. CASE ~(procstate[current_task[c]] = "kernel")
      BY Zenon, <1>21, <2>2 DEF Resume
    <2>. QED  BY Zenon, <2>1, <2>2
  <1>22. CASE SyscallSave(c)
    <2>1. CASE current_task[c] = NONE
      BY Zenon, <1>22, <2>1 DEF SyscallSave
    <2>2. CASE ~(current_task[c] = NONE)
      BY Zenon, <1>22, <2>2 DEF SyscallSave
    <2>. QED  BY Zenon, <2>1, <2>2
  <1>23. CASE SyscallOther(c)
    BY Zenon, <1>23 DEF SyscallOther
  <1>24. CASE SyscallSpawn(c)
    BY Zenon, <1>24 DEF SyscallSpawn
  <1>25. CASE SpawnAcquire(c)
    BY Zenon, <1>25 DEF SpawnAcquire
  <1>26. CASE SpawnExec(c)
    BY Zenon, <1>26 DEF SpawnExec
  <1>26p. CASE SpawnPanics(c)
    BY Zenon, <1>26p DEF SpawnPanics
  <1>27. CASE SyscallExit(c)
    BY Zenon, <1>27 DEF SyscallExit
  <1>28. CASE ExitAcquire(c)
    BY Zenon, <1>28 DEF ExitAcquire
  <1>29. CASE ExitFind(c)
    <2>1. CASE index[c] > Len(tasks)
      BY Zenon, <1>29, <2>1 DEF ExitFind, LeaveExit
    <2>2. CASE ~(index[c] > Len(tasks))
      BY Zenon, <1>29, <2>2 DEF ExitFind, LeaveExit
    <2>. QED  BY Zenon, <2>1, <2>2
  <1>30. CASE ExitFound(c)
    <2>1. CASE tasks[index[c]] = exiting[c]
      BY Zenon, <1>30, <2>1 DEF ExitFound
    <2>2. CASE ~(tasks[index[c]] = exiting[c])
      BY Zenon, <1>30, <2>2 DEF ExitFound
    <2>. QED  BY Zenon, <2>1, <2>2
  <1>31. CASE ExitRemove(c)
    BY Zenon, <1>31 DEF ExitRemove, LeaveExit
  <1>32. CASE SyscallIdle(c)
    BY Zenon, <1>32 DEF SyscallIdle
  <1>33. CASE SyscallResult(c)
    BY Zenon, <1>33 DEF SyscallResult
  <1>. QED  BY Zenon, <1>3, <1>4, <1>5, <1>6, <1>7, <1>8, <1>9, <1>10, <1>11, <1>12,
               <1>13, <1>14, <1>15, <1>16, <1>17, <1>18, <1>19, <1>20, <1>21,
               <1>22, <1>23, <1>24, <1>25, <1>26, <1>26p, <1>27, <1>28, <1>29, <1>30,
               <1>31, <1>32, <1>33
            DEF Step, User, Kernel, Tick, Continue, Syscall

(* What every core owns stays Running and in the list. *)
LEMMA OwnInvStep ==
  ASSUME TypeOK, ScanInv, ExitInv, OwnInv, OwnerInv, NEW c \in Core, Step(c)
  PROVE  OwnInv'
  <1>. SUFFICES ASSUME NEW d \in Core PROVE OwnOf(d)'
    BY Zenon DEF OwnInv
  <1>1. CASE d = c
    BY Zenon, <1>1, OwnTask, OwnExit, OwnPc DEF OwnOf
  <1>2. CASE d # c
    BY Zenon, <1>2, OwnOthers
  <1>. QED  BY Zenon, <1>1, <1>2

(* What a core owns after its step: what it owned, or a task of the list
   that was Pending. *)
LEMMA OwnedStep ==
  ASSUME TypeOK, ScanInv, ExitInv, OwnInv, NEW c \in Core, Step(c)
  PROVE  \A t \in {current_task'[c], exiting'[c]} \ {NONE} :
           \/ t \in {current_task[c], exiting[c]}
           \/ t \in Task /\ state[t] = "Pending"
  <1>1. CASE ScanEnd(c)
    <2>1. CASE best[c] = NoBest
      BY Zenon, <1>1, <2>1 DEF ScanEnd
    <2>2. CASE best[c] # NoBest
      <3>1. /\ best[c].t \in Task
            /\ tasks[best[c].i] = best[c].t
            /\ state[best[c].t] = "Pending"
        BY Zenon, <2>2, BestFacts DEF TypeOK
      <3>2. current_task'[c] = best[c].t /\ UNCHANGED exiting
        BY Zenon, <1>1, <2>2, <3>1 DEF ScanEnd, TypeOK, CoreType
      <3>. QED  BY Zenon, <3>1, <3>2
    <2>. QED  BY Zenon, <2>1, <2>2
  <1>2. CASE /\ current_task'[c] \in {current_task[c], NONE}
             /\ exiting'[c] \in {current_task[c], exiting[c], NONE}
    BY Zenon, <1>2
  <1>. QED  BY Zenon, <1>1, <1>2
            DEF Step, User, Kernel, Tick, Continue, Syscall, coreVars,
                localVars, LeaveExit, TypeOK, CoreType, LocalType, UserRun,
                UserSyscall, TimerInterrupt, TickAcquire, TickMiss, TickSave,
                TickRunInit, TickInitFails, TickDowngrade, TickRelease,
                TickKeep, TickNoTask, ScanTryWrite, ScanBusy, ScanLook,
                ContinueTask, ContinueIdle, Resume, SyscallSave, SyscallOther,
                SyscallSpawn, SpawnAcquire, SpawnExec, SpawnPanics, SyscallExit,
                ExitAcquire, ExitFind, ExitFound, ExitRemove, SyscallIdle,
                SyscallResult

(* No task gets a second owner. *)
LEMMA OwnerInvStep ==
  ASSUME TypeOK, ScanInv, ExitInv, OwnInv, OwnerInv, NEW c \in Core, Step(c)
  PROVE  OwnerInv'
  <1>1. ASSUME NEW d \in Core, d # c
        PROVE  \A t \in {current_task'[c], exiting'[c]} \ {NONE} :
                 t # current_task'[d] /\ t # exiting'[d]
    <2>1. exiting'[d] = exiting[d] /\ current_task'[d] = current_task[d]
      BY Zenon, <1>1, OthersKept DEF TypeOK
    <2>2. OwnOf(d)
      BY Zenon DEF OwnInv
    <2>3. \A t \in Task : state[t] = "Pending" =>
                            t # current_task[d] /\ t # exiting[d]
      BY Zenon, <2>2, TaskAssumption DEF OwnOf
    <2>4. \A t \in {current_task[c], exiting[c]} \ {NONE} :
            t # current_task[d] /\ t # exiting[d]
      BY Zenon, <1>1 DEF OwnerInv
    <2>. QED  BY Zenon, <2>1, <2>3, <2>4, OwnedStep
  <1>2. ASSUME NEW d \in Core, NEW e \in Core, d # e, d # c, e # c
        PROVE  /\ exiting'[d] = exiting[d] /\ exiting'[e] = exiting[e]
               /\ current_task'[d] = current_task[d]
               /\ current_task'[e] = current_task[e]
    BY Zenon, <1>2, OthersKept DEF TypeOK
  <1>. SUFFICES ASSUME NEW d \in Core, NEW e \in Core, d # e
                PROVE  /\ current_task'[d] # NONE =>
                            /\ current_task'[d] # current_task'[e]
                            /\ current_task'[d] # exiting'[e]
                       /\ exiting'[d] # NONE => exiting'[d] # exiting'[e]
    BY Zenon DEF OwnerInv
  <1>3. CASE d = c
    BY Zenon, <1>1, <1>3
  <1>4. CASE e = c
    BY Zenon, <1>1, <1>4
  <1>5. CASE d # c /\ e # c
    <2>1. /\ exiting'[d] = exiting[d] /\ exiting'[e] = exiting[e]
          /\ current_task'[d] = current_task[d]
          /\ current_task'[e] = current_task[e]
      BY Zenon, <1>2, <1>5
    <2>2. /\ current_task[d] # NONE => /\ current_task[d] # current_task[e]
                                      /\ current_task[d] # exiting[e]
          /\ exiting[d] # NONE => exiting[d] # exiting[e]
      BY Zenon DEF OwnerInv
    <2>. QED  BY Zenon, <2>1, <2>2
  <1>. QED  BY Zenon, <1>3, <1>4, <1>5

(* A task that is Running after a step of c, and was an entry of the list
   before, was Running or is taken by c. *)
LEMMA RunningStep ==
  ASSUME TypeOK, ScanInv, NEW c \in Core, Step(c), NEW t \in Task,
         state'[t] = "Running"
  PROVE  \/ state[t] = "Running" /\ ~(TickRelease(c) /\ t = current_task[c])
         \/ current_task'[c] = t
  <1>. USE DEF TypeOK, TaskType
  <1>1. CASE \E u \in FreshTask : NewTask(u)
    BY Zenon, <1>1 DEF NewTask, FreshTask, TickRelease, listVars
  <1>2. CASE TickRelease(c)
    BY Zenon, <1>2 DEF TickRelease, CoreType
  <1>3. CASE ScanEnd(c)
    <2>1. CASE best[c] = NoBest
      BY Zenon, <1>3, <2>1 DEF ScanEnd, TickRelease
    <2>2. CASE best[c] # NoBest
      <3>1. best[c].t \in Task /\ tasks[best[c].i] = best[c].t
        BY Zenon, <2>2, BestFacts
      <3>. QED  BY Zenon, <1>3, <2>2, <3>1 DEF ScanEnd, CoreType, TickRelease
    <2>. QED  BY Zenon, <2>1, <2>2
  <1>4. CASE UNCHANGED state
    BY Zenon, <1>4 DEF TickRelease, CoreType
  <1>. QED  BY Zenon, <1>1, <1>2, <1>3, <1>4, StepChanges, NewTasks DEF Changes

(* A core gives up a task by the release of tick, by the exit that takes it
   from current_task, or by the removal of its entry. *)
LEMMA OwnedKept ==
  ASSUME TypeOK, ListDistinct, ExitInv, OwnInv, NEW c \in Core, Step(c),
         NEW t \in Task, Listed(t)', t \in {current_task[c], exiting[c]},
         ~(TickRelease(c) /\ t = current_task[c])
  PROVE  t \in {current_task'[c], exiting'[c]}
  <1>1. t # NONE
    BY Zenon, TaskAssumption
  <1>2. OwnOf(c) /\ ExitOf(c)
    BY Zenon DEF OwnInv, ExitInv
  <1>3. exiting[c] # NONE => current_task[c] = NONE
    BY Zenon, <1>2 DEF OwnOf, ExitOf, HasNone
  <1>4. CASE TickRelease(c)
    BY Zenon, <1>4 DEF TickRelease, TypeOK, CoreType
  <1>5. CASE ScanEnd(c)
    <2>1. current_task[c] = NONE
      BY Zenon, <1>2, <1>5 DEF ScanEnd, OwnOf, HasNone
    <2>. QED  BY Zenon, <1>1, <1>5, <2>1 DEF ScanEnd
  <1>6. CASE SyscallExit(c)
    <2>1. exiting'[c] = current_task[c] /\ current_task[c] # NONE
      BY Zenon, <1>2, <1>6 DEF SyscallExit, OwnOf, HasTask, TypeOK, LocalType
    <2>. QED  BY Zenon, <1>1, <1>3, <2>1
  <1>7. CASE ExitFind(c)
    <2>1. CASE index[c] > Len(tasks)
      <3>1. \E i \in 1..Len(tasks) : tasks[i] = exiting[c] /\ i >= index[c]
        BY Zenon, <1>2, <1>7 DEF ExitFind, ExitOf, Listed, Exiting
      <3>2. index[c] \in Nat /\ Len(tasks) \in Nat
        BY Zenon, IndexNat
      <3>. QED  BY Zenon, <2>1, <3>1, <3>2, PastTheEnd
    <2>2. CASE ~(index[c] > Len(tasks))
      BY Zenon, <1>7, <2>2 DEF ExitFind, coreVars
    <2>. QED  BY Zenon, <2>1, <2>2
  <1>8. CASE ExitRemove(c)
    <2>1. /\ index[c] \in 1..Len(tasks) /\ tasks[index[c]] = exiting[c]
          /\ tasks' = RemoveAt(tasks, index[c])
          /\ UNCHANGED current_task
      <3>1. pc[c] = "remove" /\ UNCHANGED current_task
        BY Zenon, <1>8 DEF ExitRemove, coreVars
      <3>2. tasks' = RemoveAt(tasks, index[c])
        BY Zenon, <1>8 DEF ExitRemove
      <3>. QED  BY Zenon, <3>1, <3>2, ExitIndex DEF TypeOK
    <2>2. /\ Len(tasks') = Len(tasks) - 1 /\ Len(tasks) \in Nat
          /\ \A j \in 1..(Len(tasks) - 1) :
               tasks'[j] = IF j < index[c] THEN tasks[j] ELSE tasks[j + 1]
      BY Zenon, <2>1, ListRemoved DEF TypeOK
    <2>3. \A j \in 1..Len(tasks') : tasks'[j] # exiting[c]
      <3>1. ASSUME NEW j \in 1..Len(tasks')
            PROVE  tasks'[j] # exiting[c]
        <4>1. j \in 1..(Len(tasks) - 1) /\ j \in 1..Len(tasks)
              /\ j + 1 \in 1..Len(tasks)
          BY <2>2
        <4>2. CASE j < index[c]
          <5>1. tasks'[j] = tasks[j] /\ j # index[c]
            BY <2>2, <4>1, <4>2
          <5>. QED  BY Zenon, <2>1, <4>1, <5>1, DistinctEntries
        <4>3. CASE ~(j < index[c])
          <5>1. tasks'[j] = tasks[j + 1] /\ j + 1 # index[c]
            BY <2>1, <2>2, <4>1, <4>3
          <5>. QED  BY Zenon, <2>1, <4>1, <5>1, DistinctEntries
        <4>. QED  BY Zenon, <4>2, <4>3
      <3>. QED  BY Zenon, <3>1
    <2>. QED  BY Zenon, <2>1, <2>3 DEF Listed
  <1>9. CASE UNCHANGED <<current_task, exiting>>
    BY Zenon, <1>9
  <1>. QED  BY Zenon, <1>4, <1>5, <1>6, <1>7, <1>8, <1>9, StepChanges DEF Changes

(* An entry of the list after a step was one before, or is a fresh task. *)
LEMMA ListedBefore ==
  ASSUME TypeOK, ExitInv, NEW c \in Core, Step(c), NEW t, Listed(t)'
  PROVE  t \in Task /\ (Listed(t) \/ state'[t] = "Pending")
  <1>1. PICK j \in 1..Len(tasks') : tasks'[j] = t
    BY Zenon DEF Listed
  <1>2. CASE \E u \in FreshTask : NewTask(u)
    <2>1. PICK u \in FreshTask : NewTask(u)
      BY Zenon, <1>2
    <2>2. u \in Task
      BY Zenon DEF FreshTask
    <2>3. tasks' = Append(tasks, u) /\ state' = [state EXCEPT ![u] = "Pending"]
      BY Zenon, <2>1 DEF NewTask
    <2>4. /\ Len(tasks') = Len(tasks) + 1 /\ Len(tasks) \in Nat
          /\ \A k \in 1..Len(tasks) : tasks'[k] = tasks[k] /\ tasks[k] \in Task
          /\ tasks'[Len(tasks) + 1] = u
      BY Zenon, <2>2, <2>3, ListPushed DEF TypeOK
    <2>5. CASE j = Len(tasks) + 1
      BY Zenon, <1>1, <2>2, <2>3, <2>4, <2>5 DEF TypeOK, TaskType
    <2>6. CASE j \in 1..Len(tasks)
      BY Zenon, <1>1, <2>4, <2>6 DEF Listed
    <2>7. j = Len(tasks) + 1 \/ j \in 1..Len(tasks)
      <3>1. Len(tasks') = Len(tasks) + 1 /\ Len(tasks) \in Nat
        BY Zenon, <2>4
      <3>. QED  BY <3>1
    <2>. QED  BY Zenon, <2>5, <2>6, <2>7
  <1>3. CASE ExitRemove(c)
    <2>1. /\ index[c] \in 1..Len(tasks)
          /\ tasks' = RemoveAt(tasks, index[c])
      BY Zenon, <1>3, ExitIndex DEF ExitRemove, TypeOK
    <2>2. /\ Len(tasks') = Len(tasks) - 1 /\ Len(tasks) \in Nat
          /\ \A k \in 1..(Len(tasks) - 1) :
               tasks'[k] = IF k < index[c] THEN tasks[k] ELSE tasks[k + 1]
      BY Zenon, <2>1, ListRemoved DEF TypeOK
    <2>. \A k \in 1..Len(tasks) : tasks[k] \in Task
      BY DEF TypeOK, ListType
    <2>3. CASE j < index[c]
      <3>1. j \in 1..Len(tasks) /\ j \in 1..(Len(tasks) - 1)
        BY <2>2
      <3>. QED  BY Zenon, <1>1, <2>2, <2>3, <3>1 DEF Listed
    <2>4. CASE ~(j < index[c])
      <3>1. j + 1 \in 1..Len(tasks) /\ j \in 1..(Len(tasks) - 1)
        BY <2>2
      <3>. QED  BY Zenon, <1>1, <2>2, <2>4, <3>1 DEF Listed
    <2>. QED  BY Zenon, <2>3, <2>4
  <1>4. CASE UNCHANGED tasks
    BY SMTT(40), <1>1, <1>4 DEF Listed, TypeOK, ListType
  <1>. QED  BY Zenon, <1>2, <1>3, <1>4, StepChanges, NewTasks DEF Changes

(* A Running entry keeps an owner. *)
LEMMA LostInvStep ==
  ASSUME TypeOK, ListDistinct, ScanInv, ExitInv, OwnInv, OwnerInv, LostInv,
         NEW c \in Core, Step(c)
  PROVE  LostInv'
  <1>. SUFFICES ASSUME NEW t, Listed(t)', state'[t] = "Running"
                PROVE  \E d \in Core : current_task'[d] = t \/ exiting'[d] = t
    BY Zenon DEF LostInv, Listed
  <1>1. t \in Task /\ Listed(t)
    BY Zenon, ListedBefore
  <1>2. CASE current_task'[c] = t
    BY Zenon, <1>2
  <1>3. CASE state[t] = "Running" /\ ~(TickRelease(c) /\ t = current_task[c])
    <2>1. PICK d \in Core : current_task[d] = t \/ exiting[d] = t
      BY Zenon, <1>1, <1>3 DEF LostInv, Listed
    <2>2. CASE d = c
      BY Zenon, <1>1, <1>3, <2>1, <2>2, OwnedKept
    <2>3. CASE d # c
      <3>1. current_task'[d] = current_task[d] /\ exiting'[d] = exiting[d]
        BY Zenon, <2>3, OthersKept DEF TypeOK
      <3>. QED  BY Zenon, <2>1, <3>1
    <2>. QED  BY Zenon, <2>2, <2>3
  <1>. QED  BY Zenon, <1>1, <1>2, <1>3, RunningStep

----------------------------------------------------------------------------
(* The initial states satisfy the inductive invariant. *)
LEMMA InitIInv == Init => IInv
  <1>. SUFFICES ASSUME Init PROVE IInv
    BY Zenon
  <1>1. ListType
    BY DEF Init, ListType
  <1>2. TaskType
    BY Zenon, SaturateFacts DEF Init, TaskType
  <1>3. CoreType
    BY BoundAssumption DEF Init, CoreType, PC, Interruptible
  <1>4. LocalType
    BY BoundAssumption DEF Init, LocalType, NoBest
  <1>5. ListLock
    BY Zenon, CoreAssumption DEF Init, ListLock, Upgradeable, Writing, Scanning
  <1>6. ScanInv
    BY Zenon DEF Init, ScanInv, ScanOf, NoBest
  <1>7. ExitInv
    BY Zenon DEF Init, ExitInv, ExitOf, Exiting
  <1>8. OwnInv /\ OwnerInv
    BY Zenon DEF Init, OwnInv, OwnOf, OwnerInv, HasTask
  <1>9. ListDistinct /\ LostInv
    BY DEF Init, ListDistinct, LostInv
  <1>. QED  BY Zenon, <1>1, <1>2, <1>3, <1>4, <1>5, <1>6, <1>7, <1>8, <1>9
            DEF IInv, TypeOK

(* Every step preserves it. *)
LEMMA StepIInv ==
  ASSUME IInv, NEW c \in Core, Step(c)
  PROVE  IInv'
  <1>. USE DEF IInv, TypeOK
  <1>1. ListType'
    BY Zenon, ListTypeStep
  <1>2. TaskType'
    BY Zenon, TaskTypeStep
  <1>3. CoreType'
    BY Zenon, CoreTypeStep
  <1>4. LocalType'
    BY Zenon, LocalTypeStep
  <1>5. ListLock'
    <2>1. LockType
      BY Zenon DEF LockType, ListType, CoreType
    <2>. QED  BY Zenon, <2>1, ListLockStep
  <1>6. ListDistinct'
    BY Zenon, ListDistinctStep
  <1>7. ScanInv'
    BY Zenon, ScanInvStep
  <1>8. ExitInv'
    BY Zenon, ExitInvStep
  <1>9. OwnInv' /\ OwnerInv'
    BY Zenon, OwnInvStep, OwnerInvStep
  <1>10. LostInv'
    BY Zenon, LostInvStep
  <1>. QED  BY Zenon, <1>1, <1>2, <1>3, <1>4, <1>5, <1>6, <1>7, <1>8, <1>9, <1>10

(* The inductive invariant holds in every reachable state. *)
THEOREM Invariance == Spec => []IInv
  <1>1. IInv /\ [Next]_vars => IInv'
    <2>. SUFFICES ASSUME IInv, [Next]_vars PROVE IInv'
      BY Zenon
    <2>1. CASE Next
      BY Zenon, <2>1, StepIInv DEF Next, Step
    <2>2. CASE UNCHANGED vars
      <3>. USE <2>2 DEF vars, listVars, taskVars, lockVars, coreVars,
                        localVars
      <3>1. TypeOK'
        BY Zenon DEF IInv, TypeOK, ListType, TaskType, CoreType, LocalType
      <3>2. ListLock' /\ ListDistinct'
        BY Zenon DEF IInv, ListLock, ListDistinct
      <3>3. ScanInv'
        BY Zenon DEF IInv, ScanInv, ScanOf
      <3>4. ExitInv'
        BY Zenon DEF IInv, ExitInv, ExitOf, Listed
      <3>5. OwnInv'
        BY Zenon DEF IInv, OwnInv, OwnOf, Listed
      <3>6. OwnerInv' /\ LostInv'
        BY Zenon DEF IInv, OwnerInv, LostInv
      <3>. QED  BY Zenon, <3>1, <3>2, <3>3, <3>4, <3>5, <3>6 DEF IInv
    <2>. QED  BY Zenon, <2>1, <2>2
  <1>. QED  BY <1>1, InitIInv, PTL DEF Spec

(* Type correctness: among the rest, no core gives up more than MAX_TICK_MISS
   + 1 ticks in a row. *)
THEOREM TypeCorrect == Spec => []TypeOK
  <1>1. IInv => TypeOK
    BY Zenon DEF IInv
  <1>. QED  BY <1>1, Invariance, PTL

(* A task runs on at most one core, for any number of cores and tasks. *)
THEOREM SingleOwner == Spec => []OneOwner
  <1>1. IInv => OneOwner
    BY Zenon DEF IInv, OwnerInv, OneOwner, Owned
  <1>. QED  BY <1>1, Invariance, PTL

(* The task of a core is Running and listed, so neither the unreachable!() of
   tick nor the expect() of syscall_handle_2 is reached. *)
THEOREM CurrentRunning == Spec => []CurrentIsRunning
  <1>1. IInv => CurrentIsRunning
    <2>. SUFFICES ASSUME IInv, NEW c \in Core
                  PROVE  /\ pc[c] \notin {"panic_unreachable", "panic_no_task"}
                         /\ pc[c] \in {"user", "syscall_entry", "resume"} =>
                              current_task[c] # NONE
                         /\ current_task[c] # NONE =>
                              /\ state[current_task[c]] = "Running"
                              /\ current_task[c] \in ToSet(tasks)
      BY Zenon DEF CurrentIsRunning
    <2>1. OwnOf(c)
      BY Zenon DEF IInv, OwnInv
    <2>2. ToSet(tasks) = {tasks[i] : i \in 1..Len(tasks)}
      <3>1. tasks \in Seq(Task)
        BY Zenon DEF IInv, TypeOK, ListType
      <3>. QED  BY Zenon, <3>1, EntriesOf
    <2>. QED  BY Zenon, <2>1, <2>2 DEF OwnOf, HasTask, Listed
  <1>. QED  BY <1>1, Invariance, PTL

(* No Running task is left without a core that answers for it. *)
THEOREM NoTaskLost == Spec => []NoLostTask
  <1>1. IInv => NoLostTask
    <2>. SUFFICES ASSUME IInv, NEW t \in ToSet(tasks), state[t] = "Running"
                  PROVE  \E c \in Core : t \in Owned(c)
      BY Zenon DEF NoLostTask
    <2>1. PICK i \in 1..Len(tasks) : tasks[i] = t
      BY DEF IInv, TypeOK, ListType, ToSet
    <2>2. t \in Task
      BY <2>1 DEF IInv, TypeOK, ListType
    <2>3. PICK c \in Core : current_task[c] = t \/ exiting[c] = t
      BY Zenon, <2>1 DEF IInv, LostInv
    <2>. QED  BY Zenon, <2>2, <2>3, TaskAssumption DEF Owned
  <1>. QED  BY <1>1, Invariance, PTL

(* The list does not move under a core that walks it. *)
THEOREM ListDoesNotMove == Spec => ListStable
  <1>1. IInv /\ [Next]_vars =>
          [\A c \in Core :
             /\ pc[c] \in Scanning => tasks' = tasks
             /\ pc[c] \in {"find", "found", "remove"} =>
                  tasks' = tasks \/ pc'[c] = "syscall_return"]_vars
    <2>. SUFFICES ASSUME IInv, Next, NEW c \in Core
                  PROVE  /\ pc[c] \in Scanning => tasks' = tasks
                         /\ pc[c] \in {"find", "found", "remove"} =>
                              tasks' = tasks \/ pc'[c] = "syscall_return"
      BY Zenon
    <2>1. PICK d \in Core : Step(d)
      BY Zenon DEF Next, Step
    <2>2. LockType /\ ListLock /\ CoreType
      BY Zenon DEF IInv, TypeOK, ListType, CoreType, LockType
    <2>3. pc[c] \in Scanning => tasks' = tasks
      BY Zenon, <2>1, <2>2, ListKept
    <2>4. CASE c # d
      BY Zenon, <2>1, <2>2, <2>3, <2>4, ListKept DEF Upgradeable
    <2>5. CASE c = d /\ pc[c] \in {"find", "found", "remove"}
      <3>1. ExitFind(c) \/ ExitFound(c) \/ ExitRemove(c)
        BY Zenon, <2>1, <2>5 DEF Step, User, Kernel, Tick, Continue, Syscall,
                          Interruptible, UserRun, UserSyscall, TimerInterrupt,
                          TickAcquire, TickMiss, TickSave, TickRunInit,
                          TickInitFails, TickDowngrade, TickRelease, TickKeep,
                          TickNoTask, ScanTryWrite, ScanBusy, ScanLook,
                          ScanEnd, ContinueTask, ContinueIdle, Resume,
                          SyscallSave, SyscallOther, SyscallSpawn,
                          SpawnAcquire, SpawnExec, SpawnPanics, SyscallExit, ExitAcquire,
                          SyscallIdle, SyscallResult
      <3>2. ExitFind(c) \/ ExitFound(c) => tasks' = tasks
        BY Zenon DEF ExitFind, ExitFound, listVars
      <3>3. ExitRemove(c) => pc'[c] = "syscall_return"
        BY Zenon, <2>2 DEF ExitRemove, LeaveExit, Goto, CoreType
      <3>. QED  BY Zenon, <2>3, <3>1, <3>2, <3>3
    <2>. QED  BY Zenon, <2>3, <2>4, <2>5
  <1>. QED  BY <1>1, Invariance, PTL DEF Spec, ListStable

(* Between the drop of the lock of its task and the load of the saved state,
   no step writes that state: the FIXME in continue_current is unfounded. *)
THEOREM SavedStateKept == Spec => ResumeStable
  <1>1. IInv /\ [Next]_vars =>
          [\A c \in Core :
             pc[c] = "resume" /\ pc'[c] = "resume" =>
               procstate'[current_task[c]] = procstate[current_task[c]]]_vars
    <2>. SUFFICES ASSUME IInv, Next, NEW c \in Core,
                         pc[c] = "resume", pc'[c] = "resume"
                  PROVE  procstate'[current_task[c]] =
                           procstate[current_task[c]]
      BY Zenon
    <2>1. PICK d \in Core : Step(d)
      BY Zenon DEF Next, Step
    <2>2. current_task[c] \in Task
      BY Zenon DEF IInv, OwnInv, OwnOf, HasTask, TypeOK, CoreType
    <2>3. /\ CoreType /\ ListType
          /\ procstate \in [Task -> {"fresh", "stale", "kernel"}]
      BY Zenon DEF IInv, TypeOK, TaskType
    <2>4. CASE c = d
      <3>1. Resume(c)
        BY Zenon, <2>1, <2>4 DEF Step, User, Kernel, Tick, Continue, Syscall,
                          Interruptible, UserRun, UserSyscall, TimerInterrupt,
                          TickAcquire, TickMiss, TickSave, TickRunInit,
                          TickInitFails, TickDowngrade, TickRelease, TickKeep,
                          TickNoTask, ScanTryWrite, ScanBusy, ScanLook,
                          ScanEnd, ContinueTask, ContinueIdle, SyscallSave,
                          SyscallOther, SyscallSpawn, SpawnAcquire, SpawnExec, SpawnPanics,
                          SyscallExit, ExitAcquire, ExitFind, ExitFound,
                          ExitRemove, SyscallIdle, SyscallResult
      <3>. QED  BY Zenon, <2>3, <3>1 DEF Resume, Goto, CoreType
    <2>5. CASE c # d
      <3>1. current_task[d] # current_task[c]
        BY Zenon, <2>2, <2>5, TaskAssumption DEF IInv, OwnerInv
      <3>2. CASE \E u \in FreshTask : NewTask(u)
        <4>1. PICK u \in FreshTask : NewTask(u)
          BY Zenon, <3>2
        <4>2. u # current_task[c]
          BY Zenon, <2>3, FreshFacts
        <4>3. procstate' = [procstate EXCEPT ![u] = "fresh"]
          BY Zenon, <4>1 DEF NewTask
        <4>. QED  BY Zenon, <2>2, <2>3, <4>2, <4>3
      <3>3. CASE \/ UNCHANGED procstate
                 \/ \E p : procstate' =
                             [procstate EXCEPT ![current_task[d]] = p]
        BY Zenon, <2>2, <2>3, <3>1, <3>3
      <3>. QED  BY Zenon, <2>1, <3>2, <3>3
                DEF Step, User, Kernel, Tick, Continue, Syscall, taskVars,
                    UserRun, UserSyscall, TimerInterrupt, TickAcquire,
                    TickMiss, TickSave, TickRunInit, TickInitFails,
                    TickDowngrade, TickRelease, TickKeep, TickNoTask,
                    ScanTryWrite, ScanBusy, ScanLook, ScanEnd, ContinueTask,
                    ContinueIdle, Resume, SyscallSave, SyscallOther,
                    SyscallSpawn, SpawnAcquire, SpawnExec, SpawnPanics, SyscallExit,
                    ExitAcquire, ExitFind, ExitFound, ExitRemove, SyscallIdle,
                    SyscallResult
    <2>. QED  BY Zenon, <2>4, <2>5
  <1>. QED  BY <1>1, Invariance, PTL DEF Spec, ResumeStable
============================================================================

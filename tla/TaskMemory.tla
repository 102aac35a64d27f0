----------------------------- MODULE TaskMemory -----------------------------
(***************************************************************************)
(* The memory of tasks (proc/task.rs): Task::exec loads an ELF image into  *)
(* frames that a MemoryMap owns, MemoryMap::apply puts them into the page  *)
(* tables when a core dispatches the task, and the map frees them when it  *)
(* is dropped.                                                             *)
(*                                                                         *)
(* Task::exec runs under the write lock of TASKS, so one core at a time is *)
(* in it and its locals are single variables.  palloc and pfree take the   *)
(* allocator's lock for one frame each: between two of them other cores    *)
(* allocate frames for the kernel (valloc, page tables) and drop tasks     *)
(* that exited.  The allocator is the one of FrameAllocator, and pfree     *)
(* clears the bit of a frame whether it is set or not.                     *)
(*                                                                         *)
(* All cores use one P4 table.  Each mapping is applied by a vmap of its   *)
(* own, so two cores may apply two maps at once.  A task is its map: two   *)
(* tasks that are in the list have different frames until an allocation    *)
(* fails.                                                                  *)
(***************************************************************************)
EXTENDS Integers, Sequences, FiniteSets, FiniteSetsExt, Functions

CONSTANTS
  Core,                     \* APIC ids, 0 .. numcores - 1
  Frame,
  STACK_PAGE,               \* the page of USERSTACK_TOP
  Images,                   \* the files Task::exec_initrd is called for
  PAGE_SIZE,
  USERSPACE_TOP,            \* the last byte of user space
  U64_MAX,
  TMP_TASK_SIZE_PER_PROC,
  USERSTACK_SIZE,
  MaxTasks,                 \* bound on the tasks in the list
  MaxKernel,                \* bound on the frames other code allocates
  NONE

(* An entry of the program headers; whether it is a LOAD entry is all that is
   read of ptype.  verified is FALSE for a file that ElfFile::parse refuses, and
   for a path that is not in the initrd. *)
ProgramHeader == [load : BOOLEAN, align : Nat, offset : Nat, vadr : Nat,
                  file_size : Nat, mem_size : Nat]
ElfFile == [verified : BOOLEAN, size : Nat, entries : Seq(ProgramHeader)]

ASSUME TaskAssumption ==
  /\ NONE \notin Core /\ NONE # <<>>
  /\ Frame \subseteq Nat
  /\ Images \subseteq ElfFile
  /\ PAGE_SIZE \in Nat \ {0}
  /\ STACK_PAGE \in Nat /\ USERSTACK_SIZE \in Nat /\ USERSPACE_TOP \in Nat
  /\ STACK_PAGE * PAGE_SIZE + USERSTACK_SIZE < USERSPACE_TOP

(* The pages that begin in user space. *)
Page == {p \in 0..USERSPACE_TOP : p * PAGE_SIZE < USERSPACE_TOP}

VARIABLES
  free,        \* the frames whose bit is clear
  kernel,      \* the frames that other code of the kernel allocated
  loader,      \* the core in Task::exec
  at,          \* where it is
  size,        \* the size of the file
  segments,    \* the entries it has to load, the stack last
  want,        \* MemoryMap::allocate: pages still to get
  allocated,   \* MemoryMap::allocate: allocated_frames
  mappings,    \* the mappings of memory_map, in order
  tasks,       \* TASKS: the map of every task
  dropping,    \* the mappings a core has yet to drop of the task that exited
  failed,      \* an allocate has returned None
  running,     \* current_task of each core
  applying,    \* MemoryMap::apply: the mappings that are left
  active_mapping, \* whether active_mapping of the core is Some
  page_table,  \* the frame of each page of user space
  first        \* the one task dispatched so far, NONE after a second or its exit

loadVars == <<loader, at, size, segments, want, allocated, mappings, failed>>
spaceVars == <<running, applying, active_mapping, page_table, first>>
vars == <<free, kernel, tasks, dropping, loadVars, spaceVars>>

Init ==
  /\ free = Frame /\ kernel = {}
  /\ loader = NONE /\ at = "idle" /\ size = 0 /\ segments = <<>>
  /\ want = 0 /\ allocated = <<>> /\ mappings = <<>>
  /\ tasks = <<>>
  /\ dropping = [c \in Core |-> <<>>]
  /\ failed = FALSE
  /\ running = [c \in Core |-> <<>>] /\ applying = [c \in Core |-> <<>>]
  /\ active_mapping = [c \in Core |-> FALSE]
  /\ page_table = [p \in Page |-> NONE]
  /\ first = <<>>

(* Task::exec: the entries of the image and, last, the stack. *)
Stack ==
  [load |-> TRUE, align |-> 0, offset |-> 0, vadr |-> STACK_PAGE * PAGE_SIZE,
   file_size |-> 0, mem_size |-> USERSTACK_SIZE]

(* A core that is in the scheduler or in a system call, with nothing else in
   progress. *)
AtCall(c) == loader # c /\ dropping[c] = <<>> /\ applying[c] = <<>>

(* exec_initrd, exec_raw: called by tick when the list is empty and by the system
   call of the task the core runs.  A file that is not there, or is no ELF file,
   is an error like those of Task::exec. *)
exec(c) ==
  /\ loader = NONE /\ AtCall(c) /\ Len(tasks) < MaxTasks
  /\ tasks = <<>> \/ running[c] # <<>>
  /\ \E elf \in Images :
       /\ size' = elf.size
       /\ segments' = Append(elf.entries, Stack)
       /\ at' = IF elf.verified THEN "load" ELSE "drop"
  /\ loader' = c
  /\ UNCHANGED <<free, kernel, want, allocated, mappings, tasks, dropping,
                 failed, spaceVars>>

LargeAlignment(s) == s.align > PAGE_SIZE

(* Mutant of InsecureLoad: only the start of the entry is compared. *)
InsecureStart(s) == s.vadr >= USERSPACE_TOP

(* Task::exec: the entry reaches the last byte of user space. *)
InsecureLoad(s) == s.vadr + s.mem_size >= USERSPACE_TOP

LargeSize(s) == s.mem_size > TMP_TASK_SIZE_PER_PROC

(* ElfFile::slice returns None. *)
BinaryEnd(s) == s.offset + s.file_size > size

(* Task::exec: the errors it returns for an entry; the stack is not checked. *)
Refused(s) ==
  /\ Len(segments) > 1
  /\ LargeAlignment(s) \/ InsecureLoad(s) \/ LargeSize(s) \/ BinaryEnd(s)

(* Task::exec, ElfFile::slice: one of the two sums overflows, which is a panic,
   and no check before it has failed. *)
Overflows(s) ==
  /\ Len(segments) > 1
  /\ ~LargeAlignment(s)
  /\ \/ s.vadr + s.mem_size > U64_MAX
     \/ ~InsecureLoad(s) /\ ~LargeSize(s) /\ s.offset + s.file_size > U64_MAX

(* Task::exec: the page an entry begins in, and the number of its pages. *)
page_start(s) == s.vadr \div PAGE_SIZE
pgn(s) == ((s.vadr % PAGE_SIZE) + s.mem_size + PAGE_SIZE - 1) \div PAGE_SIZE

(* Mutant of Load: an early return forgets the memory map. *)
LoadForgets ==
  /\ at = "load" /\ segments # <<>>
  /\ LET s == Head(segments)
     IN IF ~s.load
        THEN segments' = Tail(segments) /\ UNCHANGED <<at, want, loader, mappings>>
        ELSE /\ \/ /\ Refused(s) /\ at' = "idle" /\ loader' = NONE /\ mappings' = <<>>
                   /\ UNCHANGED want
                \/ /\ ~Refused(s) /\ at' = "palloc" /\ want' = pgn(s)
                   /\ UNCHANGED <<loader, mappings>>
             /\ UNCHANGED segments
  /\ UNCHANGED <<free, kernel, size, allocated, tasks, dropping, failed, spaceVars>>

(* Task::exec: the next entry.  Only LOAD entries do anything. *)
Load ==
  /\ at = "load" /\ segments # <<>>
  /\ LET s == Head(segments)
     IN IF ~s.load
        THEN segments' = Tail(segments) /\ UNCHANGED <<at, want>>
        ELSE /\ \/ Overflows(s) /\ at' = "panic" /\ UNCHANGED want
                \/ ~Overflows(s) /\ Refused(s) /\ at' = "drop" /\ UNCHANGED want
                \/ ~Refused(s) /\ ~Overflows(s) /\ at' = "palloc" /\ want' = pgn(s)
             /\ UNCHANGED segments
  /\ UNCHANGED <<free, kernel, loader, size, allocated, mappings, tasks,
                 dropping, failed, spaceVars>>

(* Mutant of NextMapping: every page of the entry is put at its start. *)
AtStart(f) == [page |-> page_start(Head(segments)), frame |-> f]

(* MemoryMap::add_raw: the next page of the entry, at frame f. *)
NextMapping(f) ==
  [page |-> page_start(Head(segments)) + Len(allocated), frame |-> f]

(* palloc: the frame it returns.  Which one it is says PhysMem; nothing here
   depends on it. *)
NewFrame == CHOOSE f \in free : TRUE

(* Mutant of allocate: the loop runs once more than n times. *)
allocate_inclusive ==
  /\ at = "palloc" /\ want >= 0
  /\ free # {}
  /\ LET f == NewFrame
     IN /\ free' = free \ {f}
        /\ allocated' = Append(allocated, f)
        /\ mappings' = Append(mappings, NextMapping(f))
        /\ want' = want - 1
  /\ UNCHANGED <<kernel, loader, at, size, segments, tasks, dropping,
                 failed, spaceVars>>

(* MemoryMap::allocate: a page of the entry gets a frame, which the mapping
   that add_raw pushes owns. *)
allocate ==
  /\ at = "palloc" /\ want > 0
  /\ IF free = {}
     THEN at' = "pfree_all" /\ failed' = TRUE
          /\ UNCHANGED <<free, want, allocated, mappings>>
     ELSE LET f == NewFrame
          IN /\ free' = free \ {f}
             /\ allocated' = Append(allocated, f)
             /\ mappings' = Append(mappings, NextMapping(f))
             /\ want' = want - 1
             /\ UNCHANGED <<at, failed>>
  /\ UNCHANGED <<kernel, loader, size, segments, tasks, dropping, spaceVars>>

(* tmp_local_reserve: the frames are mapped in the region of the core, which
   panics if that takes a page table and there is no frame for one, and filled,
   which panics if the entry has more bytes in the file than in memory; what the
   frames hold is left out. *)
tmp_local_reserve ==
  /\ at = "palloc" /\ want = 0
  /\ \/ /\ free = {} \/ Head(segments).file_size > Head(segments).mem_size
        /\ at' = "panic" /\ UNCHANGED <<allocated, segments>>
     \/ /\ Head(segments).file_size <= Head(segments).mem_size
        /\ at' = "load" /\ allocated' = <<>> /\ segments' = Tail(segments)
  /\ UNCHANGED <<free, kernel, loader, size, want, mappings, tasks, dropping,
                 failed, spaceVars>>

(* MemoryMap::allocate: the frames of this call go back. *)
pfree_all ==
  /\ at = "pfree_all"
  /\ IF allocated = <<>>
     THEN at' = "drop" /\ UNCHANGED <<free, allocated>>
     ELSE /\ free' = free \cup {Head(allocated)}
          /\ allocated' = Tail(allocated)
          /\ UNCHANGED at
  /\ UNCHANGED <<kernel, loader, size, segments, want, mappings, tasks, dropping,
                 failed, spaceVars>>

(* Drop for MemoryMapping: Task::exec has returned an error and memory_map goes
   out of scope.  tick panics when it is init that cannot run. *)
drop ==
  /\ at = "drop"
  /\ IF mappings = <<>>
     THEN /\ size' = 0 /\ segments' = <<>> /\ want' = 0
          /\ IF running[loader] = <<>> THEN at' = "panic" /\ UNCHANGED loader
             ELSE at' = "idle" /\ loader' = NONE
          /\ UNCHANGED <<free, mappings>>
     ELSE /\ free' = free \cup {Head(mappings).frame}
          /\ mappings' = Tail(mappings)
          /\ UNCHANGED <<at, loader, size, segments, want>>
  /\ UNCHANGED <<kernel, allocated, tasks, dropping, failed,
                 spaceVars>>

(* Task::new_locked: the task owns the memory map. *)
new_locked ==
  /\ at = "load" /\ segments = <<>>
  /\ tasks' = Append(tasks, mappings)
  /\ mappings' = <<>>
  /\ at' = "idle" /\ loader' = NONE /\ size' = 0
  /\ UNCHANGED <<free, kernel, segments, want, allocated, dropping, failed,
                 spaceVars>>

(* Vec::remove. *)
RemoveAt(s, i) == SubSeq(s, 1, i - 1) \o SubSeq(s, i + 1, Len(s))

(* Mutant of exit_current: the task is dropped and stays in the list. *)
exit_current_listed(c) ==
  /\ loader = NONE /\ AtCall(c) /\ running[c] # <<>>
  /\ dropping' = [dropping EXCEPT ![c] = running[c]]
  /\ running' = [running EXCEPT ![c] = <<>>]
  /\ UNCHANGED <<free, kernel, tasks, loadVars, applying, active_mapping,
                 page_table, first>>

(* exit_current: the task of the core leaves the list; the core drops its last
   reference when the list is no longer locked.  Its pages stay mapped. *)
exit_current(c) ==
  /\ loader = NONE /\ AtCall(c) /\ running[c] # <<>>
  /\ \E i \in DOMAIN tasks :
       tasks[i] = running[c] /\ tasks' = RemoveAt(tasks, i)
  /\ dropping' = [dropping EXCEPT ![c] = running[c]]
  /\ running' = [running EXCEPT ![c] = <<>>]
  /\ first' = IF running[c] = first THEN NONE ELSE first
  /\ UNCHANGED <<free, kernel, loadVars, applying, active_mapping, page_table>>

(* Drop for MemoryMapping, of a task that exited. *)
DropTask(c) ==
  /\ dropping[c] # <<>>
  /\ free' = free \cup {Head(dropping[c]).frame}
  /\ dropping' = [dropping EXCEPT ![c] = Tail(@)]
  /\ UNCHANGED <<kernel, tasks, loadVars, spaceVars>>

(* tick: the core releases its task. *)
release(c) ==
  /\ loader = NONE /\ AtCall(c) /\ running[c] # <<>>
  /\ running' = [running EXCEPT ![c] = <<>>]
  /\ UNCHANGED <<free, kernel, tasks, dropping, loadVars, applying,
                 active_mapping, page_table, first>>

(* MemoryMap::apply: the mappings to apply.  The id of every map is 0, because
   the counter that numbers them is a const, and each use of it a new one; so
   active_mapping is not the id of the map only when it is None. *)
ToApply(c, map) == IF active_mapping[c] THEN <<>> ELSE map

(* tick, continue_current: the core takes a task that no core runs. *)
dispatch(c) ==
  /\ AtCall(c) /\ running[c] = <<>> /\ loader = NONE
  /\ \E i \in DOMAIN tasks :
       /\ \A d \in Core : running[d] # tasks[i]
       /\ running' = [running EXCEPT ![c] = tasks[i]]
       /\ applying' = [applying EXCEPT ![c] = ToApply(c, tasks[i])]
       /\ first' = IF first \in {<<>>, tasks[i]} THEN tasks[i] ELSE NONE
  /\ UNCHANGED <<free, kernel, tasks, dropping, loadVars, active_mapping,
                 page_table>>

(* MemoryMapping::apply: vmap of the next one; after the last the core notes
   that the map is active.  (If vmap needs a page table and no frame is free the
   core panics: it takes no further step, here as anywhere else.) *)
apply(c) ==
  /\ applying[c] # <<>>
  /\ LET m == Head(applying[c])
     IN page_table' = [page_table EXCEPT ![m.page] = m.frame]
  /\ applying' = [applying EXCEPT ![c] = Tail(@)]
  /\ active_mapping' = [active_mapping EXCEPT ![c] = @ \/ Len(applying[c]) = 1]
  /\ UNCHANGED <<free, kernel, tasks, dropping, loadVars, running, first>>

(* valloc, alloc_substruct: on some core, the kernel takes a frame for good. *)
palloc ==
  /\ free # {} /\ Cardinality(kernel) < MaxKernel
  /\ free' = free \ {NewFrame}
  /\ kernel' = kernel \cup {NewFrame}
  /\ UNCHANGED <<tasks, dropping, loadVars, spaceVars>>

Next ==
  \/ \E c \in Core : \/ exec(c) \/ exit_current(c) \/ DropTask(c)
                     \/ release(c) \/ dispatch(c) \/ apply(c)
  \/ palloc \/ Load \/ allocate \/ tmp_local_reserve \/ pfree_all \/ drop
  \/ new_locked

Spec == Init /\ [][Next]_vars

----------------------------------------------------------------------------
TypeOK ==
  /\ free \subseteq Frame /\ kernel \subseteq Frame
  /\ loader \in Core \cup {NONE}
  /\ at \in {"idle", "load", "palloc", "pfree_all", "drop", "panic"}
  /\ at = "idle" <=> loader = NONE
  /\ size \in Nat /\ want \in Nat
  /\ Range(allocated) \subseteq Frame
  /\ \A map \in {mappings} \cup Range(tasks) \cup Range(dropping)
                \cup Range(running) \cup Range(applying) :
       Range(map) \subseteq [page : Int, frame : Frame]
  /\ {failed} \cup Range(active_mapping) \subseteq BOOLEAN
  /\ Range(page_table) \subseteq Frame \cup {NONE}

(* Who owns frames: the kernel, the map being built, every task, and the task
   that a core is dropping. *)
FramesOf(map) == {m.frame : m \in Range(map)}
Owners == {kernel, FramesOf(mappings)}
            \cup {FramesOf(tasks[i]) : i \in DOMAIN tasks}
            \cup {FramesOf(dropping[c]) : c \in Core}

(* As long as no MemoryMap::allocate has failed, a frame has one owner: no
   frame is in two maps, twice in one, or free while a map or the kernel has
   it, and pfree is only called for a frame that is allocated, whatever exits,
   refused loads and allocations of other cores overlap. *)
Distinct(map) ==
  \A i, j \in DOMAIN map : i # j => map[i].frame # map[j].frame
Apart(map, other) == FramesOf(map) \cap FramesOf(other) = {}
Owned(map) ==
  Distinct(map) /\ FramesOf(map) \cap free = {} /\ FramesOf(map) \cap kernel = {}
OwnedOnce ==
  ~failed =>
    /\ free \cap kernel = {}
    /\ Owned(mappings)
    /\ \A i \in DOMAIN tasks :
         /\ Owned(tasks[i]) /\ Apart(tasks[i], mappings)
         /\ \A j \in DOMAIN tasks : i # j => Apart(tasks[i], tasks[j])
         /\ \A c \in Core : Apart(tasks[i], dropping[c])
    /\ \A c \in Core :
         /\ Owned(dropping[c]) /\ Apart(dropping[c], mappings)
         /\ \A d \in Core : c # d => Apart(dropping[c], dropping[d])

(* No frame is lost: a frame that is not free belongs to someone who will free
   it, or to the kernel, also when loading fails half way. *)
NoFrameLost == free \cup UNION Owners = Frame

(* Every page of a task, and of the map being loaded, begins in user space,
   however the entry lies across its pages. *)
InUserSpace ==
  \A map \in {mappings} \cup Range(tasks) \cup Range(running) :
    \A i \in DOMAIN map : map[i].page * PAGE_SIZE < USERSPACE_TOP

(* The core runs its task in the memory that was loaded for it. *)
InItsMemory(c) ==
  running[c] # <<>> /\ applying[c] = <<>> =>
    \A m \in Range(running[c]) : page_table[m.page] = m.frame

(* What the linker is trusted for, since Task::exec does not look: no page is of
   two LOAD entries, or of one and the stack. *)
PagesOf(s) == page_start(s)..(page_start(s) + pgn(s) - 1)
Loadable(s) == s.load /\ s.vadr + s.mem_size < USERSPACE_TOP
SharesNoPage(entries) ==
  \A i, j \in DOMAIN entries :
    i # j /\ Loadable(entries[i]) /\ Loadable(entries[j])
      => PagesOf(entries[i]) \cap PagesOf(entries[j]) = {}
WellLinked == \A elf \in Images : SharesNoPage(Append(elf.entries, Stack))

(* The first task that is dispatched finds its image and its stack where it was
   loaded, on every core that takes it over, until another is dispatched. *)
FirstInItsMemory == first # NONE => \A c \in Core : InItsMemory(c)

(* The user space of a task holds its "ELF Image" and its "Stack" (Memory.md,
   "User space layout"). *)
OwnSpace == \A c \in Core : InItsMemory(c)
=============================================================================

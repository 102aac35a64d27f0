# TLA+ models of the HeliumOS kernel

TLA+ modules for the parts of the kernel in which several cores share state or
a table is read by hand, TLC configurations that check them on small instances,
and TLAPS proofs that every safety property the passing runs check holds for any
number of cores and any sizes.  Paths below are relative to `kernel/src` unless
they say otherwise.

## 1. Inventory

The kernel is built in debug mode: integer overflow and `debug_assert!` panic.
A panic stops one core (`sys.rs`), with whatever locks it holds.

| Part | State | Operations | What is hard about it |
|---|---|---|---|
| Scheduler, `proc/task.rs` | `TASKS`, one lock per task, `CLOCK`, `ProcInfo` of each core | `tick`, `continue_current`, `exit_current`, `Task::new_locked` | cores tick, exit and spawn at once; guards are upgraded, downgraded and dropped half way; an index found under one guard is used under another |
| System calls, `proc/syscall.rs`, `syscall.asm`, `userspace/syscall` | the task's saved registers | entry, dispatch, result | the timer may interrupt the entry |
| LAPIC timer, `interrupts/lapic/timer.*` | the vector in service | entry, end of interrupt, reset | who sends the EOI on every way out |
| Event loop and panic, `sys.rs` | none | halt | whether an idle core is woken again |
| Task loading, `proc/task.rs`, `elf.rs` | the memory map of each task, the loading map | `Task::exec`, `MemoryMap::allocate`, drops | an image fails half way; bytes are checked, pages are mapped; frames are freed while other cores allocate |
| Address spaces, `MemoryMap::apply` | `active_mapping`, the user half of the P4 table | `apply` | one P4 table for all cores, ids that are all 0, no shootdown |
| Physical memory manager, `mem/phys.rs` | segments and bitmaps | `phys::init`, `palloc`, `pfree` | page and word boundaries |
| VCache, `mem/virt/vcache.rs` | counters, ages, the window's P1 entries, every TLB | `map`, `remap`, `unmap` | lazy reuse of slots without a shootdown |
| Kernel mapper, `mem/virt/mapper.rs` | the page tables | `vmap`, `remove_identity` | one slot for two tables of a walk; two ways to flush; new tables visible to other cores |
| Kernel heap, `mem/heap.rs`, `interrupts/exceptions/pagefault.rs` | `HEAP_HEAD`, `EXPAND_COUNT`, the mutex of the allocator | `expand` in a page fault | several cores fault at once; blocks that span pages are not touched in order |
| Ignition, `main.rs`, `proc/mod.rs`, `mem/gdt.rs`, `interrupts/mod.rs` | `IGNITION`, `LATE_IGNITION`, `PROC_TABLE`, GDT and TSS tables | `ignite`, `wait`, `wakeup`, `latewait` | order of set-up on every core, addresses kept across insertions |
| Local APIC and PIT, `proc/apic/mod.rs`, `interrupts/pic.rs` | `MAPPED`, `CALIB_LOCK`, the latch of the PIT, LINT registers | calibration, LINT set-up | one PIT for all cores, read byte by byte; counters that wrap |
| Initrd, `fs/initrd.rs`, `fs/tar.rs` | `INITRD` | the walk of the archive, look-up | sizes rounded to blocks, contents that look like headers |
| ACPI, `acpi/mod.rs`, `acpi/tables.rs`, `cfgtb.rs` | the window, `NUMCORES`, IO APIC lists | the walk of XSDT and MADT | tables that share frames or cross pages |
| Framebuffer, console, early heap, other exceptions | registers, output | fixed sequences | |

`tick`, `exit_current` and `Spawn` meet in `TASKS`.  Loading a task uses
`palloc` and `vmap`; so does a heap page fault, which can occur inside any of
them.  `vmap` uses the VCache and `palloc`.  Ignition reads the initrd and the
ACPI tables before it lets the other cores go.

## 2. Modules

| Module | Models | One step is |
|---|---|---|
| `Scheduler` | scheduler, system calls, timer, event loop | the code between two lock operations another core can observe |
| `FrameAllocator` | the promise of `palloc` and `pfree` | a call |
| `PhysMem` | `mem/phys.rs`, implements `FrameAllocator` | a call (it runs under one lock) |
| `VCache` | the VCache and the TLB entries of its window | a call (operators only; no `Next` of its own) |
| `KernelMapper` | `vmap` on top of `VCache`: the composition of the two, with the page tables | the access to one table |
| `KernelHeap` | `heap::expand`, the fault that calls it, and the accesses that cause the fault | an access, a lock operation, or the mapping of one page |
| `TaskMemory` | `Task::exec`, the ELF headers, the memory map, its `apply` and its drop | the allocation, the mapping or the release of one frame |
| `Initrd` | the archive | one header |
| `Acpi` | the ACPI tables | one table, or one entry of the MADT |
| `Ignition` | `_start` to the event loop on every core; extends `Initrd` and `Acpi` | a flag, a lock, an access to the PIT or to `PROC_TABLE` |
| `SchedulerProofs`, `IgnitionProofs`, `KernelHeapProofs`, `TaskMemoryProofs`, `PhysMemProofs` | proofs about the module of that name (section 5) | |
| `KernelMapperInvariant`, `KernelMapperTree`, `KernelMapperProofs` | proofs about `VCache` and `KernelMapper` (section 5) | |
| `MC...` | instances for TLC | |

### Scheduler

`tasks` is the list, `writer`, `upgradeable` and `readers` are its
`spin::RwLock`, `taskWriter` and `taskReaders` those of the tasks.  A guard
that is taken and dropped within one stretch of code appears as a guard
condition of the step (`CanReadTask`, `CanWriteTask`); one that is held across
steps is in the variables: the scan of `tick` holds the write guard of the
entry it looks at and of its best candidate, `exit_current` the read guard of
the entry it compares.  `upgrade` waits for `readers = {}` while the
upgradeable guard keeps other cores out.

`pc[c]` names the point a core is at.  `tick` is the path
tick, save, list, expire, scan/look, continue, resume; `Exit` is
syscall, exit, find/found, remove, syscall_return; `Spawn` is syscall, spawn,
exec, syscall_return.  With `ExecCanPanic` a core may panic in `Task::exec`, as
the first tick or as a spawn (`TickInitFails`, `SpawnPanics`); it keeps `TASKS`.

Abstractions: `CLOCK` and `since` are kept as their difference, up to
`LifeExpectancy`, the only number it is compared with.  The saved registers
are `fresh` (what the task would execute next), `stale` (the task has executed
since) or `kernel` (an address in the kernel).  Task ids are only compared, so
a new task takes any id nobody refers to; `Task` bounds the tasks alive at
once.  Output and pixels are left out; `MemoryMap::apply` takes no lock the
scheduler waits for and is in `TaskMemory`.

### PhysMem and FrameAllocator

`Boot` is `phys::init` on one of `MemoryMaps`: the free regions in reverse
order, the place of the PMM header, the bitmaps.  A bitmap is the set of its
1 bits.  The refinement maps the free pages of all segments to the `free` of
`FrameAllocator`, whose `usable` are the pages that lie in a free region from
end to end.  `map_header` moves the references to another address of the same
memory and changes nothing here.

### VCache and KernelMapper

A slot is an entry of a table of the window.  A TLB may load a translation
whenever the entry is present, so `stale` collects the cores that may hold an
old one, and `invlpg` removes the calling core; `staleTlb` is the same for the
pages that `vmap` maps.  A call of `vmap` goes down the levels with `Descend`
(allocate and link a table), `Remap` (map and clear it) and `Leaf`.  A page
table has `ENTRIES` entries; frames of the pool start with arbitrary content
(`JUNK`), and which of them `palloc` returns is left to `PhysMem`.  One thing is
assumed of it: `vcache::init` takes the tables of the window from `palloc` one at a
time and then maps the frames that follow the first (`vcache.rs:88-90`), so
`P1Frame` and `BootFrame` are the right tables only if those frames are
consecutive.  The code does not check it.  At boot `palloc` counts up within a
segment, so it is so unless a segment ends in between.

### KernelHeap

Addresses are pages.  The allocator of the heap (`linked_list_allocator`) is
external.  What the model takes from it is where it writes: under the mutex of
`LockedHeap` it takes a block from the front of a hole and writes the header of
the rest of the hole behind the block.  The last hole reaches to the end of the
heap, and `top` is the page of its header (`AllocTop`); a block that spans pages
leaves pages `inside` it that nobody has touched.  Their first access is by the
owner of the block, without the mutex (`Write`), or by the allocator when the
block has been freed and its hole is used again (`AllocHole`).  A fault is
handled by the core that caused it, with the mutex held if it is the allocator's.
Blocks reach up to `BLOCK` pages past the one they begin in; the `Vec` of the
mappings of a task is larger than a page from its 65th mapping on, and the stack
alone has 128.

### TaskMemory

A file is a sequence of program headers with a size; `verified` is FALSE when
`ElfFile::parse` refuses it or the path does not exist.  Each LOAD entry goes
through the checks of `Task::exec` in their order, with the two sums that may
overflow, and the stack is loaded last, unchecked.  The loader is one core,
because `Task::exec` runs under the write lock of `TASKS`; other cores drop
exited tasks and allocate for the kernel between any two steps.  A core that
dispatches a task applies its map one page at a time (`dispatch`, `apply`),
to the one page table all cores share.  Mapping a page for the copy
(`tmp_local_reserve`) or for the task may need a page table: when there is no
frame left the core panics.  `active_mapping` is a Boolean: the id of
every map is 0.  The bytes in the frames and the flags of the pages are left
out.

### Initrd, Acpi and Ignition

`Initrd` keeps memory as blocks of the size of a tar header; the walk reads
whatever block it lands on.  The archives are constants; `IsArchive` says what an
archiver wrote: each header followed by its content, padded to whole blocks, and
a block without the magic at the end.  `Acpi` keeps the window of virtual pages as a
function from pages to frames, and `torn` collects the tables that were read
through a page that is missing or belongs to another table.  `HANDLERS` is what
`cfgtb::init` registers before the walk: one handler, for the MADT.

In `Ignition` the primary core goes through initrd, acpi and ignite (the
shared tables in the order of `Tables`) and opens `IGNITION`; every core then
goes through wakeup, insert, gs_base, apic, the calibration, lint, instance
and quantum, and to the event loop, the primary by way of late_start and
late_ignition, the others by latewait.  The tables of `ignite` have room for
`numcores` entries, rounded up to pages (`MappedBytes`), and the APIC id is the
index: a core whose entry is not mapped faults (`RegisterFaults`), without an
IDT.  `PROC_TABLE` is a BTreeMap, whose entries lie in the order of the keys in one
leaf as long as there are at most 11 cores (`LeafAssumption`); the address of an
entry is its position.  `insert` puts the entry of a core at the one place where
it `Belongs` and moves those with larger ids, so `gs_base` of a core may come to
denote the entry of another.  The PIT has a counter of `TICKS` values, a latch and
the phase of the next read; between two latches up to `MaxGap` ticks pass.  The
local timer of the cores in `TimerWraps` may start over, from the
reset before `CALIB_LOCK` to the end of the calibration: then a subtraction
overflows, with the lock held on the early return (`pic.rs:99`), without it
after a whole delay (`apic/mod.rs:104`).

## 3. Runs

| Run | Shows |
|---|---|
| `Scheduler` | `OneOwner`, `CurrentIsRunning`, `NoLostTask`, `ListStable`, `ResumeStable`; whoever enters the kernel leaves it, unless a core has panicked in `Task::exec` (`KernelReturns`) |
| `PhysMemSafety` | `phys.rs` implements `FrameAllocator`; the header is never handed out; no page is lost but, at most, those of a full last word |
| `KernelMapperTables` | exact counters of the VCache, enough slots, private slots, no access through a stale translation, over any number of calls; the page tables say what was asked; the caller has no old translation |
| `KernelHeapSmall` | the pages that the heap grows onto have a frame when they are below `HEAP_HEAD` (`GrowthMapped`), and every allocation that grows the heap ends (`GrowthEnds`) |
| `TaskMemorySafety` | every frame has one owner until an allocation fails; none is lost; the pages of tasks are in user space; the first task that runs finds its memory in place |
| `Boot` | every path of the initrd leads to its content (`FilesFound`); the ACPI tables are read whole (`TablesRead`); `SharedBeforeUse`, `LateBarrier`, `PitInTurn`; if the cores enter the table in the order of their ids nothing moves (`InOrder`); every core reaches the event loop unless a listed panic or fault stops the boot (`Awake`) |

The other runs are disagreements between the code and a text of the
repository; each checks the one property that states the text and fails.

| Run | Text | Code |
|---|---|---|
| `SchedulerRollback` | `proc/task.rs:98` | a missed tick resumes the task from an older state |
| `SchedulerIdle` | `sys.rs:27-28` | an idle core has no EOI and is not ticked again |
| `PhysMemLastWord` | `docs/Memory.md:79` | a last word that pages fill is marked used, though it has no leftover page |
| `KernelHeapInside` | `mem/heap.rs:47-48` | a page inside a block comes below `HEAP_HEAD` without a frame, and nobody maps it any more |
| `TaskMemoryOwnSpace` | `docs/Memory.md:151-153` | a core that has applied one map applies no other |
| `IgnitionStacks` | `sys.rs:26`, `proc/mod.rs:57` | a later insertion into `PROC_TABLE` gives a core the stack of another |

### Bounds

* Scheduler: two cores and two tasks give every pairwise race on the list and on a
  task, with a spawn or an exit of the other.  `MAX_TICK_MISS` 0 reaches both the
  giving up of a tick and the waiting.  A task starts with an age of 1, as
  `CLOCK` is read before its increment, so with `LifeExpectancy` 3 the first tick of a
  task keeps it and the second releases it.  `Scheduler` has the panics of `Task::exec`, the runs that fail do
  not need them.  The proofs remove these bounds.
* PhysMem: a page is 16 bytes and a control word 3 bits, so that a segment has
  several words; the maps put the header in the first or in a later segment,
  have regions below a page, regions with a rest, and a segment whose pages
  fill its last word.  All regions start at a page boundary and none is filled
  by the header; section 4 says what happens otherwise.  The proofs are about
  every map of the kind of section 5.
* KernelMapper: a window of two tables of five entries, of which three are
  permanent, fills up after a few calls, so lazy reclaiming happens over and
  over; `RLCR3_THRESHOLD` 2 and requests of one or two pages take both ways of
  flushing.  A page table has two entries.  The pages 1, 2 and 9 are two user pages
  across two P1 tables and a kernel page under another P4 entry; `PoolSize` 7 is enough for all tables.  The
  proofs remove these bounds.
* KernelHeap: 12 pages with fragments of 2 allow three expansions, the last of
  which meets the end; blocks reach up to 3 pages further, more than the first
  expansion.  `palloc` may fail at any time, as the rest of the kernel takes frames
  too.  The proofs remove these bounds.
* TaskMemory: 4 frames against images of one to three pages and a stack of one
  make allocations fail at every point.  There is a file for each error and each
  panic of the loader.  `MaxTasks` 2 and `MaxKernel` 1 bound the tasks and the
  frames the kernel keeps.  User space has 24 bytes, a page 2, a region of a core 4;
  `U64_MAX` 63 is far enough above for the two limits not to meet.  The proofs
  remove these bounds.
* Boot: cores 0, 2 and 3, so that ids and positions differ; the PIT has 4 ticks, a
  low byte of 2 values, a delay of 2 ticks and gaps of up to 2 (`MaxGap`), so
  that both a delay that ends and one that wraps occur.  That is the longest gap
  that cannot step over the time in which the delay is seen to be over; with 3 a
  core may go on waiting, and `Awake` fails.  In the PIT it is 45 ms between
  two turns of a short loop with interrupts off.  Blocks are 2 bytes,
  stacks 4 units in an address space of 64.  Eight machines pair four archives
  (whole, truncated, a size and a path that cannot be decoded) with six sets
  of ACPI tables (shared frames, a bad checksum, tables across pages, IO APIC
  registers that are not at a frame, no or too few counted cores), each as a
  virtual machine and not.  The local timer of core 2 may start over.  The
  proofs remove these bounds but for `Awake`, and for the 11 cores of a leaf.

### Deadlock

Deadlock is checked for `KernelMapperTables`.  It is not for the scheduler,
whose cores really may all stop (an idle core is not ticked again, a panicked
one halts), for `PhysMem`, where a boot may end in a panic, for `KernelHeap`,
where no page may be left to fault on, for `TaskMemory`, where a load may panic
with `TASKS` locked, and for `Boot`, which ends.

### Fairness

`Scheduler` assumes strong fairness of each core's kernel steps.  A core
in the kernel runs with interrupts off, so it is not preempted.  The spin
locks are not queued; a spinning core may lose a race, but each holder gives
the lock back after finitely many steps of its own and comes back only with
its next tick or system call, a long time later, so a lock that becomes free
again and again is eventually obtained.  `KernelHeapSmall` needs weak fairness
of an access and its fault handler only, and `Boot` of each core: interrupts are off, and
each flag and lock is waited for once and stays open, or is passed on by a
core that does not come back for it.  User code and the timer have no
fairness: a task may run for ever, and a tick may never come.

## 4. Cases the checked properties leave out

The models contain these cases unless they say otherwise; the passing runs use
inputs without them, or no property of a passing run speaks of them.

* System call entry: `syscall::enable` does not set SFMASK, so the timer may
  interrupt `syscall_handle_1` before its `cli`.  The state that is saved then
  has a kernel address, and its load ends in a page fault in user mode
  (`panic_fault` of `Scheduler`).
* A panic in `Task::exec`, or of a `/bin/init` that cannot be loaded, leaves `TASKS`
  held for writing: every other core waits for it for ever once it stops missing
  ticks (`panic_exec` of `Scheduler`).  It is the exception in `KernelReturns`.
* `phys::init` rounds the start and the size of a region to pages separately:
  a region that starts inside a page yields a last frame that reaches past it.
  If the header fills the segment it is put in, `unreachable!()` is reached
  (`panic_unreachable` of `PhysMem`).  `PagesAccounted` says nothing of a full
  last word, which the code loses (`PhysMemLastWord`).
* `ensure_allocated` links a new table before it clears it: in between, an
  access of another core to an unmapped page below it does not fault but uses
  what the frame held (between `Descend` and `Remap` of `KernelMapper`).
* `heap::expand` maps from the faulting page, but advances `HEAP_HEAD` from
  where it was.  So a page inside a block may come below the head without a
  frame (`KernelHeapInside`); the access to it faults for ever, and if it is the
  allocator's every other core waits for the mutex.  `GrowthMapped` and
  `GrowthEnds` are about the pages from the last header on.  `HEAP_HEAD`
  starts at the first page of the heap, below the pages that `heap::init` maps, and
  an expansion may map pages again that have a frame: the core that faults second
  on a page that is mapped by then gives it a new frame, without what the first has written (`valloc` of `KernelHeap`; the
  content of pages is not in the model).  Near the end of the heap an expansion
  maps pages past it, because it is limited by the size of the whole heap.
* `MemoryMap::allocate` that fails frees the frames of the call, and the map that
  recorded them frees them again when it is dropped (`docs/Memory.md:45`); so
  `OwnedOnce` speaks of the time before a failure.  `NoFrameLost` has no such
  limit.
* `Task::exec` compares the size of an entry with the region of the core
  without the offset of the entry in its first page: a full-size entry that is
  not aligned uses one page of the next region.  Two LOAD entries that share a
  page get a frame each, and the later one is mapped.  An entry with more bytes
  in the file than in memory, or whose end overflows, panics with `TASKS` locked
  (`panic` of `TaskMemory`).
* The initrd walk ends at the first block without the magic it expects: a
  truncated archive loses its last files, and an archive with the POSIX magic
  (`ustar`, NUL) is empty.  An `initrd_ptr` that is not at a page panics (not
  in the model).
* `map_table` counts pages from the length of a table: one that crosses a page
  because of where it begins is read through a page that is missing or belongs
  to another table (`Crossing`).  A header is taken to lie in one page, and the
  XSDT not to list itself.  A MADT entry of length 0 would be read for ever (not
  in the model).
* The struct of the local APIC NMI entry lacks the entry header, so the number
  of the LINT is read from the flags; for flags other than 0 and 1 `lint_setup`
  panics (`panic_lint`).  A PIT counter that wraps during the delay makes the
  subtraction overflow: a panic with `CALIB_LOCK` held (`panic_pit`).  A local
  timer that starts over does the same to the subtraction of its values
  (`panic_pit` on the early return, `panic_timer` without the lock).
* The tables of `ignite` are allocated for `numcores` cores and indexed by the APIC
  id: ids with gaps may lie past what is mapped, and a XSDT or MADT with an
  invalid checksum leaves `numcores` at 0 and nothing mapped (`fault_table`).  The
  double fault and NMI stacks have the same index, but no core uses them during
  the boot.  `mem/gdt.rs:18` puts the TSS table 7T into the kernel space, where
  `proc/mod.rs:16` puts the NMI stacks; `docs/Memory.md:136` gives it the place
  below, so the NMI stacks are mapped over it; the model has this only for which
  entries are mapped.  The heap is used before `interrupts::load` has installed a
  page fault handler, as a FIXME in `heap.rs` says (not in the model).

## 5. Proofs

All theorems are for any set of cores (in `Ignition` of at most 11); the constants
are bound only by the named assumptions of the modules, which TLC evaluates in
the runs.  `LeafAssumption` (at most 11 cores, so that `PROC_TABLE` is the one leaf
that the model has) and `TableAssumption` (entries are not empty) limit what
`Ignition` is a model of; no proof uses them.

| Module | Theorem | Statement | Assumptions |
|---|---|---|---|
| `SchedulerProofs` | `Invariance` | `Spec => []IInv` | `CoreAssumption`, `TaskAssumption`, `BoundAssumption`: `NONE` is neither a core nor a task, the bounds are numbers |
| | `TypeCorrect` | `Spec => []TypeOK` | |
| | `SingleOwner` | `Spec => []OneOwner` | |
| | `CurrentRunning` | `Spec => []CurrentIsRunning` | |
| | `NoTaskLost` | `Spec => []NoLostTask` | |
| | `ListDoesNotMove` | `Spec => ListStable` | |
| | `SavedStateKept` | `Spec => ResumeStable` | |
| `PhysMemProofs` | `Invariance` | `Spec => []IInv` | `SizeAssumption`: sizes are positive; `MapsAssumption`: the free regions lie apart, and the pages that rounding makes of them are usable (`SoundMap`) |
| | `TypeCorrect` | `Spec => []TypeOK` | |
| | `HeaderIsKept` | `Spec => []HeaderKept` | |
| | `PagesAreAccounted` | `Spec => []PagesAccounted` | |
| | `Refinement` | `Spec => Implements` | |
| `KernelMapperProofs` | `Invariance` | `Spec => []IInv` | `WindowAssumption`: a table of the window has an entry for each table, the P4 table and two walks; `MapperAssumption`: addresses are canonical, user space is the lower half of the P4 table and not next to kernel space, what callers map is no page table of the mapper |
| | `TypeCorrect` | `Spec => []TypeOK` | |
| | `CountsAreRight` | `Spec => []CountsMatch` | |
| | `SlotsSuffice` | `Spec => []MapperHasSlots` | |
| | `TmpIsPrivate` | `Spec => []TmpPrivate` | |
| | `AccessIsFresh` | `Spec => []NoStaleAccess` | |
| | `PagesAreMapped` | `Spec => []MappedIsMapped` | |
| | `CallersAreFlushed` | `Spec => []CallerFlushed` | |
| `KernelHeapProofs` | `TypeCorrect` | `Spec => []TypeOK` | `HeapAssumption` on the sizes |
| | `HeadBehindPages` | `Spec => []GrowthMapped` | |
| `TaskMemoryProofs` | `Invariance` | `Spec => []IInv` | `TaskAssumption`: frames are numbers, a page is not empty, the stack lies in user space |
| | `TypeCorrect` | `Spec => []TypeOK` | |
| | `SingleOwner` | `Spec => []OwnedOnce` | |
| | `FramesKept` | `Spec => []NoFrameLost` | |
| | `PagesInUserSpace` | `Spec => []InUserSpace` | |
| | `FirstTaskInItsMemory` | `Spec => []FirstInItsMemory` | the same, and `WellLinked`: no two entries of an image that are loaded share a page |
| `IgnitionProofs` | `Invariance` | `Spec => []IInv` | `CoreAssumption`: ids are numbers, `Bspid` is one, the PIT has a value |
| | `SharedReady` | `Spec => []SharedBeforeUse` | |
| | `LateStartFirst` | `Spec => []LateBarrier` | |
| | `PitTurns` | `Spec => []PitInTurn` | |
| | `WalksInvariant` | `Spec => []BootInv` | also `ArchiveAssumption`: the archives are what an archiver writes; `AcpiAssumption`: the tables of the firmware lie apart |
| | `FilesAreFound` | `Spec => []FilesFound` | |
| | `TablesAreRead` | `Spec => []TablesRead` | |
| | `OrderInvariant` | `Spec => [](TableInv /\ OrderInv)` | `CoreAssumption`, `StackAssumption`: the stacks fit below the top of memory, a multiple of their size |
| | `EntriesStay` | `Spec => []InOrder` | the same |
| | `TypeCorrect` | `Spec => []TypeOK` | all of them |

None of the properties is inductive as it stands.

**Scheduler.**  `IInv` adds what the code relies on without saying it:

* `ListLock`: where a core is determines which guard of `TASKS` it holds, and
  a writer excludes everybody, an upgradeable guard every other non-reader;
* `ListDistinct`: no task is twice in the list, because a new one takes an id
  that nobody refers to;
* `ScanInv`: during a scan the index is within the list, the entry that is
  looked at and the best candidate are locked by the scanning core, and the
  candidate is still Pending;
* `ExitInv`: during an exit the index is within the list, and at the removal
  it is that of the exiting task;
* `OwnInv`: a task that a core runs or exits is Running and listed;
* `OwnerInv`: two cores own different tasks;
* `LostInv`: a listed Running task is owned.

The argument for `OneOwner` is that a core obtains a task only at the end of
its scan, that it has held the write guard of the candidate since it saw it
Pending, and that an owned task is Running.  `ListStable` follows from
`ListLock`, `ResumeStable` from `OneOwner`: only the owner writes the saved
state of a Running task, so the FIXME in `continue_current` describes a write
that does not happen.  All tasks have priority 0; with different priorities
the index kept in `best_task` would no longer be that of the guard, and
`ScanInv` would fail (the mutant `NewestPriority` shows it).

**Physical memory.**  `Placed`: the segments lie apart from each other and from the
PMM header, and their pages are usable.  `Bitmaps`: a bitmap leaves free only
pages of its segment that `phys::init` did not withhold.  `Holders` and
`NoneLost`: the pages that are marked are those somebody holds, and a frame has
one holder.  The work is in `BootInv`: carving the header out of the first
segment that fits leaves what `Placed` says, with the arithmetic of rounding and
of the last word of a bitmap in lemmas of their own.  `Frame` is one to one over
the segments because they lie apart, so that a step on one bit is a step of
`FrameAllocator` on one frame.  `palloc` returns `None` only when no bit is 0,
which is when the abstract `free` is empty.

**Kernel mapper.**  The proof is in three modules.  `KernelMapperInvariant` states
the invariant, and what `VCache` promises: `map` takes a slot that is not in use
and disturbs no other, `unmap_many` makes its slots lazy, and both keep the
counters exact.  `SlotsInv`: a slot that is present is permanent, lazy or
held by the walk, and only one of the three, so a walk always finds its two.
`StaleInv`: the walking core has flushed the slots it holds, although
reclaiming a slot does not.  `FlushInv`: an old translation that the author of a
page may hold is one that the pending reload of CR3 drops.
`KernelMapperTree` shows `PathInv`: the page tables are a tree, so writing an
entry changes the walks through that entry and no others; the mapper is at the
table that the processor's walk meets; and a walk reads what was asked for
except below a table that is linked and not yet cleared.  Being a tree is what
makes `MappedIsMapped` inductive: a frame of the pool is on no walk, and the one
that is linked is new on all of them.  `KernelMapperProofs` shows that `VCache`
keeps its promises for any window, and puts the parts together.

**Ignition.**  The flags say nothing about the initrd, the tables or the PIT;
`IInv` ties them together.  `PcInv`: only the primary is at the places where it
works alone.  `FlagInv`: a core past `wait` has seen `IGNITION`, which is
opened when the primary has left `ignite`, after everything before it is done.
`LateInv`: the same for `LATE_IGNITION` and `late_start`.  `PitInv`: the core
at a place of `pit_calib_sleep` is the one that holds `CALIB_LOCK`; its place
determines the latch and the phase of the PIT, and whoever gives the lock up
leaves the PIT ready for a command, on the early return in a virtual machine
too.

The walk of the initrd (`WalkInv`) is always at the header of an entry or behind
the last one, and the map leads each path of the entries before to the last of
them.  It needs no induction over the archive: `ArchiveAssumption` says where
each entry begins, and one step goes from there to where the next begins, since
`align_up` of the size is the number of blocks the content was padded to.  For
the ACPI tables (`WindowInv`) the pages in use are below `pgindex`, and what
`vmemmap` remembers of a frame shows the whole of a table that begins in it, so a table
that does not cross a page because of where it begins is read from its own frames
although others were mapped before it.  `OrderInv`: while the cores come in the order
of their ids the table is sorted, each insertion is at its end, and the
references that a core has taken are to its own entry; `OwnBase` is the
arithmetic of `stack()`, which finds the base of the stack from any local variable
on it.

**Kernel heap.**  `LockInv` relates what `valloc` has still to do to the page
of the core that holds `HEAP_HEAD`, which bounds the pages it reaches.
`BelowTop`: nobody accesses a page above that of the last header.  `HeadInv`:
there is a mapped page at or above every page below `HEAP_HEAD`, and the mapped
pages from that of the last header on have no hole.  So if the page of the
header is below `HEAP_HEAD` it lies under a mapped page, and is mapped itself.
An expansion for the header starts at its page, and one for a page inside a
block at a lower one, so neither leaves a hole above the header.  Below the header there may
be holes, as section 4 says.

**Task memory.**  `Kept` is `NoFrameLost` without the set of owners: every
frame is free, of the kernel, in the map being loaded, in a map of the list, or
in a map being dropped.  It needs no condition on failures, because the two
releases of a failed allocation only add to `free`.  `OwnedOnce` is inductive
together with `FailedInv`: `pfree_all` runs only after a failure.  The removal
of a task from the list uses the lemma `RemoveTask`: what `Vec::remove` leaves
are the other entries, each once.  For `InUserSpace`, `LoadInv` carries that
the entry being allocated passed the check of its end (or is the stack), and
that the pages it has and wants are those of `pgn`; `PageBound` is the
arithmetic: the k-th page of an entry begins before its last byte, wherever in
its page the entry begins.  For `FirstInItsMemory`, `LoadPages` says that the pages
of the map being built are each there once and apart from those of the entries
to come, which `WellLinked` gives at the start of a load; so a map gives a page
one frame.  `FirstInv` then says, for each core that uses the first task,
that what is not in the page table is still to be applied, whichever core
applied the rest.

Many leaves name the backend Zenon: it proves most of the propositional and
first-order ones at once, and the SMT solver is kept for arithmetic and sequences.

Left to TLC: liveness (`KernelReturns`, `GrowthEnds`, `Awake`), which this
prover does not do.  The properties of the runs that fail are not theorems.

## 6. Plan

Done: the modules above, composed as `KernelMapper` over `VCache`, `PhysMem`
under `FrameAllocator`, and `Ignition` over `Initrd` and `Acpi`.  To come, in
this order:

1. The TLBs of the cores in `TaskMemory`, once `apply` changes the mapping of a
   page that another core uses.
2. The assumptions that one module makes and another proves, stated once: the
   frames of `TaskMemory`, `KernelHeap` and `KernelMapper` are those of
   `FrameAllocator`.

## 7. Not modelled

* Framebuffer and console: pure output; no other code reads what they write.
* The early heap: a static pool of `linked_list_allocator`, which is external,
  like the allocator of the kernel heap.  A failing allocator is outside the
  models.
* Exception handlers other than the page fault: they print and panic.
* Disabling the PIC, and the registers of the local and IO APIC beyond the
  calibration and the LINTs: written once in a fixed order and never read.
* The layout of GDT, TSS and IDT descriptors, the bytes of ELF and tar headers,
  page flags, and the contents of frames other than page tables: data that no
  step depends on once the fields of the models are read.
* User programs beyond the arbitrary steps `UserRun` and `UserSyscall`.  The
  length of a quantum is not modelled: a timer interrupt may come at any time.

------------------------------ MODULE PhysMem ------------------------------
(***************************************************************************)
(* The physical memory manager (mem/phys.rs, palloc and pfree of           *)
(* mem/mod.rs) on the memory map of the boot loader (MMapEnt, bootboot.rs).*)
(*                                                                         *)
(* palloc and pfree run from end to end under PHYS_FRAME_ALLOCATOR.write(),*)
(* so each is one step.  Their callers are the cores: a core frees frames  *)
(* that it holds.  An address is a number of bytes, a frame is its start   *)
(* address, and a bitmap is the set of the page indexes whose bit is 1.    *)
(***************************************************************************)
EXTENDS Functions, FiniteSetsExt, Sequences, Integers

CONSTANTS
  Core,          \* the callers of palloc and pfree
  MemoryMaps,    \* the memory maps the loader may pass: sequences of entries
  PAGE_SIZE,     \* 4096 in the code
  WORD_BITS,     \* the bits of a control word: 64
  WORD_SIZE,     \* its bytes: 8
  HEADER_SIZE    \* size_of::<SegmentHeader>(): 24

ASSUME SizeAssumption ==
  /\ PAGE_SIZE \in Nat \ {0} /\ WORD_BITS \in Nat \ {0}
  /\ WORD_SIZE \in Nat \ {0} /\ HEADER_SIZE \in Nat \ {0}

VARIABLES
  phase,         \* "boot", "ready", or the panic that stopped phys::init
  mmap,          \* the memory map of this boot
  segments,      \* PhysicalFrameAllocator.segments: addresses and sizes
  bitmap,        \* the bitmap of each segment
  header,        \* where the PMM header is: PhysicalFrameAllocator.phyframe
  held,          \* the frames that each core holds
  none           \* the cores whose last palloc returned None

vars == <<phase, mmap, segments, bitmap, header, held, none>>

----------------------------------------------------------------------------
align_up(n, a) == ((n + a - 1) \div a) * a
align_down(n, a) == (n \div a) * a

(* MMapEnt::phyadr, MMapEnt::size: both ends go to a page boundary, each on
   its own. *)
phyadr(m) == align_up(m.ptr, PAGE_SIZE)
size(m) == align_down(m.size, PAGE_SIZE)

Pages(segment) == segment.size \div PAGE_SIZE
bitmap_u64len(segment) == align_up(Pages(segment), WORD_BITS) \div WORD_BITS
bitmap_size(segment) == bitmap_u64len(segment) * WORD_SIZE
Bits(segment) == 0..(bitmap_u64len(segment) * WORD_BITS - 1)

(* phys::init: the free regions of the map, last one first. *)
mmap_usable(map) ==
  LET reversed == [i \in DOMAIN map |-> map[Len(map) + 1 - i]]
      regions == SelectSeq(reversed, LAMBDA m : /\ m.type = "Free"
                                                /\ m.size >= PAGE_SIZE)
  IN [i \in DOMAIN regions |->
        [address |-> phyadr(regions[i]), size |-> size(regions[i])]]

header_total_size(usable) ==
  FoldFunction(+, 0, [i \in DOMAIN usable |->
                        bitmap_size(usable[i]) + HEADER_SIZE])

(* Mutant of Fits: the first segment is taken whatever its size. *)
AnyFits(usable, n) == DOMAIN usable

(* phys::init: the segments that have place for a PMM header of n bytes. *)
Fits(usable, n) == {i \in DOMAIN usable : usable[i].size >= n}

(* Mutant of Carve: the segment keeps the pages of the header. *)
CarveNothing(usable, i, n) == usable

(* phys::init: the first n bytes of segment i are for the PMM header. *)
Carve(usable, i, n) ==
  [usable EXCEPT ![i] = [address |-> @.address + n, size |-> @.size - n]]

(* Mutant of InitialBitmap: one bit too many. *)
LeftoverAndOne(segment) ==
  {b \in Bits(segment) : b >= Pages(segment) - 1}

(* phys::init: zeros, and in the last word u64::MAX << (pages % 64). *)
InitialBitmap(segment) ==
  {b \in Bits(segment) :
     /\ b >= (bitmap_u64len(segment) - 1) * WORD_BITS
     /\ b % WORD_BITS >= Pages(segment) % WORD_BITS}

Init ==
  /\ phase = "boot"
  /\ mmap \in MemoryMaps
  /\ segments = << >>
  /\ bitmap = << >>
  /\ header = 0
  /\ held = [c \in Core |-> {}]
  /\ none = {}

(* phys::init: no place for the PMM header is a panic; so is a segment that
   the header has left without a page. *)
Boot ==
  LET usable == mmap_usable(mmap)
      total == align_up(header_total_size(usable), PAGE_SIZE)
      fits == Fits(usable, total)
      carved == Carve(usable, Min(fits), total)
  IN /\ phase = "boot"
     /\ IF fits = {}
        THEN /\ phase' = "panic_no_place"
             /\ UNCHANGED <<segments, bitmap, header>>
        ELSE IF \E i \in DOMAIN carved : bitmap_u64len(carved[i]) = 0
        THEN /\ phase' = "panic_unreachable"
             /\ UNCHANGED <<segments, bitmap, header>>
        ELSE /\ phase' = "ready"
             /\ segments' = carved
             /\ bitmap' = [i \in DOMAIN carved |-> InitialBitmap(carved[i])]
             /\ header' = usable[Min(fits)].address
     /\ UNCHANGED <<mmap, held, none>>

----------------------------------------------------------------------------
Frame(i, page) == segments[i].address + page * PAGE_SIZE
FreePages(i) == Bits(segments[i]) \ bitmap[i]

(* allocate_frame: the first word that is not u64::MAX, its trailing ones. *)
NextPage(i) == Min(FreePages(i))

(* palloc: the first segment with a free page. *)
palloc(c) ==
  /\ phase = "ready"
  /\ LET candidates == {i \in DOMAIN segments : FreePages(i) # {}}
         i == Min(candidates)
     IN IF candidates = {}
        THEN none' = none \cup {c} /\ UNCHANGED <<bitmap, held>>
        ELSE /\ bitmap' = [bitmap EXCEPT ![i] = @ \cup {NextPage(i)}]
             /\ held' = [held EXCEPT ![c] = @ \cup {Frame(i, NextPage(i))}]
             /\ none' = none \ {c}
  /\ UNCHANGED <<phase, mmap, segments, header>>

(* SegmentHeader::in_range. *)
in_range(segment, adr) ==
  segment.address <= adr /\ adr < segment.address + segment.size

(* Mutant of ClearedBits: the whole control word is cleared. *)
ClearedWord(i, frame) ==
  LET page == (frame - segments[i].address) \div PAGE_SIZE
  IN {b \in Bits(segments[i]) : b \div WORD_BITS = page \div WORD_BITS}

(* deallocate_frame: the bit that frame has in segment i. *)
ClearedBits(i, frame) == {(frame - segments[i].address) \div PAGE_SIZE}

(* pfree: the bit of the frame in the first segment that has it in range. *)
pfree(c) ==
  /\ \E frame \in held[c] :
       LET owners == {i \in DOMAIN segments : in_range(segments[i], frame)}
           i == Min(owners)
       IN /\ IF owners = {}
             THEN UNCHANGED bitmap
             ELSE bitmap' = [bitmap EXCEPT ![i] = @ \ ClearedBits(i, frame)]
          /\ held' = [held EXCEPT ![c] = @ \ {frame}]
  /\ UNCHANGED <<phase, mmap, segments, header, none>>

Next == Boot \/ \E c \in Core : palloc(c) \/ pfree(c)

Spec == Init /\ [][Next]_vars

----------------------------------------------------------------------------
Held == UNION {held[c] : c \in Core}

(* The type invariant; the bits of a bitmap stay within its words. *)
TypeOK ==
  /\ phase \in {"boot", "ready", "panic_no_place", "panic_unreachable"}
  /\ mmap \in MemoryMaps
  /\ segments \in Seq([address : Nat, size : Nat])
  /\ DOMAIN bitmap = DOMAIN segments
  /\ \A i \in DOMAIN bitmap : bitmap[i] \subseteq Bits(segments[i])
  /\ header \in Nat
  /\ held \in [Core -> SUBSET Nat]
  /\ none \subseteq Core

(* The pages of a memory map that lie in a Free region from end to end. *)
UsableOf(map) ==
  UNION {{f \in {p * PAGE_SIZE : p \in 0..((m.ptr + m.size) \div PAGE_SIZE)} :
             m.ptr <= f /\ f + PAGE_SIZE <= m.ptr + m.size} :
           m \in {map[i] : i \in {j \in DOMAIN map : map[j].type = "Free"}}}
Usable == UsableOf(mmap)

(* What the loader is trusted for: the free regions do not overlap, and what
   rounding makes of one are usable pages, as when it starts at a page. *)
Apart(s, t) == s.address + s.size <= t.address \/ t.address + t.size <= s.address
SoundMap(map) ==
  LET usable == mmap_usable(map)
  IN /\ usable \in Seq([address : Nat, size : Nat])
     /\ header_total_size(usable) \in Nat
     /\ \A i \in DOMAIN usable : \A p \in 0..(Pages(usable[i]) - 1) :
          usable[i].address + p * PAGE_SIZE \in UsableOf(map)
     /\ \A i, j \in DOMAIN usable : i # j => Apart(usable[i], usable[j])

ASSUME MapsAssumption == \A map \in MemoryMaps : SoundMap(map)

FreeFrames == UNION {{Frame(i, p) : p \in FreePages(i)} : i \in DOMAIN segments}

(* phys.rs implements what palloc and pfree promise. *)
Abstract == INSTANCE FrameAllocator WITH
  usable <- Usable,
  ready <- phase = "ready",
  free <- FreeFrames

Implements == Abstract!Spec

(* No frame is handed out that holds the PMM header: the bitmaps and the
   segment headers are never a caller's memory. *)
HeaderKept ==
  phase = "ready" =>
    \A f \in Held :
      \/ f + PAGE_SIZE <= header
      \/ header + header_total_size(mmap_usable(mmap)) <= f

(* The pages of a segment that never become free: when its pages fill the words
   of the bitmap, u64::MAX << 0 marks all of the last word. *)
NeverFree(segment) ==
  {p \in 0..(Pages(segment) - 1) : /\ Pages(segment) % WORD_BITS = 0
                                   /\ p >= Pages(segment) - WORD_BITS}

(* No other page is lost: whatever the cores allocate and free, a page of a
   segment that is not in that last word is free or has a holder. *)
PagesAccounted ==
  \A i \in DOMAIN segments : \A p \in 0..(Pages(segments[i]) - 1) :
    p \notin NeverFree(segments[i]) => p \in FreePages(i) \/ Frame(i, p) \in Held

(* "Initialize the bitmaps to 0s, and leftover pages to 1s" (Memory.md): only
   bits beyond the pages of a segment are set at the start, so every page of a
   segment is free or has a holder. *)
OnlyLeftoversSet ==
  \A i \in DOMAIN segments : \A p \in 0..(Pages(segments[i]) - 1) :
    p \in FreePages(i) \/ Frame(i, p) \in Held
============================================================================

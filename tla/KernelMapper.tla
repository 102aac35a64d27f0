---------------------------- MODULE KernelMapper ----------------------------
(***************************************************************************)
(* vmap: KernelMapper::map (mem/virt/mapper.rs) on top of the VCache, with *)
(* the page tables it builds in physical memory.                           *)
(*                                                                         *)
(* A call holds MAPPER, VCACHE and P4TABLE for writing from its first step *)
(* to its last, so one core at a time is in it; the locals of the call are *)
(* single variables.  What other cores can see meanwhile are the page      *)
(* tables, which their page walks read, and the TLB effects.  palloc is    *)
(* the allocator of PhysMem: a frame that nobody holds, with arbitrary     *)
(* content.                                                                *)
(***************************************************************************)
EXTENDS VCache, Sequences

CONSTANTS
  ENTRIES,           \* the entries of a page table that is mapped: 512
  Page,              \* the pages that callers map
  KVMSPACE,          \* the first page of kernel space
  RLCR3_THRESHOLD,   \* from this many pages on, CR3 is reloaded: 32
  MaxPages,          \* the pages of a request
  PoolSize,          \* the frames palloc has
  DataFrames,        \* first frames of the requests
  NONE,              \* an unused entry, a free lock
  JUNK               \* what an entry of an uncleared frame may hold, and what
                     \* the bootloader's identity mapping has

VARIABLES
  booted,      \* the steps of virt::init that are done
  holder,      \* the core in KernelMapper::map
  at,          \* where it is
  level,       \* the level of the table it reads: 4, 3, 2
  created,     \* ensure_allocated: the table is new
  tmp,         \* tmp_pages, two slots
  req,         \* what is left of the request: page, frame, pages, detail_flush
  pool,        \* the frames palloc can return
  memory,      \* the content of the page tables
  staleTlb,    \* the cores that may hold an old translation of a page
  mapped,      \* the frame each page was last asked to have
  author       \* and the core that asked

mapperVars == <<booted, holder, at, level, created, tmp, req, pool, memory,
                staleTlb, mapped, author>>
vars == <<vcacheVars, mapperVars>>

ROOT == 1
UserPages == {p \in Page : p < KVMSPACE}
TableFrames == 1..(PoolSize + 1)
Indices == 0..(ENTRIES - 1)

(* vcache::init: the frame of table t of the window.  The tables are taken from
   palloc one at a time.  An assumption: nothing is allocated before them that
   would keep palloc from returning frames that follow each other, as the code
   counts on below and does not check. *)
P1Frame(t) == PoolSize + 2 + t

(* The number of a page without the indices of the levels below lv, and its index
   in its table of level lv. *)
Above(page, lv) ==
  CASE lv = 1 -> page
    [] lv = 2 -> page \div ENTRIES
    [] lv = 3 -> (page \div ENTRIES) \div ENTRIES
    [] lv = 4 -> ((page \div ENTRIES) \div ENTRIES) \div ENTRIES
Index(page, lv) == Above(page, lv) % ENTRIES

(* Addresses are canonical: the index in the P4 table says what is above it, its
   lower half is user space, and no page of user space is next to kernel space.
   What callers map are not page tables of the mapper. *)
ASSUME MapperAssumption ==
  /\ NONE \notin Core
  /\ ENTRIES \in Nat \ {0} /\ KVMSPACE \in Nat /\ PoolSize \in Nat /\ MaxPages \in Nat
  /\ Page \subseteq Nat /\ DataFrames \subseteq Nat
  /\ \A p, q \in Page : Index(p, 4) = Index(q, 4) => Above(p, 4) = Above(q, 4)
  /\ \A p \in Page : p \in UserPages <=> Index(p, 4) < ENTRIES \div 2
  /\ \A p \in UserPages : p + 1 \in Page => p + 1 \in UserPages
  /\ NONE \notin TableFrames /\ JUNK \notin TableFrames
  /\ \A f \in DataFrames, i \in 0..(MaxPages - 1) : f + i \notin TableFrames

(* virt::init: the slots that the tables of the window and the P4 table get
   for ever. *)
Permanent == {0} \X (0..P2PAGE_COUNT)
P4Slot == <<0, P2PAGE_COUNT>>

(* The slot through which the table of a level is accessed. *)
SlotOf(lv) ==
  CASE lv = 4 -> P4Slot [] lv \in {1, 3} -> tmp[1] [] lv = 2 -> tmp[2]

(* Mutant of CurrentIndex: the P1 table is indexed like the P2 table. *)
IndexOfParent == Index(req.page, IF level = 1 THEN 2 ELSE level)

(* The table of the current level and the index of the current page in it. *)
CurrentTable == entry[SlotOf(level)]
CurrentIndex == Index(req.page, level)

NoRequest == [page |-> 0, frame |-> 0, pages |-> 0, detail |-> FALSE]

Init ==
  /\ VCacheInit
  /\ booted = 0
  /\ holder = NONE /\ at = "idle" /\ level = 4 /\ created = FALSE
  /\ tmp = <<P4Slot, P4Slot>>
  /\ req = NoRequest
  /\ pool = TableFrames \ {ROOT}
  /\ memory = [f \in TableFrames |->
                 [i \in Indices |-> IF f = ROOT /\ i >= ENTRIES \div 2 THEN NONE
                                    ELSE JUNK]]
  /\ staleTlb = {}
  /\ mapped = [p \in Page |-> IF p \in UserPages THEN JUNK ELSE NONE]
  /\ author = [p \in Page |-> NONE]

(* virt::init: what the next slot is for.  The tables of the window are counted
   from the first of them; that this is table booted is the assumption of
   P1Frame. *)
BootFrame == IF booted < P2PAGE_COUNT THEN P1Frame(0) + booted ELSE ROOT

(* vcache::init maps the tables of the window, mapper::init the P4 table, and
   the slots must be the ones the code counts on. *)
Boot(c) ==
  /\ booted <= P2PAGE_COUNT
  /\ at = "idle"
  /\ IF MapPanics
     THEN at' = "panic_vcache" /\ UNCHANGED <<vcacheVars, booted>>
     ELSE \E s \in {MapSlot} :
            /\ map(c, BootFrame, s)
            /\ booted' = booted + 1
            /\ at' = IF s = <<0, booted>> THEN "idle" ELSE "panic_vcache"
  /\ UNCHANGED <<holder, level, created, tmp, req, pool, memory, staleTlb,
                 mapped, author>>

(* remove_identity: the lower half of the P4 table is cleared. *)
remove_identity(c) ==
  /\ booted = P2PAGE_COUNT + 1
  /\ holder = NONE /\ at = "idle"
  /\ memory' = [memory EXCEPT ![entry[P4Slot]] =
                  [i \in Indices |-> IF i < ENTRIES \div 2 THEN NONE ELSE @[i]]]
  /\ staleTlb' = staleTlb \cup ((Core \ {c}) \X UserPages)
  /\ mapped' = [p \in Page |-> IF p \in UserPages THEN NONE ELSE mapped[p]]
  /\ booted' = booted + 1
  /\ UNCHANGED <<vcacheVars, holder, at, level, created, tmp, req, pool,
                 author>>

(* KernelMapper::map: the request and how it will flush.  An empty request and
   one for a page of the window return an error and change nothing; no caller
   passes GLOBAL.  Before remove_identity the only caller is map_header, for
   kernel space. *)
vmap(c) ==
  /\ booted > P2PAGE_COUNT
  /\ holder = NONE /\ at = "idle"
  /\ \E p \in IF booted = P2PAGE_COUNT + 1 THEN Page \ UserPages ELSE Page,
        f \in DataFrames, n \in 1..MaxPages :
       /\ \A i \in 0..(n - 1) : p + i \in Page
       /\ req' = [page |-> p, frame |-> f, pages |-> n,
                  detail |-> p >= KVMSPACE \/ n < RLCR3_THRESHOLD]
  /\ holder' = c
  /\ at' = "tmp1"
  /\ UNCHANGED <<vcacheVars, booted, level, created, tmp, pool, memory,
                 staleTlb, mapped, author>>

(* map_many: two slots, on the null frame. *)
MapTmp(i) ==
  /\ IF MapPanics
     THEN at' = "panic_vcache" /\ UNCHANGED <<vcacheVars, tmp, level>>
     ELSE \E s \in {MapSlot} :
            /\ map(holder, NULL, s)
            /\ tmp' = [tmp EXCEPT ![i] = s]
            /\ at' = IF i = 1 THEN "tmp2" ELSE "descend"
            /\ level' = 4
  /\ UNCHANGED <<booted, holder, created, req, pool, memory, staleTlb, mapped,
                 author>>

MapTmp1 == at = "tmp1" /\ MapTmp(1)
MapTmp2 == at = "tmp2" /\ MapTmp(2)

(* palloc: the frame it returns.  Which one it is says PhysMem; nothing here
   depends on it. *)
NewFrame == CHOOSE f \in pool : TRUE

(* ensure_allocated: an unused entry gets a frame, as palloc returns it. *)
Descend ==
  /\ at = "descend"
  /\ created' = (memory[CurrentTable][CurrentIndex] = NONE)
  /\ IF ~created'
     THEN at' = "remap" /\ UNCHANGED <<pool, memory>>
     ELSE IF pool = {}
     THEN at' = "panic_memory" /\ UNCHANGED <<pool, memory>>
     ELSE /\ memory' = [memory EXCEPT
                          ![CurrentTable][CurrentIndex] = NewFrame]
          /\ pool' = pool \ {NewFrame}
          /\ at' = "remap"
  /\ UNCHANGED <<vcacheVars, booted, holder, level, tmp, req, staleTlb, mapped,
                 author>>

(* ensure_allocated: the zeros a new table is filled with. *)
Cleared(frame) ==
  IF created THEN [memory EXCEPT ![frame] = [i \in Indices |-> NONE]] ELSE memory

(* ensure_allocated: the table below is mapped, then cleared if it is new. *)
Remap ==
  /\ at = "remap"
  /\ LET frame == memory[CurrentTable][CurrentIndex]
     IN remap(holder, SlotOf(level - 1), frame) /\ memory' = Cleared(frame)
  /\ level' = level - 1
  /\ at' = IF level = 2 THEN "leaf" ELSE "descend"
  /\ UNCHANGED <<booted, holder, created, tmp, req, pool, staleTlb, mapped,
                 author>>

(* Mutant of LeafFlushed: the page is never flushed on its own. *)
LeafUnflushed(p) == {}

(* KernelMapper::map: the translations the core drops after setting page p. *)
LeafFlushed(p) == IF req.detail THEN {<<holder, p>>} ELSE {}

(* KernelMapper::map: the entry of the page, whatever it was. *)
Leaf ==
  /\ at = "leaf"
  /\ LET p == req.page
         old == memory[CurrentTable][CurrentIndex]
     IN /\ memory' = [memory EXCEPT ![CurrentTable][CurrentIndex] = req.frame]
        /\ staleTlb' = (staleTlb \cup (IF old = NONE THEN {} ELSE Core \X {p}))
                         \ LeafFlushed(p)
        /\ mapped' = [mapped EXCEPT ![p] = req.frame]
        /\ author' = [author EXCEPT ![p] = holder]
  /\ req' = [req EXCEPT !.page = @ + 1, !.frame = @ + 1, !.pages = @ - 1]
  /\ level' = 4
  /\ at' = IF req.pages = 1 THEN "return" ELSE "descend"
  /\ UNCHANGED <<vcacheVars, booted, holder, created, tmp, pool>>

(* Mutant of Return: the slots are kept. *)
ReturnLeaks ==
  /\ at = "return"
  /\ UNCHANGED vcacheVars
  /\ staleTlb' = IF req.detail THEN staleTlb
                 ELSE {x \in staleTlb : x[1] # holder \/ x[2] >= KVMSPACE}
  /\ holder' = NONE
  /\ at' = "idle"
  /\ req' = NoRequest /\ tmp' = <<P4Slot, P4Slot>> /\ created' = FALSE
  /\ UNCHANGED <<booted, level, pool, memory, mapped, author>>

(* KernelMapper::map: the slots are given back; without detail_flush, CR3 is
   reloaded, which leaves the global translations of kernel space. *)
Return ==
  /\ at = "return"
  /\ unmap_many({tmp[1], tmp[2]})
  /\ staleTlb' = IF req.detail THEN staleTlb
                 ELSE {x \in staleTlb : x[1] # holder \/ x[2] >= KVMSPACE}
  /\ holder' = NONE
  /\ at' = "idle"
  /\ req' = NoRequest /\ tmp' = <<P4Slot, P4Slot>> /\ created' = FALSE
  /\ UNCHANGED <<booted, level, pool, memory, mapped, author>>

Next ==
  \/ \E c \in Core : Boot(c) \/ remove_identity(c) \/ vmap(c)
  \/ MapTmp1 \/ MapTmp2 \/ Descend \/ Remap \/ Leaf \/ Return

Spec == Init /\ [][Next]_vars

----------------------------------------------------------------------------
TypeOK ==
  /\ VCacheTypeOK
  /\ booted \in 0..(P2PAGE_COUNT + 2)
  /\ holder \in Core \cup {NONE}
  /\ at \in {"idle", "tmp1", "tmp2", "descend", "remap", "leaf", "return",
             "panic_vcache", "panic_memory"}
  /\ level \in 1..4
  /\ created \in BOOLEAN
  /\ tmp \in Slot \X Slot
  /\ pool \subseteq TableFrames
  /\ staleTlb \subseteq Core \X Page
  /\ DOMAIN mapped = Page
  /\ author \in [Page -> Core \cup {NONE}]

(* The mapper never runs out of slots: however many calls there have been,
   VCache::map finds a free or a lazy slot and its counters do not underflow,
   so NoVCacheSpace and the panics of VCache::map do not occur. *)
MapperHasSlots == at # "panic_vcache"

(* The slots of a call are its own: they are two, and neither is one that
   holds a table of the window or the P4 table. *)
TmpPrivate ==
  at \in {"descend", "remap", "leaf", "return"} =>
    tmp[1] # tmp[2] /\ {tmp[1], tmp[2]} \cap Permanent = {}

(* The core in the mapper reads and writes page tables through translations
   that are not stale: the local invlpg of map and remap is enough, though
   the slots were used by other cores before ("Don't bother invalidating the
   pages, they will be invalidated when remapped"). *)
NoStaleAccess ==
  at \in {"descend", "remap", "leaf"} => <<holder, SlotOf(level)>> \notin stale

(* The walk of the page tables by the processor. *)
Below(f, page, lv) ==
  IF f \in TableFrames THEN memory[f][Index(page, lv)] ELSE f
Translate(page) ==
  Below(Below(Below(Below(ROOT, page, 4), page, 3), page, 2), page, 1)

(* Once vmap has returned, every page has the frame it was last asked to have,
   and no other page was touched. *)
MappedIsMapped ==
  at = "idle" => \A p \in Page : Translate(p) = mapped[p]

(* Once vmap has returned, the core that called it holds no old translation of
   the pages of the request, whichever way it flushed and whoever maps other
   pages later. *)
CallerFlushed ==
  at = "idle" => \A p \in Page : <<author[p], p>> \notin staleTlb
=============================================================================

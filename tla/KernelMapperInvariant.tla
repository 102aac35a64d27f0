----------------------- MODULE KernelMapperInvariant -----------------------
(***************************************************************************)
(* The inductive invariant of the mapper, for any number of cores, any     *)
(* window and any size of page tables, and that every step keeps its parts *)
(* about the slots and the stale translations if VCache keeps its          *)
(* promises.  KernelMapperTree goes on with the page tables.               *)
(***************************************************************************)
EXTENDS KernelMapper, TLAPS

(* The slots that are lazy, those of the call in progress, and those that
   virt::init has taken so far. *)
Lazy == {s \in Slot : p1_age[s] # 0}
Walking == at \in {"descend", "remap", "leaf"}
Held ==
  CASE at = "tmp2" -> {tmp[1]}
    [] Walking \/ at \in {"return", "panic_memory"} -> {tmp[1], tmp[2]}
    [] OTHER -> {}
Fixed == {s \in Permanent : s[2] < booted}

(* A slot that is present is fixed, lazy or held, and only one of the three; the
   counters say so. *)
SlotsInv ==
  /\ CountsMatch
  /\ at # "panic_vcache"
  /\ booted <= P2PAGE_COUNT => at = "idle" /\ Lazy = {}
  /\ present = Fixed \cup Lazy \cup Held
  /\ Fixed \cap Lazy = {} /\ Fixed \cap Held = {} /\ Lazy \cap Held = {}
  /\ Walking \/ at \in {"return", "panic_memory"} => tmp[1] # tmp[2]

(* The core in the mapper has flushed the slots it holds, and the slot of the P4
   table never changes. *)
StaleInv ==
  /\ \A c \in Core : <<c, P4Slot>> \notin stale
  /\ \A s \in Held : <<holder, s>> \notin stale

(* What is left of the request are pages that may be mapped, to frames that are
   not page tables. *)
Requesting == Walking \/ at \in {"tmp1", "tmp2"}
Content == Nat \cup {NONE, JUNK}
RequestInv ==
  /\ at = "idle" <=> holder = NONE
  /\ at \in {"descend", "remap"} => level \in 2..4
  /\ at = "leaf" => level = 1
  /\ req \in [page : Nat, frame : Nat, pages : Nat, detail : BOOLEAN]
  /\ Requesting =>
       /\ req.pages > 0
       /\ \A i \in 0..(req.pages - 1) :
            req.page + i \in Page /\ req.frame + i \notin TableFrames
       /\ ~req.detail => req.page \in UserPages
       /\ booted = P2PAGE_COUNT + 1 => req.page \notin UserPages
  /\ memory \in [TableFrames -> [Indices -> Content]]
  /\ booted > P2PAGE_COUNT => entry[P4Slot] = ROOT

(* An old translation that the author of a page may hold is one of user space
   that the reload of CR3 will drop; user space has no author before the identity
   mapping is removed. *)
FlushInv ==
  /\ \A p \in Page :
       <<author[p], p>> \in staleTlb =>
         at # "idle" /\ ~req.detail /\ author[p] = holder /\ p \in UserPages
  /\ booted <= P2PAGE_COUNT + 1 => \A p \in UserPages : author[p] = NONE

(* The table of level k on the walk to a page in memory mem, 0 for what the page
   is mapped to; what is not a table ends the walk. *)
Step(mem, f, page, lv) == IF f \in TableFrames THEN mem[f][Index(page, lv)] ELSE f
Node(mem, page, k) ==
  CASE k = 4 -> ROOT
    [] k = 3 -> Step(mem, ROOT, page, 4)
    [] k = 2 -> Step(mem, Step(mem, ROOT, page, 4), page, 3)
    [] k = 1 -> Step(mem, Step(mem, Step(mem, ROOT, page, 4), page, 3), page, 2)
    [] k = 0 -> Step(mem, Step(mem, Step(mem, Step(mem, ROOT, page, 4), page, 3), page, 2),
                     page, 1)

(* The walks to two pages are the same down to the entry of level k. *)
Shares(p, q, k) == \A j \in k..4 : Index(p, j) = Index(q, j)

(* The tables are a tree: one that is on the walks to two pages is at the same
   place of both.  No frame of the pool is in it. *)
IsTree(mem, free) ==
  /\ \A p, q \in Page, j, k \in 1..4 :
       Node(mem, p, j) \in TableFrames /\ Node(mem, p, j) = Node(mem, q, k)
         => j = k /\ Shares(p, q, j + 1)
  /\ \A p \in Page : Node(mem, p, 0) \notin TableFrames
  /\ \A p \in Page, k \in 1..4 : Node(mem, p, k) \notin free
  /\ \A f \in free, i \in Indices : mem[f][i] = JUNK
  /\ free \subseteq TableFrames \ {ROOT}
  /\ mem \in [TableFrames -> [Indices -> Content]]

(* ensure_allocated: the new table is linked and not yet cleared. *)
Uncleared == at = "remap" /\ created
OnNew(p) == Uncleared /\ Shares(p, req.page, level)

(* The walk of the mapper is the walk of the processor. *)
OnPath ==
  /\ Walking => /\ CurrentTable = Node(memory, req.page, level)
                /\ CurrentTable \in TableFrames
  /\ at = "remap" => Node(memory, req.page, level - 1) \in TableFrames

(* A walk meets no entry that the mapper has not written, except in what the
   bootloader has mapped and below a table that is not yet cleared. *)
Interior ==
  \A p \in Page, k \in 1..3 :
    \/ Node(memory, p, k) \in TableFrames \cup {NONE}
    \/ p \in UserPages /\ booted <= P2PAGE_COUNT + 1
    \/ OnNew(p) /\ k < level - 1

(* Every page has the frame it was last asked to have, except below a table that
   is not yet cleared. *)
MappedInv ==
  \A p \in Page : mapped[p] = IF OnNew(p) THEN NONE ELSE Node(memory, p, 0)

PathInv == IsTree(memory, pool) /\ OnPath /\ Interior /\ MappedInv

----------------------------------------------------------------------------
(* What VCache promises.  F are the slots that are in use: map takes another one
   of table 0 or of a table with a free entry, and disturbs none of F; unmap_many
   makes its slots lazy.  KernelMapperProofs shows that VCache keeps it. *)
Room(F) ==
  /\ VCacheTypeOK /\ CountsMatch
  /\ present = F \cup Lazy /\ F \cap Lazy = {}
  /\ \E x \in Entry : <<0, x>> \notin F
Taken(c, frame, s, F) ==
  /\ VCacheTypeOK' /\ CountsMatch'
  /\ s \in Slot \ F /\ Lazy' \subseteq Lazy \ {s}
  /\ present' = F \cup {s} \cup Lazy'
  /\ entry' = [entry EXCEPT ![s] = frame]
  /\ <<c, s>> \notin stale'
  /\ \A d \in Core, u \in F : <<d, u>> \notin stale => <<d, u>> \notin stale'
MapPromise ==
  \A F \in SUBSET Slot : Room(F) =>
    /\ ~MapPanics
    /\ \A c \in Core : map(c, NULL, MapSlot) => Taken(c, NULL, MapSlot, F)
UnmapPromise ==
  \A pages \in SUBSET Slot :
    VCacheTypeOK /\ CountsMatch /\ pages \cap Lazy = {} /\ unmap_many(pages) =>
      /\ VCacheTypeOK' /\ CountsMatch' /\ Lazy' = Lazy \cup pages
      /\ UNCHANGED <<present, entry, stale>>

BaseInv == TypeOK /\ SlotsInv /\ StaleInv /\ RequestInv

(* Where virt::init puts things. *)
LEMMA Layout ==
  /\ P2PAGE_COUNT \in Nat \ {0} /\ 0 \in Table
  /\ \A b \in 0..(P2PAGE_COUNT + 2) : b \in Entry
  /\ Permanent \subseteq Slot /\ P4Slot \in Permanent
  /\ \A e \in Entry : <<0, e>> \in Permanent <=> e <= P2PAGE_COUNT
  /\ \A s \in Permanent : s = <<0, s[2]>> /\ s[2] \in 0..P2PAGE_COUNT
  /\ ROOT \in TableFrames /\ TableFrames \subseteq Nat
<1>1. /\ P2PAGE_COUNT \in Nat \ {0} /\ 0 \in Table
      /\ \A b \in 0..(P2PAGE_COUNT + 2) : b \in Entry
  BY WindowAssumption DEF Table, Entry
<1>2. \A s \in Permanent : s = <<0, s[2]>> /\ s[2] \in 0..P2PAGE_COUNT
  BY DEF Permanent
<1>3. Permanent \subseteq Slot
  <2>1. \A e \in 0..P2PAGE_COUNT : e \in 0..(P2PAGE_COUNT + 2)
    BY <1>1
  <2> QED
    BY Zenon, <1>1, <2>1 DEF Permanent, Slot
<1>4. P4Slot \in Permanent
  BY <1>1 DEF Permanent, P4Slot
<1>5. \A e \in Entry : <<0, e>> \in Permanent <=> e <= P2PAGE_COUNT
  BY <1>1 DEF Permanent, Entry
<1>6. ROOT \in TableFrames /\ TableFrames \subseteq Nat
  BY MapperAssumption DEF ROOT, TableFrames
<1> QED
  BY Zenon, <1>1, <1>2, <1>3, <1>4, <1>5, <1>6

(* Once virt::init has mapped the P4 table, all its slots are fixed. *)
LEMMA AllFixed ==
  ASSUME booted \in Nat, booted > P2PAGE_COUNT
  PROVE  Fixed = Permanent /\ P4Slot \in Fixed
<1>1. \A s \in Permanent : s[2] < booted
  BY Layout
<1> QED
  BY Zenon, <1>1, Layout DEF Fixed

(* VCache::remap: one slot that is in use gets another frame. *)
LEMMA RemapKeeps ==
  ASSUME VCacheTypeOK, CountsMatch, NEW c \in Core, NEW s \in Slot, s \in present,
         NEW frame, remap(c, s, frame)
  PROVE  /\ VCacheTypeOK' /\ CountsMatch' /\ Lazy' = Lazy /\ present' = present
         /\ entry'[s] = frame /\ \A u \in Slot \ {s} : entry'[u] = entry[u]
         /\ \A d \in Core, u \in Slot :
              d = c \/ u # s => (<<d, u>> \in stale' => <<d, u>> \in stale)
<1>1. UNCHANGED <<p2_freecount, p2_lazycount, p1_age>>
  BY Zenon DEF remap, vcacheVars
<1>2. present' = present
  BY Zenon DEF remap, vcacheVars
<1>3. /\ entry'[s] = frame /\ \A u \in Slot \ {s} : entry'[u] = entry[u]
      /\ DOMAIN entry' = Slot
  BY Zenon DEF remap, vcacheVars, VCacheTypeOK
<1>4. Lazy' = Lazy /\ CountsMatch'
  BY Zenon, <1>1, <1>2 DEF Lazy, CountsMatch, Absent
<1>5. stale' = stale \/ stale' = (stale \cup (Core \X ({s} \cup {}))) \ {<<c, s>>}
  <2>1. {s} \cap present = {s}
    BY Zenon
  <2> QED
    BY Zenon, <2>1 DEF remap, vcacheVars, Flush
<1>6. stale' \subseteq Core \X Slot
  BY Zenon, <1>5 DEF VCacheTypeOK
<1>7. VCacheTypeOK'
  BY Zenon, <1>1, <1>2, <1>3, <1>6 DEF VCacheTypeOK
<1>8. ASSUME NEW d \in Core, NEW u \in Slot, d = c \/ u # s, <<d, u>> \in stale'
      PROVE  <<d, u>> \in stale
  BY <1>5, <1>8
<1> QED
  BY Zenon, <1>2, <1>3, <1>4, <1>7, <1>8

(* map_many: the slots of the call, and one of table 0 that is not in use. *)
LEMMA TmpBase ==
  ASSUME MapPromise, BaseInv, NEW i \in {1, 2}, at = (IF i = 1 THEN "tmp1" ELSE "tmp2"), MapTmp(i)
  PROVE  BaseInv' /\ UNCHANGED memory /\ at' \in {"tmp2", "descend"}
<1>0. TypeOK /\ SlotsInv /\ StaleInv /\ RequestInv
  BY Zenon DEF BaseInv
<1>1. /\ UNCHANGED <<booted, holder, created, req, pool, memory, staleTlb, mapped, author>>
      /\ holder \in Core /\ booted \in Nat /\ booted > P2PAGE_COUNT /\ tmp \in Slot \X Slot
  BY <1>0, Layout DEF MapTmp, RequestInv, TypeOK, SlotsInv
<1>2. Fixed = Permanent /\ P4Slot \in Fixed
  BY Zenon, <1>1, AllFixed
<1> DEFINE F == Fixed \cup Held
<1>3. Held = IF i = 1 THEN {} ELSE {tmp[1]}
  BY Zenon DEF Held, Walking
<1>4. /\ VCacheTypeOK /\ CountsMatch /\ F \in SUBSET Slot /\ present = F \cup Lazy
      /\ F \cap Lazy = {}
  <2>1. tmp[1] \in Slot
    BY Zenon, <1>1
  <2> QED
    BY Zenon, <1>0, <1>2, <1>3, <2>1, Layout DEF TypeOK, SlotsInv
<1>5. \E x \in Entry : <<0, x>> \notin F
  <2> DEFINE a == P2PAGE_COUNT + 1 b == P2PAGE_COUNT + 2
  <2>1. a \in Entry /\ b \in Entry /\ a # b /\ ~(a <= P2PAGE_COUNT) /\ ~(b <= P2PAGE_COUNT)
    BY Layout
  <2> HIDE DEF a, b
  <2>2. <<0, a>> \notin Fixed /\ <<0, b>> \notin Fixed
    BY Zenon, <1>2, <2>1, Layout
  <2>3. <<0, a>> # <<0, b>>
    BY Zenon, <2>1
  <2>4. <<0, a>> \notin Held \/ <<0, b>> \notin Held
    BY Zenon, <1>3, <2>3
  <2> QED
    BY Zenon, <2>1, <2>2, <2>4
<1> HIDE DEF F
<1>r. F \in SUBSET Slot /\ Room(F)
  BY Zenon, <1>4, <1>5 DEF Room
<1>6. ~MapPanics
  BY Zenon, <1>r DEF MapPromise
<1> DEFINE s == MapSlot
<1>7. /\ map(holder, NULL, s) /\ tmp' = [tmp EXCEPT ![i] = s]
      /\ at' = (IF i = 1 THEN "tmp2" ELSE "descend") /\ level' = 4
  BY Zenon, <1>6 DEF MapTmp
<1>8. s = MapSlot
  BY Zenon
<1> HIDE DEF s
<1>9. /\ VCacheTypeOK' /\ CountsMatch' /\ s \in Slot \ F /\ Lazy' \subseteq Lazy \ {s}
      /\ present' = F \cup {s} \cup Lazy' /\ entry' = [entry EXCEPT ![s] = NULL]
      /\ <<holder, s>> \notin stale'
      /\ \A d \in Core, u \in F : <<d, u>> \notin stale => <<d, u>> \notin stale'
  <2>1. Taken(holder, NULL, s, F)
    BY Zenon, <1>1, <1>7, <1>8, <1>r DEF MapPromise
  <2> QED
    BY Zenon, <2>1 DEF Taken
<1>10. /\ tmp' \in Slot \X Slot /\ tmp'[i] = s
       /\ i = 2 => tmp'[1] = tmp[1]
  BY <1>1, <1>7, <1>9
<1>11. Fixed' = Fixed /\ Held' = Held \cup {s}
  <2>1. Fixed' = Fixed
    BY Zenon, <1>1 DEF Fixed
  <2>2. Held' = IF i = 1 THEN {tmp'[1]} ELSE {tmp'[1], tmp'[2]}
    BY Zenon, <1>7 DEF Held, Walking
  <2> QED
    BY Zenon, <1>3, <1>10, <2>1, <2>2
<1>12. TypeOK'
  BY <1>0, <1>1, <1>7, <1>9, <1>10 DEF TypeOK
<1>13. SlotsInv'
  <2>1. i = 2 => tmp'[1] # tmp'[2]
    BY <1>3, <1>9, <1>10 DEF F
  <2>2. /\ present' = Fixed' \cup Lazy' \cup Held'
        /\ Fixed' \cap Lazy' = {} /\ Fixed' \cap Held' = {} /\ Lazy' \cap Held' = {}
    BY Zenon, <1>0, <1>4, <1>9, <1>11 DEF F, SlotsInv
  <2>3. /\ at' # "panic_vcache" /\ ~(booted' <= P2PAGE_COUNT)
        /\ (Walking \/ at \in {"return", "panic_memory"})' => i = 2
    BY <1>1, <1>7, Layout DEF Walking
  <2> QED
    BY Zenon, <1>9, <2>1, <2>2, <2>3 DEF SlotsInv
<1>14. StaleInv'
  <2>1. \A c \in Core : <<c, P4Slot>> \notin stale'
    BY Zenon, <1>0, <1>2, <1>9 DEF StaleInv, F
  <2>2. \A u \in Held : <<holder, u>> \notin stale'
    BY Zenon, <1>0, <1>1, <1>9 DEF StaleInv, F
  <2> QED
    BY Zenon, <1>1, <1>9, <1>11, <2>1, <2>2 DEF StaleInv
<1>15. RequestInv'
  <2>1. entry'[P4Slot] = entry[P4Slot]
    BY <1>2, <1>9 DEF F
  <2>2. at' \in {"tmp2", "descend"}
    BY Zenon, <1>7
  <2>3. Requesting
    BY Zenon DEF Requesting
  <2> QED
    BY <1>0, <1>1, <1>7, <2>1, <2>2, <2>3 DEF RequestInv, Requesting, Walking
<1> QED
  BY Zenon, <1>1, <1>7, <1>12, <1>13, <1>14, <1>15 DEF BaseInv

(* A step that leaves the window alone and neither takes nor gives back slots. *)
LEMMA SameSlots ==
  ASSUME SlotsInv, StaleInv, UNCHANGED <<vcacheVars, tmp>>, Fixed' = Fixed, Held' = Held,
         Held = {} \/ holder' = holder,
         at' # "panic_vcache", ~(booted' <= P2PAGE_COUNT),
         (Walking \/ at \in {"return", "panic_memory"})'
           => Walking \/ at \in {"return", "panic_memory"}
  PROVE  SlotsInv' /\ StaleInv'
<1>1. Lazy' = Lazy /\ CountsMatch' /\ present' = present /\ stale' = stale
  BY Zenon DEF vcacheVars, Lazy, CountsMatch, Absent, SlotsInv
<1>2. SlotsInv'
  BY Zenon, <1>1 DEF SlotsInv
<1>3. StaleInv'
  BY Zenon, <1>1 DEF StaleInv
<1> QED
  BY Zenon, <1>2, <1>3

(* An entry of a table is written. *)
LEMMA MemoryType ==
  ASSUME memory \in [TableFrames -> [Indices -> Content]], NEW f, NEW i, NEW v \in Content,
         memory' = [memory EXCEPT ![f][i] = v]
  PROVE  memory' \in [TableFrames -> [Indices -> Content]]
<1>1. CASE f \in TableFrames
  <2>1. [memory[f] EXCEPT ![i] = v] \in [Indices -> Content]
    BY Zenon, <1>1
  <2> QED
    BY Zenon, <1>1, <2>1
<1>2. CASE f \notin TableFrames
  BY Zenon, <1>2
<1> QED
  BY Zenon, <1>1, <1>2

(* Every step keeps the slots, their translations and the request. *)
LEMMA NextBase ==
  ASSUME MapPromise, UnmapPromise, BaseInv, \A c \in Core : Boot(c) => BaseInv', [Next]_vars
  PROVE  BaseInv'
<1>s. BaseInv /\ [Next]_vars
  BY Zenon
<1>0. TypeOK /\ SlotsInv /\ StaleInv /\ RequestInv
  BY Zenon, <1>s DEF BaseInv
<1>v. ASSUME UNCHANGED vcacheVars PROVE VCacheTypeOK'
  BY Zenon, <1>0, <1>v DEF TypeOK, VCacheTypeOK, vcacheVars
<1>1. ASSUME NEW c \in Core, Boot(c) PROVE BaseInv'
  BY Zenon, <1>1
<1>2. ASSUME NEW c \in Core, remove_identity(c) PROVE BaseInv'
  <2>1. /\ booted = P2PAGE_COUNT + 1 /\ booted' = booted + 1 /\ at = "idle" /\ at' = "idle"
        /\ UNCHANGED <<vcacheVars, holder, level, created, tmp, req, pool, author>>
        /\ VCacheTypeOK' /\ booted \in Nat
    BY <1>2, <1>v, Layout DEF remove_identity
  <2>2. entry[P4Slot] = ROOT /\ ROOT \in TableFrames /\ P2PAGE_COUNT \in Nat
    BY <1>0, <2>1, Layout DEF RequestInv
  <2>3. Fixed' = Fixed /\ Held' = Held /\ Held = {}
    <3>1. Fixed = Permanent
      BY <2>1, <2>2, AllFixed
    <3>2. \A s \in Permanent : s[2] < booted'
      BY <2>1, Layout
    <3> QED
      BY Zenon, <2>1, <3>1, <3>2 DEF Fixed, Held, Walking
  <2>4. SlotsInv' /\ StaleInv'
    <3>1. ~(booted' <= P2PAGE_COUNT)
      BY <2>1, <2>2
    <3> QED
      BY Zenon, <1>0, <2>1, <2>3, <3>1, SameSlots DEF Walking
  <2>5. memory' \in [TableFrames -> [Indices -> Content]]
    <3> DEFINE row == [i \in Indices |-> IF i < ENTRIES \div 2 THEN NONE ELSE memory[ROOT][i]]
    <3>1. row \in [Indices -> Content]
      BY Zenon, <1>0, <2>2 DEF RequestInv, Content
    <3>2. memory' = [memory EXCEPT ![ROOT] = row]
      BY Zenon, <1>2, <2>2 DEF remove_identity
    <3> HIDE DEF row
    <3> QED
      BY Zenon, <1>0, <2>2, <3>1, <3>2 DEF RequestInv
  <2>6. RequestInv'
    BY Zenon, <1>0, <2>1, <2>2, <2>5 DEF RequestInv, Requesting, Walking, vcacheVars
  <2>7. TypeOK'
    <3>1. staleTlb' \subseteq Core \X Page
      BY Zenon, <1>0, <1>2 DEF remove_identity, TypeOK, UserPages
    <3>2. DOMAIN mapped' = Page
      BY Zenon, <1>2 DEF remove_identity
    <3>3. booted' \in 0..(P2PAGE_COUNT + 2)
      BY <2>1, <2>2
    <3> QED
      BY Zenon, <1>0, <2>1, <3>1, <3>2, <3>3 DEF TypeOK
  <2> QED
    BY Zenon, <2>4, <2>6, <2>7 DEF BaseInv
<1>3. ASSUME NEW c \in Core, vmap(c) PROVE BaseInv'
  <2>1. /\ booted > P2PAGE_COUNT /\ at = "idle" /\ at' = "tmp1" /\ holder' = c
        /\ UNCHANGED <<vcacheVars, booted, level, created, tmp, pool, memory, staleTlb,
                       mapped, author>>
        /\ VCacheTypeOK' /\ booted \in Nat /\ P2PAGE_COUNT \in Nat
    BY <1>0, <1>3, <1>v, Layout DEF vmap, TypeOK
  <2>2. Fixed' = Fixed /\ Held' = Held /\ Held = {}
    BY Zenon, <2>1 DEF Fixed, Held, Walking
  <2>3. SlotsInv' /\ StaleInv'
    <3>1. ~(booted' <= P2PAGE_COUNT)
      BY <2>1
    <3> QED
      BY Zenon, <1>0, <2>1, <2>2, <3>1, SameSlots DEF Walking
  <2>4. TypeOK'
    BY Zenon, <1>0, <2>1 DEF TypeOK
  <2>5. PICK p \in IF booted = P2PAGE_COUNT + 1 THEN Page \ UserPages ELSE Page,
             f \in DataFrames, n \in 1..MaxPages :
          /\ \A i \in 0..(n - 1) : p + i \in Page
          /\ req' = [page |-> p, frame |-> f, pages |-> n,
                     detail |-> p >= KVMSPACE \/ n < RLCR3_THRESHOLD]
    BY Zenon, <1>3 DEF vmap
  <2>6. /\ p \in Page /\ p \in Nat /\ f \in Nat /\ n \in Nat /\ n > 0 /\ n <= MaxPages
        /\ MaxPages \in Nat /\ KVMSPACE \in Nat
    BY <2>5, MapperAssumption
  <2>7. req' \in [page : Nat, frame : Nat, pages : Nat, detail : BOOLEAN]
    BY Zenon, <2>5, <2>6
  <2>8. \A i \in 0..(n - 1) : f + i \notin TableFrames
    <3>1. \A i \in 0..(n - 1) : i \in 0..(MaxPages - 1)
      BY <2>6
    <3> QED
      BY Zenon, <3>1, MapperAssumption
  <2>9. ~req'.detail => p \in UserPages
    <3>1. req'.detail = (p >= KVMSPACE \/ n < RLCR3_THRESHOLD)
      BY Zenon, <2>5
    <3>2. p < KVMSPACE => p \in UserPages
      BY Zenon, <2>6 DEF UserPages
    <3>3. p >= KVMSPACE \/ p < KVMSPACE
      BY <2>6
    <3> QED
      BY Zenon, <3>1, <3>2, <3>3
  <2>10. booted = P2PAGE_COUNT + 1 => p \notin UserPages
    BY Zenon, <2>5
  <2>11. c # NONE
    BY Zenon, MapperAssumption
  <2>12. /\ req'.page = p /\ req'.frame = f /\ req'.pages = n
         /\ memory \in [TableFrames -> [Indices -> Content]] /\ entry[P4Slot] = ROOT
    BY Zenon, <1>0, <2>1, <2>5 DEF RequestInv
  <2>13. RequestInv'
    BY Zenon, <2>1, <2>5, <2>6, <2>7, <2>8, <2>9, <2>10, <2>11, <2>12
       DEF RequestInv, Walking, vcacheVars
  <2> QED
    BY Zenon, <2>3, <2>4, <2>13 DEF BaseInv
<1>4. ASSUME MapTmp1 \/ MapTmp2 PROVE BaseInv'
  <2>1. CASE MapTmp1
    <3>1. 1 \in {1, 2} /\ at = (IF 1 = 1 THEN "tmp1" ELSE "tmp2") /\ MapTmp(1)
      BY Zenon, <2>1 DEF MapTmp1
    <3> QED
      BY Zenon, <1>s, <3>1, TmpBase
  <2>2. CASE MapTmp2
    <3>1. 2 \in {1, 2} /\ at = (IF 2 = 1 THEN "tmp1" ELSE "tmp2") /\ MapTmp(2)
      BY <2>2 DEF MapTmp2
    <3> QED
      BY Zenon, <1>s, <3>1, TmpBase
  <2> QED
    BY Zenon, <1>4, <2>1, <2>2
<1>b. ASSUME at # "idle"
      PROVE  /\ booted \in Nat /\ P2PAGE_COUNT \in Nat /\ booted > P2PAGE_COUNT
             /\ ~(booted <= P2PAGE_COUNT) /\ holder \in Core
  BY <1>0, <1>b, Layout DEF TypeOK, SlotsInv, RequestInv
<1>5. ASSUME Descend PROVE BaseInv'
  <2>1. /\ at = "descend" /\ at' \in {"remap", "panic_memory"} /\ VCacheTypeOK'
        /\ UNCHANGED <<vcacheVars, booted, holder, level, tmp, req, staleTlb, mapped, author>>
    BY Zenon, <1>5, <1>v DEF Descend
  <2>2. Fixed' = Fixed /\ Held' = Held
    BY Zenon, <2>1 DEF Fixed, Held, Walking
  <2>3. SlotsInv' /\ StaleInv'
    BY Zenon, <1>0, <1>b, <2>1, <2>2, SameSlots DEF Walking
  <2>4. /\ created' \in BOOLEAN /\ pool' \subseteq TableFrames
        /\ memory' \in [TableFrames -> [Indices -> Content]]
    <3>1. created' \in BOOLEAN
      BY Zenon, <1>5 DEF Descend
    <3>2. pool' \subseteq TableFrames
      BY Zenon, <1>0, <1>5 DEF Descend, TypeOK
    <3>3. memory \in [TableFrames -> [Indices -> Content]]
      BY Zenon, <1>0 DEF RequestInv
    <3>4. CASE memory' = memory
      BY Zenon, <3>1, <3>2, <3>3, <3>4
    <3>5. CASE memory' # memory
      <4>1. pool # {} /\ memory' = [memory EXCEPT ![CurrentTable][CurrentIndex] = NewFrame]
        BY Zenon, <1>5, <3>5 DEF Descend
      <4>2. pool \in SUBSET Nat
        BY Zenon, <1>0, Layout DEF TypeOK
      <4>3. NewFrame \in Content
        BY Zenon, <4>1, <4>2 DEF NewFrame, Content
      <4> QED
        BY Zenon, <3>1, <3>2, <3>3, <4>1, <4>3, MemoryType
    <3> QED
      BY Zenon, <3>4, <3>5
  <2>5. TypeOK'
    BY Zenon, <1>0, <2>1, <2>4 DEF TypeOK
  <2>6. RequestInv'
    BY Zenon, <1>0, <2>1, <2>4 DEF RequestInv, Requesting, Walking, vcacheVars
  <2> QED
    BY Zenon, <2>3, <2>5, <2>6 DEF BaseInv
<1>6. ASSUME Remap PROVE BaseInv'
  <2> DEFINE s == SlotOf(level - 1)
             frame == memory[CurrentTable][CurrentIndex]
  <2>1. /\ at = "remap" /\ remap(holder, s, frame) /\ memory' = Cleared(frame)
        /\ level' = level - 1 /\ at' = (IF level = 2 THEN "leaf" ELSE "descend")
        /\ UNCHANGED <<booted, holder, created, tmp, req, pool, staleTlb, mapped, author>>
    BY Zenon, <1>6 DEF Remap
  <2>2. level \in 2..4 /\ Held = {tmp[1], tmp[2]} /\ tmp \in Slot \X Slot
    BY Zenon, <1>0, <2>1 DEF RequestInv, Held, Walking, TypeOK
  <2>3. s \in Held
    BY <2>2 DEF SlotOf
  <2>4. s \in Slot /\ s \in present /\ P4Slot \in Fixed /\ P4Slot # s /\ P4Slot \in Slot
    <3>1. P4Slot \in Fixed
      BY Zenon, <1>b, <2>1, AllFixed
    <3> HIDE DEF s
    <3>2. P4Slot # s
      BY Zenon, <1>0, <2>3, <3>1 DEF SlotsInv
    <3> QED
      BY Zenon, <1>0, <2>2, <2>3, <3>1, <3>2, Layout DEF SlotsInv
  <2> HIDE DEF s, frame
  <2>5. /\ VCacheTypeOK' /\ CountsMatch' /\ Lazy' = Lazy /\ present' = present
        /\ entry'[s] = frame /\ \A u \in Slot \ {s} : entry'[u] = entry[u]
        /\ \A d \in Core, u \in Slot :
             d = holder \/ u # s => (<<d, u>> \in stale' => <<d, u>> \in stale)
    <3>1. VCacheTypeOK /\ CountsMatch
      BY Zenon, <1>0 DEF TypeOK, SlotsInv
    <3>2. holder \in Core
      BY Zenon, <1>b, <2>1
    <3>3. s \in Slot /\ s \in present /\ remap(holder, s, frame)
      BY Zenon, <2>1, <2>4 DEF s, frame
    <3> QED
      BY Zenon, <3>1, <3>2, <3>3, RemapKeeps
  <2>6. Fixed' = Fixed /\ Held' = Held
    BY Zenon, <2>1 DEF Fixed, Held, Walking
  <2>7. SlotsInv'
    BY Zenon, <1>0, <1>b, <2>1, <2>5, <2>6 DEF SlotsInv, Walking
  <2>8. StaleInv'
    <3>1. \A c \in Core : <<c, P4Slot>> \notin stale'
      BY Zenon, <1>0, <2>4, <2>5 DEF StaleInv
    <3>2. \A u \in Held : <<holder, u>> \notin stale'
      BY Zenon, <1>0, <1>b, <2>1, <2>2, <2>5 DEF StaleInv
    <3> QED
      BY Zenon, <2>1, <2>6, <3>1, <3>2 DEF StaleInv
  <2>9. level' \in 1..3 /\ (at' = "descend" => level' \in 2..4) /\ (at' = "leaf" => level' = 1)
    BY <2>1, <2>2
  <2>10. TypeOK'
    BY <1>0, <2>1, <2>5, <2>9 DEF TypeOK
  <2>11. memory' \in [TableFrames -> [Indices -> Content]]
    <3>1. [i \in Indices |-> NONE] \in [Indices -> Content]
      BY Zenon DEF Content
    <3>2. memory \in [TableFrames -> [Indices -> Content]]
      BY Zenon, <1>0 DEF RequestInv
    <3> QED
      BY Zenon, <2>1, <3>1, <3>2 DEF Cleared
  <2>12. entry'[P4Slot] = entry[P4Slot]
    BY Zenon, <2>4, <2>5
  <2>13. RequestInv'
    BY Zenon, <1>0, <2>1, <2>9, <2>11, <2>12 DEF RequestInv, Requesting, Walking
  <2> QED
    BY Zenon, <2>7, <2>8, <2>10, <2>13 DEF BaseInv
<1>7. ASSUME Leaf PROVE BaseInv'
  <2>1. /\ at = "leaf" /\ level' = 4 /\ at' = (IF req.pages = 1 THEN "return" ELSE "descend")
        /\ memory' = [memory EXCEPT ![CurrentTable][CurrentIndex] = req.frame]
        /\ req' = [req EXCEPT !.page = @ + 1, !.frame = @ + 1, !.pages = @ - 1]
        /\ UNCHANGED <<vcacheVars, booted, holder, created, tmp, pool>> /\ VCacheTypeOK'
    BY Zenon, <1>7, <1>v DEF Leaf
  <2>2. Fixed' = Fixed /\ Held' = Held
    BY Zenon, <2>1 DEF Fixed, Held, Walking
  <2>3. SlotsInv' /\ StaleInv'
    BY Zenon, <1>0, <1>b, <2>1, <2>2, SameSlots DEF Walking
  <2>4. /\ req \in [page : Nat, frame : Nat, pages : Nat, detail : BOOLEAN]
        /\ req.pages > 0 /\ (~req.detail => req.page \in UserPages)
        /\ \A i \in 0..(req.pages - 1) : req.page + i \in Page /\ req.frame + i \notin TableFrames
        /\ booted = P2PAGE_COUNT + 1 => req.page \notin UserPages
    BY Zenon, <1>0, <2>1 DEF RequestInv, Requesting, Walking
  <2>5. req.page \in Page /\ req.frame \in Nat /\ req.frame \notin TableFrames
    <3>1. 0 \in 0..(req.pages - 1) /\ req.page + 0 = req.page /\ req.frame + 0 = req.frame
      BY <2>4
    <3> QED
      BY Zenon, <2>4, <3>1
  <2>6. memory' \in [TableFrames -> [Indices -> Content]]
    BY Zenon, <1>0, <2>1, <2>5, MemoryType DEF RequestInv, Content
  <2>7. TypeOK'
    <3>1. staleTlb' \subseteq Core \X Page
      BY Zenon, <1>0, <1>7, <2>5 DEF Leaf, TypeOK
    <3>2. DOMAIN mapped' = Page /\ author' \in [Page -> Core \cup {NONE}]
      BY Zenon, <1>0, <1>7, <1>b, <2>5 DEF Leaf, TypeOK
    <3> QED
      BY <1>0, <2>1, <3>1, <3>2 DEF TypeOK
  <2>8. /\ req' \in [page : Nat, frame : Nat, pages : Nat, detail : BOOLEAN]
        /\ req'.page = req.page + 1 /\ req'.frame = req.frame + 1
        /\ req'.pages = req.pages - 1 /\ req'.detail = req.detail
    <3>1. /\ req.page + 1 \in Nat /\ req.frame + 1 \in Nat /\ req.pages - 1 \in Nat
      BY <2>4
    <3>2. req' = [page |-> req.page + 1, frame |-> req.frame + 1, pages |-> req.pages - 1,
                  detail |-> req.detail]
      BY Zenon, <2>1, <2>4
    <3>3. req.detail \in BOOLEAN
      BY Zenon, <2>4
    <3> QED
      BY Zenon, <3>1, <3>2, <3>3
  <2>9. ASSUME req.pages # 1
        PROVE  /\ req'.pages > 0 /\ req.page + 1 \in Page
               /\ \A i \in 0..(req'.pages - 1) :
                    req'.page + i \in Page /\ req'.frame + i \notin TableFrames
    <3>1. req'.pages > 0
      BY <2>4, <2>8, <2>9
    <3>2. ASSUME NEW i \in 0..(req'.pages - 1)
          PROVE  /\ i + 1 \in 0..(req.pages - 1) /\ req'.page + i = req.page + (i + 1)
                 /\ req'.frame + i = req.frame + (i + 1)
      BY <2>4, <2>8
    <3>3. 1 \in 0..(req.pages - 1)
      BY <2>4, <2>9
    <3> QED
      BY Zenon, <2>4, <3>1, <3>2, <3>3
  <2>10. ASSUME req.pages # 1, ~req.detail PROVE req'.page \in UserPages
    BY Zenon, <2>4, <2>8, <2>9, <2>10, MapperAssumption
  <2>11. ASSUME booted = P2PAGE_COUNT + 1 PROVE req'.page \notin UserPages
    <3>1. ~(req.page < KVMSPACE) /\ req.page \in Nat /\ KVMSPACE \in Nat
      BY Zenon, <2>4, <2>5, <2>11, MapperAssumption DEF UserPages
    <3>2. ~(req'.page < KVMSPACE)
      BY <2>8, <3>1
    <3> QED
      BY Zenon, <3>2 DEF UserPages
  <2>12. /\ at' \in {"return", "descend"} /\ (at' = "descend" => req.pages # 1)
         /\ 4 \in 2..4 /\ entry' = entry
    BY <2>1 DEF vcacheVars
  <2>13. Requesting' => req.pages # 1
    BY Zenon, <2>12 DEF Requesting, Walking
  <2>14. RequestInv'
    BY Zenon, <1>0, <1>b, <2>1, <2>6, <2>8, <2>9, <2>10, <2>11, <2>12, <2>13 DEF RequestInv
  <2> QED
    BY Zenon, <2>3, <2>7, <2>14 DEF BaseInv
<1>8. ASSUME Return PROVE BaseInv'
  <2>1. /\ at = "return" /\ unmap_many({tmp[1], tmp[2]}) /\ holder' = NONE /\ at' = "idle"
        /\ req' = NoRequest /\ tmp' = <<P4Slot, P4Slot>> /\ created' = FALSE
        /\ UNCHANGED <<booted, level, pool, memory, mapped, author>>
    BY Zenon, <1>8 DEF Return
  <2>2. tmp[1] \in Slot /\ tmp[2] \in Slot /\ Held = {tmp[1], tmp[2]}
    BY Zenon, <1>0, <2>1 DEF TypeOK, Held, Walking
  <2>3. /\ VCacheTypeOK' /\ CountsMatch' /\ Lazy' = Lazy \cup Held
        /\ UNCHANGED <<present, entry, stale>>
    <3>1. Held \in SUBSET Slot /\ Held \cap Lazy = {} /\ unmap_many(Held)
      BY Zenon, <1>0, <2>1, <2>2 DEF SlotsInv
    <3> QED
      BY Zenon, <1>0, <3>1 DEF TypeOK, SlotsInv, UnmapPromise
  <2>4. Fixed' = Fixed /\ Held' = {}
    BY Zenon, <2>1 DEF Fixed, Held, Walking
  <2>5. SlotsInv'
    BY Zenon, <1>0, <1>b, <2>1, <2>3, <2>4 DEF SlotsInv, Walking
  <2>6. StaleInv'
    BY Zenon, <1>0, <2>3, <2>4 DEF StaleInv
  <2>7. TypeOK'
    <3>1. staleTlb' \subseteq staleTlb
      BY Zenon, <1>8 DEF Return
    <3>2. tmp' \in Slot \X Slot
      BY Zenon, <2>1, Layout
    <3> QED
      BY Zenon, <1>0, <2>1, <2>3, <3>1, <3>2 DEF TypeOK
  <2>8. RequestInv'
    BY Zenon, <1>0, <2>1, <2>3 DEF RequestInv, NoRequest, Requesting, Walking
  <2> QED
    BY Zenon, <2>5, <2>6, <2>7, <2>8 DEF BaseInv
<1>9. CASE UNCHANGED vars
  <2>1. UNCHANGED vcacheVars /\ VCacheTypeOK'
    BY Zenon, <1>9, <1>v DEF vars
  <2>2. Lazy' = Lazy /\ CountsMatch' /\ Fixed' = Fixed /\ Held' = Held
    <3>1. Lazy' = Lazy /\ CountsMatch'
      BY Zenon, <1>0, <2>1 DEF SlotsInv, vcacheVars, Lazy, CountsMatch, Absent
    <3>2. UNCHANGED <<at, tmp, booted>>
      BY Zenon, <1>9 DEF vars, mapperVars
    <3> QED
      BY Zenon, <3>1, <3>2 DEF Fixed, Held, Walking
  <2>3. SlotsInv' /\ StaleInv'
    BY Zenon, <1>0, <1>9, <2>2 DEF SlotsInv, StaleInv, vars, vcacheVars, mapperVars, Walking
  <2>4. TypeOK'
    BY Zenon, <1>0, <1>9, <2>1 DEF TypeOK, vars, mapperVars
  <2>5. RequestInv'
    BY Zenon, <1>0, <1>9 DEF RequestInv, Requesting, Walking, vars, vcacheVars, mapperVars
  <2> QED
    BY Zenon, <2>3, <2>4, <2>5 DEF BaseInv
<1> QED
  BY Zenon, <1>s, <1>1, <1>2, <1>3, <1>4, <1>5, <1>6, <1>7, <1>8, <1>9 DEF Next

----------------------------------------------------------------------------
(* At the start nobody has mapped a page. *)
LEMMA InitFlush == Init => FlushInv
<1> SUFFICES ASSUME Init PROVE FlushInv
  BY Zenon
<1>1. staleTlb = {} /\ author = [p \in Page |-> NONE]
  BY Zenon DEF Init
<1> QED
  BY Zenon, <1>1 DEF FlushInv, UserPages

(* Every step keeps the author of a page from an old translation of it, until the
   reload of CR3 at the latest. *)
LEMMA NextFlush == BaseInv /\ FlushInv /\ [Next]_vars => FlushInv'
<1>s. SUFFICES ASSUME BaseInv, FlushInv, [Next]_vars PROVE FlushInv'
  BY Zenon
<1>0. TypeOK /\ SlotsInv /\ RequestInv /\ FlushInv
  BY Zenon, <1>s DEF BaseInv
<1>1. booted \in Nat /\ P2PAGE_COUNT \in Nat
  BY <1>0, Layout DEF TypeOK
<1>i. ASSUME at = "idle", NEW p \in Page PROVE <<author[p], p>> \notin staleTlb
  BY Zenon, <1>0, <1>i DEF FlushInv
<1>2. ASSUME NEW c \in Core, Boot(c) \/ vmap(c) PROVE FlushInv'
  <2>1. at = "idle" /\ UNCHANGED <<author, staleTlb>> /\ booted' \in {booted, booted + 1}
    BY Zenon, <1>2 DEF Boot, vmap
  <2>2. booted' <= P2PAGE_COUNT + 1 => booted <= P2PAGE_COUNT + 1
    BY <1>1, <2>1
  <2> QED
    BY Zenon, <1>0, <1>i, <2>1, <2>2 DEF FlushInv
<1>3. ASSUME NEW c \in Core, remove_identity(c) PROVE FlushInv'
  <2>1. /\ booted = P2PAGE_COUNT + 1 /\ booted' = booted + 1 /\ at = "idle"
        /\ staleTlb' = staleTlb \cup ((Core \ {c}) \X UserPages) /\ UNCHANGED author
    BY Zenon, <1>3 DEF remove_identity
  <2>2. \A p \in UserPages : author[p] = NONE
    BY <1>0, <1>1, <2>1 DEF FlushInv
  <2>3. ASSUME NEW p \in Page PROVE <<author[p], p>> \notin staleTlb'
    <3>1. p \in UserPages => author[p] \notin Core
      BY Zenon, <2>2, MapperAssumption
    <3> QED
      BY Zenon, <1>i, <2>1, <3>1
  <2>4. ~(booted' <= P2PAGE_COUNT + 1)
    BY <1>1, <2>1
  <2> QED
    BY Zenon, <2>1, <2>3, <2>4 DEF FlushInv
<1>4. ASSUME MapTmp1 \/ MapTmp2 \/ Descend \/ Remap PROVE FlushInv'
  <2>1. UNCHANGED <<author, staleTlb, booted, holder, req>> /\ at' # "idle" /\ at # "idle"
    BY Zenon, <1>4 DEF MapTmp1, MapTmp2, MapTmp, Descend, Remap
  <2> QED
    BY Zenon, <1>0, <2>1 DEF FlushInv
<1>5. ASSUME Leaf PROVE FlushInv'
  <2> DEFINE r == req.page
  <2>1. /\ at = "leaf" /\ at' # "idle" /\ UNCHANGED <<booted, holder>>
        /\ req'.detail = req.detail
        /\ author' = [author EXCEPT ![r] = holder]
    BY Zenon, <1>0, <1>5 DEF Leaf, RequestInv
  <2>2. /\ r \in Page /\ (~req.detail => r \in UserPages)
        /\ booted = P2PAGE_COUNT + 1 => r \notin UserPages
    <3>1. /\ req.pages > 0 /\ req.pages \in Nat /\ r \in Nat
          /\ \A i \in 0..(req.pages - 1) : r + i \in Page
          /\ (~req.detail => r \in UserPages)
          /\ booted = P2PAGE_COUNT + 1 => r \notin UserPages
      BY Zenon, <1>0, <2>1 DEF RequestInv, Requesting, Walking
    <3>2. 0 \in 0..(req.pages - 1) /\ r + 0 = r
      BY <3>1
    <3> QED
      BY Zenon, <3>1, <3>2
  <2>3. /\ author'[r] = holder
        /\ \A q \in Page \ {r} : author'[q] = author[q]
    BY Zenon, <1>0, <2>1, <2>2 DEF TypeOK
  <2>4. /\ req.detail => <<holder, r>> \notin staleTlb'
        /\ \A q \in Page \ {r} : \A c : <<c, q>> \in staleTlb' => <<c, q>> \in staleTlb
    BY Zenon, <1>5 DEF Leaf, LeafFlushed
  <2> HIDE DEF r
  <2>5. ASSUME NEW p \in Page, <<author'[p], p>> \in staleTlb'
        PROVE  ~req.detail /\ author'[p] = holder /\ p \in UserPages
    <3>1. CASE p = r
      BY Zenon, <2>2, <2>3, <2>4, <2>5, <3>1
    <3>2. CASE p # r
      BY Zenon, <1>0, <2>3, <2>4, <2>5, <3>2 DEF FlushInv
    <3> QED
      BY Zenon, <3>1, <3>2
  <2>6. ASSUME booted <= P2PAGE_COUNT + 1, NEW p \in UserPages PROVE author'[p] = NONE
    <3>1. booted = P2PAGE_COUNT + 1
      BY <1>0, <1>1, <2>1, <2>6 DEF SlotsInv
    <3>2. p \in Page \ {r}
      BY Zenon, <2>2, <3>1 DEF UserPages
    <3> QED
      BY Zenon, <1>0, <2>3, <2>6, <3>2 DEF FlushInv
  <2> QED
    BY Zenon, <2>1, <2>5, <2>6 DEF FlushInv
<1>6. ASSUME Return PROVE FlushInv'
  <2>1. /\ UNCHANGED <<author, booted>>
        /\ staleTlb' = IF req.detail THEN staleTlb
                       ELSE {x \in staleTlb : x[1] # holder \/ x[2] >= KVMSPACE}
    BY Zenon, <1>6 DEF Return
  <2>2. ASSUME NEW p \in Page, <<author[p], p>> \in staleTlb' PROVE FALSE
    <3>1. <<author[p], p>> \in staleTlb
      BY Zenon, <2>1, <2>2
    <3>2. ~req.detail /\ author[p] = holder /\ p \in UserPages
      BY Zenon, <1>0, <3>1 DEF FlushInv
    <3>3. ~(p >= KVMSPACE)
      BY <3>2, MapperAssumption DEF UserPages
    <3> QED
      BY Zenon, <2>1, <2>2, <3>2, <3>3
  <2> QED
    BY Zenon, <1>0, <2>1, <2>2 DEF FlushInv
<1>7. CASE UNCHANGED vars
  BY Zenon, <1>0, <1>7 DEF FlushInv, vars, mapperVars
<1> QED
  BY Zenon, <1>s, <1>2, <1>3, <1>4, <1>5, <1>6, <1>7 DEF Next
=============================================================================

------------------------------- MODULE VCache -------------------------------
(***************************************************************************)
(* The VCache (mem/virt/vcache.rs): a fixed window of virtual pages that   *)
(* the kernel mapper points at page tables.  A slot is the entry e of the  *)
(* window's page table t.  An unmapped slot stays mapped, "lazy", until no *)
(* slot is free; then the lazy slots of one table are taken back.          *)
(*                                                                         *)
(* Every call runs under VCACHE.write().  A core may cache a translation   *)
(* of a slot at any time while it is present; <<c, s>> is in `stale' when  *)
(* core c may hold one that is not the entry's any more.                   *)
(***************************************************************************)
EXTENDS FiniteSetsExt, Integers

CONSTANTS
  Core,           \* the cores, each with its TLB
  P2PAGE_COUNT,   \* the page tables of the window: 4
  P1_ENTRIES,     \* the entries of a page table: 512
  NULL            \* the frame at address 0

ASSUME WindowAssumption ==
  /\ P2PAGE_COUNT \in Nat \ {0}
  /\ P1_ENTRIES \in Nat
  /\ P1_ENTRIES >= P2PAGE_COUNT + 3

VARIABLES
  p2_freecount,   \* VCacheState.p2_freecount
  p2_lazycount,   \* VCacheState.p2_lazycount
  p1_age,         \* VCacheState.p1_age
  present,        \* the slots whose P1 entry has PRESENT
  entry,          \* the frame in the P1 entry of each slot
  stale           \* the cores that may hold an old translation of a slot

vcacheVars == <<p2_freecount, p2_lazycount, p1_age, present, entry, stale>>

Table == 0..(P2PAGE_COUNT - 1)
Entry == 0..(P1_ENTRIES - 1)
Slot == Table \X Entry

VCacheInit ==
  /\ p2_freecount = [t \in Table |-> P1_ENTRIES]
  /\ p2_lazycount = [t \in Table |-> 0]
  /\ p1_age = [s \in Slot |-> 0]
  /\ present = {}
  /\ entry = [s \in Slot |-> NULL]
  /\ stale = {}

(* Mutant of Flush: the translation is not invalidated. *)
NoFlush(c, s, unpresent) ==
  stale' = stale \cup (Core \X (({s} \cap present) \cup unpresent))

(* MapperFlush::flush: the entry of s has changed and core c invalidates its
   translation; the slots in unpresent have lost PRESENT, and nobody does. *)
Flush(c, s, unpresent) ==
  stale' = (stale \cup (Core \X (({s} \cap present) \cup unpresent)))
             \ {<<c, s>>}

FreeTables == {t \in Table : p2_freecount[t] # 0}
LazyTables == {t \in Table : p2_lazycount[t] # 0}
Absent(t) == {e \in Entry : <<t, e>> \notin present}

(* The first n elements of S. *)
FirstOf(S, n) == {e \in S : Cardinality({d \in S : d < e}) < n}

(* Mutant of Reclaimed: entries are taken back whatever their age. *)
ReclaimedAny(t) == FirstOf(Entry, p2_lazycount[0])

(* VCache::map: the lazy entries of table t that are taken back, at most as
   many as table 0 has (lazy_pages_count is set in the first iteration). *)
Reclaimed(t) ==
  FirstOf({e \in Entry : p1_age[<<t, e>>] # 0}, p2_lazycount[0])

(* The unwrap()s and the subtraction of VCache::map that panic. *)
MapPanics ==
  IF FreeTables # {} THEN Absent(Min(FreeTables)) = {}
  ELSE LazyTables = {} \/ Reclaimed(Min(LazyTables)) = {}

(* VCache::map: the slot it returns, the first absent entry of the first table
   with a free one, or the last entry of those taken back. *)
MapSlot ==
  IF FreeTables # {} THEN <<Min(FreeTables), Min(Absent(Min(FreeTables)))>>
  ELSE <<Min(LazyTables), Max(Reclaimed(Min(LazyTables)))>>

(* VCache::map on core c, where it does not panic: s is MapSlot, and taken what
   is taken back for it. *)
map(c, frame, s) ==
  /\ IF FreeTables # {}
     THEN /\ p2_freecount' = [p2_freecount EXCEPT ![s[1]] = @ - 1]
          /\ p1_age' = [p1_age EXCEPT ![s] = 0]
          /\ present' = present \cup {s}
          /\ Flush(c, s, {})
          /\ UNCHANGED p2_lazycount
     ELSE \E taken \in {{s[1]} \X Reclaimed(s[1])} :
            /\ p2_freecount' = [p2_freecount EXCEPT
                                  ![s[1]] = Cardinality(taken) - 1]
            /\ p2_lazycount' = [p2_lazycount EXCEPT ![s[1]] = 0]
            /\ p1_age' = [u \in Slot |-> IF u \in taken THEN 0 ELSE p1_age[u]]
            /\ present' = (present \ taken) \cup {s}
            /\ Flush(c, s, taken \ {s})
  /\ entry' = [entry EXCEPT ![s] = frame]

(* VCache::remap on core c; an entry that has the frame already is left. *)
remap(c, s, frame) ==
  IF s \in present /\ entry[s] = frame
  THEN UNCHANGED vcacheVars
  ELSE /\ entry' = [entry EXCEPT ![s] = frame]
       /\ present' = present \cup {s}
       /\ Flush(c, s, {})
       /\ UNCHANGED <<p2_freecount, p2_lazycount, p1_age>>

(* Mutant of unmap_many: the slots are made lazy twice. *)
unmap_many_twice(pages) ==
  /\ p1_age' = [s \in Slot |-> IF s \in pages THEN 1 ELSE p1_age[s]]
  /\ p2_lazycount' = [t \in Table |->
       p2_lazycount[t] + 2 * Cardinality({s \in pages : s[1] = t})]
  /\ UNCHANGED <<p2_freecount, present, entry, stale>>

(* VCache::unmap_many. *)
unmap_many(pages) ==
  /\ p1_age' = [s \in Slot |-> IF s \in pages THEN 1 ELSE p1_age[s]]
  /\ p2_lazycount' = [t \in Table |->
       p2_lazycount[t] + Cardinality({s \in pages : s[1] = t})]
  /\ UNCHANGED <<p2_freecount, present, entry, stale>>

----------------------------------------------------------------------------
VCacheTypeOK ==
  /\ p2_freecount \in [Table -> 0..P1_ENTRIES]
  /\ p2_lazycount \in [Table -> 0..P1_ENTRIES]
  /\ p1_age \in [Slot -> {0, 1}]
  /\ present \subseteq Slot
  /\ DOMAIN entry = Slot
  /\ stale \subseteq Core \X Slot

(* The counters of VCacheState say what the entries say, through every round
   of lazy reclaiming: p2_freecount counts the entries that are not present
   and p2_lazycount those that were unmapped and not yet taken back. *)
CountsMatch ==
  \A t \in Table :
    /\ p2_freecount[t] = Cardinality(Absent(t))
    /\ p2_lazycount[t] = Cardinality({e \in Entry : p1_age[<<t, e>>] # 0})
=============================================================================

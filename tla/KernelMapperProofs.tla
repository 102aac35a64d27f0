------------------------- MODULE KernelMapperProofs -------------------------
(***************************************************************************)
(* VCache keeps its promises, and so for any number of cores, any window   *)
(* and any size of page tables: the mapper finds its slots, uses them      *)
(* alone and through translations that are not stale, and when vmap has    *)
(* returned every page has the frame it was last asked to have.            *)
(***************************************************************************)
EXTENDS KernelMapperTree, FiniteSetTheorems, WellFoundedInduction

(* The least number of a set is one of its numbers. *)
LEMMA MinIn ==
  ASSUME NEW S \in SUBSET Nat, S # {}
  PROVE  Min(S) \in S /\ \A y \in S : Min(S) <= y
<1> DEFINE Less == OpToRel(<, Nat)
<1>1. IsWellFoundedOn(Less, Nat)
  BY Zenon, NatLessThanWellFounded
<1>2. Less = {ss \in Nat \X Nat : ss[1] < ss[2]}
  BY Zenon DEF OpToRel
<1> HIDE DEF Less
<1>3. PICK x \in S : \A y \in S : ~ (<<y, x>> \in Less)
  BY Zenon, <1>1, WFMin
<1>4. \A y \in S : x <= y
  <2> SUFFICES ASSUME NEW y \in S, ~(x <= y) PROVE FALSE
    BY Zenon
  <2>1. x \in Nat /\ y \in Nat /\ y < x
    OBVIOUS
  <2>2. <<y, x>> \in Less
    BY Zenon, <1>2, <2>1
  <2> QED
    BY Zenon, <1>3, <2>2
<1> QED
  BY Zenon, <1>4 DEF Min

(* The greatest number of a bounded set is one of its numbers. *)
LEMMA MaxIn ==
  ASSUME NEW n \in Nat, NEW S \in SUBSET (0..n), S # {}
  PROVE  Max(S) \in S
<1> DEFINE T == {n - y : y \in S}
<1>1. T \in SUBSET Nat /\ T # {}
  <2>1. \A y \in S : n - y \in Nat
    OBVIOUS
  <2>2. PICK y \in S : TRUE
    BY Zenon
  <2>3. n - y \in T
    BY Zenon
  <2> QED
    BY Zenon, <2>1, <2>3
<1>2. Min(T) \in T /\ \A y \in T : Min(T) <= y
  <2> HIDE DEF T
  <2> QED
    BY Zenon, <1>1, MinIn
<1>3. PICK x \in S : Min(T) = n - x
  BY Zenon, <1>2
<1>4. \A y \in S : x >= y
  <2> SUFFICES ASSUME NEW y \in S PROVE x >= y
    BY Zenon
  <2>1. n - y \in T
    BY Zenon
  <2>2. n - x <= n - y
    BY Zenon, <1>2, <1>3, <2>1
  <2>3. x \in 0..n /\ y \in 0..n
    BY Zenon
  <2> QED
    BY <2>2, <2>3
<1> QED
  BY Zenon, <1>4 DEF Max

----------------------------------------------------------------------------
(* The lazy entries of a table of the window. *)
LazyOf(t) == {e \in Entry : p1_age[<<t, e>>] # 0}

(* Entries can be counted. *)
LEMMA Counting ==
  ASSUME NEW S \in SUBSET Entry
  PROVE  /\ IsFiniteSet(S) /\ Cardinality(S) \in 0..P1_ENTRIES
         /\ Cardinality(S) = 0 <=> S = {}
<1>1. P1_ENTRIES \in Nat /\ P1_ENTRIES >= 1
  BY WindowAssumption
<1>2. IsFiniteSet(Entry) /\ Cardinality(Entry) = P1_ENTRIES
  BY <1>1, FS_Interval DEF Entry
<1>3. IsFiniteSet(S) /\ Cardinality(S) <= P1_ENTRIES
  BY Zenon, <1>2, FS_Subset
<1>4. Cardinality(S) \in Nat
  BY Zenon, <1>3, FS_CardinalityType
<1>5. Cardinality(S) = 0 <=> S = {}
  BY Zenon, <1>3, FS_EmptySet
<1> QED
  BY <1>1, <1>3, <1>4, <1>5

(* There is one entry less without one of them. *)
LEMMA OneLess ==
  ASSUME NEW S \in SUBSET Entry, NEW e \in S
  PROVE  Cardinality(S \ {e}) = Cardinality(S) - 1
<1>1. IsFiniteSet(S)
  BY Zenon, Counting
<1> QED
  BY Zenon, <1>1, FS_RemoveElement

(* VCache::map: as many entries as there are are all of them. *)
LEMMA TakesAll ==
  ASSUME NEW S \in SUBSET Entry
  PROVE  FirstOf(S, Cardinality(S)) = S
<1>1. ASSUME NEW e \in S PROVE Cardinality({d \in S : d < e}) < Cardinality(S)
  <2> DEFINE T == {d \in S : d < e}
  <2>1. T \in SUBSET S /\ T \in SUBSET Entry
    BY Zenon
  <2>2. e \notin T
    BY DEF Entry
  <2> HIDE DEF T
  <2>3. IsFiniteSet(S) /\ Cardinality(S) \in Nat
    BY Counting
  <2>4. Cardinality(T) \in Nat
    BY <2>1, Counting
  <2>5. Cardinality(T) <= Cardinality(S) /\ (Cardinality(S) = Cardinality(T) => S = T)
    BY Zenon, <2>1, <2>3, FS_Subset
  <2>6. Cardinality(T) # Cardinality(S)
    BY Zenon, <2>2, <2>5
  <2>7. Cardinality(T) < Cardinality(S)
    BY <2>3, <2>4, <2>5, <2>6
  <2> QED
    BY Zenon, <2>7 DEF T
<1> QED
  BY Zenon, <1>1 DEF FirstOf

(* A slot is a table and an entry. *)
LEMMA SlotParts ==
  /\ \A s \in Slot : s[1] \in Table /\ s[2] \in Entry /\ s = <<s[1], s[2]>>
  /\ \A t \in Table, e \in Entry : <<t, e>> \in Slot
  BY DEF Slot

(* VCache::map finds a slot that is neither fixed nor held, if table 0 has one:
   one that is absent, or else the last lazy one of table 0. *)
LEMMA MapOk ==
  ASSUME VCacheTypeOK, CountsMatch, NEW F \in SUBSET Slot, present = F \cup Lazy,
         F \cap Lazy = {}, NEW x \in Entry, <<0, x>> \notin F
  PROVE  /\ ~MapPanics /\ MapSlot \in Slot \ F
         /\ FreeTables # {} => MapSlot \notin present
         /\ FreeTables = {} =>
              MapSlot[1] = 0 /\ MapSlot \in Lazy /\ Reclaimed(0) = LazyOf(0)
<1>0. 0 \in Table /\ Table \subseteq Nat /\ Entry \subseteq Nat
  BY WindowAssumption DEF Table, Entry
<1>1. CASE FreeTables # {}
  <2> DEFINE t == Min(FreeTables) e == Min(Absent(t))
  <2>1. FreeTables \in SUBSET Nat
    BY Zenon, <1>0 DEF FreeTables
  <2>2. t \in FreeTables
    BY Zenon, <1>1, <2>1, MinIn
  <2>3. t \in Table /\ p2_freecount[t] # 0
    BY Zenon, <2>2 DEF FreeTables
  <2>4. Absent(t) \in SUBSET Entry
    BY Zenon DEF Absent
  <2>5. Absent(t) # {}
    BY Zenon, <2>3, <2>4, Counting DEF CountsMatch
  <2>6. e \in Absent(t)
    BY Zenon, <1>0, <2>4, <2>5, MinIn
  <2>7. MapSlot = <<t, e>>
    BY Zenon, <1>1 DEF MapSlot
  <2>8. ~MapPanics
    BY Zenon, <1>1, <2>5 DEF MapPanics
  <2> HIDE DEF t, e
  <2>9. <<t, e>> \in Slot /\ <<t, e>> \notin present
    BY Zenon, <2>3, <2>6, SlotParts DEF Absent
  <2> QED
    BY Zenon, <1>1, <2>7, <2>8, <2>9
<1>2. CASE FreeTables = {}
  <2>1. p2_freecount[0] = 0
    BY Zenon, <1>0, <1>2 DEF FreeTables
  <2>2. Absent(0) = {}
    <3>1. Absent(0) \in SUBSET Entry
      BY Zenon DEF Absent
    <3> QED
      BY Zenon, <1>0, <2>1, <3>1, Counting DEF CountsMatch
  <2>3. <<0, x>> \in Lazy
    BY Zenon, <2>2 DEF Absent
  <2>4. x \in LazyOf(0) /\ LazyOf(0) \in SUBSET Entry
    BY Zenon, <2>3 DEF Lazy, LazyOf
  <2>5. p2_lazycount[0] = Cardinality(LazyOf(0))
    BY Zenon, <1>0 DEF CountsMatch, LazyOf
  <2>6. p2_lazycount[0] # 0
    BY Zenon, <2>4, <2>5, Counting
  <2>7. 0 \in LazyTables /\ LazyTables \in SUBSET Nat
    BY Zenon, <1>0, <2>6 DEF LazyTables
  <2>8. Min(LazyTables) = 0
    <3>1. Min(LazyTables) \in LazyTables /\ \A y \in LazyTables : Min(LazyTables) <= y
      BY Zenon, <2>7, MinIn
    <3>2. Min(LazyTables) \in Nat /\ Min(LazyTables) <= 0
      BY Zenon, <2>7, <3>1
    <3> QED
      BY <3>2
  <2>9. Reclaimed(0) = LazyOf(0)
    BY Zenon, <2>4, <2>5, TakesAll DEF Reclaimed, LazyOf
  <2>10. Max(LazyOf(0)) \in LazyOf(0)
    <3>1. P1_ENTRIES - 1 \in Nat /\ Entry = 0..(P1_ENTRIES - 1)
      BY WindowAssumption DEF Entry
    <3>2. LazyOf(0) \in SUBSET (0..(P1_ENTRIES - 1)) /\ LazyOf(0) # {}
      BY Zenon, <2>4, <3>1
    <3> QED
      BY Zenon, <3>1, <3>2, MaxIn
  <2>11. MapSlot = <<0, Max(LazyOf(0))>>
    BY Zenon, <1>2, <2>8, <2>9 DEF MapSlot
  <2>12. ~MapPanics
    BY Zenon, <1>2, <2>4, <2>7, <2>8, <2>9 DEF MapPanics
  <2>13. MapSlot \in Lazy /\ MapSlot[1] = 0
    BY Zenon, <1>0, <2>10, <2>11, SlotParts DEF LazyOf, Lazy
  <2> QED
    BY Zenon, <1>2, <2>9, <2>12, <2>13 DEF Lazy
<1> QED
  BY Zenon, <1>1, <1>2

(* VCache::map: the slot joins those in use, which keep their entries and their
   translations; the counters keep up. *)
LEMMA MapKeeps ==
  ASSUME VCacheTypeOK, CountsMatch, NEW F \in SUBSET Slot, present = F \cup Lazy,
         F \cap Lazy = {}, NEW x \in Entry, <<0, x>> \notin F,
         NEW c \in Core, NEW frame, NEW s, s = MapSlot, map(c, frame, s)
  PROVE  Taken(c, frame, s, F) /\ (FreeTables # {} => Lazy' = Lazy /\ stale' \subseteq stale)
<1>1. /\ s \in Slot \ F
      /\ FreeTables # {} => s \notin present
      /\ FreeTables = {} => s[1] = 0 /\ s \in Lazy /\ Reclaimed(0) = LazyOf(0)
  BY Zenon, MapOk
<1>2. s[1] \in Table /\ s[2] \in Entry /\ s = <<s[1], s[2]>>
  BY Zenon, <1>1, SlotParts
<1>3. entry' = [entry EXCEPT ![s] = frame] /\ DOMAIN entry' = Slot
  BY Zenon DEF map, VCacheTypeOK
<1>t. /\ p2_freecount \in [Table -> 0..P1_ENTRIES] /\ p2_lazycount \in [Table -> 0..P1_ENTRIES]
      /\ p1_age \in [Slot -> {0, 1}] /\ present \subseteq Slot
      /\ stale \subseteq Core \X Slot
  BY Zenon DEF VCacheTypeOK
<1>4. CASE FreeTables # {}
  <2>1. /\ p2_freecount' = [p2_freecount EXCEPT ![s[1]] = @ - 1]
        /\ p1_age' = [p1_age EXCEPT ![s] = 0] /\ present' = present \cup {s}
        /\ stale' = (stale \cup (Core \X (({s} \cap present) \cup {}))) \ {<<c, s>>}
        /\ p2_lazycount' = p2_lazycount
    BY Zenon, <1>4 DEF map, Flush
  <2>2. p1_age[s] = 0 /\ p1_age' = p1_age
    <3>1. p1_age[s] = 0
      BY Zenon, <1>1, <1>4 DEF Lazy
    <3> QED
      BY Zenon, <1>1, <1>t, <2>1, <3>1
  <2>3. Lazy' = Lazy
    BY Zenon, <2>2 DEF Lazy
  <2>4. stale' = stale \ {<<c, s>>}
    <3>1. {s} \cap present = {}
      BY Zenon, <1>1, <1>4
    <3> QED
      BY Zenon, <2>1, <3>1
  <2>5. ASSUME NEW t \in Table
        PROVE  /\ p2_freecount'[t] = Cardinality(Absent(t)')
               /\ p2_lazycount'[t] = Cardinality(LazyOf(t)')
               /\ p2_freecount'[t] \in 0..P1_ENTRIES
    <3>1. LazyOf(t)' = LazyOf(t)
      BY Zenon, <2>2 DEF LazyOf
    <3>2. p2_freecount[t] = Cardinality(Absent(t)) /\ p2_lazycount[t] = Cardinality(LazyOf(t))
      BY Zenon DEF CountsMatch, LazyOf
    <3>3. CASE t = s[1]
      <4>1. Absent(t)' = Absent(t) \ {s[2]}
        BY <1>2, <2>1, <3>3 DEF Absent
      <4>2. s[2] \in Absent(t) /\ Absent(t) \in SUBSET Entry
        BY Zenon, <1>1, <1>2, <1>4, <3>3 DEF Absent
      <4>4. Cardinality(Absent(t) \ {s[2]}) = Cardinality(Absent(t)) - 1
        BY Zenon, <4>2, OneLess
      <4>5. p2_freecount'[t] = p2_freecount[t] - 1
        BY Zenon, <1>2, <1>t, <2>1, <3>3
      <4>6. Absent(t)' \in SUBSET Entry
        BY Zenon, <4>1, <4>2
      <4>7. Cardinality(Absent(t)') \in 0..P1_ENTRIES
        BY Zenon, <4>6, Counting
      <4> QED
        BY Zenon, <2>1, <3>1, <3>2, <4>1, <4>4, <4>5, <4>7
    <3>4. CASE t # s[1]
      <4>1. Absent(t)' = Absent(t)
        BY <1>2, <2>1, <3>4 DEF Absent
      <4>2. p2_freecount'[t] = p2_freecount[t]
        BY Zenon, <1>2, <1>t, <2>1, <3>4
      <4> QED
        BY Zenon, <1>t, <2>1, <3>1, <3>2, <4>1, <4>2
    <3> QED
      BY Zenon, <3>3, <3>4
  <2>6. VCacheTypeOK'
    <3>1. p2_freecount' \in [Table -> 0..P1_ENTRIES]
      BY Zenon, <1>t, <2>1, <2>5
    <3> QED
      BY Zenon, <1>1, <1>3, <1>t, <2>1, <2>2, <2>4, <3>1 DEF VCacheTypeOK
  <2>7. CountsMatch'
    BY Zenon, <2>5 DEF CountsMatch, LazyOf
  <2>8. present' = F \cup {s} \cup Lazy' /\ Lazy' \subseteq Lazy \ {s}
    BY Zenon, <1>1, <1>4, <2>1, <2>3
  <2> QED
    BY Zenon, <1>1, <1>3, <2>3, <2>4, <2>6, <2>7, <2>8 DEF Taken
<1>5. CASE FreeTables = {}
  <2> DEFINE taken == {0} \X LazyOf(0)
  <2>0. s[1] = 0 /\ s \in Lazy /\ Reclaimed(s[1]) = LazyOf(0) /\ 0 \in Table
    BY Zenon, <1>1, <1>2, <1>5
  <2>1. /\ p2_freecount' = [p2_freecount EXCEPT ![0] = Cardinality(taken) - 1]
        /\ p2_lazycount' = [p2_lazycount EXCEPT ![0] = 0]
        /\ p1_age' = [u \in Slot |-> IF u \in taken THEN 0 ELSE p1_age[u]]
        /\ present' = (present \ taken) \cup {s}
        /\ stale' = (stale \cup (Core \X (({s} \cap present) \cup (taken \ {s})))) \ {<<c, s>>}
    BY Zenon, <1>5, <2>0 DEF map, Flush
  <2>2. \A t \in Table, e \in Entry : <<t, e>> \in taken <=> t = 0 /\ e \in LazyOf(0)
    BY Zenon
  <2>3. taken \subseteq Lazy /\ taken \subseteq Slot /\ s \in taken
    BY <1>2, <2>0, SlotParts DEF LazyOf, Lazy
  <2>4. LazyOf(0) \in SUBSET Entry /\ s[2] \in LazyOf(0)
    BY Zenon, <1>2, <2>0 DEF LazyOf, Lazy
  <2>5. Cardinality(taken) = Cardinality(LazyOf(0))
    <3>1. IsFiniteSet(LazyOf(0)) /\ Cardinality(LazyOf(0)) \in Nat
      BY <2>4, Counting
    <3>2. IsFiniteSet({0}) /\ Cardinality({0}) = 1
      BY Zenon, FS_Singleton
    <3>3. Cardinality(taken) = Cardinality({0}) * Cardinality(LazyOf(0))
      BY Zenon, <3>1, <3>2, FS_Product
    <3> QED
      BY <3>1, <3>2, <3>3
  <2> HIDE DEF taken
  <2>6. Lazy' = Lazy \ taken
    BY Zenon, <1>t, <2>1, <2>3 DEF Lazy
  <2>7. present' = F \cup {s} \cup Lazy' /\ Lazy' \subseteq Lazy \ {s}
    BY Zenon, <2>1, <2>3, <2>6
  <2>8. /\ LazyOf(0)' = {} /\ Absent(0)' = LazyOf(0) \ {s[2]}
        /\ \A t \in Table \ {0} : LazyOf(t)' = LazyOf(t) /\ Absent(t)' = Absent(t)
    <3>1. ASSUME NEW t \in Table, NEW e \in Entry
          PROVE  p1_age'[<<t, e>>] = IF <<t, e>> \in taken THEN 0 ELSE p1_age[<<t, e>>]
      <4>1. <<t, e>> \in Slot
        BY Zenon, SlotParts
      <4> QED
        BY Zenon, <2>1, <4>1
    <3>2. LazyOf(0)' = {}
      <4> SUFFICES ASSUME NEW e \in Entry, p1_age'[<<0, e>>] # 0 PROVE FALSE
        BY Zenon DEF LazyOf
      <4>1. <<0, e>> \notin taken /\ p1_age[<<0, e>>] # 0
        BY Zenon, <2>0, <3>1
      <4> QED
        BY Zenon, <2>0, <2>2, <4>1 DEF LazyOf
    <3>3. Absent(0) = {}
      <4>1. p2_freecount[0] = 0
        BY Zenon, <1>5, <2>0 DEF FreeTables
      <4>2. Absent(0) \in SUBSET Entry
        BY Zenon DEF Absent
      <4> QED
        BY Zenon, <2>0, <4>1, <4>2, Counting DEF CountsMatch
    <3>4. Absent(0)' = LazyOf(0) \ {s[2]}
      <4>1. ASSUME NEW e \in Entry
            PROVE  <<0, e>> \notin present' <=> e \in LazyOf(0) /\ e # s[2]
        <5>1. <<0, e>> \in present
          BY Zenon, <3>3 DEF Absent
        <5>2. <<0, e>> = s <=> e = s[2]
          BY <1>2, <2>0
        <5>3. <<0, e>> \in taken <=> e \in LazyOf(0)
          BY Zenon, <2>0, <2>2
        <5> QED
          BY Zenon, <2>1, <5>1, <5>2, <5>3
      <4> QED
        BY Zenon, <2>4, <4>1 DEF Absent
    <3>5. ASSUME NEW t \in Table \ {0} PROVE LazyOf(t)' = LazyOf(t) /\ Absent(t)' = Absent(t)
      <4>1. ASSUME NEW e \in Entry
            PROVE  /\ p1_age'[<<t, e>>] = p1_age[<<t, e>>]
                   /\ <<t, e>> \in present' <=> <<t, e>> \in present
        <5>1. <<t, e>> \notin taken /\ <<t, e>> # s
          BY <1>2, <2>0, <2>2
        <5> QED
          BY Zenon, <2>1, <3>1, <5>1
      <4> QED
        BY Zenon, <4>1 DEF LazyOf, Absent
    <3> QED
      BY Zenon, <3>2, <3>4, <3>5
  <2>9. ASSUME NEW t \in Table
        PROVE  /\ p2_freecount'[t] = Cardinality(Absent(t)')
               /\ p2_lazycount'[t] = Cardinality(LazyOf(t)')
               /\ p2_freecount'[t] \in 0..P1_ENTRIES
    <3>1. p2_freecount[t] = Cardinality(Absent(t)) /\ p2_lazycount[t] = Cardinality(LazyOf(t))
      BY Zenon DEF CountsMatch, LazyOf
    <3>2. CASE t = 0
      <4>2. Cardinality(LazyOf(0) \ {s[2]}) = Cardinality(LazyOf(0)) - 1
        BY Zenon, <2>4, OneLess
      <4>3. p2_freecount'[0] = Cardinality(taken) - 1 /\ p2_lazycount'[0] = 0
        BY Zenon, <1>t, <2>0, <2>1
      <4>4. Cardinality({}) = 0
        BY Zenon, FS_EmptySet
      <4>5. Absent(0)' \in SUBSET Entry
        BY Zenon, <2>4, <2>8
      <4>6. Cardinality(Absent(0)') \in 0..P1_ENTRIES
        BY Zenon, <4>5, Counting
      <4>7. p2_freecount'[0] = Cardinality(Absent(0)')
        BY Zenon, <2>5, <2>8, <4>2, <4>3
      <4> QED
        BY Zenon, <2>8, <3>2, <4>3, <4>4, <4>6, <4>7
    <3>3. CASE t # 0
      <4>1. p2_freecount'[t] = p2_freecount[t] /\ p2_lazycount'[t] = p2_lazycount[t]
        BY Zenon, <1>t, <2>0, <2>1, <3>3
      <4> QED
        BY Zenon, <1>t, <2>8, <3>1, <3>3, <4>1
    <3> QED
      BY Zenon, <3>2, <3>3
  <2>10. CountsMatch'
    BY Zenon, <2>9 DEF CountsMatch, LazyOf
  <2>11. stale' \subseteq Core \X Slot
    BY Zenon, <1>1, <1>t, <2>1, <2>3
  <2>12. VCacheTypeOK'
    <3>1. p2_freecount' \in [Table -> 0..P1_ENTRIES]
      BY Zenon, <1>t, <2>1, <2>9
    <3>2. p2_lazycount' \in [Table -> 0..P1_ENTRIES]
      <4>1. 0 \in 0..P1_ENTRIES
        BY WindowAssumption
      <4> QED
        BY Zenon, <1>t, <2>0, <2>1, <4>1
    <3>3. p1_age' \in [Slot -> {0, 1}]
      BY Zenon, <1>t, <2>1
    <3>4. present' \subseteq Slot
      BY Zenon, <1>1, <1>t, <2>1
    <3> QED
      BY Zenon, <1>3, <2>11, <3>1, <3>2, <3>3, <3>4 DEF VCacheTypeOK
  <2>13. <<c, s>> \notin stale'
    BY Zenon, <2>1
  <2>14. ASSUME NEW d \in Core, NEW u \in F, <<d, u>> \notin stale PROVE <<d, u>> \notin stale'
    <3>1. u \notin taken /\ u # s
      BY Zenon, <2>0, <2>3
    <3> QED
      BY Zenon, <2>1, <2>14, <3>1
  <2> QED
    BY Zenon, <1>1, <1>3, <1>5, <2>7, <2>10, <2>12, <2>13, <2>14 DEF Taken
<1> QED
  BY Zenon, <1>4, <1>5

(* VCache::unmap_many: the slots join the lazy ones. *)
LEMMA UnmapKeeps ==
  ASSUME VCacheTypeOK, CountsMatch, NEW pages \in SUBSET Slot, pages \cap Lazy = {},
         unmap_many(pages)
  PROVE  /\ VCacheTypeOK' /\ CountsMatch' /\ Lazy' = Lazy \cup pages
         /\ UNCHANGED <<present, entry, stale>>
<1>1. /\ p1_age' = [s \in Slot |-> IF s \in pages THEN 1 ELSE p1_age[s]]
      /\ p2_lazycount' = [t \in Table |->
           p2_lazycount[t] + Cardinality({s \in pages : s[1] = t})]
      /\ UNCHANGED <<p2_freecount, present, entry, stale>>
  BY Zenon DEF unmap_many
<1>2. p1_age \in [Slot -> {0, 1}] /\ p2_freecount \in [Table -> 0..P1_ENTRIES]
  BY Zenon DEF VCacheTypeOK
<1>3. Lazy' = Lazy \cup pages
  BY <1>1, <1>2 DEF Lazy
<1>4. ASSUME NEW t \in Table
      PROVE  /\ p2_lazycount'[t] = Cardinality(LazyOf(t)')
             /\ p2_lazycount'[t] \in 0..P1_ENTRIES
  <2> DEFINE G == {s \in pages : s[1] = t} H == {e \in Entry : <<t, e>> \in pages}
  <2>1. G = {t} \X H
    BY SlotParts
  <2>2. H \in SUBSET Entry /\ LazyOf(t) \in SUBSET Entry
    BY Zenon DEF LazyOf
  <2>3. LazyOf(t)' = LazyOf(t) \cup H
    <3>1. ASSUME NEW e \in Entry
          PROVE  p1_age'[<<t, e>>] # 0 <=> p1_age[<<t, e>>] # 0 \/ <<t, e>> \in pages
      <4>1. <<t, e>> \in Slot
        BY Zenon, SlotParts
      <4>2. p1_age'[<<t, e>>] = IF <<t, e>> \in pages THEN 1 ELSE p1_age[<<t, e>>]
        BY Zenon, <1>1, <4>1
      <4> QED
        BY <4>2
    <3> QED
      BY Zenon, <3>1 DEF LazyOf
  <2>4. LazyOf(t) \cap H = {}
    <3>1. \A e \in Entry : <<t, e>> \in Slot
      BY Zenon, SlotParts
    <3> QED
      BY Zenon, <3>1 DEF LazyOf, Lazy
  <2>5. p2_lazycount'[t] = p2_lazycount[t] + Cardinality(G)
    BY Zenon, <1>1
  <2>6. p2_lazycount[t] = Cardinality(LazyOf(t))
    BY Zenon DEF CountsMatch, LazyOf
  <2> HIDE DEF G, H
  <2>7. /\ IsFiniteSet(H) /\ Cardinality(H) \in Nat
        /\ IsFiniteSet(LazyOf(t)) /\ Cardinality(LazyOf(t)) \in Nat
    BY <2>2, Counting
  <2>8. Cardinality(G) = Cardinality(H)
    <3>1. IsFiniteSet({t}) /\ Cardinality({t}) = 1
      BY Zenon, FS_Singleton
    <3>2. Cardinality({t} \X H) = Cardinality({t}) * Cardinality(H)
      BY Zenon, <2>7, <3>1, FS_Product
    <3> QED
      BY <2>1, <2>7, <3>1, <3>2
  <2>9. Cardinality(LazyOf(t) \cup H) = Cardinality(LazyOf(t)) + Cardinality(H)
    <3>1. Cardinality(LazyOf(t) \cup H)
            = Cardinality(LazyOf(t)) + Cardinality(H) - Cardinality(LazyOf(t) \cap H)
      BY Zenon, <2>7, FS_Union
    <3>2. Cardinality(LazyOf(t) \cap H) = 0
      BY Zenon, <2>4, FS_EmptySet
    <3> QED
      BY <2>7, <3>1, <3>2
  <2>10. LazyOf(t)' \in SUBSET Entry
    BY Zenon, <2>2, <2>3
  <2>11. Cardinality(LazyOf(t)') \in 0..P1_ENTRIES
    BY Zenon, <2>10, Counting
  <2> QED
    BY Zenon, <2>3, <2>5, <2>6, <2>8, <2>9, <2>11
<1>5. CountsMatch'
  <2>1. \A t \in Table : Absent(t)' = Absent(t)
    BY Zenon, <1>1 DEF Absent
  <2> QED
    BY Zenon, <1>1, <1>4, <2>1 DEF CountsMatch, LazyOf
<1>6. VCacheTypeOK'
  <2>1. p2_lazycount' \in [Table -> 0..P1_ENTRIES]
    BY Zenon, <1>1, <1>4
  <2>2. p1_age' \in [Slot -> {0, 1}]
    BY Zenon, <1>1, <1>2
  <2> QED
    BY Zenon, <1>1, <2>1, <2>2 DEF VCacheTypeOK
<1> QED
  BY Zenon, <1>1, <1>3, <1>5, <1>6

(* So VCache keeps its promises. *)
LEMMA MapKept == MapPromise
<1> SUFFICES ASSUME NEW F \in SUBSET Slot, Room(F)
             PROVE  /\ ~MapPanics
                    /\ \A c \in Core : map(c, NULL, MapSlot) => Taken(c, NULL, MapSlot, F)
  BY Zenon DEF MapPromise
<1>1. PICK x \in Entry : <<0, x>> \notin F
  BY Zenon DEF Room
<1>2. VCacheTypeOK /\ CountsMatch /\ present = F \cup Lazy /\ F \cap Lazy = {}
  BY Zenon DEF Room
<1>3. ~MapPanics
  BY Zenon, <1>1, <1>2, MapOk
<1>4. ASSUME NEW c \in Core, map(c, NULL, MapSlot) PROVE Taken(c, NULL, MapSlot, F)
  BY Zenon, <1>1, <1>2, <1>4, MapKeeps
<1> QED
  BY Zenon, <1>3, <1>4

LEMMA UnmapKept == UnmapPromise
  BY Zenon, UnmapKeeps DEF UnmapPromise

(* At the start. *)
LEMMA InitBase == Init => BaseInv
<1> SUFFICES ASSUME Init PROVE BaseInv
  BY Zenon
<1>1. VCacheTypeOK
  <2>1. P1_ENTRIES \in 0..P1_ENTRIES /\ 0 \in 0..P1_ENTRIES
    BY WindowAssumption
  <2> QED
    BY Zenon, <2>1 DEF Init, VCacheInit, VCacheTypeOK
<1>2. P4Slot \in Slot
  BY Zenon, Layout
<1>3. TypeOK
  <2>1. booted \in 0..(P2PAGE_COUNT + 2) /\ level \in 1..4
    BY Layout DEF Init
  <2>2. tmp \in Slot \X Slot
    BY Zenon, <1>2 DEF Init
  <2>3. author \in [Page -> Core \cup {NONE}] /\ DOMAIN mapped = Page
    BY Zenon DEF Init
  <2>4. pool \subseteq TableFrames /\ staleTlb \subseteq Core \X Page
    BY Zenon DEF Init
  <2> QED
    BY Zenon, <1>1, <2>1, <2>2, <2>3, <2>4 DEF Init, TypeOK
<1>4. Lazy = {} /\ Fixed = {} /\ Held = {}
  <2>1. Lazy = {}
    BY Zenon DEF Init, VCacheInit, Lazy
  <2>2. Fixed = {}
    <3>1. \A s \in Permanent : ~(s[2] < 0)
      BY Layout
    <3> QED
      BY Zenon, <3>1 DEF Init, Fixed
  <2>3. Held = {}
    BY Zenon DEF Init, Held, Walking
  <2> QED
    BY Zenon, <2>1, <2>2, <2>3
<1>5. CountsMatch
  <2> SUFFICES ASSUME NEW t \in Table
               PROVE  /\ p2_freecount[t] = Cardinality(Absent(t))
                      /\ p2_lazycount[t] = Cardinality(LazyOf(t))
    BY Zenon DEF CountsMatch, LazyOf
  <2>1. Absent(t) = Entry
    BY Zenon DEF Init, VCacheInit, Absent
  <2>2. LazyOf(t) = {}
    BY Zenon, SlotParts DEF Init, VCacheInit, LazyOf
  <2>3. Cardinality(Entry) = P1_ENTRIES
    <3>1. P1_ENTRIES \in Nat /\ P1_ENTRIES >= 1
      BY WindowAssumption
    <3> QED
      BY <3>1, FS_Interval DEF Entry
  <2>4. Cardinality({}) = 0
    BY Zenon, FS_EmptySet
  <2> QED
    BY Zenon, <2>1, <2>2, <2>3, <2>4 DEF Init, VCacheInit
<1>6. SlotsInv
  BY Zenon, <1>4, <1>5 DEF Init, VCacheInit, SlotsInv, Walking
<1>7. StaleInv
  BY Zenon, <1>4 DEF Init, VCacheInit, StaleInv
<1>8. RequestInv
  <2>1. memory \in [TableFrames -> [Indices -> Content]]
    BY Zenon DEF Init, Content
  <2>2. ~(0 > P2PAGE_COUNT)
    BY Layout
  <2> QED
    BY Zenon, <2>1, <2>2 DEF Init, RequestInv, NoRequest, Requesting, Walking
<1> QED
  BY Zenon, <1>3, <1>6, <1>7, <1>8 DEF BaseInv

(* vcache::init, mapper::init: each slot is the next one of table 0. *)
LEMMA BootBase ==
  ASSUME BaseInv, NEW c \in Core, Boot(c)
  PROVE  BaseInv' /\ UNCHANGED <<memory, at>>
<1>0. TypeOK /\ SlotsInv /\ StaleInv /\ RequestInv
  BY Zenon DEF BaseInv
<1>1. /\ booted <= P2PAGE_COUNT /\ at = "idle" /\ booted \in Nat
      /\ UNCHANGED <<holder, level, created, tmp, req, pool, memory, staleTlb, mapped, author>>
  BY <1>0 DEF Boot, TypeOK
<1>2. VCacheTypeOK /\ CountsMatch /\ Lazy = {} /\ Held = {} /\ present = Fixed
  BY Zenon, <1>0, <1>1 DEF TypeOK, SlotsInv, Held, Walking
<1>3. booted \in Entry /\ \A e \in Entry : <<0, e>> \in Fixed <=> e < booted
  <2>1. booted \in 0..(P2PAGE_COUNT + 2)
    BY <1>1, Layout
  <2>2. \A e \in Entry : e < booted => e <= P2PAGE_COUNT
    BY <1>1, Layout DEF Entry
  <2>3. \A e \in Entry : <<0, e>> \in Permanent <=> e <= P2PAGE_COUNT
    BY Zenon, Layout
  <2> QED
    BY Zenon, <2>1, <2>2, <2>3, Layout DEF Fixed
<1>4. /\ Fixed \in SUBSET Slot /\ present = Fixed \cup Lazy /\ Fixed \cap Lazy = {}
      /\ <<0, booted>> \notin Fixed
  <2>1. Fixed \in SUBSET Slot
    BY Zenon, Layout DEF Fixed
  <2>2. ~(booted < booted)
    BY <1>1
  <2> QED
    BY Zenon, <1>2, <1>3, <2>1, <2>2
<1>5. ~MapPanics
  BY Zenon, <1>2, <1>3, <1>4, MapOk
<1>6. /\ map(c, BootFrame, MapSlot) /\ booted' = booted + 1
      /\ at' = IF MapSlot = <<0, booted>> THEN "idle" ELSE "panic_vcache"
  BY Zenon, <1>5 DEF Boot
<1>7. FreeTables # {} /\ MapSlot = <<0, booted>>
  <2>1. Absent(0) \in SUBSET Nat /\ Absent(0) \in SUBSET Entry
    BY DEF Absent, Entry
  <2>2. booted \in Absent(0)
    BY Zenon, <1>2, <1>3, <1>4 DEF Absent
  <2>3. Cardinality(Absent(0)) # 0
    BY Zenon, <2>1, <2>2, Counting
  <2>4. 0 \in FreeTables
    BY Zenon, <1>2, <2>3, Layout DEF FreeTables, CountsMatch
  <2>5. FreeTables \in SUBSET Nat
    BY DEF FreeTables, Table
  <2>6. Min(FreeTables) = 0
    <3>1. Min(FreeTables) \in FreeTables /\ \A y \in FreeTables : Min(FreeTables) <= y
      BY Zenon, <2>4, <2>5, MinIn
    <3>2. Min(FreeTables) \in Nat /\ Min(FreeTables) <= 0
      BY Zenon, <2>4, <2>5, <3>1
    <3> QED
      BY <3>2
  <2>7. \A e \in Absent(0) : booted <= e
    BY <1>1, <1>2, <1>3 DEF Absent, Entry
  <2>8. Min(Absent(0)) = booted
    <3>1. Min(Absent(0)) \in Absent(0) /\ \A y \in Absent(0) : Min(Absent(0)) <= y
      BY Zenon, <2>1, <2>2, MinIn
    <3>2. Min(Absent(0)) \in Nat /\ Min(Absent(0)) <= booted /\ booted <= Min(Absent(0))
      BY Zenon, <2>1, <2>2, <2>7, <3>1
    <3> QED
      BY <1>1, <3>2
  <2> QED
    BY Zenon, <2>4, <2>6, <2>8 DEF MapSlot
<1>8. at' = "idle"
  BY Zenon, <1>6, <1>7
<1> DEFINE s == <<0, booted>>
<1>9. /\ VCacheTypeOK' /\ CountsMatch' /\ Lazy' = {} /\ present' = Fixed \cup {s}
      /\ entry' = [entry EXCEPT ![s] = BootFrame] /\ stale' \subseteq stale
  <2>1. map(c, BootFrame, s) /\ s = MapSlot
    BY Zenon, <1>6, <1>7
  <2> HIDE DEF s
  <2>2. /\ VCacheTypeOK' /\ CountsMatch' /\ present' = Fixed \cup {s} \cup Lazy'
        /\ entry' = [entry EXCEPT ![s] = BootFrame]
        /\ FreeTables # {} => Lazy' = Lazy /\ stale' \subseteq stale
    <3>1. /\ Taken(c, BootFrame, s, Fixed)
          /\ FreeTables # {} => Lazy' = Lazy /\ stale' \subseteq stale
      BY Zenon, <1>2, <1>3, <1>4, <2>1, MapKeeps
    <3> QED
      BY Zenon, <3>1 DEF Taken
  <2> QED
    BY Zenon, <1>2, <1>7, <2>2
<1>10. s \in Permanent
  BY Zenon, <1>1, <1>3, Layout
<1>11. Fixed' = Fixed \cup {s} /\ Held' = {}
  <2>1. \A u \in Permanent : u[2] < booted + 1 <=> u[2] < booted \/ u = s
    BY <1>1, Layout
  <2>2. Fixed' = Fixed \cup {s}
    BY Zenon, <1>6, <1>10, <2>1 DEF Fixed
  <2>3. Held' = {}
    BY Zenon, <1>8 DEF Held, Walking
  <2> QED
    BY Zenon, <2>2, <2>3
<1>12. TypeOK'
  <2>1. booted' \in 0..(P2PAGE_COUNT + 2)
    BY <1>1, <1>6, Layout
  <2> QED
    BY Zenon, <1>0, <1>1, <1>8, <1>9, <2>1 DEF TypeOK
<1>13. SlotsInv'
  BY Zenon, <1>8, <1>9, <1>11 DEF SlotsInv, Walking
<1>14. StaleInv'
  BY Zenon, <1>0, <1>9, <1>11 DEF StaleInv
<1>15. RequestInv'
  <2>1. booted' > P2PAGE_COUNT => entry'[P4Slot] = ROOT
    <3> SUFFICES ASSUME booted' > P2PAGE_COUNT PROVE entry'[P4Slot] = ROOT
      BY Zenon
    <3>1. booted = P2PAGE_COUNT
      BY <1>1, <1>6, Layout
    <3>2. s = P4Slot /\ BootFrame = ROOT
      BY <3>1, Layout DEF P4Slot, BootFrame
    <3>3. P4Slot \in DOMAIN entry
      BY Zenon, <1>2, Layout DEF VCacheTypeOK
    <3> QED
      BY Zenon, <1>9, <3>2, <3>3
  <2> QED
    BY Zenon, <1>0, <1>1, <1>8, <2>1 DEF RequestInv, Requesting, Walking
<1> QED
  BY Zenon, <1>1, <1>8, <1>12, <1>13, <1>14, <1>15 DEF BaseInv

----------------------------------------------------------------------------
IInv == BaseInv /\ FlushInv /\ PathInv

(* The inductive invariant holds in every state: virt::init, any number of calls
   of KernelMapper::map by any cores, any window and any tables. *)
THEOREM Invariance == Spec => []IInv
<1>1. Init => IInv
  BY Zenon, InitBase, InitFlush, InitPath DEF IInv
<1>2. IInv /\ [Next]_vars => IInv'
  <2> SUFFICES ASSUME IInv, [Next]_vars PROVE IInv'
    BY Zenon
  <2>1. BaseInv /\ FlushInv /\ PathInv
    BY Zenon DEF IInv
  <2>2. \A c \in Core : Boot(c) => BaseInv'
    BY Zenon, <2>1, BootBase
  <2>3. BaseInv'
    BY Zenon, <2>1, <2>2, MapKept, UnmapKept, NextBase
  <2> QED
    BY Zenon, <2>1, <2>3, NextFlush, NextPath DEF IInv
<1> QED
  BY <1>1, <1>2, PTL DEF Spec

(* The variables of the mapper and of VCache have their types. *)
THEOREM TypeCorrect == Spec => []TypeOK
<1>1. IInv => TypeOK
  BY Zenon DEF IInv, BaseInv
<1> QED
  BY <1>1, Invariance, PTL

(* p2_freecount and p2_lazycount count the free and the lazy slots of each table
   through every map, unmap_many and reclaim. *)
THEOREM CountsAreRight == Spec => []CountsMatch
<1>1. IInv => CountsMatch
  BY Zenon DEF IInv, BaseInv, SlotsInv
<1> QED
  BY <1>1, Invariance, PTL

(* VCache::map finds a slot for each temporary page of KernelMapper::map, and
   virt::init gets the slots it counts on. *)
THEOREM SlotsSuffice == Spec => []MapperHasSlots
<1>1. IInv => MapperHasSlots
  BY Zenon DEF IInv, BaseInv, SlotsInv, MapperHasSlots
<1> QED
  BY <1>1, Invariance, PTL

(* The temporary pages are two, and neither holds a table of the window. *)
THEOREM TmpIsPrivate == Spec => []TmpPrivate
<1>1. IInv => TmpPrivate
  <2> SUFFICES ASSUME BaseInv, at \in {"descend", "remap", "leaf", "return"}
               PROVE  tmp[1] # tmp[2] /\ {tmp[1], tmp[2]} \cap Permanent = {}
    BY Zenon DEF IInv, TmpPrivate
  <2>1. Held = {tmp[1], tmp[2]} /\ tmp[1] # tmp[2] /\ Fixed \cap Held = {}
    BY Zenon DEF BaseInv, SlotsInv, Held, Walking
  <2>2. booted \in Nat /\ booted > P2PAGE_COUNT
    BY Layout DEF BaseInv, SlotsInv, TypeOK
  <2>3. Fixed = Permanent
    BY Zenon, <2>2, AllFixed
  <2> QED
    BY Zenon, <2>1, <2>3
<1> QED
  BY <1>1, Invariance, PTL

(* The core in the mapper never reads a table through an old translation of its
   slot: the invlpg of map and remap is enough. *)
THEOREM AccessIsFresh == Spec => []NoStaleAccess
<1>1. IInv => NoStaleAccess
  <2> SUFFICES ASSUME BaseInv, at \in {"descend", "remap", "leaf"}
               PROVE  <<holder, SlotOf(level)>> \notin stale
    BY Zenon DEF IInv, NoStaleAccess
  <2>1. Held = {tmp[1], tmp[2]} /\ level \in 1..4 /\ holder \in Core
    BY Zenon DEF BaseInv, TypeOK, RequestInv, Held, Walking
  <2>2. SlotOf(level) \in Held \cup {P4Slot}
    BY <2>1 DEF SlotOf
  <2> QED
    BY Zenon, <2>1, <2>2 DEF BaseInv, StaleInv
<1> QED
  BY <1>1, Invariance, PTL

(* When KernelMapper::map returns, the processor's walk of the tables gives every
   page the frame that it was last asked to have, and no page another one. *)
THEOREM PagesAreMapped == Spec => []MappedIsMapped
<1>1. IInv => MappedIsMapped
  <2> SUFFICES ASSUME PathInv, at = "idle", NEW p \in Page PROVE Translate(p) = mapped[p]
    BY Zenon DEF IInv, MappedIsMapped
  <2>1. ~OnNew(p)
    BY Zenon DEF OnNew, Uncleared
  <2>2. mapped[p] = Node(memory, p, 0)
    BY Zenon, <2>1 DEF PathInv, MappedInv
  <2>3. Node(memory, p, 0) = Translate(p)
    BY DEF Node, Step, Translate, Below
  <2> QED
    BY Zenon, <2>2, <2>3
<1> QED
  BY <1>1, Invariance, PTL

(* When KernelMapper::map returns, its caller holds no old translation of the
   pages of the request. *)
THEOREM CallersAreFlushed == Spec => []CallerFlushed
<1>1. IInv => CallerFlushed
  BY Zenon DEF IInv, FlushInv, CallerFlushed
<1> QED
  BY <1>1, Invariance, PTL
=============================================================================

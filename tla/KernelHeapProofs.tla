-------------------------- MODULE KernelHeapProofs --------------------------
(***************************************************************************)
(* For any number of cores, any heap and blocks of any size: the types of  *)
(* KernelHeap, and GrowthMapped.                                           *)
(***************************************************************************)
EXTENDS KernelHeap, TLAPS

(* What valloc still has to do lies within the pages of the model, and ends
   size pages above the page of the core that expands the heap, which is not
   below HEAP_HEAD. *)
LockInv ==
  \A c \in Core : lock = c =>
    /\ todo.page <= todo.end
    /\ todo.end = adr[c] + todo.size
    /\ 0 < todo.size
    /\ todo.end < 2 * SIZE
    /\ heap_head <= adr[c]

TypeInv == TypeOK /\ LockInv

(* No access is above the last header, and no page inside a block. *)
BelowTop ==
  /\ \A p \in inside \cup block : p <= top
  /\ \A c \in Core : pc[c] # "run" => adr[c] <= top

(* HEAP_HEAD is not past the end of the pages that have a frame, and from the
   last header on those pages have no hole.  An expansion that is under way has
   mapped all pages from where it started. *)
HeadInv ==
  /\ \A p \in 0..(heap_head - 1) : \E q \in mapped : p <= q
  /\ \A q \in mapped : \A p \in Pages : top <= p /\ p <= q => p \in mapped
  /\ \A c \in Core : lock = c =>
       \A p \in Pages : adr[c] <= p /\ p < todo.page => p \in mapped

HeapInv == TypeInv /\ BelowTop /\ HeadInv

----------------------------------------------------------------------------
(* An expansion is at least a page and at most the whole heap. *)
LEMMA ExpandAmount ==
  ASSUME NEW count \in Nat
  PROVE  expand_amount(count) \in 1..SIZE
<1> DEFINE n == (count + 1) * FRAG_SIZE
<1>1. n \in Nat /\ 0 < n
  BY HeapAssumption
<1> HIDE DEF n
<1>2. expand_amount(count) = IF SIZE > n THEN n ELSE SIZE
  BY DEF expand_amount, n
<1> QED
  BY <1>1, <1>2, HeapAssumption

(* heap::init leaves the types and the lock as they should be. *)
LEMMA InitType == Init => TypeInv
  BY HeapAssumption DEF Init, TypeInv, TypeOK, LockInv, Pages, HeapPages

(* Every step of a core keeps them. *)
LEMMA NextType == TypeInv /\ [Next]_vars => TypeInv'
<1> SUFFICES ASSUME TypeInv, [Next]_vars PROVE TypeInv'
  OBVIOUS
<1> USE HeapAssumption DEF TypeInv, TypeOK, LockInv
<1>1. ASSUME NEW c \in Core, AllocTop(c) PROVE TypeInv'
  <2>1. PICK p \in HeapPages :
          /\ adr' = [adr EXCEPT ![c] = p]
          /\ top' = p /\ block' = (top + 1)..(p - 1)
    BY Zenon, <1>1 DEF AllocTop
  <2>2. block' \subseteq HeapPages
    BY <2>1 DEF HeapPages
  <2>3. lock # c
    BY <1>1 DEF AllocTop
  <2> QED
    BY <1>1, <2>1, <2>2, <2>3 DEF AllocTop, heapVars
<1>2. ASSUME NEW c \in Core, AllocHole(c) PROVE TypeInv'
  BY <1>2 DEF AllocHole, Untouched, heapVars
<1>3. ASSUME NEW c \in Core, Write(c) PROVE TypeInv'
  BY <1>3 DEF Write, Untouched, heapVars, allocVars
<1>4. ASSUME NEW c \in Core, Access(c) PROVE TypeInv'
  BY <1>4 DEF Access, heapVars
<1>5. ASSUME NEW c \in Core, AlreadyMapped(c) PROVE TypeInv'
  BY <1>5 DEF AlreadyMapped, heapVars, allocVars
<1>6. ASSUME NEW c \in Core, Expand(c) PROVE TypeInv'
  <2>1. expand_amount(expand_count) \in 1..SIZE
    BY ExpandAmount
  <2>2. /\ todo' = [page |-> adr[c], end |-> adr[c] + expand_amount(expand_count),
                    size |-> expand_amount(expand_count)]
        /\ lock' = c /\ adr' = adr /\ heap_head' = heap_head
    BY <1>6 DEF Expand
  <2>3. adr[c] \in 0..(SIZE - 1) /\ heap_head <= adr[c]
    BY <1>6 DEF Expand, HeapPages
  <2>4. LockInv'
    BY <2>1, <2>2, <2>3
  <2>5. TypeOK'
    BY <1>6, <2>1, <2>2, <2>3 DEF Expand, allocVars
  <2> QED
    BY <2>4, <2>5
<1>7. ASSUME NEW c \in Core, valloc(c) PROVE TypeInv'
  <2>1. todo.page \in Pages
    BY <1>7 DEF valloc, Pages
  <2> QED
    BY <1>7, <2>1 DEF valloc, allocVars
<1>8. ASSUME NEW c \in Core, Expanded(c) PROVE TypeInv'
  BY <1>8 DEF Expanded, new_head, allocVars
<1>9. CASE UNCHANGED vars
  BY <1>9 DEF vars, heapVars, allocVars
<1> QED
  BY <1>1, <1>2, <1>3, <1>4, <1>5, <1>6, <1>7, <1>8, <1>9 DEF Next, Step

(* The types hold in every state: valloc stays within twice the size of the
   heap, and exactly the core in valloc, or one that has panicked there, holds
   HEAP_HEAD. *)
THEOREM TypeCorrect == Spec => []TypeOK
<1>1. Spec => []TypeInv
  BY InitType, NextType, PTL DEF Spec
<1> QED
  BY <1>1, PTL DEF TypeInv

----------------------------------------------------------------------------
(* heap::init maps the first pages and starts HEAP_HEAD at 0. *)
LEMMA InitHead == Init => BelowTop /\ HeadInv
  BY HeapAssumption DEF Init, BelowTop, HeadInv, Pages

(* Accesses stay at or below the last header: only the holder of the allocator
   moves it, and only up. *)
LEMMA NextBelow == TypeInv /\ BelowTop /\ [Next]_vars => BelowTop'
<1> SUFFICES ASSUME TypeInv, BelowTop, [Next]_vars PROVE BelowTop'
  OBVIOUS
<1> USE HeapAssumption DEF TypeInv, TypeOK, BelowTop
<1>1. ASSUME NEW c \in Core, AllocTop(c) PROVE BelowTop'
  <2>1. PICK p \in HeapPages :
          /\ top < p /\ adr' = [adr EXCEPT ![c] = p]
          /\ top' = p /\ block' = (top + 1)..(p - 1)
    BY Zenon, <1>1 DEF AllocTop
  <2>2. /\ pc' = [pc EXCEPT ![c] = "access"] /\ inside' = inside
    BY <1>1 DEF AllocTop
  <2>3. \A q \in inside' \cup block' : q <= top'
    BY <2>1, <2>2 DEF HeapPages
  <2>4. \A d \in Core : pc'[d] # "run" => adr'[d] <= top'
    BY <2>1, <2>2 DEF HeapPages
  <2> QED
    BY <2>3, <2>4
<1>2. ASSUME NEW c \in Core, AllocHole(c) PROVE BelowTop'
  BY <1>2 DEF AllocHole, Untouched, heapVars
<1>3. ASSUME NEW c \in Core, Write(c) PROVE BelowTop'
  BY <1>3 DEF Write, Untouched, heapVars, allocVars
<1>4. ASSUME NEW c \in Core, Access(c) PROVE BelowTop'
  BY <1>4 DEF Access, heapVars
<1>5. ASSUME NEW c \in Core, AlreadyMapped(c) PROVE BelowTop'
  BY <1>5 DEF AlreadyMapped, allocVars
<1>6. ASSUME NEW c \in Core, Expand(c) PROVE BelowTop'
  BY <1>6 DEF Expand, allocVars
<1>7. ASSUME NEW c \in Core, valloc(c) PROVE BelowTop'
  BY <1>7 DEF valloc, allocVars
<1>8. ASSUME NEW c \in Core, Expanded(c) PROVE BelowTop'
  BY <1>8 DEF Expanded, allocVars
<1>9. CASE UNCHANGED vars
  BY <1>9 DEF vars, allocVars
<1> QED
  BY <1>1, <1>2, <1>3, <1>4, <1>5, <1>6, <1>7, <1>8, <1>9 DEF Next, Step

(* An expansion fills the pages from where it starts, which is not above the
   last header, and the head is never past its end. *)
LEMMA NextHead == HeapInv /\ [Next]_vars => HeadInv'
<1> SUFFICES ASSUME TypeInv, BelowTop, HeadInv, [Next]_vars PROVE HeadInv'
  BY DEF HeapInv
<1> USE HeapAssumption
<1>1. ASSUME NEW c \in Core, AllocTop(c) PROVE HeadInv'
  <2>1. PICK p \in HeapPages : top < p /\ top' = p /\ adr' = [adr EXCEPT ![c] = p]
    BY Zenon, <1>1 DEF AllocTop
  <2>2. UNCHANGED <<heap_head, lock, mapped, todo>> /\ lock # c
    BY <1>1 DEF AllocTop, heapVars, TypeInv, TypeOK
  <2> QED
    BY <2>1, <2>2 DEF HeadInv, Pages, HeapPages, TypeInv, TypeOK
<1>2. ASSUME NEW c \in Core, AllocHole(c) \/ Write(c) PROVE HeadInv'
  <2>1. /\ UNCHANGED <<heap_head, lock, mapped, todo, top>> /\ lock # c
        /\ \A d \in Core \ {c} : adr'[d] = adr[d]
    BY <1>2 DEF AllocHole, Write, heapVars, allocVars, TypeInv, TypeOK
  <2> QED
    BY <2>1 DEF HeadInv
<1>3. ASSUME NEW c \in Core, Access(c) \/ AlreadyMapped(c) PROVE HeadInv'
  BY <1>3 DEF Access, AlreadyMapped, heapVars, allocVars, HeadInv
<1>4. ASSUME NEW c \in Core, Expand(c) PROVE HeadInv'
  <2>1. /\ lock' = c /\ todo'.page = adr[c]
        /\ UNCHANGED <<heap_head, mapped, adr, top>>
    BY <1>4 DEF Expand, allocVars
  <2>2. adr[c] \in Nat
    BY DEF TypeInv, TypeOK, HeapPages
  <2> QED
    BY <2>1, <2>2 DEF HeadInv, Pages
<1>5. ASSUME NEW c \in Core, valloc(c) PROVE HeadInv'
  <2>1. /\ lock = c /\ UNCHANGED <<heap_head, lock, adr, top>>
        /\ todo.page < todo.end /\ todo.page \in Nat /\ todo.end < 2 * SIZE
        /\ adr[c] <= top /\ adr[c] \in Nat /\ top \in Nat
    BY <1>5 DEF valloc, allocVars, TypeInv, TypeOK, LockInv, BelowTop, HeapPages
  <2>2. CASE UNCHANGED <<mapped, todo>>
    BY <2>1, <2>2 DEF HeadInv
  <2>3. CASE /\ mapped' = mapped \cup {todo.page}
             /\ todo' = [todo EXCEPT !.page = @ + 1]
    <3>1. mapped' = mapped \cup {todo.page} /\ todo'.page = todo.page + 1
      BY <2>3 DEF TypeInv, TypeOK
    <3>2. \A p \in Pages : adr[c] <= p /\ p < todo.page => p \in mapped
      BY <2>1 DEF HeadInv
    <3>3. \A q \in mapped' : \A p \in Pages : top <= p /\ p <= q => p \in mapped'
      BY <2>1, <3>1, <3>2 DEF HeadInv, Pages
    <3>4. \A p \in Pages : adr[c] <= p /\ p < todo'.page => p \in mapped'
      BY <2>1, <3>1, <3>2 DEF Pages
    <3>5. \A p \in 0..(heap_head - 1) : \E q \in mapped' : p <= q
      BY <3>1 DEF HeadInv
    <3> QED
      BY <2>1, <3>3, <3>4, <3>5 DEF HeadInv
  <2> QED
    BY <1>5, <2>2, <2>3 DEF valloc
<1>6. ASSUME NEW c \in Core, Expanded(c) PROVE HeadInv'
  <2>1. /\ lock = c /\ lock' = NONE /\ UNCHANGED <<mapped, top>>
        /\ heap_head' = heap_head + todo.size
    BY <1>6 DEF Expanded, new_head, allocVars, TypeInv, TypeOK
  <2>2. /\ todo.page = todo.end /\ todo.end = adr[c] + todo.size
        /\ heap_head <= adr[c] /\ 0 < todo.size /\ todo.end < 2 * SIZE
        /\ adr[c] \in Nat /\ todo.size \in Nat /\ heap_head \in Nat
    BY <1>6, <2>1 DEF Expanded, TypeInv, TypeOK, LockInv, HeapPages
  <2>3. todo.end - 1 \in mapped
    BY <2>1, <2>2 DEF HeadInv, Pages
  <2>4. \A p \in 0..(heap_head' - 1) : p <= todo.end - 1
    BY <2>1, <2>2
  <2> QED
    BY <2>1, <2>3, <2>4 DEF HeadInv
<1>7. CASE UNCHANGED vars
  BY <1>7 DEF vars, heapVars, allocVars, HeadInv
<1> QED
  BY <1>1, <1>2, <1>3, <1>4, <1>5, <1>6, <1>7 DEF Next, Step

(* "some other core already mapped this area of the heap now, should be good to
   go", of the pages that the heap grows onto: for any heap, any number of cores
   and blocks of any size, a page below HEAP_HEAD that is not below the last
   header of the allocator has a frame. *)
THEOREM HeadBehindPages == Spec => []GrowthMapped
<1>1. HeapInv => GrowthMapped
  BY HeapAssumption
     DEF HeapInv, TypeInv, TypeOK, HeadInv, GrowthMapped, Pages, HeapPages
<1>2. Init => HeapInv
  BY InitType, InitHead DEF HeapInv
<1>3. HeapInv /\ [Next]_vars => HeapInv'
  BY NextType, NextBelow, NextHead DEF HeapInv
<1> QED
  BY <1>1, <1>2, <1>3, PTL DEF Spec
=============================================================================

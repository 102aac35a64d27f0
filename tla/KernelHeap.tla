----------------------------- MODULE KernelHeap -----------------------------
(***************************************************************************)
(* The kernel heap (mem/heap.rs): pages get a frame when an access faults  *)
(* on them (interrupts/exceptions/pagefault.rs).  Addresses are pages from *)
(* heap::START on.                                                         *)
(*                                                                         *)
(* linked_list_allocator is external.  Under the mutex of LockedHeap it    *)
(* takes a block from the front of a hole and writes the header of what is *)
(* left of the hole right behind the block; the last hole reaches to the   *)
(* end of the heap.  So a block that spans pages is handed out with a      *)
(* header on the page it ends in and nothing written to the pages before   *)
(* it: its owner writes those later, without the mutex, or the allocator   *)
(* does after the block was freed.  The Vec of mappings of a task needs    *)
(* such a block from its 65th mapping on, and the stack alone has 128.  A  *)
(* page inside a block is in the hands of one core at a time.              *)
(***************************************************************************)
EXTENDS Integers, FiniteSets, FiniteSetsExt

CONSTANTS
  Core,
  SIZE,         \* the pages of the heap: 2G
  FRAG_SIZE,    \* the pages of the first expansion: 32K
  BLOCK,        \* the pages a block may reach past the one it begins in
  NONE          \* a free lock

ASSUME HeapAssumption ==
  /\ SIZE \in Nat /\ FRAG_SIZE \in Nat /\ BLOCK \in Nat
  /\ 0 < FRAG_SIZE /\ FRAG_SIZE <= SIZE
  /\ NONE \notin Core

VARIABLES
  heap_head,      \* HEAP_HEAD, in pages from START
  lock,           \* who holds HEAP_HEAD
  expand_count,   \* EXPAND_COUNT
  mapped,         \* the pages that have a frame
  pc,             \* where each core is
  adr,            \* the page it accesses
  todo,           \* what is left of valloc: first page, end, size
  mutex,          \* who holds GLOB_ALLOCATOR
  top,            \* the highest page the allocator has put a header on, or is
                  \* about to
  block,          \* the pages inside the block that is being allocated
  inside          \* the pages inside blocks that were handed out

heapVars == <<heap_head, lock, expand_count, mapped, todo>>
allocVars == <<mutex, top, block, inside>>
vars == <<heapVars, pc, adr, allocVars>>

(* An expansion that starts in the heap may reach past its end. *)
Pages == 0..(2 * SIZE - 1)
HeapPages == 0..(SIZE - 1)
is_heap(p) == p \in HeapPages

(* heap::init: the first fragment is mapped, HEAP_HEAD stays at START. *)
Init ==
  /\ heap_head = 0
  /\ lock = NONE
  /\ expand_count = 0
  /\ mapped = 0..(FRAG_SIZE - 1)
  /\ pc = [c \in Core |-> "run"]
  /\ adr = [c \in Core |-> 0]
  /\ todo = [page |-> 0, end |-> 0, size |-> 0]
  /\ mutex = NONE /\ top = 0 /\ block = {} /\ inside = {}

----------------------------------------------------------------------------
(* alloc: a block from the last hole, whose header moves up to page p. *)
AllocTop(c) ==
  /\ pc[c] = "run" /\ mutex = NONE
  /\ mutex' = c
  /\ \E p \in HeapPages :
       /\ top < p /\ p <= top + BLOCK
       /\ adr' = [adr EXCEPT ![c] = p]
       /\ top' = p /\ block' = (top + 1)..(p - 1)
  /\ pc' = [pc EXCEPT ![c] = "access"]
  /\ UNCHANGED <<heapVars, inside>>

(* The pages inside blocks that have no frame and that no core is at. *)
Untouched ==
  {p \in inside \ mapped : \A d \in Core : pc[d] = "run" \/ adr[d] # p}

(* alloc: the block comes from the hole that a freed block has left, and the
   header lands on a page inside it. *)
AllocHole(c) ==
  /\ pc[c] = "run" /\ mutex = NONE
  /\ mutex' = c
  /\ \E p \in Untouched : adr' = [adr EXCEPT ![c] = p]
  /\ pc' = [pc EXCEPT ![c] = "access"]
  /\ UNCHANGED <<heapVars, top, block, inside>>

(* The owner of a block writes a page inside it. *)
Write(c) ==
  /\ pc[c] = "run"
  /\ \E p \in Untouched : adr' = [adr EXCEPT ![c] = p]
  /\ pc' = [pc EXCEPT ![c] = "access"]
  /\ UNCHANGED <<heapVars, allocVars>>

(* The access, for the first time or when page_fault has returned.  When it
   succeeds the allocator is done: it hands out the block and releases its
   mutex. *)
Access(c) ==
  /\ pc[c] = "access"
  /\ pc' = [pc EXCEPT ![c] = IF adr[c] \in mapped THEN "run" ELSE "fault"]
  /\ IF mutex = c /\ adr[c] \in mapped
     THEN mutex' = NONE /\ inside' = inside \cup block /\ block' = {}
     ELSE UNCHANGED <<mutex, inside, block>>
  /\ UNCHANGED <<heapVars, adr, top>>

----------------------------------------------------------------------------
(* expand: the pages of an expansion, from EXPAND_COUNT before it. *)
expand_amount(count) ==
  IF SIZE > (count + 1) * FRAG_SIZE THEN (count + 1) * FRAG_SIZE ELSE SIZE

(* Mutant of AlreadyMapped: the early return keeps the lock. *)
AlreadyMappedLocked(c) ==
  /\ pc[c] = "fault" /\ lock = NONE
  /\ is_heap(adr[c])
  /\ adr[c] < heap_head
  /\ lock' = c
  /\ pc' = [pc EXCEPT ![c] = "access"]
  /\ UNCHANGED <<heap_head, expand_count, mapped, adr, todo, allocVars>>

(* page_fault, expand: the page is below the head. *)
AlreadyMapped(c) ==
  /\ pc[c] = "fault" /\ lock = NONE
  /\ is_heap(adr[c])
  /\ adr[c] < heap_head
  /\ pc' = [pc EXCEPT ![c] = "access"]
  /\ UNCHANGED <<heapVars, adr, allocVars>>

(* page_fault, expand: the page is not; the expansion starts at it. *)
Expand(c) ==
  /\ pc[c] = "fault" /\ lock = NONE
  /\ is_heap(adr[c])
  /\ adr[c] >= heap_head
  /\ lock' = c
  /\ LET n == expand_amount(expand_count)
     IN todo' = [page |-> adr[c], end |-> adr[c] + n, size |-> n]
  /\ expand_count' = expand_count + 1
  /\ pc' = [pc EXCEPT ![c] = "valloc"]
  /\ UNCHANGED <<heap_head, mapped, adr, allocVars>>

(* valloc: the next page gets a new frame, whether it had one or not.  The rest
   of the kernel takes frames too, so palloc may have none at any time: then the
   core panics and keeps what it holds. *)
valloc(c) ==
  /\ pc[c] = "valloc"
  /\ todo.page < todo.end
  /\ \/ /\ mapped' = mapped \cup {todo.page}
        /\ todo' = [todo EXCEPT !.page = @ + 1]
        /\ UNCHANGED pc
     \/ /\ pc' = [pc EXCEPT ![c] = "panic"]
        /\ UNCHANGED <<mapped, todo>>
  /\ UNCHANGED <<heap_head, lock, expand_count, adr, allocVars>>

(* Mutant of new_head: EXPAND_COUNT is read again, after its increment. *)
next_head == heap_head + expand_amount(expand_count)

(* expand: what HEAP_HEAD becomes. *)
new_head == heap_head + todo.size

(* expand: the head advances and HEAP_HEAD is released. *)
Expanded(c) ==
  /\ pc[c] = "valloc"
  /\ todo.page = todo.end
  /\ heap_head' = new_head
  /\ lock' = NONE
  /\ pc' = [pc EXCEPT ![c] = "access"]
  /\ UNCHANGED <<expand_count, mapped, adr, todo, allocVars>>

Step(c) ==
  Access(c) \/ AlreadyMapped(c) \/ Expand(c) \/ valloc(c) \/ Expanded(c)

Next == \E c \in Core : AllocTop(c) \/ AllocHole(c) \/ Write(c) \/ Step(c)

Spec == Init /\ [][Next]_vars

(* A core that has begun an access executes it and the handler; nothing preempts
   it. *)
FairSpec == Spec /\ \A c \in Core : WF_vars(Step(c))

----------------------------------------------------------------------------
TypeOK ==
  /\ heap_head \in Nat
  /\ lock \in Core \cup {NONE}
  /\ expand_count \in Nat
  /\ mapped \subseteq Pages
  /\ pc \in [Core -> {"run", "access", "fault", "valloc", "panic"}]
  /\ adr \in [Core -> HeapPages]
  /\ todo \in [page : Nat, end : Nat, size : Nat]
  /\ mutex \in Core \cup {NONE}
  /\ top \in HeapPages
  /\ block \subseteq HeapPages
  /\ inside \subseteq HeapPages
  /\ \A c \in Core : pc[c] \in {"valloc", "panic"} <=> lock = c

(* What is true of "some other core already mapped this area of the heap now,
   should be good to go" (heap.rs), for blocks of any size: a page below
   HEAP_HEAD has a frame, if it is not below the last header of the allocator.
   So the early return of expand never sends the core back to a page that the
   heap grows onto, though valloc starts at the faulting page, the head advances
   from where it was, and cores that write inside their blocks expand the heap
   in between. *)
GrowthMapped == \A p \in HeapPages : top <= p /\ p < heap_head => p \in mapped

(* An allocation that grows the heap ends, and gives the allocator back to the
   other cores, unless a core has panicked for lack of frames: whatever the
   other cores do to HEAP_HEAD, the page of the new header gets its frame. *)
GrowthEnds ==
  \A c \in Core :
    mutex = c /\ adr[c] = top ~> (mutex # c \/ \E d \in Core : pc[d] = "panic")

(* The comment as it stands: every page below HEAP_HEAD has a frame.  A page
   inside a block that the header of the allocator was put behind has none, and
   the core that writes it is sent back by the early return for ever. *)
HeadMapped == \A p \in HeapPages : p < heap_head => p \in mapped
=============================================================================

--------------------------- MODULE FrameAllocator ---------------------------
(***************************************************************************)
(* What the physical memory manager promises its callers (palloc, pfree):  *)
(* a frame has one holder, it is usable memory, a frame that is given back *)
(* can be allocated again, and palloc fails only when every frame is held. *)
(***************************************************************************)
CONSTANT Core   \* the callers

VARIABLES
  usable,   \* the frames of the memory map that may be put under management
  ready,    \* the manager is initialised
  free,     \* the frames that can be allocated
  held,     \* the frames each core holds
  none      \* the cores whose last palloc returned None

vars == <<usable, ready, free, held, none>>

Init ==
  /\ ready = FALSE
  /\ free = {}
  /\ held = [c \in Core |-> {}]
  /\ none = {}

Boot ==
  /\ ~ready
  /\ ready' = TRUE
  /\ free' \in SUBSET usable
  /\ UNCHANGED <<usable, held, none>>

Alloc(c) ==
  /\ ready
  /\ \E f \in free : /\ free' = free \ {f}
                     /\ held' = [held EXCEPT ![c] = @ \cup {f}]
  /\ none' = none \ {c}
  /\ UNCHANGED <<usable, ready>>

AllocFails(c) ==
  /\ ready
  /\ free = {}
  /\ none' = none \cup {c}
  /\ UNCHANGED <<usable, ready, free, held>>

Free(c) ==
  /\ \E f \in held[c] : /\ free' = free \cup {f}
                        /\ held' = [held EXCEPT ![c] = @ \ {f}]
  /\ UNCHANGED <<usable, ready, none>>

Next == Boot \/ \E c \in Core : Alloc(c) \/ AllocFails(c) \/ Free(c)

Spec == Init /\ [][Next]_vars
=============================================================================

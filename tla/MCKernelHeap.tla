---------------------------- MODULE MCKernelHeap ----------------------------
(* Instances of KernelHeap. *)
EXTENDS KernelHeap, TLC

Symmetric == Permutations(Core)
=============================================================================

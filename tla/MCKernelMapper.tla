--------------------------- MODULE MCKernelMapper ---------------------------
(* Instances of KernelMapper.  Kernel space begins in the middle, as in the
   code: user pages and kernel pages have P4 entries of their own. *)
EXTENDS KernelMapper, TLC

MCPages == {1, 2, 9}
MCFrames == {100}
MCKVMSPACE == 8

Symmetric == Permutations(Core)
=============================================================================

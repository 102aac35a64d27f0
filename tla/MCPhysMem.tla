----------------------------- MODULE MCPhysMem -----------------------------
(***************************************************************************)
(* Memory maps for PhysMem: a page is 16 bytes, a control word 3 bits.     *)
(***************************************************************************)
EXTENDS PhysMem, TLC

Region(type, ptr, len) == [type |-> type, ptr |-> ptr, size |-> len]

(* Free regions that start at a page, some with a part of a page at their
   end: one segment, two segments around a used region (the header in the upper
   or, when that one is too small, in the lower), a region below a page, a map
   that has no place for the header, and a segment that has twice as many pages,
   after the header, as a word has bits. *)
AlignedMaps ==
  { <<Region("Free", 16, 7 * 16)>>,
    <<Region("Free", 0, 2 * 16 + 8), Region("Used", 40, 24),
      Region("Free", 64, 8 * 16)>>,
    <<Region("Free", 0, 8 * 16), Region("Acpi", 128, 16),
      Region("Free", 144, 16), Region("Free", 160, 8)>>,
    <<Region("Free", 0, 16), Region("Used", 16, 16)>>,
    <<Region("Free", 0, 9 * 16)>> }

Symmetric == Permutations(Core)
============================================================================

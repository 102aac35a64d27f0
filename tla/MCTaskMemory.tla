---------------------------- MODULE MCTaskMemory ----------------------------
(* Instances of TaskMemory: two cores, pages of two bytes, regions of two pages
   and a stack of one; bytes 0 to 23 are user space. *)
EXTENDS TaskMemory, TLC

(* A LOAD entry that is in the file as far as its first byte, and a file. *)
LoadEntry(vadr, mem_size) ==
  [load |-> TRUE, align |-> PAGE_SIZE, offset |-> 1, vadr |-> vadr,
   file_size |-> 1, mem_size |-> mem_size]
File(entries) == [verified |-> TRUE, size |-> 4, entries |-> entries]

Small == File(<<LoadEntry(2, 2)>>)
Note == [LoadEntry(3, 2) EXCEPT !.load = FALSE]
TwoSegments == File(<<Note, LoadEntry(3, 2), LoadEntry(6, 1)>>)
TooLarge == File(<<LoadEntry(2, 3), LoadEntry(6, 5)>>)
TooAligned == File(<<[LoadEntry(2, 2) EXCEPT !.align = PAGE_SIZE + 1]>>)
PastTop == File(<<LoadEntry(21, 4)>>)
PastEnd == File(<<[LoadEntry(2, 1) EXCEPT !.offset = 4]>>)
PastU64 == File(<<LoadEntry(2, U64_MAX)>>)
FileLarger == File(<<[LoadEntry(2, 1) EXCEPT !.file_size = 2]>>)
NoElf == [verified |-> FALSE, size |-> 4, entries |-> <<>>]

MCImages == {Small, TwoSegments, TooLarge, TooAligned, PastTop, PastEnd, PastU64,
             FileLarger, NoElf}

ASSUME ImagesAssumption == WellLinked

Cores == Permutations(Core)
=============================================================================

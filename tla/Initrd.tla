------------------------------- MODULE Initrd -------------------------------
(***************************************************************************)
(* The initrd (fs/initrd.rs, fs/tar.rs): initrd::init maps the archive     *)
(* that the loader has put in memory and walks its headers once; the       *)
(* console and Task::exec_initrd then look paths up.                       *)
(*                                                                         *)
(* Memory is a sequence of blocks of BLOCK bytes, the size of a header.    *)
(* What a block holds is read as a header wherever the walk lands: the     *)
(* content of a file may look like one too, when the file is an archive.   *)
(***************************************************************************)
EXTENDS Integers, Sequences, FiniteSetsExt

CONSTANTS
  Archives,       \* a sequence of what the loader may have loaded: entries, the
                  \* block at which each begins, the blocks, initrd_size
  BLOCK           \* size_of::<TarHeader>(), 512

Header(e) == [ustar |-> TRUE, path |-> e.path, utf8 |-> e.utf8, dot |-> e.dot,
              ftype |-> e.ftype, size |-> e.size]

(* Mutant of ContentBlocks: the last, partial block is not counted. *)
WholeBlocks(size) == size \div BLOCK

(* init_map: align_up of the size of an entry, in blocks. *)
ContentBlocks(size) == (size + BLOCK - 1) \div BLOCK

(* An archiver writes each entry as its header and its content, padded to whole
   blocks, one after the other from block 1, and ends with two blocks of
   zeros. *)
IsArchive(a) ==
  LET n == Len(a.entries)
  IN /\ n \in Nat /\ DOMAIN a.entries = 1..n
     /\ a.first \in [1..(n + 1) -> Nat \ {0}] /\ a.first[1] = 1
     /\ \A i \in 1..n :
          LET e == a.entries[i]
          IN /\ a.memory[a.first[i]] = Header(e)
             /\ Len(e.content) \in Nat
             /\ e.size \in Nat =>
                  BLOCK * Len(e.content) \in e.size..(e.size + BLOCK - 1)
             /\ a.first[i + 1] = a.first[i] + 1 + Len(e.content)
             /\ a.first[i] < a.first[n + 1]
             /\ SubSeq(a.memory, a.first[i] + 1, a.first[i + 1] - 1) = e.content
     /\ ~a.memory[a.first[n + 1]].ustar
     /\ Len(a.memory) = a.first[n + 1] + 1
     /\ a.initrd_size \in Nat

ASSUME ArchiveAssumption ==
  /\ BLOCK \in Nat \ {0}
  /\ \A a \in DOMAIN Archives : IsArchive(Archives[a])

VARIABLES
  archive,        \* which of Archives the loader has loaded
  current_header, \* the block the walk has reached
  initrd,         \* INITRD: what each path leads to
  reading         \* "walk", "done", or "panic"

initrdVars == <<archive, current_header, initrd, reading>>

(* The blocks from INITRD_START on, bootboot.initrd_size. *)
memory == Archives[archive].memory
entries == Archives[archive].entries
initrd_size == Archives[archive].initrd_size

InitrdInit(a) ==
  /\ archive = a
  /\ current_header = 1
  /\ initrd = <<>>
  /\ reading = "walk"

(* TarHeader::entry_type: the types that are supported, '0' and '5'. *)
entry_type(h) ==
  CASE h.ftype = "0" -> "File" [] h.ftype = "5" -> "Directory" [] OTHER -> "None"

(* TarHeader::content, of the header in block b. *)
content(h, b) == [kind |-> "File", first |-> b + 1, size |-> h.size]

(* init_map: the header in block b, when it names a file or a directory and not
   "." or "..", replaces what its path led to. *)
Insert(h, b) ==
  IF entry_type(h) = "None" \/ h.dot THEN initrd
  ELSE [p \in DOMAIN initrd \cup {h.path} |->
          IF p # h.path THEN initrd[p]
          ELSE IF entry_type(h) = "File" THEN content(h, b)
          ELSE [kind |-> "Directory"]]

(* TarHeader::size, TarHeader::name: the unwraps.  The size must be a number
   whatever the type, the path is decoded for the types that are supported. *)
Unwraps(h) == h.size \in Nat /\ (entry_type(h) = "None" \/ h.utf8)

(* init_map: the next header.  The walk ends where no whole header is left, or
   where check says that the block is none. *)
init_map ==
  /\ reading = "walk"
  /\ LET h == memory[current_header]
     IN IF current_header * BLOCK > initrd_size \/ ~h.ustar
        THEN reading' = "done" /\ UNCHANGED <<current_header, initrd>>
        ELSE IF ~Unwraps(h)
        THEN reading' = "panic" /\ UNCHANGED <<current_header, initrd>>
        ELSE /\ current_header' = current_header + 1 + ContentBlocks(h.size)
             /\ initrd' = Insert(h, current_header)
             /\ UNCHANGED reading
  /\ UNCHANGED archive

(* open_file: the content of the file at a path, here its blocks; nothing for a
   directory or an unknown path. *)
open_file(path) ==
  IF path \in DOMAIN initrd /\ initrd[path].kind = "File"
  THEN LET f == initrd[path]
       IN <<SubSeq(memory, f.first, f.first + ContentBlocks(f.size) - 1)>>
  ELSE <<>>

----------------------------------------------------------------------------
InitrdTypeOK ==
  /\ current_header \in 1..(Len(memory) + 1)
  /\ reading \in {"walk", "done", "panic"}
  /\ \A p \in DOMAIN initrd : initrd[p].kind \in {"File", "Directory"}

(* What was last archived under a path: the content of a file, or nothing. *)
Archived(path) ==
  LET named == {i \in DOMAIN entries :
                  LET e == entries[i]
                  IN e.path = path /\ ~e.dot /\ e.ftype \in {"0", "5"}}
      last == entries[Max(named)]
  IN IF named = {} \/ last.ftype = "5" THEN <<>> ELSE <<last.content>>

(* The loader's size covers all the entries, with the two blocks or without. *)
WholeArchive == initrd_size >= BLOCK * (Len(memory) - 2)

(* When the walk is over, every path of a whole archive leads to what was last
   archived under it, with exactly its content: the walk takes no content for
   a header and skips no header, also after empty and unsupported entries,
   entries that end in the middle of a block, and files that are archives
   themselves. *)
FilesFound ==
  reading = "done" /\ WholeArchive =>
    \A i \in DOMAIN entries :
      open_file(entries[i].path) = Archived(entries[i].path)
=============================================================================

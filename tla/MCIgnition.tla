----------------------------- MODULE MCIgnition -----------------------------
(* Instances of Ignition: three cores with the ids 0, 2 and 3, pages of four
   units, a PIT of four ticks. *)
EXTENDS Ignition, SequencesExt

Table(signature, adr, len) ==
  [signature |-> signature, adr |-> adr, len |-> len, valid |-> TRUE,
   entries |-> <<>>]

Processor == [mtype |-> 0, len |-> 8]
IoApic(adr) == [mtype |-> 1, len |-> 12, ioapic_adr |-> adr]
Override(bus, irq, gsi) ==
  [mtype |-> 2, len |-> 10, bus |-> bus, irq |-> irq, gsi |-> gsi]
Nmi(flags_) == [mtype |-> 4, len |-> 6, procid |-> 255, flags |-> flags_,
                lint |-> 1]
Other == [mtype |-> 5, len |-> 12]

Madt(adr, len, list) == [Table("APIC", adr, len) EXCEPT !.entries = list]
Processors == <<Processor, Processor, Processor>>

(* The XSDT has two pages; the MADT begins in the frame of another table. *)
Usual == <<Table("XSDT", 8, 6), Table("FACP", 21, 1),
           Madt(22, 2, Processors \o <<IoApic(80), Override(0, 0, 2),
                                       Override(0, 0, 3), Nmi(0), Other>>)>>

(* A table with an invalid checksum, one that crosses into the page of another
   table, and an NMI entry with the flags of a PC. *)
PcFlags == <<Table("XSDT", 1, 3), [Table("BGRT", 33, 9) EXCEPT !.valid = FALSE],
             Table("FACP", 21, 1), Table("HPET", 28, 4), Table("SSDT", 22, 4),
             Madt(44, 4, Processors \o <<Nmi(5)>>)>>

(* A MADT that crosses into a page that is not mapped; IO APIC registers that
   are not at a frame. *)
Crossing == <<Table("XSDT", 8, 3), Madt(22, 4, Processors)>>
OddIoApic == <<Table("XSDT", 8, 3), Madt(16, 4, <<Processor, IoApic(81)>>)>>

(* A MADT with an invalid checksum: no core is counted.  One that lists fewer cores
   than the largest id needs. *)
NoCores == <<Table("XSDT", 8, 3),
             [Madt(16, 4, Processors) EXCEPT !.valid = FALSE]>>
FewCores == <<Table("XSDT", 8, 3), Madt(16, 4, <<Processor, Processor>>)>>

(* A page has four stacks, two GDTs or TSSs, or one NMI stack. *)
MCEntrySize == [stacks |-> 1, gdt |-> 2, tss |-> 2, nmi_stacks |-> 4]

(* Blocks of two bytes.  A file that is an archive itself, one that ends in the
   middle of a block, a path that comes twice, entries of other types. *)
Entry(path_, ftype_, size_, content_) ==
  [path |-> path_, utf8 |-> TRUE, dot |-> FALSE, ftype |-> ftype_,
   size |-> size_, content |-> content_]
Data(k) == [ustar |-> FALSE, data |-> k]
Directory(path) == Entry(path, "5", 0, <<>>)
Nested == Header(Entry("/sys", "0", 4, <<>>))

(* A block that begins no header, and the blocks of a list of entries. *)
Plain == [ustar |-> FALSE]
Blocks(list) ==
  FoldLeft(LAMBDA blocks, e : blocks \o <<Header(e)>> \o e.content, <<>>, list)

Archive(list, cut) ==
  LET blocks == Blocks(list) \o <<Plain, Plain>>
  IN [entries |-> list, memory |-> blocks,
      first |-> [i \in 1..(Len(list) + 1) |-> Len(Blocks(SubSeq(list, 1, i - 1))) + 1],
      initrd_size |-> 2 * Len(blocks) - cut]
Image == Archive(<<Directory("/sys"), Entry("/sys/font.psf", "0", 3, <<Data(1), Data(2)>>),
                   [Directory("/sys/.") EXCEPT !.dot = TRUE],
                   Entry("/bin/init", "0", 1, <<Nested>>),
                   Entry("/bin/link", "2", 0, <<>>), Entry("/bin/init", "0", 4, <<Nested, Data(3)>>),
                   Entry("/bin/dummy", "0", 0, <<>>)>>, 0)
Trimmed == Archive(<<Entry("pax", "x", 2, <<Nested>>), Entry("/bin", "0", 2, <<Data(1)>>),
                     Directory("/bin"), Entry("/bin/init", "0", 3, <<Data(2), Nested>>)>>, 4)
NoSize == Archive(<<Directory("/bin"), Entry("/bin/link", "2", -1, <<>>)>>, 0)
NoPath == Archive(<<[Entry("/bin/init", "0", 1, <<Data(1)>>) EXCEPT !.utf8 = FALSE]>>, 3)

MCArchives == <<Image, Trimmed, NoSize, NoPath>>
MCLayouts == <<Usual, PcFlags, Crossing, OddIoApic, NoCores, FewCores>>
MCMachines == {<<1, 1>>, <<2, 2>>, <<1, 3>>, <<2, 4>>, <<3, 1>>, <<4, 1>>,
               <<1, 5>>, <<2, 6>>}
UsualOnly == {<<1, 1>>}
=============================================================================

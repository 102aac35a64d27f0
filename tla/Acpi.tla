-------------------------------- MODULE Acpi --------------------------------
(***************************************************************************)
(* acpi::init (acpi/mod.rs): the primary core maps the tables of the       *)
(* firmware into a window of virtual pages, one after the other, and hands *)
(* the MADT to the handler of proc/apic/mod.rs.                            *)
(*                                                                         *)
(* Nothing else runs meanwhile.  What can go wrong is the window: a table  *)
(* is read through the pages that map_table counted, and a frame that was  *)
(* mapped for one table serves every table that begins in it.  The XSDT    *)
(* is read again for each of its entries, after the tables before.         *)
(***************************************************************************)
EXTENDS Integers, Sequences

CONSTANTS
  Layouts,      \* a sequence of what firmware has: the XSDT, then the tables it
                \* lists
  PAGE_SIZE     \* in units that no table header crosses

(* The XSDT comes first.  Tables lie apart in memory, but the XSDT may list one
   more than once. *)
ASSUME AcpiAssumption ==
  /\ PAGE_SIZE \in Nat \ {0}
  /\ \A l \in DOMAIN Layouts :
       LET list == Layouts[l]
       IN /\ Len(list) \in Nat \ {0} /\ DOMAIN list = 1..Len(list)
          /\ \A i \in DOMAIN list : list[i].adr \in Nat /\ list[i].len \in Nat \ {0}
          /\ \A i, j \in DOMAIN list :
               \/ list[i].adr + list[i].len <= list[j].adr
               \/ list[j].adr + list[j].len <= list[i].adr
               \/ list[i].adr = list[j].adr /\ list[i].len = list[j].len

VARIABLES
  layout,       \* which of Layouts this machine has
  walk,         \* where the walk is: "xsdt", "madt", "done", or how it died
  index,        \* the table it has reached
  madt,         \* MadtIterator: the entries that are left
  vmemmap,      \* the page that maps a frame in which a table begins
  pgindex,      \* the pages of the window that are in use
  window,       \* the page tables: the frame of each page of the window
  torn,         \* the tables that were read through a wrong or missing page
  numcores,     \* NUMCORES
  ioapics,      \* IOAPIC: the frames of their registers
  redirections, \* IOAPIC_REDIRECTION: pairs of source and destination
  nmi_configs   \* APIC_CONFIG

acpiVars == <<layout, walk, index, madt, vmemmap, pgindex, window, torn,
              numcores, ioapics, redirections, nmi_configs>>

tables == Layouts[layout]

AcpiInit(l) ==
  /\ layout = l
  /\ walk = "xsdt" /\ index = 1 /\ madt = <<>>
  /\ vmemmap = <<>> /\ pgindex = 0 /\ window = <<>>
  /\ torn = {}
  /\ numcores = 0 /\ ioapics = <<>> /\ redirections = {} /\ nmi_configs = <<>>

FirstFrame(t) == t.adr \div PAGE_SIZE
LastFrame(t) == (t.adr + t.len - 1) \div PAGE_SIZE

(* map_table: the pages that are mapped, from the length alone; where in its
   page the table begins is not counted. *)
MappedPages(t) == (t.len + PAGE_SIZE - 1) \div PAGE_SIZE

(* Mutant of PagesUsed: the pages after the first are not counted. *)
OnePageUsed(t) == 1

(* map_table: how far pgindex moves. *)
PagesUsed(t) == 1 + (MappedPages(t) - 1)

(* map_table: the window with the pages of t, over what was there. *)
MapTable(t) ==
  LET new == pgindex..(pgindex + MappedPages(t) - 1)
  IN [p \in DOMAIN window \cup new |->
        IF p \in new THEN FirstFrame(t) + p - pgindex ELSE window[p]]

(* getvadr: a frame in which a table begins is mapped once. *)
getvadr(t) ==
  IF FirstFrame(t) \in DOMAIN vmemmap
  THEN UNCHANGED <<vmemmap, pgindex, window>>
  ELSE /\ window' = MapTable(t)
       /\ pgindex' = pgindex + PagesUsed(t)
       /\ vmemmap' = [f \in DOMAIN vmemmap \cup {FirstFrame(t)} |->
                        IF f = FirstFrame(t) THEN pgindex ELSE vmemmap[f]]

(* The pages through which t is read, and whether they show t: with window w,
   when the first frame of t is at page p. *)
Through(t, p) == p..(p + LastFrame(t) - FirstFrame(t))
Mapped(t, p, w) == Through(t, p) \subseteq DOMAIN w
Whole(t, p, w) ==
  Mapped(t, p, w) /\ \A q \in Through(t, p) : w[q] = FirstFrame(t) + q - p

(* verify_checksum reads all of the table: a page that is not mapped is a fault
   without a handler, other bytes than the table's have any sum, and nothing
   is known of the walk when those add up. *)
Read(t, next, skip) ==
  LET p == vmemmap'[FirstFrame(t)]
      whole == Whole(t, p, window')
  IN /\ torn' = IF whole THEN torn ELSE torn \cup {t}
     /\ walk' \in
          IF ~Mapped(t, p, window') THEN {"fault"}
          ELSE IF ~whole THEN {"garbage", skip}
          ELSE IF t.valid THEN {next} ELSE {skip}

(* HANDLERS, as cfgtb::init leaves it for the walk: one handler, for the MADT. *)
HANDLERS == {"APIC"}

results == <<numcores, ioapics, redirections, nmi_configs>>

(* acpi::init, walk_recursive of the XSDT. *)
VisitXsdt ==
  /\ walk = "xsdt" /\ index = 1
  /\ getvadr(tables[1])
  /\ Read(tables[1], "xsdt", "done")
  /\ index' = 2
  /\ UNCHANGED <<layout, madt, results>>

(* Xsdt::at, walk_recursive: the next entry of the XSDT is read where the XSDT
   is mapped; then its table is mapped and walked: cfgtb::acpi::call runs the
   handler if there is one.  No table that the XSDT lists is an XSDT. *)
VisitTable ==
  /\ walk = "xsdt" /\ index \in 2..Len(tables)
  /\ IF ~Whole(tables[1], vmemmap[FirstFrame(tables[1])], window)
     THEN /\ walk' = "garbage" /\ torn' = torn \cup {tables[1]}
          /\ UNCHANGED <<index, madt, vmemmap, pgindex, window>>
     ELSE LET t == tables[index]
          IN /\ getvadr(t)
             /\ Read(t, IF t.signature \in HANDLERS THEN "madt" ELSE "xsdt", "xsdt")
             /\ index' = index + 1
             /\ madt' = IF walk' = "madt" THEN t.entries ELSE <<>>
  /\ UNCHANGED <<layout, results>>

(* walk_recursive: the XSDT has no more entries. *)
VisitEnd ==
  /\ walk = "xsdt" /\ index = Len(tables) + 1
  /\ walk' = "done"
  /\ UNCHANGED <<layout, index, madt, vmemmap, pgindex, window, torn, results>>

(* From<&MadtEntryLocalApicNmi>: the struct has no field for the header of the
   entry, so its id is the type of the entry, 4, its flags are the length and
   the processor, and its lint is the low byte of the flags. *)
LocalApicNmiConfig(e) ==
  [id |-> e.mtype, flags |-> e.len + 256 * e.procid, lint |-> e.flags % 256]

(* MadtEntryIoApicInterruptSourceOverride::source. *)
source(e) == IF e.bus # 0 THEN <<"Bus", e.bus>> ELSE <<"Irq", e.irq>>

(* acpi_handler: an entry of the MADT.  A processor is counted whether it is
   enabled or not.  Registers of an IO APIC that are not at a frame make the
   unwrap of IoApicInfo::new panic. *)
MadtEntry ==
  /\ walk = "madt" /\ madt # <<>>
  /\ madt' = Tail(madt)
  /\ LET e == Head(madt)
     IN \/ /\ e.mtype = 0
           /\ numcores' = numcores + 1
           /\ UNCHANGED <<walk, ioapics, redirections, nmi_configs>>
        \/ /\ e.mtype = 1
           /\ IF e.ioapic_adr % PAGE_SIZE = 0
              THEN /\ ioapics' = Append(ioapics, e.ioapic_adr \div PAGE_SIZE)
                   /\ UNCHANGED walk
              ELSE walk' = "panic_ioapic" /\ UNCHANGED ioapics
           /\ UNCHANGED <<numcores, redirections, nmi_configs>>
        \/ /\ e.mtype = 2
           /\ redirections' = {r \in redirections : r[1] # source(e)}
                                \cup {<<source(e), e.gsi>>}
           /\ UNCHANGED <<walk, numcores, ioapics, nmi_configs>>
        \/ /\ e.mtype = 4
           /\ nmi_configs' = Append(nmi_configs, LocalApicNmiConfig(e))
           /\ UNCHANGED <<walk, numcores, ioapics, redirections>>
        \/ /\ e.mtype \notin {0, 1, 2, 4}
           /\ UNCHANGED <<walk, results>>
  /\ UNCHANGED <<layout, index, vmemmap, pgindex, window, torn>>

(* acpi_handler: the end of the MADT. *)
MadtEnd ==
  /\ walk = "madt" /\ madt = <<>>
  /\ walk' = "xsdt"
  /\ UNCHANGED <<layout, index, madt, vmemmap, pgindex, window, torn, results>>

acpi_init == VisitXsdt \/ VisitTable \/ VisitEnd \/ MadtEntry \/ MadtEnd

----------------------------------------------------------------------------
AcpiTypeOK ==
  /\ walk \in {"xsdt", "madt", "done", "fault", "garbage", "panic_ioapic"}
  /\ index \in 1..(Len(tables) + 1)
  /\ pgindex \in Nat
  /\ \A f \in DOMAIN vmemmap : vmemmap[f] \in Nat
  /\ \A p \in DOMAIN window : window[p] \in Nat
  /\ numcores \in Nat

(* A table that begins at a page or ends in the page it begins in. *)
WellPlaced(t) ==
  t.adr % PAGE_SIZE = 0 \/ (t.adr % PAGE_SIZE) + t.len <= PAGE_SIZE

(* A well placed table is read from its own frames, each time it is read and
   whatever was mapped before: the windows of map_table do not overlap, a frame
   that two tables share shows both, and mapping the tables that the XSDT
   lists does not disturb the XSDT. *)
TablesRead == \A t \in torn : ~WellPlaced(t)
=============================================================================

------------------------------ MODULE MCMemory -------------------------------
(***************************************************************************)
(* The kernel heap, frames with page tables, the power tables and the PCI  *)
(* bus, on small instances.  A behaviour runs one of the four: the first   *)
(* two meet only at boot, where the heap's frames are reserved             *)
(* (reserve_heap in Paging), the others not at all.                        *)
(***************************************************************************)
EXTENDS Heap, Integers, Sequences, TLC

CONSTANTS
  MAX_FRAMES, STATIC_PT_PAGES, PAGE_SIZE, CountMod, LowFrames, KernelFrames,
  HeapFrames, IDENTITY_MAP_PAGES, MemoryMaps, MaxOps,
  PCI_MAX_BUS, PCI_MAX_DEVICE, PCI_MAX_FUNCTION, PCI_MAX_DEVICES

VARIABLES
  part, phase, map, used, total_frames, free_frames, mem, static_pt_used, owned,
  asked, ops, fw, apc, g_acpi_ready, pm1, slp, reset, out, slots, scan, devices, hba

(* Sizes: one that is rounded, one that splits a block, one that fills     *)
(* most of the heap, and one that the mask cuts.                           *)
MCRequests == {1, 24, 70, 1023}
MCAlignments == {32}

(* No memory map; unaligned entries; overlapping ones; more than there     *)
(* are bits for.                                                           *)
Entry(b, l, t) == [base |-> b, length |-> l, type |-> t]
MCMemoryMaps ==
  {<< >>,
   << Entry(0, 6, 1), Entry(6, 10, 2) >>,
   << Entry(1, 20, 1), Entry(17, 5, 1) >>,
   << Entry(0, 4, 1), Entry(5, 9, 1), Entry(15, 30, 1) >>}

(* Byte code with the _S5_ package: some before it, the package length in  *)
(* 1 + e bytes, and the two types as integers, 0 and 1 of which need no    *)
(* prefix.                                                                 *)
Object(t) == IF t <= 1 THEN << t >> ELSE << 10, t >>
S5(e, a, b) == << 8, 95, 83, 53, 95, 18, 64 * e + 6 >> \o [i \in 1 .. e |-> 10]
                 \o << 4 >> \o Object(a) \o Object(b) \o << 0, 0 >>
Decoy == << 8, 95, 83, 53, 95, 10, 18, 7, 95, 83, 53, 95, 18 >>
Cut   == << 3, 8, 95, 83, 53, 95, 18, 6, 1, 5 >>     \* one element, at the end

Gas(space, a) == [space |-> space, address |-> a]
Header(sig, sum) == [sig |-> sig, whole |-> TRUE, sum |-> sum]
Fadt(sum, rev, xe, b, rsup) ==
  Header("FACP", sum) @@
  [rev |-> rev, dsdt |-> 8, x_dsdt |-> IF rev >= 3 THEN 8 ELSE 0,
   pm1a_cnt_blk |-> 1028, pm1b_cnt_blk |-> b, x_pm1a_evt_blk |-> xe[1],
   x_pm1b_evt_blk |-> xe[2], reset_sup |-> rsup,
   reset |-> [have |-> FALSE, space |-> 1, addr |-> 3321, value |-> 6]]
List(sum, list) == Header("list", sum) @@ [list |-> list]
Rsdp(sum, rev) == [sum |-> sum, rev |-> rev, rsdt |-> 1, xsdt |-> 2]

(* A bad root pointer before a good one, an XSDT that is there or broken   *)
(* or empty, a broken FADT before a good one, short and missing tables,    *)
(* and byte code of all forms.                                             *)
Codes == {[aml |-> pre \o S5(e, a, b), slp |-> << (a % 8) * 1024, (b % 8) * 1024 >>] :
            pre \in {<< >>, Decoy, << 8, 95 >>}, e \in 0 .. 3, a \in {0, 5, 10}, b \in {1, 7}}
         \union {[aml |-> c, slp |-> << 8192, 8192 >>] : c \in {Cut, Decoy, << >>}}

(* Extended event blocks: none, in I/O space, in memory, and with more     *)
(* than 16 bits in their addresses.                                        *)
NoEvents == << Gas(0, 0), Gas(0, 0) >>
Events == {NoEvents, << Gas(1, 1024), Gas(1, 1040) >>, << Gas(0, 1024), Gas(0, 9) >>,
           << Gas(1, 65536 + 1024), Gas(1, 65536 + 1040) >>}
PortOf(frev, x) == IF frev >= 3 /\ x.space = 1 THEN x.address % 65536 ELSE 0

Firmware(there, rev, ebda, xsum, xlist, frev, xe, pmb, rsup, dsum, code) ==
  [ ebda |-> << Rsdp(FALSE, 0) >>, rom |-> << Rsdp(there, rev) >>, ebda_there |-> ebda,
    beyond |-> 10,
    tables |-> << List(TRUE, << 6, 3, 0, 4, 5 >>), List(xsum, xlist),
                  Fadt(FALSE, 1, NoEvents, 1036, TRUE), Fadt(TRUE, frev, xe, pmb, rsup),
                  Fadt(TRUE, 1, NoEvents, 1036, TRUE),
                  [Header("FACP", TRUE) EXCEPT !.whole = FALSE], Header("APIC", TRUE),
                  Header("DSDT", dsum) @@ [aml |-> code.aml] >>,
    told |-> [ fadt |-> there, slp |-> IF dsum THEN code.slp ELSE << 0, 0 >>,
               cnt_a |-> 1028, cnt_b |-> pmb, resets |-> rsup /\ there,
               evt_a |-> PortOf(frev, xe[1]), evt_b |-> PortOf(frev, xe[2]) ] ]

MCFirmwares ==
  { Firmware(TRUE, 2, FALSE, TRUE, << 3, 4 >>, 3, NoEvents, 0, TRUE, TRUE, code) :
      code \in Codes }
  \union
  { Firmware(there, rev, ebda, xsum, xlist, frev, xe, pmb, rsup, dsum,
             [aml |-> S5(0, 5, 1), slp |-> << 5120, 1024 >>]) :
      there \in BOOLEAN, rev \in {0, 2}, ebda \in BOOLEAN, xsum \in BOOLEAN,
      xlist \in {<< 3, 4 >>, << 7 >>}, frev \in {1, 3}, xe \in Events,
      pmb \in {0, 1032}, rsup \in BOOLEAN, dsum \in BOOLEAN }

(* Empty, one function (decoded or not), three functions with a gap. *)
Fn(class, multi) == [class |-> class, multi |-> multi]
SlotKinds ==
  { [functions |-> << >>, aliased |-> FALSE] }
  \union { [functions |-> 0 :> Fn(c, FALSE), aliased |-> al] :
             c \in {"sata", "net"}, al \in BOOLEAN }
  \union { [functions |-> 0 :> Fn("bridge", TRUE) @@ 1 :> Fn(c, TRUE) @@ 3 :> Fn("usb", TRUE),
            aliased |-> FALSE] : c \in {"sata", "net"} }
MCBusses == [0 .. PCI_MAX_BUS - 1 -> [0 .. PCI_MAX_DEVICE - 1 -> SlotKinds]]

P == INSTANCE Paging
A == INSTANCE Acpi
B == INSTANCE Pci

ASSUME MemoryAssumption == P!PagingAssumption

pvars == << phase, map, used, total_frames, free_frames, mem, static_pt_used, owned,
            asked, ops >>
avars == << fw, apc, g_acpi_ready, pm1, slp, reset, out >>
bvars == << slots, scan, devices, hba >>

MemInit == /\ part \in {"heap", "paging", "acpi", "pci"} /\ Init
           /\ map \in (IF part = "paging" THEN MemoryMaps ELSE {<< >>}) /\ P!Init
           /\ fw \in (IF part = "acpi" THEN MCFirmwares ELSE {<< >>}) /\ A!Init
           /\ slots \in (IF part = "pci" THEN MCBusses ELSE {<< >>}) /\ B!Init
MemNext == \/ part = "heap" /\ Next /\ UNCHANGED << part, pvars, avars, bvars >>
           \/ part = "paging" /\ P!Next /\ UNCHANGED << part, vars, avars, bvars >>
           \/ part = "acpi" /\ A!Next /\ UNCHANGED << part, vars, pvars, bvars >>
           \/ part = "pci" /\ B!Next /\ UNCHANGED << part, vars, pvars, avars >>
MemSpec == MemInit /\ [][MemNext]_<< part, vars, pvars, avars, bvars >>

-----------------------------------------------------------------------------
(* The frame bitmap, its count and the uses of frames agree: no frame has  *)
(* two uses, only memory the loader reported usable is handed out.         *)
FramesSound == part = "paging" => P!FramesSound

(* The tables form a tree and translate every page to what was asked for   *)
(* it last.                                                                *)
TranslatesAsAsked == part = "paging" => P!TablesFormTree /\ P!TranslatesAsAsked

(* The power tables are read as the firmware means them and used so, but   *)
(* for extended event blocks, which acpi.c:262-276 takes for the control   *)
(* blocks; the bus table lists every function once, or the first ones when *)
(* it is full.                                                             *)
MachineFound == /\ part = "acpi" => A!ReadAsTold /\ A!PowerAsTold
                /\ part = "pci" => B!BusListed
=============================================================================

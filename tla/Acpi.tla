-------------------------------- MODULE Acpi ---------------------------------
(***************************************************************************)
(* Power management from the firmware's tables (kernel/acpi.c): acpi_init  *)
(* looks for the root pointer, follows it to the FADT and the DSDT, and    *)
(* reads the sleep types of the _S5_ package out of the DSDT's byte code;  *)
(* acpi_shutdown and acpi_reboot write what was found.                     *)
(*                                                                         *)
(* A table is a record of the fields the code reads, under the names they  *)
(* have in the firmware's layout; a checksum is a flag saying whether the  *)
(* bytes add up to zero.  Mapping pages before a table is read is module   *)
(* Paging's subject.  Log messages are left out.                           *)
(***************************************************************************)
EXTENDS Naturals, Sequences

VARIABLES
  fw,            \* the machine's tables, chosen with the instance
  apc,           \* "boot", "up", "off" or "reset"
  g_acpi_ready,
  pm1,           \* g_pm1a_cnt, g_pm1b_cnt and g_have_slpb
  slp,           \* g_slp_typa and g_slp_typb
  reset,         \* g_have_reset and the reset register
  out            \* what was written to ports and registers, in order

avars == << fw, apc, g_acpi_ready, pm1, slp, reset, out >>

-----------------------------------------------------------------------------
(* The first of a sequence that passes, as a sequence of at most one. *)
FirstOf(s, Pass(_)) ==
  LET ok == {i \in 1 .. Len(s) : Pass(s[i])}
  IN  IF ok = {} THEN << >> ELSE << s[CHOOSE i \in ok : \A j \in ok : i <= j] >>

(* The checksum runs over the length that the revision gives. *)
acpi_checksum(t) == t.sum

acpi_find_rsdp ==
  FirstOf((IF fw.ebda_there THEN fw.ebda ELSE << >>) \o fw.rom, acpi_checksum)

(* A table is reached when its address is not 0 and it is no shorter than  *)
(* a header.                                                               *)
acpi_map_sdt(a) == IF a # 0 /\ fw.tables[a].whole THEN << fw.tables[a] >> ELSE << >>

(* The first listed table with the signature and a good checksum: entries  *)
(* that cannot be mapped, and bad copies, are passed over.                 *)
acpi_find_table(list, sig) ==
  FirstOf(SelectSeq(list, LAMBDA a : acpi_map_sdt(a) # << >>),
          LAMBDA a : fw.tables[a].sig = sig /\ acpi_checksum(fw.tables[a]))

(* The XSDT first, when there is one; else, or when the FADT is not in it, *)
(* the RSDT.                                                               *)
FadtVia(a) ==
  IF acpi_map_sdt(a) # << >> /\ acpi_checksum(fw.tables[a])
    THEN acpi_find_table(fw.tables[a].list, "FACP") ELSE << >>

find_fadt(rsdp) ==
  LET x == IF rsdp.rev >= 2 THEN FadtVia(rsdp.xsdt) ELSE << >>
  IN  IF x # << >> THEN x ELSE FadtVia(rsdp.rsdt)

-----------------------------------------------------------------------------
(* The scan for the _S5_ package, byte by byte (counted from 0). *)
S5Name == << 8, 95, 83, 53, 95 >>     \* NameOp and the name
PackageOp  == 18
BytePrefix == 10

no_extra_bug(lead) == 0
extra_bytes(lead) == (lead \div 64) % 4

(* The types found from byte i on, or nothing, when the scan goes on there *)
(* or ends.  The byte after the last may be read; `beyond' is what it      *)
(* happens to hold.                                                        *)
GoesOn   == [stop |-> FALSE, types |-> << >>]
Ends     == [stop |-> TRUE, types |-> << >>]
Found(t) == [stop |-> TRUE, types |-> t]

s5_at(aml, beyond, i) ==
  LET n       == Len(aml)
      Byte(k) == IF k < n THEN aml[k + 1] ELSE beyond
      lead    == Byte(i + 6)
      j       == i + 7 + extra_bytes(lead)           \* NumElements
      a       == IF Byte(j + 1) = BytePrefix THEN j + 2 ELSE j + 1
      b       == IF Byte(a + 1) = BytePrefix THEN a + 2 ELSE a + 1
  IN  CASE SubSeq(aml, i + 1, i + 5) # S5Name -> GoesOn
        [] SubSeq(aml, i + 1, i + 5) = S5Name /\ Byte(i + 5) # PackageOp -> GoesOn
        [] OTHER -> IF j >= n \/ j + 2 >= n \/ a >= n \/ b >= n
                      THEN Ends ELSE Found(<< Byte(a), Byte(b) >>)

acpi_parse_s5(aml, beyond) ==
  LET tries == [k \in 1 .. (IF Len(aml) > 7 THEN Len(aml) - 7 ELSE 0) |->
                  s5_at(aml, beyond, k - 1)]
      found == FirstOf(tries, LAMBDA t : t.stop)
  IN  IF found = << >> THEN << >> ELSE found[1].types

(* Where the sleep types are shifted to in the control register. *)
SLP_EN == 8192
slp_bits(t) == (t % 8) * 1024

sleep_types(fadt) ==
  LET dsdt == acpi_map_sdt(IF fadt.rev >= 3 /\ fadt.x_dsdt # 0 THEN fadt.x_dsdt
                           ELSE fadt.dsdt)
      t    == IF dsdt = << >> THEN << >> ELSE acpi_parse_s5(dsdt[1].aml, fw.beyond)
  IN  CASE dsdt = << >> -> << 0, 0 >>
        [] dsdt # << >> /\ ~acpi_checksum(dsdt[1]) -> << 0, 0 >>
        [] OTHER -> IF t = << >> THEN << SLP_EN, SLP_EN >>
                                 ELSE << slp_bits(t[1]), slp_bits(t[2]) >>

(* The extended address when the revision has one in I/O space.  acpi.h    *)
(* lists the extended control blocks right after x_dsdt, where the FADT    *)
(* has the extended event blocks, so these are what is read here.          *)
Port16(a) == a % 65536
extended(fadt, x) == fadt.rev >= 3 /\ x.address # 0 /\ x.space = 1
control_port(fadt, x, plain) == Port16(IF extended(fadt, x) THEN x.address ELSE plain)

-----------------------------------------------------------------------------
Init ==
  /\ apc = "boot" /\ g_acpi_ready = FALSE
  /\ pm1 = [a |-> 0, b |-> 0, have_b |-> FALSE] /\ slp = << 0, 0 >>
  /\ reset = [have |-> FALSE, space |-> 0, addr |-> 0, value |-> 0] /\ out = << >>

(* acpi_init returns early, changing nothing, without root pointer or FADT. *)
acpi_init ==
  /\ apc = "boot" /\ apc' = "up"
  /\ LET rsdp == acpi_find_rsdp
         at   == IF rsdp = << >> THEN << >> ELSE find_fadt(rsdp[1]) IN
     IF at = << >> THEN UNCHANGED << g_acpi_ready, pm1, slp, reset >>
     ELSE LET fadt == fw.tables[at[1]] IN
          /\ g_acpi_ready' = TRUE
          /\ pm1' = [a |-> control_port(fadt, fadt.x_pm1a_evt_blk, fadt.pm1a_cnt_blk),
                     b |-> control_port(fadt, fadt.x_pm1b_evt_blk, fadt.pm1b_cnt_blk),
                     have_b |-> extended(fadt, fadt.x_pm1b_evt_blk) \/ fadt.pm1b_cnt_blk # 0]
          /\ slp' = sleep_types(fadt)
          /\ reset' = IF fadt.reset_sup THEN [fadt.reset EXCEPT !.have = TRUE] ELSE reset
  /\ UNCHANGED << fw, out >>

Port(p, v)   == << "port", p, v >>
Memory(a, v) == << "memory", a, v >>
with_slp_en(v) == IF (v \div SLP_EN) % 2 = 1 THEN v ELSE v + SLP_EN

(* The control blocks, then the ports that stop QEMU and Bochs. *)
acpi_shutdown ==
  /\ apc = "up" /\ apc' = "off"
  /\ out' = (IF g_acpi_ready /\ pm1.a # 0
               THEN << Port(pm1.a, with_slp_en(slp[1])) >>
                    \o (IF pm1.have_b /\ pm1.b # 0
                          THEN << Port(pm1.b, with_slp_en(slp[2])) >> ELSE << >>)
               ELSE << >>)
            \o << Port(1540, SLP_EN), Port(45060, SLP_EN), Port(1536, 52) >>
  /\ UNCHANGED << fw, g_acpi_ready, pm1, slp, reset >>

(* The reset register, then the keyboard controller (after waiting for it  *)
(* a bounded time), then an interrupt without descriptor table.            *)
acpi_reboot ==
  /\ apc = "up" /\ apc' = "reset"
  /\ out' = (CASE reset.have /\ reset.addr # 0 /\ reset.space = 0 ->
                    << Memory(reset.addr, reset.value) >>
               [] reset.have /\ reset.addr # 0 /\ reset.space = 1 ->
                    << Port(Port16(reset.addr), reset.value) >>
               [] OTHER -> << >>)
            \o << Port(100, 254), << "triple fault", 0, 0 >> >>
  /\ UNCHANGED << fw, g_acpi_ready, pm1, slp, reset >>

Next == acpi_init \/ acpi_shutdown \/ acpi_reboot

-----------------------------------------------------------------------------
(* What a machine says of itself, for comparison, is fw.told: whether it   *)
(* has a good FADT, the sleep types, the ports of its control blocks (0    *)
(* for none), and those of its event blocks when the FADT gives these as   *)
(* extended addresses in I/O space.  The code takes the latter for control *)
(* blocks (acpi.h:95-99, acpi.c:262-276).                                  *)
TakenForControl(evt, cnt) == IF evt # 0 THEN evt ELSE cnt

(* acpi_init finds the first good FADT past broken tables in front, and    *)
(* the sleep types in every encoding; the ports are those of the control   *)
(* blocks on a FADT without extended event blocks in I/O space, and else   *)
(* those of the event blocks.                                              *)
ReadAsTold ==
  apc # "boot" =>
    /\ g_acpi_ready <=> fw.told.fadt
    /\ g_acpi_ready => /\ slp = fw.told.slp
                       /\ pm1.a = TakenForControl(fw.told.evt_a, fw.told.cnt_a)
                       /\ pm1.b = TakenForControl(fw.told.evt_b, fw.told.cnt_b)

(* On a FADT without extended event blocks in I/O space shutdown asks the  *)
(* tabled control blocks, block a first, for the tabled sleep state before *)
(* it tries the emulators' ports.  Reset is asked of the tabled register   *)
(* when the FADT says it has one, and last of all by a triple fault.       *)
PowerAsTold ==
  /\ apc = "off" /\ fw.told.fadt /\ fw.told.evt_a = 0 /\ fw.told.evt_b = 0 =>
       /\ out[1] = Port(fw.told.cnt_a, with_slp_en(fw.told.slp[1]))
       /\ fw.told.cnt_b # 0 => out[2] = Port(fw.told.cnt_b, with_slp_en(fw.told.slp[2]))
  /\ apc = "reset" => /\ Len(out) = 3 <=> fw.told.resets
                      /\ out[Len(out)][1] = "triple fault"
=============================================================================

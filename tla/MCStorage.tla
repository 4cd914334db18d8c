----------------------------- MODULE MCStorage -------------------------------
(***************************************************************************)
(* The storage stack on small instances.  The layers are checked side by   *)
(* side: a behaviour chooses one of them and runs it alone, as each layer  *)
(* models the one below by what it can return.                             *)
(***************************************************************************)
EXTENDS Naturals, Sequences, FiniteSets, TLC

CONSTANTS
  PER_SECTOR, FatSectors, NumFats, Reserved, TotalSectors, SPC, SECTOR, ENTRIES,
  SizeMod, EOC, Names, Sizes, FatReadErrors, MaxCalls, MaxFaults,
  CHARS, MAX_CHARS, MAX_ORD, NAME, EXT, Lower, Wide, Dot, Space, Pad,
  MAX_FDS, CLUSTER, SCRATCH, Files, Missing, Counts,
  MAX_FILES, HEADER, ENTRY, WORD, MaxVisits,
  Lba, Buffer, Value, MaxWrites

VARIABLES
  part,
  g_ready, fat, data, op, held, calls, faults, misread, exposed,
  dir, target, pos, lfn, outcome,
  g_vfs_ready, g_fds, handles, got,
  info, offset, visits, found, count, g_files, g_mounted,
  port_mask, at, call, table, ci, bsy, err, ctl, working, mem, disk, result,
  timed_out, fills

-----------------------------------------------------------------------------
(* Directories of up to three entries out of these, and of a name in three *)
(* fragments and one of these: fragments, among them one with a UCS-2      *)
(* character and one with too high an ordinal; "A" and "AB.A" as short     *)
(* names.                                                                  *)
Frag(o, s, c) == [kind |-> "lfn", ord |-> o, start |-> s, chars |-> c, name83 |-> << >>]
Other(k, n) == [kind |-> k, ord |-> 0, start |-> FALSE, chars |-> << >>, name83 |-> n]
Raws ==
  {Frag(1, FALSE, << 11, 2 >>), Frag(1, TRUE, << 1, 0 >>), Frag(2, TRUE, << 101, 0 >>),
   Frag(2, FALSE, << 2, 1 >>), Frag(3, TRUE, << 2, 2 >>), Frag(4, TRUE, << 1, 1 >>),
   Other("deleted", << >>), Other("volume", << >>), Other("end", << >>),
   Other("file", << << 1 >>, << >> >>), Other("file", << << 1, 2 >>, << 1 >> >>)}
Dirs ==
  UNION {[1 .. n -> Raws] : n \in 0 .. 3}
    \cup {<< Frag(3, TRUE, << 2, 2 >>), Frag(2, FALSE, << 2, 1 >>),
             Frag(1, FALSE, << 11, 2 >>), e >> : e \in Raws}
Targets ==
  {<< 1 >>, << 11, 2, 1 >>, << 1, 2, 2, 1, 2, 2 >>, << 1, 6, 2, 5, 11 >>, << >>}

SizeOf == [f \in Files |-> IF f = "a" THEN 3 ELSE 7]

(* Boot information with three tags and an end tag, two ramdisk images. *)
Tag(t, s, n, a, b) ==
  [type |-> t, size |-> s, named |-> n, mod_start |-> a, mod_end |-> b]
EndTag == Tag("end", 8, FALSE, 0, 0)
SomeTags ==
  {Tag("other", 5, FALSE, 0, 0), Tag("module", 14, FALSE, 40, 60), EndTag,
   Tag("module", 16, TRUE, 40, 64), Tag("module", 9, TRUE, 80, 95),
   Tag("module", 16, TRUE, 80, 110)}
After(o, t) == o + ((t.size + 7) \div 8) * 8
Laid(a, b, c) ==
  8 :> a @@ After(8, a) :> b @@ After(After(8, a), b) :> c
    @@ After(After(After(8, a), b), c) :> EndTag
BootInfos ==
  {[total_size |-> 48, tags |-> Laid(a, b, c)] : a \in SomeTags, b \in SomeTags, c \in SomeTags}
InImage(n, o, s) == [name |-> n, offset |-> o, size |-> s]
Image(n, e) == [magic |-> TRUE, version |-> 1, num_files |-> n, entries |-> e]
Images ==
  40 :> Image(3, << InImage("/a", 20, 4), InImage("/b", 20, 9), InImage("/a", 24, 0) >>)
    @@ 80 :> Image(2, << InImage("/b", 15, 15), InImage("/c", 30, 1) >>)

-----------------------------------------------------------------------------
F == INSTANCE Fat32
L == INSTANCE Lfn
V == INSTANCE Vfs
I == INSTANCE Initrd
A == INSTANCE Ahci

ASSUME StorageAssumption == F!Fat32Assumption

fvars == << g_ready, fat, data, op, held, calls, faults, misread, exposed >>
lvars == << dir, target, pos, lfn, outcome >>
vvars == << g_vfs_ready, g_fds, handles, got >>
ivars == << info, offset, visits, found, count, g_files, g_mounted >>
avars == << port_mask, at, call, table, ci, bsy, err, ctl, working, mem, disk, result,
            timed_out, fills >>
vars == << part, fvars, lvars, vvars, ivars, avars >>

Init ==
  /\ part \in {"fat32", "lfn", "vfs", "initrd", "ahci"}
  /\ IF part = "lfn" THEN TRUE ELSE dir = << >> /\ target = << >>
  /\ info \in IF part = "initrd" THEN BootInfos ELSE {CHOOSE b \in BootInfos : TRUE}
  /\ mem = [b \in Buffer |-> b % 2] /\ disk = [l \in Lba |-> l % 2]
  /\ F!Init /\ L!Init /\ V!Init /\ A!Init
  /\ I!Init

Next ==
  \/ part = "fat32" /\ F!Next /\ UNCHANGED << part, lvars, vvars, ivars, avars >>
  \/ part = "lfn" /\ L!Next /\ UNCHANGED << part, fvars, vvars, ivars, avars >>
  \/ part = "vfs" /\ V!Next /\ UNCHANGED << part, fvars, lvars, ivars, avars >>
  \/ part = "initrd" /\ I!Next /\ UNCHANGED << part, fvars, lvars, vvars, avars >>
  \/ part = "ahci" /\ A!Next /\ UNCHANGED << part, fvars, lvars, vvars, ivars >>

Spec == Init /\ [][Next]_vars /\ WF_avars(A!DriverStep) /\ WF_avars(A!fetch)

-----------------------------------------------------------------------------
(* The volume is sound after every sector written, so also after a power   *)
(* failure: no cluster is in two chains, every file the directory lists    *)
(* has its chain whole and long enough, no call writes into another file,  *)
(* without a fault the copies of the table agree, and what is found was    *)
(* entered, unless a call ended between fat32.c:560 and 562.               *)
VolumeSound == part = "fat32" => F!VolumeSound

(* Calls lose nothing unless a read of the table failed in them: no listed *)
(* file disappears, fat32_free_chain reports success only when all is      *)
(* freed; and no vfs_open takes over a descriptor.                         *)
FilesKept ==
  [][/\ part = "fat32" => F!NoneLost /\ F!FreedAll
     /\ part = "vfs" => V!NothingTakenOver]_vars

(* fat32_free_chain reports success only when all is freed, whatever read  *)
(* failed.                                                                 *)
FreedReported == [][part = "fat32" => F!FreedReported]_vars

(* A lookup by long name finds what is there, and a hit is explained by    *)
(* the entry and the fragments directly in front of it.                    *)
NamesFound == part = "lfn" => L!NamesFound

(* A read delivers the file's bytes at the descriptor's position, also     *)
(* after seeks and short reads.                                            *)
ReadsFileBytes == part = "vfs" => V!PositionInFile /\ V!ReadsFileBytes

(* The files of the ramdisk lie inside its module, which is the first one  *)
(* the boot information names.                                             *)
RamdiskFound == part = "initrd" => I!FilesInsideImage /\ I!FirstMatch

(* Files come back as they are: from a volume and from the ramdisk.        *)
FilesRead == ReadsFileBytes /\ RamdiskFound

(* A disk call that succeeds had its own command executed, data moves only *)
(* for the call in progress or for one that timed out, and nothing         *)
(* succeeds after a device error.                                          *)
DiskSuccessIsOwn == A!SuccessIsOwn /\ A!DmaForTheCall /\ A!ErrorIsFinal

(* Every disk call returns, whatever the controller does. *)
CallReturns == A!CallReturns
=============================================================================

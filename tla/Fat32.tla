------------------------------- MODULE Fat32 ---------------------------------
(***************************************************************************)
(* The FAT32 driver of kernel/fat32.c, its write side: the allocation      *)
(* table in all its copies, the root directory and the clusters' bytes.    *)
(* One call is in progress at a time; every sector the code writes is a    *)
(* step, so that an I/O error or a power failure can come between any two. *)
(* A cluster holds ENTRIES slots of 32 bytes; a directory reads them as    *)
(* entries, a file as its bytes.                                           *)
(***************************************************************************)
EXTENDS Naturals, Sequences, FiniteSets

CONSTANTS
  PER_SECTOR,     \* FAT entries in a sector (128)
  FatSectors,     \* bpb->fat_size_32
  NumFats,        \* bpb->num_fats
  Reserved,       \* bpb->reserved_sectors
  TotalSectors,   \* bpb->total_sectors_32
  SPC,            \* bpb->sectors_per_cluster
  SECTOR,         \* bytes in a sector
  ENTRIES,        \* directory entries in a cluster
  SizeMod,        \* uint32_t arithmetic is modulo this
  EOC,            \* FAT32_EOC_MIN
  Names, Sizes,   \* what files are called, and how long they are
  FatReadErrors,  \* may the read of fat32_next_cluster fail?
  MaxCalls,       \* bound: calls that write
  MaxFaults       \* bound: I/O errors and power failures

VARIABLES
  g_ready,
  fat,      \* copy -> cluster -> entry of the table
  data,     \* cluster -> the slots on the disk
  op,       \* the call in progress
  held,     \* chains callers of fat32_alloc_clusters own
  calls, faults,
  misread,  \* has fat32_next_cluster failed in this call?
  exposed   \* has a call ended before it cleared the cluster it gave the directory?

vars == << g_ready, fat, data, op, held, calls, faults, misread, exposed >>

Root == 2
FREE == 0
NoChain == << >>
ClusterBytes == SPC * SECTOR
TableIndex == 0 .. FatSectors * PER_SECTOR - 1

(* fat32_init: the geometry. *)
g_total_clusters == (TotalSectors - (Reserved + NumFats * FatSectors)) \div SPC
Cluster == 2 .. g_total_clusters + 1

Slot(k, n, f, s) == [kind |-> k, name |-> n, first |-> f, size |-> s]
NoName == ""
Zero == [i \in 1 .. ENTRIES |-> Slot("end", NoName, 0, 0)]
Stale == [i \in 1 .. ENTRIES |-> Slot("stale", NoName, 0, 0)]
Bytes(owner) == [i \in 1 .. ENTRIES |-> Slot("bytes", NoName, owner, 0)]

Idle == [at |-> "idle", goal |-> "none", name |-> NoName, size |-> 0, given |-> FALSE,
         n |-> 0, first |-> 0, i |-> 0, f |-> 1, cur |-> 0, last |-> 0,
         file |-> 0, done |-> 0, chain |-> NoChain]

(* A formatted volume: a root directory without files, with a deleted      *)
(* entry or the volume's label, the other clusters never written.          *)
Init ==
  /\ g_ready = FALSE
  /\ fat = [f \in 1 .. NumFats |->
              [c \in TableIndex |-> IF c <= Root THEN EOC ELSE FREE]]
  /\ \E k \in {"deleted", "label"} :
       data = [c \in Cluster |->
                 IF c = Root THEN [Zero EXCEPT ![1] = Slot(k, NoName, 0, 0)] ELSE Stale]
  /\ op = Idle
  /\ held = {}
  /\ calls = 0 /\ faults = 0
  /\ misread = FALSE /\ exposed = FALSE

-----------------------------------------------------------------------------
(* Reading. *)
InChain(c) == c >= 2 /\ c < EOC
fat32_next_cluster(c) == fat[1][c]

(* A table sector that cannot be read gives 0, which ends a chain. *)
ReadFails == IF FatReadErrors THEN BOOLEAN ELSE {FALSE}
next_read(c, failed) == IF failed THEN 0 ELSE fat32_next_cluster(c)

(* The clusters from c on, as the loops of the driver walk them in table t. *)
Walk(t, c) ==
  LET w[k \in TableIndex] ==
        IF k = 0 THEN c ELSE IF InChain(w[k - 1]) THEN t[w[k - 1]] ELSE EOC
  IN  w
ChainIn(t, c) ==
  LET w == Walk(t, c)
      length == Cardinality({k \in TableIndex : InChain(w[k])})
  IN  [k \in 1 .. length |-> w[k - 1]]
Chain(c) == ChainIn(fat[1], c)

ClustersOf(c) == {Chain(c)[k] : k \in DOMAIN Chain(c)}

(* fat32_find_file takes every slot in front of the first end marker that  *)
(* is not deleted and no label for a file, whoever wrote it.               *)
EndedAt(d, dir, k, i) ==
  \E l \in 1 .. k, j \in 1 .. ENTRIES :
    (l < k \/ j < i) /\ d[dir[l]][j].kind = "end"
ListedIn(d, dir, kinds) ==
  {d[dir[p[1]]][p[2]] :
     p \in {p \in (DOMAIN dir) \X (1 .. ENTRIES) :
             d[dir[p[1]]][p[2]].kind \in kinds /\ ~EndedAt(d, dir, p[1], p[2])}}
Found == ListedIn(data, Chain(Root), {"file", "bytes", "stale"})

(* Those that fat32_create_file entered. *)
EnteredIn(d, dir) == ListedIn(d, dir, {"file"})
Entered == EnteredIn(data, Chain(Root))

-----------------------------------------------------------------------------
(* fat32_write_fat_entry: the sector is read from the first copy, changed, *)
(* and written to the copies one after another.                            *)
Sector(c) == c \div PER_SECTOR
fat32_write_fat_entry(c, v, f) ==
  IF f = 1 THEN [fat EXCEPT ![1][c] = v]
  ELSE [fat EXCEPT ![f] = [e \in TableIndex |->
                             IF Sector(e) = Sector(c) THEN fat[1][e] ELSE @[e]]]

(* The first n consecutive clusters that are read as free. *)
max_cluster == g_total_clusters + 1

(* What a formatted volume is: there are clusters, the table has an entry  *)
(* for each, and no cluster's number marks the end of a chain.             *)
Fat32Assumption ==
  /\ {PER_SECTOR, FatSectors, NumFats, SPC, SECTOR, ENTRIES, SizeMod} \subseteq Nat \ {0}
  /\ {EOC, MaxCalls, MaxFaults} \cup Sizes \subseteq Nat
  /\ g_total_clusters \in Nat \ {0}
  /\ max_cluster \in TableIndex /\ max_cluster < EOC

any_cluster_bug(c) == TRUE
is_free(c) == fat[1][c] = FREE
FreeRun(s, n, unread) ==
  \A c \in s .. s + n - 1 : c <= max_cluster /\ is_free(c) /\ c \notin unread
FirstRun(s, n, unread) ==
  /\ FreeRun(s, n, unread)
  /\ \A t \in 2 .. max_cluster : FreeRun(t, n, unread) => s <= t

Return == op' = Idle
Begin(o) ==
  /\ op = Idle /\ g_ready /\ calls < MaxCalls
  /\ op' = o /\ calls' = calls + 1 /\ misread' = FALSE
  /\ UNCHANGED << g_ready, fat, data, held, faults, exposed >>

fat32_alloc_clusters(n) ==
  Begin([Idle EXCEPT !.at = "scan", !.goal = "caller", !.n = n])

clusters_of_size(s) == ((s + ClusterBytes - 1) % SizeMod) \div ClusterBytes
needed_clusters(s) == IF clusters_of_size(s) = 0 THEN 1 ELSE clusters_of_size(s)
fat32_create_file(name, s, given) ==
  Begin([Idle EXCEPT !.at = "scan", !.goal = "file", !.n = needed_clusters(s),
                     !.name = name, !.size = s, !.given = given])

fat32_free_chain(c) ==
  Begin([Idle EXCEPT !.at = "free", !.cur = c, !.first = c, !.chain = Chain(c)])

fat32_write_file(c, s) ==
  Begin([Idle EXCEPT !.at = "write", !.goal = "caller", !.cur = c, !.first = c,
                     !.size = s])

-----------------------------------------------------------------------------
Keep == UNCHANGED << g_ready, held, calls, faults, misread, exposed >>
Fault == faults < MaxFaults /\ faults' = faults + 1

(* fat32_alloc_contiguous: the scan, then one entry after another.  An     *)
(* entry that cannot be read counts as not free, and the scan goes on.     *)
scan ==
  /\ op.at = "scan"
  /\ \E unread \in {{}} \cup {{c} : c \in Cluster} :
       /\ IF unread = {} THEN UNCHANGED faults ELSE Fault
       /\ \/ \E s \in 2 .. max_cluster :
               /\ FirstRun(s, op.n, unread)
               /\ op' = [op EXCEPT !.at = "link", !.first = s, !.i = 0, !.f = 1]
          \/ /\ \A s \in 2 .. max_cluster : ~FreeRun(s, op.n, unread)
             /\ Return
  /\ UNCHANGED << g_ready, fat, data, held, calls, misread, exposed >>

Allocated ==     \* what the call goes on with, once its clusters are linked
  CASE op.goal = "caller" -> Idle
    [] op.goal = "file" /\ op.given /\ op.size > 0 ->
         [op EXCEPT !.at = "write", !.cur = op.first, !.file = op.first]
    [] op.goal = "file" /\ ~(op.given /\ op.size > 0) ->
         [op EXCEPT !.at = "clear", !.i = 0, !.file = op.first]
    [] op.goal = "dir" -> [op EXCEPT !.at = "extend", !.f = 1]

link ==
  LET c == op.first + op.i
      last == op.i + 1 = op.n
  IN  /\ op.at = "link"
      /\ fat' = fat32_write_fat_entry(c, IF last THEN EOC ELSE c + 1, op.f)
      /\ op' = IF op.f < NumFats THEN [op EXCEPT !.f = @ + 1]
               ELSE IF ~last THEN [op EXCEPT !.i = @ + 1, !.f = 1]
               ELSE Allocated
      /\ held' = IF op' = Idle THEN held \cup {op.first} ELSE held
      /\ UNCHANGED << g_ready, data, calls, faults, misread, exposed >>

(* fat32_write_file, a cluster a step.  Bytes that do not fit in the chain *)
(* make fat32_create_file fail.                                            *)
write ==
  LET written == op.done + ClusterBytes
      next == fat32_next_cluster(op.cur)
  IN  /\ op.at = "write"
      /\ data' = [data EXCEPT ![op.cur] = Bytes(op.first)]
      /\ op' = IF written < op.size /\ InChain(next)
               THEN [op EXCEPT !.cur = next, !.done = written]
               ELSE IF op.goal = "file" /\ written >= op.size
               THEN [op EXCEPT !.at = "search", !.cur = Root]
               ELSE Idle
      /\ Keep /\ UNCHANGED fat

clear ==
  /\ op.at = "clear"
  /\ data' = [data EXCEPT ![op.first + op.i] = Zero]
  /\ op' = IF op.i + 1 < op.n THEN [op EXCEPT !.i = @ + 1]
           ELSE [op EXCEPT !.at = "search", !.cur = Root]
  /\ Keep /\ UNCHANGED fat

(* The directory, a cluster a step: the first slot that is free is written *)
(* with the cluster it is in; else on, and past the end extend.            *)
Entry == Slot("file", op.name, op.file, op.size)
first_slot_bug(c, i) == i = 1
is_slot(c, i) == /\ data[c][i].kind \in {"end", "deleted"}
                 /\ \A j \in 1 .. i - 1 : data[c][j].kind \notin {"end", "deleted"}
search ==
  /\ op.at = "search"
  /\ \/ \E i \in 1 .. ENTRIES :
          /\ is_slot(op.cur, i)
          /\ data' = [data EXCEPT ![op.cur][i] = Entry]
          /\ Return /\ UNCHANGED misread
     \/ /\ \A i \in 1 .. ENTRIES : ~is_slot(op.cur, i)
        /\ \E failed \in ReadFails :
             LET next == next_read(op.cur, failed)
             IN  /\ op' = IF InChain(next) THEN [op EXCEPT !.cur = next]
                          ELSE [op EXCEPT !.at = "scan", !.goal = "dir", !.n = 1,
                                          !.last = op.cur]
                 /\ misread' = (misread \/ failed)
        /\ UNCHANGED data
  /\ UNCHANGED << g_ready, fat, held, calls, faults, exposed >>

extend ==
  /\ op.at = "extend"
  /\ fat' = fat32_write_fat_entry(op.last, op.first, op.f)
  /\ op' = IF op.f < NumFats THEN [op EXCEPT !.f = @ + 1]
           ELSE [op EXCEPT !.at = "clear_dir"]
  /\ Keep /\ UNCHANGED data

clear_dir ==
  /\ op.at = "clear_dir"
  /\ data' = [data EXCEPT ![op.first] = Zero]
  /\ op' = [op EXCEPT !.at = "enter"]
  /\ Keep /\ UNCHANGED fat

enter ==
  /\ op.at = "enter"
  /\ data' = [data EXCEPT ![op.first] = [Zero EXCEPT ![1] = Entry]]
  /\ Return
  /\ Keep /\ UNCHANGED fat

(* fat32_free_chain: the next cluster is read before the entry is freed.   *)
free ==
  /\ op.at = "free"
  /\ fat' = fat32_write_fat_entry(op.cur, FREE, op.f)
  /\ \E failed \in IF op.f = 1 THEN ReadFails ELSE {FALSE} :
       LET on == IF op.f = 1 THEN next_read(op.cur, failed) ELSE op.last
       IN  /\ IF op.f < NumFats THEN /\ op' = [op EXCEPT !.f = @ + 1, !.last = on]
                                     /\ UNCHANGED held
              ELSE IF InChain(on)
              THEN /\ op' = [op EXCEPT !.f = 1, !.cur = on] /\ UNCHANGED held
              ELSE /\ Return /\ held' = held \ {op.first}
           /\ misread' = (misread \/ failed)
  /\ UNCHANGED << g_ready, data, calls, faults, exposed >>

(* A read or a write of the disk fails: the call returns -1 where it is    *)
(* (0 for an allocation).  A caller whose free failed does not use the     *)
(* chain any more.  A cluster that is in the directory and not cleared yet *)
(* stays there as it is.                                                   *)
Uncleared == op.at = "clear_dir" \/ (op.at = "extend" /\ op.f > 1)
Abandon ==
  /\ Return
  /\ held' = IF op.at = "free" THEN held \ {op.first} ELSE held
  /\ exposed' = (exposed \/ Uncleared)
  /\ UNCHANGED << fat, data, calls, misread >>
io_error == op # Idle /\ Fault /\ Abandon /\ UNCHANGED g_ready

(* Power fails; fat32_init mounts what is on the disk. *)
power_failure == g_ready /\ Fault /\ Abandon /\ g_ready' = FALSE
fat32_init ==
  /\ ~g_ready /\ g_ready' = TRUE
  /\ UNCHANGED << fat, data, op, held, calls, faults, misread, exposed >>

Call ==
  \/ \E n \in 1 .. 2 : fat32_alloc_clusters(n)
  \/ \E name \in Names, s \in Sizes, given \in BOOLEAN : fat32_create_file(name, s, given)
  \/ \E c \in held : fat32_free_chain(c)
  \/ \E c \in {e.first : e \in Entered}, s \in Sizes \ {0} : fat32_write_file(c, s)
Step == \/ scan \/ link \/ write \/ clear \/ search
        \/ extend \/ clear_dir \/ enter \/ free
Next == \/ Call \/ Step \/ io_error \/ power_failure \/ fat32_init

Spec == Init /\ [][Next]_vars

-----------------------------------------------------------------------------
(* Types; the clusters a call works on are clusters of the volume.  (A     *)
(* scan one too far allocates the table's padding.)                        *)
TypeOK ==
  /\ g_ready \in BOOLEAN
  /\ fat \in [1 .. NumFats -> [TableIndex -> {FREE, EOC} \cup Cluster]]
  /\ DOMAIN data = Cluster
  /\ held \subseteq Cluster
  /\ op.at \in {"link", "write", "clear"} => op.first + op.i \in Cluster
  /\ calls \in 0 .. MaxCalls /\ faults \in 0 .. MaxFaults

(* Whatever fails when, no cluster belongs to two of: the root directory,  *)
(* the files it lists, the chains callers hold.                            *)
ChainsApart ==
  LET heads == {e.first : e \in Entered} \cup {c \in held : ~(op.at = "free" /\ c = op.first)}
  IN  /\ \A a, b \in heads : a # b => ClustersOf(a) \cap ClustersOf(b) = {}
      /\ \A a \in heads : a # Root /\ ClustersOf(a) \cap ClustersOf(Root) = {}

(* A file the directory lists is whole at every moment, so also after a    *)
(* power failure: its chain is linked, ends, and is as long as its size    *)
(* says (unless the size wrapped around in needed_clusters).               *)
ListedIsWhole ==
  \A e \in Entered :
    LET ch == Chain(e.first)
    IN  /\ ch # NoChain /\ fat[1][ch[Len(ch)]] = EOC
        /\ e.size + ClusterBytes <= SizeMod => Len(ch) * ClusterBytes >= e.size

(* No call loses a listed file: an entry is never overwritten, hidden      *)
(* behind an end marker or cut off with the rest of the directory, if no   *)
(* table entry was read wrong: fat32.c:549 takes a failed read for the end *)
(* of the directory and links a new cluster over the rest of it.           *)
NoneLost == ~misread => Entered \subseteq EnteredIn(data', ChainIn(fat'[1], Root))

(* Calls write the clusters of the file they are for and no other's.       *)
NoForeignBytes ==
  \A e \in Entered : \A c \in ClustersOf(e.first), i \in 1 .. ENTRIES :
    \/ data[c][i] = Bytes(e.first)[i]
    \/ data[c][i] = Zero[i]

(* While nothing has failed the copies of the table agree between calls.   *)
CopiesAgree ==
  op = Idle /\ faults = 0 => \A f \in 1 .. NumFats : fat[f] = fat[1]

(* "Mark all clusters in the chain starting at `first_cluster` as free in  *)
(* the FAT. Returns 0 on success, -1 on error."                            *)
FreedReported ==
  op.at = "free" /\ op' = Idle /\ faults' = faults
    => \A k \in DOMAIN op.chain : fat'[1][op.chain[k]] = FREE

(* That holds unless the read at fat32.c:423 failed: then the rest of the  *)
(* chain stays allocated, and 0 is returned.                               *)
FreedAll == ~misread' => FreedReported

(* What fat32_find_file takes for files was entered as such, unless a      *)
(* directory cluster was linked and not cleared: in the call that extends  *)
(* the directory, or since one that ended there.                           *)
NoPhantoms == Found # Entered => Uncleared \/ exposed

(* The volume is sound after every sector written, whatever failed. *)
VolumeSound == /\ TypeOK /\ ChainsApart /\ ListedIsWhole /\ NoForeignBytes /\ CopiesAgree
               /\ NoPhantoms
=============================================================================

-------------------------------- MODULE Vfs ----------------------------------
(***************************************************************************)
(* The file descriptors of kernel/fs/vfs.c over the FAT32 driver.  Callers *)
(* open files of a volume that does not change, read, seek and close.      *)
(* Byte p of file f is << f, p >>; a cluster holds CLUSTER bytes, and      *)
(* vfs_read_raw's scratch buffer SCRATCH, zero until it is read into.      *)
(* Calls do not overlap ("the kernel is single-threaded until Phase 4").   *)
(***************************************************************************)
EXTENDS Naturals, Sequences, FiniteSets

CONSTANTS
  MAX_FDS,     \* VFS_MAX_FDS
  CLUSTER,     \* bytes of a cluster
  SCRATCH,     \* bytes of s_cbuf
  Files,       \* names in the root directory
  Missing,     \* a name that is not
  SizeOf,      \* file -> bytes
  Counts       \* how many bytes a call asks for

VARIABLES
  g_vfs_ready,
  g_fds,       \* fd -> in_use, file (first_cluster), size, pos
  handles,     \* descriptors callers were given and have not closed
  got          \* what the last vfs_read delivered: file, offset, bytes

vars == << g_vfs_ready, g_fds, handles, got >>

Fd == 0 .. MAX_FDS - 1
NoFile == "nofile"
Closed == [in_use |-> FALSE, file |-> NoFile, size |-> 0, pos |-> 0]
Nul == << NoFile, 0 >>
Nothing == [file |-> NoFile, from |-> 0, bytes |-> << >>]
Lesser(a, b) == IF a < b THEN a ELSE b

Init ==
  /\ g_vfs_ready = FALSE
  /\ g_fds = [fd \in Fd |-> Closed]
  /\ handles = {} /\ got = Nothing

vfs_init ==
  /\ ~g_vfs_ready /\ g_vfs_ready' = TRUE
  /\ g_fds' = [fd \in Fd |-> Closed]
  /\ UNCHANGED << handles, got >>

(* alloc_fd: the first slot not in use. *)
alloc_fd(fd) == ~g_fds[fd].in_use /\ \A e \in Fd : e < fd => g_fds[e].in_use

(* A name not found, or a full table, opens nothing. *)
vfs_open(name) ==
  /\ g_vfs_ready /\ name # Missing
  /\ \E fd \in Fd :
       /\ alloc_fd(fd)
       /\ g_fds' = [g_fds EXCEPT ![fd] = [in_use |-> TRUE, file |-> name,
                                          size |-> SizeOf[name], pos |-> 0]]
       /\ handles' = handles \cup {fd}
  /\ UNCHANGED << g_vfs_ready, got >>

(* fat32_read_file from byte 0, a whole cluster at a time. *)
fat32_read_file(f, n) == [i \in 1 .. n |-> << f, i - 1 >>]

(* Byte p of the file as the partial read finds it: the walk takes each    *)
(* cluster for SCRATCH bytes, so p is looked for in the scratch buffer     *)
(* after the read of the chain's cluster p \div SCRATCH, of which only the *)
(* first CLUSTER bytes are the cluster's.                                  *)
no_skip_bug(f, p) == IF p % SCRATCH < CLUSTER THEN << f, p % SCRATCH >> ELSE Nul
ScratchByte(f, p) ==
  LET k == p \div SCRATCH
      at == p % SCRATCH
  IN  IF at < CLUSTER THEN << f, k * CLUSTER + at >> ELSE Nul

(* At the end of the file, and for a bad descriptor, nothing is read.      *)
(* byte_offset + count (vfs.c:87, 195) fits 32 bits: the kernel reads at   *)
(* an offset into small buffers only (shell.c:170, kernel_main.c:289), and *)
(* a whole file at offset 0 (loader.c:274).                                *)
clamped(fd, count) == Lesser(count, g_fds[fd].size - g_fds[fd].pos)
advanced(fd, n) == g_fds[fd].pos + n
vfs_read_raw(fd, count) ==
  LET f == g_fds[fd]
      n == clamped(fd, count)
  IN  IF f.pos = 0 THEN fat32_read_file(f.file, n)
      ELSE [i \in 1 .. n |-> ScratchByte(f.file, f.pos + i - 1)]

Deliver(fd, bytes) ==
  /\ got' = [file |-> g_fds[fd].file, from |-> g_fds[fd].pos, bytes |-> bytes]
  /\ g_fds' = [g_fds EXCEPT ![fd].pos = advanced(fd, Len(bytes))]
  /\ UNCHANGED << g_vfs_ready, handles >>
vfs_read(fd, count) ==
  /\ g_vfs_ready /\ g_fds[fd].in_use /\ g_fds[fd].pos < g_fds[fd].size
  /\ Deliver(fd, vfs_read_raw(fd, count))

(* A disk error part way: from byte 0 a table entry that cannot be read    *)
(* ends the read after some clusters; later what the clusters read before  *)
(* gave is returned.  With nothing read the call returns -1 and the        *)
(* position stays.                                                         *)
vfs_read_short(fd, count) ==
  LET all == vfs_read_raw(fd, count)
      unit == IF g_fds[fd].pos = 0 THEN CLUSTER ELSE SCRATCH
      whole == {k * unit : k \in 1 .. SizeOf[g_fds[fd].file]}
  IN  /\ g_vfs_ready /\ g_fds[fd].in_use /\ g_fds[fd].pos < g_fds[fd].size
      /\ \E end \in whole :
           /\ end > g_fds[fd].pos /\ end < g_fds[fd].pos + Len(all)
           /\ Deliver(fd, SubSeq(all, 1, end - g_fds[fd].pos))

vfs_seek(fd, offset) ==
  /\ g_vfs_ready /\ g_fds[fd].in_use /\ offset <= g_fds[fd].size
  /\ g_fds' = [g_fds EXCEPT ![fd].pos = offset]
  /\ UNCHANGED << g_vfs_ready, handles, got >>

vfs_close(fd) ==
  /\ g_vfs_ready /\ g_fds[fd].in_use
  /\ g_fds' = [g_fds EXCEPT ![fd] = Closed]
  /\ handles' = handles \ {fd}
  /\ UNCHANGED << g_vfs_ready, got >>

Offsets == 0 .. 1 + CLUSTER
Next ==
  \/ vfs_init
  \/ \E name \in Files \cup {Missing} : vfs_open(name)
  \/ \E fd \in handles, count \in Counts : vfs_read(fd, count)
  \/ \E fd \in handles, count \in Counts : vfs_read_short(fd, count)
  \/ \E fd \in handles, offset \in Offsets : vfs_seek(fd, offset)
  \/ \E fd \in handles : vfs_close(fd)

Spec == Init /\ [][Next]_vars

-----------------------------------------------------------------------------
(* Types; a position never passes the end of its file, whatever reads and  *)
(* seeks came before.                                                      *)
PositionInFile ==
  /\ g_vfs_ready \in BOOLEAN /\ handles \subseteq Fd
  /\ \A fd \in Fd : /\ g_fds[fd].in_use \in BOOLEAN
                    /\ g_fds[fd].pos \in 0 .. g_fds[fd].size

(* An open never takes over a descriptor another caller still has.         *)
NothingTakenOver ==
  \A fd \in handles \cap handles' : g_fds'[fd].file = g_fds[fd].file

(* "Read up to `count` bytes from `fd` into `buf` starting at the current  *)
(* file position": the bytes are those of the file at that place.          *)
ReadsFileBytes ==
  \A i \in DOMAIN got.bytes : got.bytes[i] = << got.file, got.from + i - 1 >>
=============================================================================

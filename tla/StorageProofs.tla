--------------------------- MODULE StorageProofs -----------------------------
(***************************************************************************)
(* Proofs about the storage stack.  The disk driver polls a controller     *)
(* that runs beside it, gives up on commands the controller still holds,   *)
(* and reuses the one command table for the next call: that a successful   *)
(* call had its own command executed rests on who may own the table, the   *)
(* slot and the caller's buffer at each point of ahci_do_rw.  The FAT32    *)
(* driver writes the table, the directory and the clusters a sector at a   *)
(* time: that the volume is sound between any two sectors rests on what    *)
(* each phase of a call has linked, freed and filled so far.               *)
(***************************************************************************)
EXTENDS MCStorage, FiniteSetTheorems, WellFoundedInduction, TLAPS

Places == {"idle", "wait_ready", "zero", "fill", "issue", "poll"}

(* The types of what the driver and the controller hold. *)
DiskTypes ==
  /\ at \in Places
  /\ at # "idle" => call \in A!Command
  /\ at \in {"issue", "poll"} => table = call
  /\ working => ctl \in A!Command
  /\ mem \in [Buffer -> Value] /\ disk \in [Lba -> Value]
  /\ ci \in BOOLEAN /\ bsy \in BOOLEAN /\ err \in BOOLEAN /\ working \in BOOLEAN
  /\ fills \in Nat

(* A controller that executes a command is busy, has not failed, and keeps *)
(* the slot's bit set.                                                     *)
ControllerSound == working = bsy /\ (working => ci /\ ~err)

(* Outside the polling loop a slot still set is one the controller         *)
(* executes or refused: there is nothing for it to fetch.  While the       *)
(* driver rewrites the table the controller executes nothing.              *)
NothingToFetch ==
  /\ at # "poll" /\ ci => working \/ err
  /\ at \in {"zero", "fill", "issue"} => ~working

(* In the polling loop the controller executes the call's own command,     *)
(* elsewhere only one whose call timed out.                                *)
OwnedCommand ==
  working => IF at = "poll" THEN ctl = call ELSE ctl.buf \in timed_out

(* The bytes to be written stay in the caller's buffer, unless an earlier  *)
(* command may still arrive there.                                         *)
BufferKept ==
  at # "idle" /\ call.write => mem[call.buf] = call.value \/ call.buf \in timed_out

(* A cleared slot in the polling loop: the command was carried out. *)
CarriedOut ==
  at = "poll" /\ ~ci =>
    /\ ~err
    /\ IF call.write THEN call.buf \in timed_out \/ disk[call.lba] = call.value
                     ELSE mem[call.buf] = disk[call.lba]

DiskInv ==
  /\ DiskTypes /\ ControllerSound /\ NothingToFetch
  /\ OwnedCommand /\ BufferKept /\ CarriedOut

-----------------------------------------------------------------------------
(* Every state of a behaviour that runs another layer leaves the disk      *)
(* alone.                                                                  *)
LEMMA DiskSteps ==
  [Next]_vars => A!Next \/ UNCHANGED avars
BY DEF Next, vars, avars

LEMMA DiskInitial ==
  Init => DiskInv
<1> SUFFICES ASSUME Init PROVE DiskInv
  OBVIOUS
<1>1. /\ at = "idle" /\ ci = FALSE /\ bsy = FALSE /\ err = FALSE /\ working = FALSE
      /\ mem \in [Buffer -> Value] /\ disk \in [Lba -> Value] /\ fills = 0
  BY DEF Init, A!Init
<1> QED
  BY <1>1 DEF DiskInv, DiskTypes, Places, ControllerSound,
     NothingToFetch, OwnedCommand, BufferKept, CarriedOut

(* The invariant reads the disk's variables only. *)
LEMMA DiskStutters ==
  ASSUME DiskInv, UNCHANGED avars
  PROVE  DiskInv'
BY DEF avars, DiskInv, DiskTypes, Places, ControllerSound, NothingToFetch, OwnedCommand,
   BufferKept, CarriedOut, A!Command

(* A call starts: the value it is to write is what its buffer holds. *)
LEMMA DiskCall ==
  ASSUME DiskInv, NEW l \in Lba, NEW b \in Buffer, NEW w \in BOOLEAN, A!ahci_do_rw(l, b, w)
  PROVE  DiskInv'
<1>1. /\ at = "idle" /\ at' = "wait_ready"
      /\ call' = [lba |-> l, buf |-> b, write |-> w, value |-> mem[b]]
      /\ UNCHANGED << table, bsy, err, ctl, working, ci, mem, disk, timed_out, fills >>
  BY DEF A!ahci_do_rw, A!device
<1>2. mem[b] \in Value
  BY DEF DiskInv, DiskTypes
<1>3. call' \in A!Command
  BY <1>1, <1>2 DEF A!Command
<1>4. DiskTypes'
  BY <1>1, <1>3 DEF DiskInv, DiskTypes, Places
<1>5. BufferKept'
  BY <1>1 DEF BufferKept
<1> QED
  BY <1>1, <1>4, <1>5 DEF DiskInv, ControllerSound, NothingToFetch, OwnedCommand, CarriedOut

(* The driver's own steps. *)
LEMMA DiskDriver ==
  ASSUME DiskInv, A!DriverStep
  PROVE  DiskInv'
<1>1. UNCHANGED << call, bsy, err, ctl, working, mem, disk, fills >>
  BY DEF A!DriverStep, A!wait_ready, A!busy_timeout, A!zero_table, A!fill_table, A!issue,
     A!poll_done, A!poll_timeout, A!poll_error, A!device, A!driver
<1>2. CASE A!wait_ready
  <2>1. /\ at = "wait_ready" /\ ~bsy /\ at' = "zero"
        /\ UNCHANGED << table, ci, timed_out >>
    BY <1>2 DEF A!wait_ready, A!port_ready
  <2> QED
    BY <1>1, <2>1 DEF DiskInv, DiskTypes, Places, ControllerSound, NothingToFetch,
       OwnedCommand, BufferKept, CarriedOut, A!Command
<1>3. CASE A!busy_timeout
  <2>1. /\ at = "wait_ready" /\ at' = "idle"
        /\ UNCHANGED << table, ci, timed_out >>
    BY <1>3 DEF A!busy_timeout, A!Returns
  <2> QED
    BY <1>1, <2>1 DEF DiskInv, DiskTypes, Places, ControllerSound, NothingToFetch,
       OwnedCommand, BufferKept, CarriedOut, A!Command
<1>4. CASE A!zero_table
  <2>1. at = "zero" /\ at' = "fill" /\ UNCHANGED << ci, timed_out >>
    BY <1>4 DEF A!zero_table
  <2> QED
    BY <1>1, <2>1 DEF DiskInv, DiskTypes, Places, ControllerSound, NothingToFetch,
       OwnedCommand, BufferKept, CarriedOut, A!Command
<1>5. CASE A!fill_table
  <2>1. at = "fill" /\ at' = "issue" /\ table' = call /\ UNCHANGED << ci, timed_out >>
    BY <1>5 DEF A!fill_table
  <2> QED
    BY <1>1, <2>1 DEF DiskInv, DiskTypes, Places, ControllerSound, NothingToFetch,
       OwnedCommand, BufferKept, CarriedOut, A!Command
<1>6. CASE A!issue
  <2>1. at = "issue" /\ at' = "poll" /\ ci' = TRUE /\ UNCHANGED << table, timed_out >>
    BY <1>6 DEF A!issue
  <2> QED
    BY <1>1, <2>1 DEF DiskInv, DiskTypes, Places, ControllerSound, NothingToFetch,
       OwnedCommand, BufferKept, CarriedOut, A!Command
<1>7. CASE A!poll_done \/ A!poll_error
  <2>1. /\ at = "poll" /\ at' = "idle" /\ UNCHANGED << table, ci, timed_out >>
        /\ ~ci \/ err
    BY <1>7 DEF A!poll_done, A!poll_error, A!complete, A!device_error, A!Returns
  <2> QED
    BY <1>1, <2>1 DEF DiskInv, DiskTypes, Places, ControllerSound, NothingToFetch,
       OwnedCommand, BufferKept, CarriedOut, A!Command
<1>8. CASE A!poll_timeout
  <2>1. /\ at = "poll" /\ at' = "idle" /\ ci /\ bsy
        /\ timed_out' = timed_out \cup {call.buf} /\ UNCHANGED << table, ci >>
    BY <1>8 DEF A!poll_timeout, A!deadline_passed, A!Returns
  <2> QED
    BY <1>1, <2>1 DEF DiskInv, DiskTypes, Places, ControllerSound, NothingToFetch,
       OwnedCommand, BufferKept, CarriedOut, A!Command
<1> QED
  BY <1>2, <1>3, <1>4, <1>5, <1>6, <1>7, <1>8 DEF A!DriverStep

(* Between calls the caller uses its buffer. *)
LEMMA DiskUse ==
  ASSUME DiskInv, NEW b \in Buffer, NEW v \in Value, A!use_buffer(b, v)
  PROVE  DiskInv'
<1>1. /\ at = "idle" /\ mem' = [mem EXCEPT ![b] = v] /\ fills' = fills + 1
      /\ UNCHANGED << at, call, table, bsy, err, ctl, working, ci, disk, timed_out >>
  BY DEF A!use_buffer, A!driver, A!device
<1>2. mem' \in [Buffer -> Value]
  BY <1>1 DEF DiskInv, DiskTypes
<1> QED
  BY <1>1, <1>2 DEF DiskInv, DiskTypes, Places, ControllerSound, NothingToFetch,
     OwnedCommand, BufferKept, CarriedOut

(* The controller fetches only in the polling loop, where the table is the *)
(* call's.                                                                 *)
LEMMA DiskFetch ==
  ASSUME DiskInv, A!fetch
  PROVE  DiskInv'
<1>1. /\ ci /\ ~working /\ ~err /\ ctl' = table /\ working' = TRUE /\ bsy' = TRUE
      /\ UNCHANGED << err, at, call, table, ci, mem, disk, timed_out, fills >>
  BY DEF A!fetch, A!driver
<1>2. at = "poll"
  BY <1>1 DEF DiskInv, NothingToFetch
<1> QED
  BY <1>1, <1>2 DEF DiskInv, DiskTypes, Places, ControllerSound, NothingToFetch,
     OwnedCommand, BufferKept, CarriedOut, A!Command

(* A transfer for the call in progress makes CarriedOut true; a late one   *)
(* touches only a buffer of a call that timed out.                         *)
LEMMA DiskTransfer ==
  ASSUME DiskInv, A!transfer
  PROVE  DiskInv'
<1>1. /\ working /\ ci' = FALSE /\ bsy' = FALSE /\ working' = FALSE
      /\ IF ctl.write THEN disk' = [disk EXCEPT ![ctl.lba] = mem[ctl.buf]] /\ UNCHANGED mem
                      ELSE mem' = [mem EXCEPT ![ctl.buf] = disk[ctl.lba]] /\ UNCHANGED disk
      /\ UNCHANGED << err, at, call, table, timed_out, fills >>
  BY DEF A!transfer, A!driver
<1>2. ~err
  BY <1>1 DEF DiskInv, ControllerSound
<1>3. ctl \in A!Command
  BY <1>1 DEF DiskInv, DiskTypes
<1>4. ctl.lba \in Lba /\ ctl.buf \in Buffer
  BY <1>3 DEF A!Command
<1>5. mem' \in [Buffer -> Value] /\ disk' \in [Lba -> Value]
  BY <1>1, <1>4 DEF DiskInv, DiskTypes
<1>6. DiskTypes'
  BY <1>1, <1>5 DEF DiskInv, DiskTypes, Places, A!Command
<1>7. CASE at = "poll"
  <2>1. ctl = call
    BY <1>1, <1>7 DEF DiskInv, OwnedCommand
  <2>2. BufferKept'
    BY <1>1, <2>1 DEF DiskInv, BufferKept
  <2>3. CarriedOut'
    <3>1. CASE call.write
      <4>1. disk'[call.lba] = mem[call.buf]
        BY <1>1, <1>4, <2>1, <3>1 DEF DiskInv, DiskTypes
      <4>2. mem[call.buf] = call.value \/ call.buf \in timed_out
        BY <1>7, <3>1 DEF DiskInv, BufferKept
      <4> QED
        BY <1>1, <1>2, <3>1, <4>1, <4>2 DEF CarriedOut
    <3>2. CASE ~call.write
      <4>1. mem'[call.buf] = disk[call.lba] /\ disk' = disk
        BY <1>1, <1>4, <2>1, <3>2 DEF DiskInv, DiskTypes
      <4> QED
        BY <1>1, <1>2, <3>2, <4>1 DEF CarriedOut
    <3> QED
      BY <3>1, <3>2
  <2> QED
    BY <1>1, <1>6, <2>2, <2>3 DEF DiskInv, ControllerSound, NothingToFetch, OwnedCommand
<1>8. CASE at # "poll"
  <2>1. ctl.buf \in timed_out
    BY <1>1, <1>8 DEF DiskInv, OwnedCommand
  <2>2. BufferKept'
    <3> SUFFICES ASSUME at # "idle", call.write
                 PROVE  mem'[call.buf] = call.value \/ call.buf \in timed_out
      BY <1>1 DEF BufferKept
    <3>1. mem[call.buf] = call.value \/ call.buf \in timed_out
      BY DEF DiskInv, BufferKept
    <3>2. call.buf # ctl.buf => mem'[call.buf] = mem[call.buf]
      BY <1>1 DEF DiskInv, DiskTypes, A!Command
    <3> QED
      BY <2>1, <3>1, <3>2
  <2> QED
    BY <1>1, <1>6, <1>8, <2>2
    DEF DiskInv, ControllerSound, NothingToFetch, OwnedCommand, CarriedOut
<1> QED
  BY <1>7, <1>8

(* A refused command keeps its slot: only the error is reported. *)
LEMMA DiskRefuse ==
  ASSUME DiskInv, A!refuse
  PROVE  DiskInv'
<1>1. /\ working /\ err' = TRUE /\ bsy' = FALSE /\ working' = FALSE
      /\ UNCHANGED << at, call, table, ci, mem, disk, timed_out, fills >>
  BY DEF A!refuse, A!driver
<1>2. ci
  BY <1>1 DEF DiskInv, ControllerSound
<1> QED
  BY <1>1, <1>2 DEF DiskInv, DiskTypes, Places, ControllerSound, NothingToFetch,
     OwnedCommand, BufferKept, CarriedOut, A!Command

LEMMA DiskInductive ==
  ASSUME DiskInv, [Next]_vars
  PROVE  DiskInv'
<1>1. CASE A!ahci_init
  <2>1. UNCHANGED << at, call, table, bsy, err, ctl, working, ci, mem, disk, timed_out, fills >>
    BY <1>1 DEF A!ahci_init, A!device
  <2> QED
    BY <2>1 DEF DiskInv, DiskTypes, Places, ControllerSound, NothingToFetch, OwnedCommand,
       BufferKept, CarriedOut, A!Command
<1>2. CASE A!Controller
  BY <1>2, DiskFetch, DiskTransfer, DiskRefuse DEF A!Controller
<1> QED
  BY <1>1, <1>2, DiskSteps, DiskStutters, DiskCall, DiskDriver, DiskUse DEF A!Next

(* The driver and its controller agree, for every set of sectors, buffers  *)
(* and values and any number of calls, time-outs and errors, on whose      *)
(* command the slot holds.                                                 *)
THEOREM DiskInvariance ==
  Spec => []DiskInv
BY DiskInitial, DiskInductive, PTL DEF Spec

-----------------------------------------------------------------------------
(* The steps that the three action properties are about. *)
OwnSuccess ==
  at = "poll" /\ at' = "idle" /\ result' = "ok" =>
    IF call.write THEN call.buf \in timed_out \/ disk[call.lba] = call.value
                  ELSE mem[call.buf] = disk[call.lba]
DataForTheCall ==
  mem' # mem \/ disk' # disk =>
    \/ fills' # fills
    \/ at = "poll" /\ ctl = call
    \/ ctl.buf \in timed_out
NoneAfterError == err => ~(at # "idle" /\ at' = "idle" /\ result' = "ok")

(* Only poll_done returns success, and it saw the slot cleared. *)
LEMMA OnlyDoneSucceeds ==
  ASSUME DiskInv, A!Next, at # "idle", at' = "idle", result' = "ok"
  PROVE  at = "poll" /\ ~ci
<1>1. CASE A!DriverStep
  BY <1>1 DEF A!DriverStep, A!wait_ready, A!busy_timeout, A!zero_table, A!fill_table, A!issue,
     A!poll_done, A!complete, A!poll_timeout, A!poll_error, A!Returns
<1>2. ~A!DriverStep => UNCHANGED at \/ at = "idle"
  BY DEF A!Next, A!Controller, A!ahci_init, A!ahci_do_rw, A!use_buffer, A!fetch, A!transfer,
     A!refuse, A!driver
<1> QED
  BY <1>1, <1>2

(* Only a transfer and the callers change buffers and sectors. *)
LEMMA OnlyTransfersMove ==
  ASSUME DiskInv, A!Next, mem' # mem \/ disk' # disk
  PROVE  fills' # fills \/ working
<1>1. CASE \E b \in Buffer, v \in Value : A!use_buffer(b, v)
  <2>1. fills' = fills + 1
    BY <1>1 DEF A!use_buffer
  <2> QED
    BY <2>1 DEF DiskInv, DiskTypes
<1>2. CASE A!Controller
  BY <1>2 DEF A!Controller, A!fetch, A!transfer, A!refuse
<1>3. ~(\E b \in Buffer, v \in Value : A!use_buffer(b, v)) /\ ~A!Controller
        => UNCHANGED << mem, disk >>
  BY DEF A!Next, A!DriverStep, A!ahci_init, A!ahci_do_rw, A!wait_ready, A!busy_timeout,
     A!zero_table, A!fill_table, A!issue, A!poll_done, A!poll_timeout, A!poll_error
<1> QED
  BY <1>1, <1>2, <1>3

(* ahci_do_rw with the controller beside it, for every set of sectors,     *)
(* buffers and values: success means the call's own command was executed,  *)
(* data moves only for the call in progress or one that timed out, and     *)
(* after a device error nothing succeeds.                                  *)
THEOREM DiskCallsSound ==
  Spec => DiskSuccessIsOwn
<1>1. ASSUME DiskInv, [Next]_vars
      PROVE  [OwnSuccess]_(A!vars) /\ [DataForTheCall]_(A!vars) /\ [NoneAfterError]_(A!vars)
  <2>1. CASE UNCHANGED avars
    BY <2>1 DEF avars, A!vars, A!driver, A!device
  <2>2. CASE A!Next
    <3>1. OwnSuccess
      BY <1>1, <2>2, OnlyDoneSucceeds DEF OwnSuccess, DiskInv, CarriedOut
    <3>2. DataForTheCall
      BY <1>1, <2>2, OnlyTransfersMove DEF DataForTheCall, DiskInv, OwnedCommand
    <3>3. NoneAfterError
      BY <1>1, <2>2, OnlyDoneSucceeds DEF NoneAfterError, DiskInv, CarriedOut
    <3> QED
      BY <3>1, <3>2, <3>3
  <2> QED
    BY <1>1, <2>1, <2>2, DiskSteps
<1> QED
  BY <1>1, DiskInvariance, PTL
  DEF Spec, DiskSuccessIsOwn, A!SuccessIsOwn, A!DmaForTheCall, A!ErrorIsFinal,
      OwnSuccess, DataForTheCall, NoneAfterError

-----------------------------------------------------------------------------
(* The volume.  A chain is described by what it is on the disk, a run of   *)
(* linked clusters with an end: chains that a call has begun to link or to *)
(* free are parts of runs.  FatInv says so for every head there is (files  *)
(* the directory lists, chains callers hold, the file that waits for its   *)
(* entry), and for every phase of a call what it has and has not written.  *)

CB == F!ClusterBytes

(* Cluster c is reached from a in the table t.  What the driver allocates  *)
(* for a file or a caller is a run of consecutive clusters, so that no     *)
(* walk along the chain is needed to say so.                               *)
Reach(t, a, c) == c \in F!Cluster /\ a <= c /\ \A e \in a .. c - 1 : t[e] = e + 1
Whole(t, a)    == \E z \in F!Cluster : Reach(t, a, z) /\ t[z] = EOC

(* The chain of the root directory is ds. *)
DirIs(t, ds) ==
  /\ ds \in Seq(F!Cluster) /\ Len(ds) >= 1 /\ ds[1] = F!Root
  /\ \A k, l \in 1 .. Len(ds) : ds[k] = ds[l] => k = l
  /\ \A k \in 1 .. Len(ds) - 1 : t[ds[k]] = ds[k + 1]
  /\ t[ds[Len(ds)]] = EOC

(* No chain has a cluster of C. *)
Unused(t, K, ds, C) ==
  /\ \A a \in K, c \in C : ~Reach(t, a, c)
  /\ \A k \in 1 .. Len(ds) : ds[k] \notin C

(* The chains that begin at K are whole, and apart from each other and     *)
(* from the directory.                                                     *)
ChainsOf(t, K, ds) ==
  /\ DirIs(t, ds) /\ K \subseteq F!Cluster
  /\ \A a \in K : Whole(t, a)
  /\ \A a, b \in K : Reach(t, a, b) => a = b
  /\ \A a \in K, k \in 1 .. Len(ds) : ~Reach(t, a, ds[k])

IsFile(d, c, i) == d[c][i].kind = "file"
NoFiles(d, c)   == \A i \in 1 .. ENTRIES : ~IsFile(d, c, i)

(* The chain of a has the bytes of its file, or zeroes, and room for its   *)
(* size.                                                                   *)
Filled(d, c, a) == \A i \in 1 .. ENTRIES : d[c][i] \in {F!Bytes(a)[i], F!Zero[i]}
FileGood(t, d, a, s) ==
  /\ \A c \in F!Cluster : Reach(t, a, c) => Filled(d, c, a)
  /\ s + CB <= SizeMod =>
       \A z \in F!Cluster : Reach(t, a, z) /\ t[z] = EOC => (z - a + 1) * CB >= s

(* Entries of files are in the directory only, and the files are good. *)
FilesGood(t, d, ds) ==
  \A c \in F!Cluster, i \in 1 .. ENTRIES : IsFile(d, c, i) =>
    /\ \E k \in 1 .. Len(ds) : c = ds[k]
    /\ d[c][i].first \in F!Cluster
    /\ FileGood(t, d, d[c][i].first, d[c][i].size)

Firsts(d) ==
  {a \in F!Cluster : \E c \in F!Cluster, i \in 1 .. ENTRIES : IsFile(d, c, i) /\ d[c][i].first = a}
Kept(o, hd) == {a \in hd : ~(o.at = "free" /\ a = o.first)}
Heads(d, o, hd) == Firsts(d) \cup Kept(o, hd) \cup {a \in F!Cluster : a = o.file}

-----------------------------------------------------------------------------
(* Where a call is. *)

(* A new file waits for its entry. *)
Waits(t, d, o, hd) ==
  o.file \in F!Cluster /\ o.file \notin hd /\ FileGood(t, d, o.file, o.size)

(* What clusters are looked for and linked for. *)
Wanted(t, d, ds, o, hd) ==
  /\ o.goal \in {"caller", "file", "dir"} /\ o.n >= 1
  /\ o.goal = "dir" => Waits(t, d, o, hd) /\ o.n = 1 /\ o.last = ds[Len(ds)]
  /\ o.goal # "dir" => o.file = 0
  /\ o.goal = "file" => o.n = F!needed_clusters(o.size) /\ o.done = 0

(* The first m of the clusters a, a + 1 .. of an allocation are linked. *)
Linked(t, a, n, m) ==
  /\ a + n - 1 \in F!Cluster
  /\ \A c \in a .. a + m - 1 : t[c] = IF c = a + n - 1 THEN EOC ELSE c + 1
  /\ \A c \in a + m .. a + n - 1 : t[c] = F!FREE

(* The call fills the clusters of a new file. *)
Fills(t, o, hd) ==
  /\ o.file = o.first /\ o.first \in F!Cluster /\ o.first \notin hd
  /\ o.n >= 1 /\ o.n = F!needed_clusters(o.size) /\ Linked(t, o.first, o.n, o.n)

(* Clusters of the chain being freed in front of x are free, from x to z   *)
(* they are still linked.                                                  *)
Freed(t, a, x, z) ==
  /\ z \in F!Cluster /\ \A c \in a .. x - 1 : t[c] = F!FREE
  /\ \A c \in x .. z : t[c] = IF c = z THEN EOC ELSE c + 1

AtLink(t, K, ds, o) ==
  /\ o.first \in F!Cluster /\ o.i \in 0 .. o.n - 1
  /\ Linked(t, o.first, o.n, IF o.f = 1 THEN o.i ELSE o.i + 1)
  /\ Unused(t, K, ds, o.first .. o.first + o.n - 1)

AtWrite(t, d, o, hd) ==
  /\ o.goal \in {"caller", "file"} /\ Reach(t, o.first, o.cur)
  /\ o.goal = "caller" => o.first \in Firsts(d) /\ o.file = 0 /\ o.i = 0
  /\ o.goal = "file" =>
       /\ Fills(t, o, hd) /\ o.size > 0 /\ o.i = o.n - 1
       /\ o.done = (o.cur - o.first) * CB
       /\ \A c \in o.first .. o.cur - 1 : d[c] = F!Bytes(o.first)

AtClear(t, d, o, hd) ==
  /\ Fills(t, o, hd) /\ o.goal = "file" /\ o.i \in 0 .. o.n - 1
  /\ \A c \in o.first .. o.first + o.i - 1 : d[c] = F!Zero

AtExtend(t, d, K, ds, o) ==
  /\ o.goal = "dir"
  /\ o.f = 1 => /\ o.last = ds[Len(ds)] /\ o.first \in F!Cluster
                /\ t[o.first] = EOC /\ Unused(t, K, ds, {o.first})
  /\ o.f > 1 => ds[Len(ds)] = o.first /\ Len(ds) > 1 /\ ds[Len(ds) - 1] = o.last

(* The cluster the directory was extended by has no entry yet. *)
Fresh(d, ds, o) == ds[Len(ds)] = o.first /\ NoFiles(d, o.first)

AtFree(t, K, ds, o, hd) ==
  /\ o.file = 0 /\ o.first \in hd
  /\ \E z \in F!Cluster :
       /\ o.cur \in o.first .. z
       /\ Freed(t, o.first, IF o.f = 1 THEN o.cur ELSE o.cur + 1, z)
       /\ o.f > 1 => o.last = IF o.cur = z THEN EOC ELSE o.cur + 1
       /\ Unused(t, K, ds, o.first .. z)
       /\ o.chain = [k \in 1 .. z - o.first + 1 |-> o.first + k - 1]

Phase(t, d, K, ds, o, hd) ==
  /\ o.at = "idle" => o = F!Idle
  /\ o.at \in {"scan", "link"} => Wanted(t, d, ds, o, hd)
  /\ o.at = "link" => AtLink(t, K, ds, o)
  /\ o.at = "write" => AtWrite(t, d, o, hd)
  /\ o.at = "clear" => AtClear(t, d, o, hd)
  /\ o.at \in {"search", "extend", "clear_dir", "enter"} => Waits(t, d, o, hd)
  /\ o.at = "search" => \E k \in 1 .. Len(ds) : o.cur = ds[k]
  /\ o.at = "extend" => AtExtend(t, d, K, ds, o)
  /\ o.at \in {"clear_dir", "enter"} \/ (o.at = "extend" /\ o.f > 1) => Fresh(d, ds, o)
  /\ o.at = "free" => AtFree(t, K, ds, o, hd)

-----------------------------------------------------------------------------
(* The entry being written to all copies of the table. *)
Entered(o) == CASE o.at = "link" -> o.first + o.i
                [] o.at = "extend" -> o.last
                [] OTHER -> o.cur
(* Without a fault only copies not yet written differ, in one sector. *)
Copies(ft, o, fl) ==
  fl = 0 => \A g \in 1 .. NumFats :
    \/ ft[g] = ft[1]
    \/ /\ o.at \in {"link", "extend", "free"} /\ 1 < o.f /\ o.f <= g
       /\ \A e \in F!TableIndex : F!Sector(e) # F!Sector(Entered(o)) => ft[g][e] = ft[1][e]

FatPlaces == {"idle", "scan", "link", "write", "clear", "search", "extend", "clear_dir",
              "enter", "free"}
SlotSet == [kind : {"end", "deleted", "label", "file", "stale", "bytes"},
            name : Names \cup {F!NoName}, first : Nat, size : Nat]
Calls == [at : FatPlaces, goal : {"none", "caller", "file", "dir"}, name : Names \cup {F!NoName},
          size : Nat, given : BOOLEAN, n : Nat, first : Nat, i : Nat, f : 1 .. NumFats,
          cur : Nat, last : Nat, file : Nat, done : Nat, chain : Seq(Nat)]
Table == [F!TableIndex -> {F!FREE, EOC} \cup F!Cluster]
Clusters == [F!Cluster -> [1 .. ENTRIES -> SlotSet]]

FatTypes ==
  /\ g_ready \in BOOLEAN /\ fat \in [1 .. NumFats -> Table] /\ data \in Clusters
  /\ op \in Calls /\ held \in SUBSET F!Cluster
  /\ calls \in 0 .. MaxCalls /\ faults \in 0 .. MaxFaults

Volume(t, d, ds, o, hd) ==
  /\ ChainsOf(t, Heads(d, o, hd), ds) /\ FilesGood(t, d, ds)
  /\ Firsts(d) \cap hd = {}
  /\ Phase(t, d, Heads(d, o, hd), ds, o, hd)

(* Only a cluster that the directory was extended by and that is not       *)
(* cleared has anything but entries, unless x: a call left one so.         *)
Uncleared(o) == o.at = "clear_dir" \/ (o.at = "extend" /\ o.f > 1)
Clean(d, ds, o, x) ==
  x \/ \A k \in 1 .. Len(ds), i \in 1 .. ENTRIES :
         d[ds[k]][i].kind \in {"bytes", "stale"} => k = Len(ds) /\ Uncleared(o)

FatInv ==
  /\ FatTypes /\ Copies(fat, op, faults)
  /\ \E ds : Volume(fat[1], data, ds, op, held) /\ Clean(data, ds, op, exposed)

-----------------------------------------------------------------------------
(* Chains in a table. *)

LEMMA Geometry ==
  \E m \in Nat :
    /\ m >= 2 /\ m < EOC /\ EOC \in Nat /\ F!Cluster = 2 .. m /\ m \in F!TableIndex
    /\ F!Cluster \subseteq F!TableIndex /\ F!TableIndex \subseteq Nat
    /\ F!Root = 2 /\ F!FREE = 0
<1> DEFINE m == F!max_cluster
<1>1. /\ m \in F!TableIndex /\ m < EOC /\ EOC \in Nat /\ F!g_total_clusters \in Nat \ {0}
      /\ FatSectors \in Nat /\ PER_SECTOR \in Nat
  BY StorageAssumption DEF F!Fat32Assumption
<1>2. FatSectors * PER_SECTOR \in Nat
  BY <1>1
<1>3. m = F!g_total_clusters + 1 /\ F!Cluster = 2 .. F!g_total_clusters + 1
  BY DEF F!max_cluster, F!Cluster
<1>4. F!TableIndex = 0 .. FatSectors * PER_SECTOR - 1
  BY DEF F!TableIndex
<1>5. m \in Nat /\ m >= 2 /\ F!Cluster = 2 .. m
  BY <1>1, <1>3
<1> HIDE DEF m
<1>6. F!Cluster \subseteq F!TableIndex /\ F!TableIndex \subseteq Nat
  BY <1>1, <1>2, <1>4, <1>5
<1> QED
  BY <1>1, <1>5, <1>6 DEF F!Root, F!FREE

LEMMA Sized ==
  /\ ENTRIES \in Nat \ {0} /\ NumFats \in Nat \ {0} /\ SizeMod \in Nat \ {0}
  /\ CB \in Nat \ {0} /\ Sizes \subseteq Nat /\ MaxCalls \in Nat /\ MaxFaults \in Nat
<1>1. /\ ENTRIES \in Nat \ {0} /\ NumFats \in Nat \ {0} /\ SizeMod \in Nat \ {0}
      /\ SPC \in Nat \ {0} /\ SECTOR \in Nat \ {0}
      /\ Sizes \subseteq Nat /\ MaxCalls \in Nat /\ MaxFaults \in Nat
  BY StorageAssumption DEF F!Fat32Assumption
<1>2. SPC * SECTOR \in Nat \ {0}
  BY <1>1
<1> QED
  BY <1>1, <1>2 DEF CB, F!ClusterBytes

(* A chain does not go on behind its end, and has no free cluster. *)
LEMMA ReachEnd ==
  ASSUME NEW t \in Table, NEW a \in F!Cluster, NEW z, NEW c,
         Reach(t, a, z), t[z] = EOC, Reach(t, a, c)
  PROVE  c <= z
<1>1. PICK m \in Nat : m >= 2 /\ m < EOC /\ EOC \in Nat /\ F!Cluster = 2 .. m
  BY Geometry
<1>2. z \in 2 .. m /\ c \in 2 .. m /\ a \in 2 .. m /\ a <= z /\ \A e \in a .. c - 1 : t[e] = e + 1
  BY <1>1 DEF Reach
<1>3. ASSUME c > z PROVE FALSE
  <2>1. z \in a .. c - 1
    BY <1>1, <1>2, <1>3
  <2>2. t[z] = z + 1
    BY <1>2, <2>1
  <2> QED
    BY <1>1, <1>2, <1>3, <2>2
<1> QED
  BY <1>1, <1>2, <1>3

LEMMA ReachUsed ==
  ASSUME NEW t \in Table, NEW a \in F!Cluster, NEW c, Whole(t, a), Reach(t, a, c)
  PROVE  t[c] # F!FREE
<1>1. PICK m \in Nat : m >= 2 /\ m < EOC /\ EOC \in Nat /\ F!Cluster = 2 .. m /\ F!FREE = 0
  BY Geometry
<1>2. PICK z \in F!Cluster : Reach(t, a, z) /\ t[z] = EOC
  BY DEF Whole
<1>3. c <= z
  BY <1>2, ReachEnd
<1>4. c \in 2 .. m /\ a \in 2 .. m /\ a <= c /\ z \in 2 .. m /\ \A e \in a .. z - 1 : t[e] = e + 1
  BY <1>1, <1>2 DEF Reach
<1>5. CASE c = z
  BY <1>1, <1>2, <1>5
<1>6. CASE c < z
  <2>1. c \in a .. z - 1
    BY <1>1, <1>4, <1>6
  <2> QED
    BY <1>1, <1>4, <2>1
<1> QED
  BY <1>1, <1>3, <1>4, <1>5, <1>6

(* An entry outside a chain does not matter to it. *)
SameChain(t, u, a) ==
  \A c \in F!Cluster : /\ Reach(u, a, c) <=> Reach(t, a, c)
                       /\ Reach(t, a, c) => u[c] = t[c]

LEMMA ReachKept ==
  ASSUME NEW t \in Table, NEW a \in F!Cluster, NEW x \in F!Cluster, NEW v,
         ~Reach(t, a, x)
  PROVE  SameChain(t, [t EXCEPT ![x] = v], a)
<1> DEFINE u == [t EXCEPT ![x] = v]
<1>1. PICK m \in Nat : F!Cluster = 2 .. m /\ F!Cluster \subseteq F!TableIndex
  BY Geometry
<1>2. DOMAIN t = F!TableIndex
  BY DEF Table
<1>3. \A e \in F!TableIndex : e # x => u[e] = t[e]
  BY <1>2
<1> HIDE DEF u
<1>4. a \in 2 .. m /\ x \in 2 .. m
  BY <1>1
<1>5. ASSUME NEW c \in F!Cluster, Reach(t, a, c) PROVE Reach(u, a, c) /\ u[c] = t[c]
  <2>1. c \in 2 .. m /\ a <= c /\ \A e \in a .. c - 1 : t[e] = e + 1
    BY <1>1, <1>5 DEF Reach
  <2>2. ASSUME NEW e \in a .. c - 1 PROVE u[e] = e + 1
    <3>1. e \in 2 .. m /\ a <= e /\ \A b \in a .. e - 1 : b \in a .. c - 1
      BY <1>4, <2>1
    <3>2. Reach(t, a, e)
      BY <1>1, <2>1, <3>1 DEF Reach
    <3>3. e # x /\ e \in F!TableIndex
      BY <1>1, <3>1, <3>2
    <3> QED
      BY <1>3, <2>1, <3>3
  <2>3. c # x /\ c \in F!TableIndex
    BY <1>1, <1>5
  <2> QED
    BY <1>1, <1>3, <2>1, <2>2, <2>3 DEF Reach
<1>6. ASSUME NEW c \in F!Cluster, Reach(u, a, c) PROVE Reach(t, a, c)
  <2>1. c \in 2 .. m /\ a <= c /\ \A e \in a .. c - 1 : u[e] = e + 1
    BY <1>1, <1>6 DEF Reach
  <2>2. \A e \in a .. c - 1 : e # x => t[e] = e + 1
    <3>1. \A e \in a .. c - 1 : e \in F!TableIndex
      BY <1>1, <1>4, <2>1
    <3> QED
      BY <1>3, <2>1, <3>1
  <2>3. CASE x \notin a .. c - 1
    BY <1>6, <2>1, <2>2, <2>3 DEF Reach
  <2>4. CASE x \in a .. c - 1
    <3>1. \A e \in a .. x - 1 : e \in a .. c - 1 /\ e # x
      BY <1>4, <2>1, <2>4
    <3>2. Reach(t, a, x)
      BY <1>4, <2>2, <2>4, <3>1 DEF Reach
    <3> QED
      BY <3>2
  <2> QED
    BY <2>3, <2>4
<1> QED
  BY <1>5, <1>6 DEF SameChain, u

LEMMA WholeKept ==
  ASSUME NEW t, NEW u, NEW a, SameChain(t, u, a), Whole(t, a)
  PROVE  Whole(u, a)
<1>1. PICK z \in F!Cluster : Reach(t, a, z) /\ t[z] = EOC
  BY DEF Whole
<1> QED
  BY <1>1 DEF Whole, SameChain

LEMMA FileKept ==
  ASSUME NEW t, NEW u, NEW d, NEW d2, NEW a, NEW s, SameChain(t, u, a), FileGood(t, d, a, s),
         \A c \in F!Cluster : Reach(t, a, c) => d2[c] = d[c] \/ Filled(d2, c, a)
  PROVE  FileGood(u, d2, a, s)
<1>1. ASSUME NEW c \in F!Cluster, Reach(u, a, c) PROVE Filled(d2, c, a)
  <2>1. Reach(t, a, c)
    BY <1>1 DEF SameChain
  <2>2. Filled(d, c, a)
    BY <2>1 DEF FileGood
  <2> QED
    BY <2>1, <2>2 DEF Filled
<1>2. ASSUME s + CB <= SizeMod, NEW z \in F!Cluster, Reach(u, a, z), u[z] = EOC
      PROVE  (z - a + 1) * CB >= s
  <2>1. Reach(t, a, z) /\ t[z] = EOC
    BY <1>2 DEF SameChain
  <2> QED
    BY <1>2, <2>1 DEF FileGood
<1> QED
  BY <1>1, <1>2 DEF FileGood

LEMMA SameTable ==
  ASSUME NEW t, NEW a
  PROVE  SameChain(t, t, a)
BY DEF SameChain

(* The chains of K stay when an entry outside them changes. *)
LEMMA ChainsKept ==
  ASSUME NEW t \in Table, NEW K, NEW ds, ChainsOf(t, K, ds), NEW x \in F!Cluster, NEW v,
         Unused(t, K, ds, {x})
  PROVE  /\ ChainsOf([t EXCEPT ![x] = v], K, ds)
         /\ \A a \in K : SameChain(t, [t EXCEPT ![x] = v], a)
<1> DEFINE u == [t EXCEPT ![x] = v]
<1>1. DirIs(t, ds) /\ K \subseteq F!Cluster
  BY DEF ChainsOf
<1>2. \A a \in K : SameChain(t, u, a)
  BY <1>1, ReachKept DEF Unused
<1>3. DirIs(u, ds)
  <2>1. \A e \in F!Cluster : e # x => u[e] = t[e]
    BY Geometry DEF Table
  <2> HIDE DEF u
  <2>2. /\ ds \in Seq(F!Cluster) /\ Len(ds) \in Nat /\ Len(ds) >= 1
        /\ \A k \in 1 .. Len(ds) : ds[k] \in F!Cluster /\ ds[k] # x
    BY <1>1 DEF DirIs, Unused
  <2>3. \A k \in 1 .. Len(ds) : u[ds[k]] = t[ds[k]]
    BY <2>1, <2>2
  <2>4. Len(ds) \in 1 .. Len(ds) /\ \A k \in 1 .. Len(ds) - 1 : k \in 1 .. Len(ds)
    BY <2>2
  <2> QED
    BY <1>1, <2>3, <2>4 DEF DirIs
<1> HIDE DEF u
<1>4. \A a \in K : Whole(u, a)
  BY <1>2, WholeKept DEF ChainsOf
<1>5. \A a, b \in K : Reach(u, a, b) => a = b
  BY <1>1, <1>2 DEF ChainsOf, SameChain
<1>6. ASSUME NEW a \in K, NEW k \in 1 .. Len(ds) PROVE ~Reach(u, a, ds[k])
  <2>1. ds[k] \in F!Cluster /\ ~Reach(t, a, ds[k])
    BY <1>1 DEF DirIs, ChainsOf
  <2> QED
    BY <1>2, <2>1 DEF SameChain
<1> QED
  BY <1>1, <1>2, <1>3, <1>4, <1>5, <1>6 DEF ChainsOf, u

LEMMA UnusedKept ==
  ASSUME NEW t, NEW u, NEW K, NEW ds, NEW C, Unused(t, K, ds, C),
         \A a \in K : SameChain(t, u, a)
  PROVE  Unused(u, K, ds, C)
<1>1. ASSUME NEW a \in K, NEW c \in C, Reach(u, a, c) PROVE FALSE
  <2>1. c \in F!Cluster
    BY <1>1 DEF Reach
  <2> QED
    BY <1>1, <2>1 DEF Unused, SameChain
<1> QED
  BY <1>1 DEF Unused

(* A free cluster is in no chain. *)
LEMMA FreeUnused ==
  ASSUME NEW t \in Table, NEW K, NEW ds, ChainsOf(t, K, ds), NEW C,
         \A c \in C : t[c] = F!FREE
  PROVE  Unused(t, K, ds, C)
<1>1. K \subseteq F!Cluster /\ \A a \in K : Whole(t, a)
  BY DEF ChainsOf
<1>2. \A a \in K, c \in C : ~Reach(t, a, c)
  BY <1>1, ReachUsed
<1>3. ASSUME NEW k \in 1 .. Len(ds) PROVE t[ds[k]] # F!FREE
  <2>1. PICK m \in Nat : m >= 2 /\ m < EOC /\ EOC \in Nat /\ F!Cluster = 2 .. m /\ F!FREE = 0
    BY Geometry
  <2>2. /\ ds \in Seq(F!Cluster) /\ Len(ds) \in Nat /\ t[ds[Len(ds)]] = EOC
        /\ \A l \in 1 .. Len(ds) - 1 : t[ds[l]] = ds[l + 1]
    BY DEF ChainsOf, DirIs
  <2>3. CASE k = Len(ds)
    BY <2>1, <2>2, <2>3
  <2>4. CASE k < Len(ds)
    <3>1. k \in 1 .. Len(ds) - 1 /\ k + 1 \in 1 .. Len(ds)
      BY <2>2, <2>4
    <3>2. t[ds[k]] = ds[k + 1] /\ ds[k + 1] \in 2 .. m
      BY <2>1, <2>2, <3>1
    <3> QED
      BY <2>1, <3>2
  <2> QED
    BY <2>2, <2>3, <2>4
<1> QED
  BY <1>2, <1>3 DEF Unused

(* A linked allocation is a chain of its clusters. *)
LEMMA LinkedRun ==
  ASSUME NEW t \in Table, NEW a \in F!Cluster, NEW n \in Nat, n >= 1, Linked(t, a, n, n)
  PROVE  /\ Whole(t, a) /\ a + n - 1 \in F!Cluster /\ t[a + n - 1] = EOC
         /\ Reach(t, a, a + n - 1)
         /\ \A c \in F!Cluster : Reach(t, a, c) <=> c \in a .. a + n - 1
<1>1. PICK m \in Nat : m >= 2 /\ m < EOC /\ EOC \in Nat /\ F!Cluster = 2 .. m
  BY Geometry
<1> DEFINE z == a + n - 1
<1>2. z \in 2 .. m /\ a \in 2 .. m /\ a <= z /\ \A c \in a .. z : t[c] = IF c = z THEN EOC ELSE c + 1
  BY <1>1 DEF Linked
<1> HIDE DEF z
<1>3. t[z] = EOC
  BY <1>2
<1>4. ASSUME NEW c \in a .. z PROVE Reach(t, a, c)
  <2>1. c \in 2 .. m /\ \A e \in a .. c - 1 : e \in a .. z /\ e # z
    BY <1>2
  <2> QED
    BY <1>1, <1>2, <2>1 DEF Reach
<1>5. Reach(t, a, z)
  BY <1>2, <1>4
<1>6. ASSUME NEW c \in F!Cluster, Reach(t, a, c) PROVE c \in a .. z
  <2>1. c <= z
    BY <1>3, <1>5, <1>6, ReachEnd
  <2> QED
    BY <1>1, <1>2, <1>6, <2>1 DEF Reach
<1>7. \A c \in F!Cluster : Reach(t, a, c) <=> c \in a .. z
  BY <1>4, <1>6
<1> QED
  BY <1>1, <1>2, <1>3, <1>5, <1>7 DEF Whole, z

LEMMA ReachSelf ==
  ASSUME NEW t, NEW a \in F!Cluster
  PROVE  Reach(t, a, a)
<1>1. PICK m \in Nat : F!Cluster = 2 .. m
  BY Geometry
<1> QED
  BY <1>1 DEF Reach

LEMMA HeadAdded ==
  ASSUME NEW t \in Table, NEW K, NEW ds, ChainsOf(t, K, ds),
         NEW a \in F!Cluster, NEW n \in Nat, n >= 1, Linked(t, a, n, n),
         Unused(t, K, ds, a .. a + n - 1)
  PROVE  ChainsOf(t, K \cup {a}, ds)
<1>0. PICK m \in Nat : F!Cluster = 2 .. m
  BY Geometry
<1>1. /\ Whole(t, a) /\ \A c \in F!Cluster : Reach(t, a, c) <=> c \in a .. a + n - 1
  BY LinkedRun
<1>2. K \subseteq F!Cluster /\ DirIs(t, ds) /\ \A k \in 1 .. Len(ds) : ds[k] \in F!Cluster
  BY DEF ChainsOf, DirIs
<1>3. ASSUME NEW b \in K, Reach(t, a, b) PROVE FALSE
  <2>1. b \in a .. a + n - 1 /\ Reach(t, b, b)
    BY <1>1, <1>2, <1>3, ReachSelf
  <2> QED
    BY <2>1 DEF Unused
<1>4. a \in a .. a + n - 1
  BY <1>0
<1>5. ASSUME NEW b \in K, Reach(t, b, a) PROVE FALSE
  BY <1>4, <1>5 DEF Unused
<1>6. \A k \in 1 .. Len(ds) : ~Reach(t, a, ds[k])
  BY <1>1, <1>2 DEF Unused
<1> QED
  BY <1>1, <1>2, <1>3, <1>5, <1>6 DEF ChainsOf

LEMMA FewerHeads ==
  ASSUME NEW t, NEW K, NEW J, NEW ds, J \subseteq K
  PROVE  /\ ChainsOf(t, K, ds) => ChainsOf(t, J, ds)
         /\ \A C : Unused(t, K, ds, C) => Unused(t, J, ds, C)
BY DEF ChainsOf, Unused

(* The directory grows by a cluster that is in no chain. *)
LEMMA DirExtended ==
  ASSUME NEW t \in Table, NEW K, NEW ds, ChainsOf(t, K, ds), NEW b \in F!Cluster,
         t[b] = EOC, Unused(t, K, ds, {b})
  PROVE  LET u == [t EXCEPT ![ds[Len(ds)]] = b] IN
         /\ ChainsOf(u, K, Append(ds, b))
         /\ \A a \in K : SameChain(t, u, a)
<1> DEFINE n == Len(ds)  x == ds[n]  u == [t EXCEPT ![x] = b]  es == Append(ds, b)
<1>1. /\ ds \in Seq(F!Cluster) /\ n \in Nat /\ n >= 1 /\ ds[1] = F!Root /\ K \subseteq F!Cluster
      /\ \A k, l \in 1 .. n : ds[k] = ds[l] => k = l
      /\ \A k \in 1 .. n - 1 : t[ds[k]] = ds[k + 1]
      /\ \A k \in 1 .. n : ds[k] \in F!Cluster /\ ds[k] # b
      /\ x \in F!Cluster /\ \A a \in K : ~Reach(t, a, x)
  BY DEF ChainsOf, DirIs, Unused
<1>2. \A a \in K : SameChain(t, u, a)
  BY <1>1, ReachKept
<1>3. u[x] = b /\ \A e \in F!Cluster : e # x => u[e] = t[e]
  BY <1>1, Geometry DEF Table
<1>4. /\ es \in Seq(F!Cluster) /\ Len(es) = n + 1 /\ es[n + 1] = b
      /\ \A k \in 1 .. n : es[k] = ds[k]
  BY <1>1
<1> HIDE DEF u, es
<1>5. DirIs(u, es)
  <2>1. es[1] = F!Root /\ Len(es) >= 1
    BY <1>1, <1>4
  <2>2. ASSUME NEW k \in 1 .. n + 1, NEW l \in 1 .. n + 1, es[k] = es[l] PROVE k = l
    <3>1. (k \in 1 .. n \/ k = n + 1) /\ (l \in 1 .. n \/ l = n + 1)
      BY <1>1
    <3> QED
      BY <1>1, <1>4, <2>2, <3>1
  <2>3. ASSUME NEW k \in 1 .. n PROVE u[es[k]] = es[k + 1]
    <3>1. CASE k = n
      BY <1>1, <1>3, <1>4, <3>1
    <3>2. CASE k # n
      <4>1. k \in 1 .. n - 1 /\ k + 1 \in 1 .. n /\ n \in 1 .. n
        BY <1>1, <3>2
      <4>2. ds[k] # x /\ ds[k] \in F!Cluster /\ t[ds[k]] = ds[k + 1]
        BY <1>1, <3>2, <4>1
      <4> QED
        BY <1>3, <1>4, <4>1, <4>2
    <3> QED
      BY <3>1, <3>2
  <2>4. u[es[n + 1]] = EOC
    <3>1. b # x
      BY <1>1
    <3> QED
      BY <1>3, <1>4, <3>1
  <2>5. Len(es) - 1 = n
    BY <1>1, <1>4
  <2> QED
    BY <1>4, <2>1, <2>2, <2>3, <2>4, <2>5 DEF DirIs
<1>6. \A a \in K : Whole(u, a)
  BY <1>2, WholeKept DEF ChainsOf
<1>7. \A a, c \in K : Reach(u, a, c) => a = c
  BY <1>1, <1>2 DEF ChainsOf, SameChain
<1>8. ASSUME NEW a \in K, NEW k \in 1 .. n + 1 PROVE ~Reach(u, a, es[k])
  <2>1. es[k] \in F!Cluster /\ ~Reach(t, a, es[k])
    <3>1. CASE k = n + 1
      BY <1>4, <3>1 DEF Unused
    <3>2. CASE k # n + 1
      <4>1. k \in 1 .. n
        BY <1>1, <3>2
      <4> QED
        BY <1>1, <1>4, <4>1 DEF ChainsOf
    <3> QED
      BY <3>1, <3>2
  <2> QED
    BY <1>2, <2>1 DEF SameChain
<1>9. ChainsOf(u, K, es)
  BY <1>1, <1>4, <1>5, <1>6, <1>7, <1>8 DEF ChainsOf
<1> QED
  BY <1>2, <1>9 DEF u, es

-----------------------------------------------------------------------------
(* The chains the driver's loops see. *)

(* A set of naturals has a least element. *)
LEMMA LeastOf ==
  ASSUME NEW Z, Z \subseteq Nat, Z # {}
  PROVE  \E x \in Z : \A y \in Z : x <= y
<1> DEFINE R == {ss \in Nat \X Nat : ss[1] < ss[2]}
<1>1. IsWellFoundedOn(R, Nat)
  BY NatLessThanWellFounded DEF OpToRel
<1>2. \A y, x \in Nat : y < x => << y, x >> \in R
  OBVIOUS
<1> HIDE DEF R
<1>3. PICK x \in Z : \A y \in Z : ~(<< y, x >> \in R)
  BY <1>1, WFMin, Zenon
<1>4. ASSUME NEW y \in Z PROVE x <= y
  <2>1. x \in Nat /\ y \in Nat
    OBVIOUS
  <2>2. ~(y < x)
    BY <1>2, <1>3, <2>1
  <2> QED
    BY <2>1, <2>2
<1> QED
  BY <1>4

(* The walk is the one function that starts at c and follows the table. *)
Hop(t, x) == IF F!InChain(x) THEN t[x] ELSE EOC
Follows(t, c, z) == z = [k \in F!TableIndex |-> IF k = 0 THEN c ELSE Hop(t, z[k - 1])]

LEMMA WalkIs ==
  ASSUME NEW t, NEW c, NEW z, Follows(t, c, z)
  PROVE  F!Walk(t, c) = z
<1> DEFINE w == F!Walk(t, c)
<1>1. w = CHOOSE g : Follows(t, c, g)
  BY DEF F!Walk, Follows, Hop
<1>2. Follows(t, c, w)
  <2> HIDE DEF w
  <2> QED
    BY <1>1
<1> HIDE DEF w
<1>3. /\ \A k \in F!TableIndex : w[k] = IF k = 0 THEN c ELSE Hop(t, w[k - 1])
      /\ \A k \in F!TableIndex : z[k] = IF k = 0 THEN c ELSE Hop(t, z[k - 1])
  BY <1>2 DEF Follows
<1>4. F!TableIndex \subseteq Nat /\ \A k \in F!TableIndex : k # 0 => k - 1 \in F!TableIndex
  <2>1. /\ FatSectors \in Nat /\ PER_SECTOR \in Nat
    BY StorageAssumption DEF F!Fat32Assumption
  <2>2. FatSectors * PER_SECTOR \in Nat
    BY <2>1
  <2> QED
    BY <2>2 DEF F!TableIndex
<1> DEFINE Bad == {k \in F!TableIndex : w[k] # z[k]}
<1>5. Bad = {}
  <2> SUFFICES ASSUME Bad # {} PROVE FALSE
    OBVIOUS
  <2>1. PICK m \in Bad : \A y \in Bad : m <= y
    <3>1. Bad \subseteq Nat
      BY <1>4
    <3> HIDE DEF Bad
    <3> QED
      BY <3>1, LeastOf
  <2>2. m \in F!TableIndex /\ w[m] # z[m] /\ m \in Nat
    BY <1>4
  <2>3. m # 0
    BY <1>3, <2>2
  <2>4. m - 1 \in F!TableIndex /\ m - 1 \notin Bad
    <3>1. m - 1 \in F!TableIndex /\ ~(m <= m - 1)
      BY <1>4, <2>2, <2>3
    <3> HIDE DEF Bad
    <3> QED
      BY <2>1, <3>1
  <2>5. w[m - 1] = z[m - 1]
    BY <2>4
  <2>6. w[m] = Hop(t, w[m - 1]) /\ z[m] = Hop(t, z[m - 1])
    BY <1>3, <2>2, <2>3
  <2> QED
    BY <2>2, <2>5, <2>6
<1>6. \A k \in F!TableIndex : w[k] = z[k]
  BY <1>5
<1>7. w = [k \in F!TableIndex |-> w[k]] /\ z = [k \in F!TableIndex |-> z[k]]
  BY <1>2 DEF Follows
<1>8. [k \in F!TableIndex |-> w[k]] = [k \in F!TableIndex |-> z[k]]
  BY <1>6
<1> QED
  BY <1>7, <1>8 DEF w

(* No chain without repetition is longer than the table. *)
LEMMA ChainFits ==
  ASSUME NEW ds \in Seq(F!Cluster), \A k, l \in 1 .. Len(ds) : ds[k] = ds[l] => k = l
  PROVE  0 .. Len(ds) \subseteq F!TableIndex
<1>1. PICK m \in Nat : m >= 2 /\ F!Cluster = 2 .. m /\ m \in F!TableIndex
  BY Geometry
<1>2. Len(ds) \in Nat /\ ds \in [1 .. Len(ds) -> F!Cluster]
  OBVIOUS
<1>3. IsFiniteSet(F!Cluster) /\ Cardinality(F!Cluster) = m - 1
  <2>1. IsFiniteSet(2 .. m) /\ Cardinality(2 .. m) = m - 2 + 1
    BY <1>1, FS_Interval
  <2> QED
    BY <1>1, <2>1
<1>4. IsFiniteSet(1 .. Len(ds)) /\ Cardinality(1 .. Len(ds)) = Len(ds)
  BY <1>2, FS_Interval
<1>5. ASSUME Len(ds) > m - 1 PROVE FALSE
  <2>1. Cardinality(F!Cluster) < Cardinality(1 .. Len(ds))
    BY <1>1, <1>2, <1>3, <1>4, <1>5
  <2>2. \E x, y \in 1 .. Len(ds) : x # y /\ ds[x] = ds[y]
    BY <1>2, <1>3, <1>4, <2>1, FS_PigeonHole
  <2> QED
    BY <2>2
<1>6. Len(ds) <= m - 1
  BY <1>1, <1>2, <1>5
<1>7. FatSectors * PER_SECTOR \in Nat
  <2>1. /\ FatSectors \in Nat /\ PER_SECTOR \in Nat
    BY StorageAssumption DEF F!Fat32Assumption
  <2> QED
    BY <2>1
<1> QED
  BY <1>1, <1>2, <1>6, <1>7 DEF F!TableIndex

LEMMA ChainIs ==
  ASSUME NEW t, NEW ds \in Seq(F!Cluster), Len(ds) >= 1,
         \A k, l \in 1 .. Len(ds) : ds[k] = ds[l] => k = l,
         \A k \in 1 .. Len(ds) - 1 : t[ds[k]] = ds[k + 1],
         t[ds[Len(ds)]] = EOC
  PROVE  F!ChainIn(t, ds[1]) = ds
<1>1. PICK m \in Nat : m >= 2 /\ m < EOC /\ EOC \in Nat /\ F!Cluster = 2 .. m
  BY Geometry
<1> DEFINE n == Len(ds)
           z == [k \in F!TableIndex |-> IF k < n THEN ds[k + 1] ELSE EOC]
<1>2. n \in Nat /\ n >= 1 /\ 0 .. n \subseteq F!TableIndex /\ F!TableIndex \subseteq Nat
  BY ChainFits, Geometry, SMTT(40)
<1>3. /\ \A k \in F!TableIndex : k < n => z[k] = ds[k + 1] /\ F!InChain(z[k])
      /\ \A k \in F!TableIndex : ~(k < n) => z[k] = EOC /\ ~F!InChain(z[k])
  <2>1. ASSUME NEW k \in F!TableIndex, k < n PROVE z[k] = ds[k + 1] /\ F!InChain(z[k])
    <3>1. k + 1 \in 1 .. n
      BY <1>2, <2>1
    <3>2. ds[k + 1] \in 2 .. m
      BY <1>1, <3>1
    <3> QED
      BY <1>1, <2>1, <3>2 DEF F!InChain
  <2>2. ASSUME NEW k \in F!TableIndex, ~(k < n) PROVE z[k] = EOC /\ ~F!InChain(z[k])
    BY <1>1, <2>2 DEF F!InChain
  <2> QED
    BY <2>1, <2>2
<1>4. z = [k \in F!TableIndex |-> z[k]]
  OBVIOUS
<1> HIDE DEF z
<1>5. \A k \in F!TableIndex : z[k] = IF k = 0 THEN ds[1] ELSE Hop(t, z[k - 1])
  <2> SUFFICES ASSUME NEW k \in F!TableIndex PROVE z[k] = IF k = 0 THEN ds[1] ELSE Hop(t, z[k - 1])
    OBVIOUS
  <2>1. CASE k = 0
    BY <1>2, <1>3, <2>1
  <2>2. CASE k # 0 /\ k < n
    <3>1. k - 1 \in 0 .. n /\ k - 1 < n /\ k \in 1 .. n - 1 /\ k - 1 + 1 = k
      BY <1>2, <2>2
    <3>2. z[k - 1] = ds[k] /\ F!InChain(z[k - 1]) /\ z[k] = ds[k + 1]
      BY <1>2, <1>3, <2>2, <3>1
    <3> QED
      BY <2>2, <3>1, <3>2 DEF Hop
  <2>3. CASE k = n
    <3>1. k - 1 \in 0 .. n /\ k - 1 < n /\ k - 1 + 1 = n /\ k # 0 /\ ~(k < n)
      BY <1>2, <2>3
    <3>2. z[k - 1] = ds[n] /\ F!InChain(z[k - 1]) /\ z[k] = EOC
      BY <1>2, <1>3, <3>1
    <3> QED
      BY <3>1, <3>2 DEF Hop
  <2>4. CASE k > n
    <3>1. k - 1 \in Nat /\ ~(k - 1 < n) /\ k # 0 /\ ~(k < n)
      BY <1>2, <2>4
    <3>2. k - 1 \in F!TableIndex
      <4>1. /\ FatSectors \in Nat /\ PER_SECTOR \in Nat
        BY StorageAssumption DEF F!Fat32Assumption
      <4>2. FatSectors * PER_SECTOR \in Nat
        BY <4>1
      <4> QED
        BY <3>1, <4>2 DEF F!TableIndex
    <3>3. ~F!InChain(z[k - 1]) /\ z[k] = EOC
      BY <1>3, <3>1, <3>2
    <3> QED
      BY <3>1, <3>3 DEF Hop
  <2> QED
    BY <1>2, <2>1, <2>2, <2>3, <2>4
<1>6. Follows(t, ds[1], z)
  <2>1. [k \in F!TableIndex |-> z[k]] =
          [k \in F!TableIndex |-> IF k = 0 THEN ds[1] ELSE Hop(t, z[k - 1])]
    BY <1>5, Zenon
  <2> QED
    BY <1>4, <2>1, Zenon DEF Follows
<1>7. F!Walk(t, ds[1]) = z
  BY <1>6, WalkIs
<1>8. {k \in F!TableIndex : F!InChain(z[k])} = 0 .. n - 1
  <2>1. ASSUME NEW k \in F!TableIndex PROVE F!InChain(z[k]) <=> k \in 0 .. n - 1
    <3>1. k < n <=> k \in 0 .. n - 1
      BY <1>2
    <3> QED
      BY <1>3, <3>1
  <2>2. 0 .. n - 1 \subseteq F!TableIndex
    BY <1>2
  <2> QED
    BY <2>1, <2>2
<1>9. Cardinality(0 .. n - 1) = n
  <2>0. n - 1 \in Int /\ 0 \in Int /\ ~(0 > n - 1)
    BY <1>2
  <2>1. Cardinality(0 .. n - 1) = (n - 1) - 0 + 1
    <3> HIDE DEF n
    <3> QED
      BY <2>0, FS_Interval
  <2> QED
    BY <1>2, <2>1
<1>10. F!ChainIn(t, ds[1]) = [k \in 1 .. n |-> z[k - 1]]
  <2>1. F!Cardinality({k \in F!TableIndex : F!InChain(z[k])}) = n
    BY ONLY <1>8, <1>9 DEF F!Cardinality, Cardinality
  <2> QED
    BY <1>7, <2>1 DEF F!ChainIn
<1>11. \A k \in 1 .. n : z[k - 1] = ds[k]
  <2> SUFFICES ASSUME NEW k \in 1 .. n PROVE z[k - 1] = ds[k]
    OBVIOUS
  <2>1. k - 1 \in 0 .. n /\ k - 1 < n /\ k - 1 + 1 = k
    BY <1>2
  <2> QED
    BY <1>2, <1>3, <2>1
<1>12. [k \in 1 .. n |-> z[k - 1]] = [k \in 1 .. n |-> ds[k]]
  BY <1>11
<1>13. ds = [k \in 1 .. n |-> ds[k]]
  BY <1>2
<1> QED
  BY <1>10, <1>12, <1>13

LEMMA RunChain ==
  ASSUME NEW t, NEW a \in F!Cluster, NEW z \in F!Cluster, Reach(t, a, z), t[z] = EOC
  PROVE  F!ChainIn(t, a) = [k \in 1 .. z - a + 1 |-> a + k - 1]
<1>1. PICK m \in Nat : F!Cluster = 2 .. m
  BY Geometry
<1> DEFINE n == z - a + 1
           s == [k \in 1 .. n |-> a + k - 1]
<1>2. a \in 2 .. m /\ z \in 2 .. m /\ a <= z /\ n \in Nat /\ n >= 1 /\ a + n - 1 = z
  BY <1>1 DEF Reach
<1>3. \A e \in a .. z - 1 : t[e] = e + 1
  BY DEF Reach
<1>4. \A k \in 1 .. n : a + k - 1 \in F!Cluster
  BY <1>1, <1>2
<1>5. s \in Seq(F!Cluster) /\ Len(s) = n /\ \A k \in 1 .. n : s[k] = a + k - 1
  <2> HIDE DEF n
  <2> QED
    BY <1>2, <1>4
<1> HIDE DEF s, n
<1>6. s[1] = a /\ s[n] = z
  <2>1. 1 \in 1 .. n /\ n \in 1 .. n /\ a + 1 - 1 = a
    BY <1>2
  <2> QED
    BY <1>2, <1>5, <2>1
<1>7. \A k, l \in 1 .. n : s[k] = s[l] => k = l
  <2> SUFFICES ASSUME NEW k \in 1 .. n, NEW l \in 1 .. n, s[k] = s[l] PROVE k = l
    OBVIOUS
  <2>1. a + k - 1 = a + l - 1
    BY <1>5
  <2> QED
    BY <1>2, <2>1
<1>8. \A k \in 1 .. n - 1 : t[s[k]] = s[k + 1]
  <2> SUFFICES ASSUME NEW k \in 1 .. n - 1 PROVE t[s[k]] = s[k + 1]
    OBVIOUS
  <2>1. k \in 1 .. n /\ k + 1 \in 1 .. n /\ a + k - 1 \in a .. z - 1
        /\ (a + k - 1) + 1 = a + (k + 1) - 1
    BY <1>2
  <2>2. s[k] = a + k - 1 /\ s[k + 1] = a + (k + 1) - 1
    BY <1>5, <2>1
  <2> QED
    BY <1>3, <2>1, <2>2
<1>9. F!ChainIn(t, s[1]) = s
  BY <1>2, <1>5, <1>6, <1>7, <1>8, ChainIs
<1> QED
  BY <1>6, <1>9 DEF s, n

(* Two chains that meet have the same first cluster. *)
LEMMA Apart ==
  ASSUME NEW t, NEW K, NEW ds, ChainsOf(t, K, ds), NEW a \in K, NEW b \in K, NEW e,
         Reach(t, a, e), Reach(t, b, e)
  PROVE  a = b
<1>1. PICK m \in Nat : F!Cluster = 2 .. m
  BY Geometry
<1>2. a \in 2 .. m /\ b \in 2 .. m /\ e \in 2 .. m /\ a <= e /\ b <= e
  BY <1>1 DEF ChainsOf, Reach
<1>3. CASE a <= b
  <2>1. \A x \in a .. b - 1 : x \in a .. e - 1
    BY <1>2
  <2>2. Reach(t, a, b)
    BY <1>1, <1>2, <1>3, <2>1 DEF Reach
  <2> QED
    BY <2>2 DEF ChainsOf
<1>4. CASE b <= a
  <2>1. \A x \in b .. a - 1 : x \in b .. e - 1
    BY <1>2
  <2>2. Reach(t, b, a)
    BY <1>1, <1>2, <1>4, <2>1 DEF Reach
  <2> QED
    BY <2>2 DEF ChainsOf
<1> QED
  BY <1>2, <1>3, <1>4

(* What needed_clusters gives: room for the size unless the sum wrapped,   *)
(* and no cluster more.                                                    *)
LEMMA DivBounds ==
  ASSUME NEW x \in Nat, NEW y \in Nat \ {0}
  PROVE  /\ x \div y \in Nat /\ (x \div y) * y <= x /\ x < (x \div y) * y + y
         /\ x % y \in Nat /\ x % y <= x /\ (x < y => x % y = x)
OBVIOUS

LEMMA Needed ==
  ASSUME NEW s \in Nat
  PROVE  LET n == F!needed_clusters(s) IN
         /\ n \in Nat /\ n >= 1
         /\ s > 0 => n * CB < s + CB
         /\ s + CB <= SizeMod => n * CB >= s
<1>1. CB \in Nat \ {0} /\ SizeMod \in Nat \ {0} /\ CB = F!ClusterBytes
  BY Sized DEF CB
<1> DEFINE x == s + CB - 1
           y == x % SizeMod
           q == y \div CB
<1>2. q = F!clusters_of_size(s)
  BY <1>1 DEF F!clusters_of_size
<1>3. x \in Nat
  BY <1>1
<1> HIDE DEF x
<1>4. y \in Nat /\ y <= x /\ (x < SizeMod => y = x)
  BY <1>1, <1>3, DivBounds
<1> HIDE DEF y
<1>5. q \in Nat /\ q * CB <= y /\ y < q * CB + CB
  BY <1>1, <1>4, DivBounds
<1> HIDE DEF q
<1>6. q * CB \in Nat /\ 1 * CB = CB
  BY <1>1, <1>5
<1>7. F!needed_clusters(s) = IF q = 0 THEN 1 ELSE q
  BY <1>2 DEF F!needed_clusters
<1>8. CASE q = 0
  <2>1. y < CB
    BY <1>1, <1>5, <1>8
  <2> QED
    BY <1>1, <1>3, <1>4, <1>6, <1>7, <1>8, <2>1 DEF x
<1>9. CASE q # 0
  BY <1>1, <1>3, <1>4, <1>5, <1>6, <1>7, <1>9 DEF x
<1> QED
  BY <1>8, <1>9

-----------------------------------------------------------------------------
(* What the steps have in common. *)

LEMMA VolumeOf ==
  ASSUME NEW t, NEW d, NEW ds, NEW K, ChainsOf(t, K, ds), FilesGood(t, d, ds),
         NEW o, NEW hd, Heads(d, o, hd) \subseteq K, Firsts(d) \cap hd = {},
         Phase(t, d, Heads(d, o, hd), ds, o, hd)
  PROVE  Volume(t, d, ds, o, hd)
BY FewerHeads DEF Volume

LEMMA IdlePhase ==
  ASSUME NEW t, NEW d, NEW K, NEW ds, NEW hd
  PROVE  Phase(t, d, K, ds, F!Idle, hd)
<1>1. F!Idle.at = "idle"
  BY DEF F!Idle
<1> QED
  BY <1>1 DEF Phase

LEMMA IdleHeads ==
  ASSUME NEW d, NEW hd
  PROVE  Heads(d, F!Idle, hd) = Firsts(d) \cup hd
<1>1. F!Idle.at = "idle" /\ F!Idle.file = 0
  BY DEF F!Idle
<1>2. 0 \notin F!Cluster
  BY Geometry
<1> QED
  BY <1>1, <1>2 DEF Heads, Kept

(* A call that returns leaves the volume as it is, and owns nothing. *)
LEMMA Returned ==
  ASSUME NEW t, NEW d, NEW ds, NEW K, ChainsOf(t, K, ds), FilesGood(t, d, ds),
         NEW hd, Firsts(d) \subseteq K, hd \subseteq K, Firsts(d) \cap hd = {}
  PROVE  Volume(t, d, ds, F!Idle, hd)
<1>1. Heads(d, F!Idle, hd) \subseteq K
  BY IdleHeads
<1> QED
  BY <1>1, IdlePhase, VolumeOf

LEMMA Abandoned ==
  ASSUME NEW t, NEW d, NEW ds, NEW o, NEW hd, Volume(t, d, ds, o, hd)
  PROVE  /\ Volume(t, d, ds, F!Idle, hd \ {o.first})
         /\ o.at # "free" => Volume(t, d, ds, F!Idle, hd)
<1>1. ChainsOf(t, Heads(d, o, hd), ds) /\ FilesGood(t, d, ds) /\ Firsts(d) \cap hd = {}
  BY DEF Volume
<1>2. Firsts(d) \subseteq Heads(d, o, hd) /\ hd \ {o.first} \subseteq Heads(d, o, hd)
  BY DEF Heads, Kept
<1>3. o.at # "free" => hd \subseteq Heads(d, o, hd)
  BY DEF Heads, Kept
<1>4. Firsts(d) \cap (hd \ {o.first}) = {}
  BY <1>1
<1> QED
  BY <1>1, <1>2, <1>3, <1>4, Returned

LEMMA FilesGoodKept ==
  ASSUME NEW t, NEW u, NEW d, NEW ds, NEW es, FilesGood(t, d, ds),
         \A a \in Firsts(d) : SameChain(t, u, a),
         \A k \in 1 .. Len(ds) : \E l \in 1 .. Len(es) : ds[k] = es[l]
  PROVE  FilesGood(u, d, es)
<1> SUFFICES ASSUME NEW c \in F!Cluster, NEW i \in 1 .. ENTRIES, IsFile(d, c, i)
             PROVE  /\ \E k \in 1 .. Len(es) : c = es[k]
                    /\ d[c][i].first \in F!Cluster
                    /\ FileGood(u, d, d[c][i].first, d[c][i].size)
  BY DEF FilesGood
<1>1. /\ \E k \in 1 .. Len(ds) : c = ds[k]
      /\ d[c][i].first \in F!Cluster
      /\ FileGood(t, d, d[c][i].first, d[c][i].size)
  BY DEF FilesGood
<1>2. d[c][i].first \in Firsts(d)
  BY <1>1 DEF Firsts
<1>3. FileGood(u, d, d[c][i].first, d[c][i].size)
  BY <1>1, <1>2, FileKept
<1> QED
  BY <1>1, <1>3

(* The table changes in an entry that is in no chain. *)
LEMMA TableChanged ==
  ASSUME NEW t \in Table, NEW d, NEW ds, NEW K, ChainsOf(t, K, ds), FilesGood(t, d, ds),
         Firsts(d) \subseteq K, NEW x \in F!Cluster, NEW v, Unused(t, K, ds, {x})
  PROVE  LET u == [t EXCEPT ![x] = v] IN
         /\ ChainsOf(u, K, ds) /\ FilesGood(u, d, ds)
         /\ \A a \in K : SameChain(t, u, a)
<1> DEFINE u == [t EXCEPT ![x] = v]
<1>1. ChainsOf(u, K, ds) /\ \A a \in K : SameChain(t, u, a)
  BY ChainsKept
<1> HIDE DEF u
<1>2. FilesGood(u, d, ds)
  BY <1>1, FilesGoodKept
<1> QED
  BY <1>1, <1>2 DEF u

-----------------------------------------------------------------------------
(* The calls. *)

LEMMA VolumeAlloc ==
  ASSUME NEW t, NEW d, NEW ds, NEW hd, Volume(t, d, ds, F!Idle, hd),
         NEW o, o.at = "scan", o.file = 0, o.n >= 1,
         \/ o.goal = "caller"
         \/ o.goal = "file" /\ o.n = F!needed_clusters(o.size) /\ o.done = 0
  PROVE  Volume(t, d, ds, o, hd)
<1>1. Heads(d, o, hd) = Heads(d, F!Idle, hd)
  BY Geometry, IdleHeads DEF Heads, Kept
<1>2. Phase(t, d, Heads(d, o, hd), ds, o, hd)
  BY DEF Phase, Wanted
<1> QED
  BY <1>1, <1>2, VolumeOf DEF Volume

LEMMA VolumeWriteCall ==
  ASSUME NEW t, NEW d, NEW ds, NEW hd, Volume(t, d, ds, F!Idle, hd), NEW c \in Firsts(d),
         NEW o, o.at = "write", o.goal = "caller", o.file = 0, o.first = c, o.cur = c, o.i = 0
  PROVE  Volume(t, d, ds, o, hd)
<1>1. Heads(d, o, hd) = Heads(d, F!Idle, hd)
  BY Geometry, IdleHeads DEF Heads, Kept
<1>2. Reach(t, c, c)
  BY ReachSelf DEF Firsts
<1>3. Phase(t, d, Heads(d, o, hd), ds, o, hd)
  BY <1>2 DEF Phase, AtWrite
<1> QED
  BY <1>1, <1>3, VolumeOf DEF Volume

LEMMA VolumeFreeCall ==
  ASSUME NEW t, NEW d, NEW ds, NEW hd, Volume(t, d, ds, F!Idle, hd), NEW c \in hd,
         NEW o, o.at = "free", o.file = 0, o.first = c, o.cur = c, o.f = 1,
         o.chain = F!ChainIn(t, c)
  PROVE  Volume(t, d, ds, o, hd)
<1> DEFINE K == Heads(d, F!Idle, hd)  J == Heads(d, o, hd)
<1>1. K = Firsts(d) \cup hd /\ J = Firsts(d) \cup (hd \ {c})
  BY Geometry, IdleHeads DEF Heads, Kept
<1>2. ChainsOf(t, K, ds) /\ Firsts(d) \cap hd = {} /\ FilesGood(t, d, ds)
  BY DEF Volume
<1> HIDE DEF K, J
<1>3. c \in K /\ c \notin J /\ J \subseteq K
  BY <1>1, <1>2
<1>4. c \in F!Cluster /\ Whole(t, c) /\ \A k \in 1 .. Len(ds) : ~Reach(t, c, ds[k])
  BY <1>2, <1>3 DEF ChainsOf
<1>5. PICK z \in F!Cluster : Reach(t, c, z) /\ t[z] = EOC
  BY <1>4 DEF Whole
<1>6. PICK m \in Nat : F!Cluster = 2 .. m
  BY Geometry
<1>7. c \in 2 .. m /\ z \in 2 .. m /\ c <= z /\ \A e \in c .. z - 1 : t[e] = e + 1
  BY <1>4, <1>5, <1>6 DEF Reach
<1>8. \A e \in c .. z : Reach(t, c, e)
  <2> SUFFICES ASSUME NEW e \in c .. z PROVE Reach(t, c, e)
    OBVIOUS
  <2>1. e \in 2 .. m /\ \A x \in c .. e - 1 : x \in c .. z - 1
    BY <1>7
  <2> QED
    BY <1>6, <1>7, <2>1 DEF Reach
<1>9. Unused(t, J, ds, c .. z)
  <2>1. ASSUME NEW a \in J, NEW e \in c .. z, Reach(t, a, e) PROVE FALSE
    <3>1. a = c
      BY <1>2, <1>3, <1>8, <2>1, Apart
    <3> QED
      BY <1>3, <3>1
  <2>2. \A k \in 1 .. Len(ds) : ds[k] \notin c .. z
    BY <1>4, <1>8
  <2> QED
    BY <2>1, <2>2 DEF Unused
<1>10. Freed(t, c, c, z)
  <2>1. \A e \in c .. z : t[e] = IF e = z THEN EOC ELSE e + 1
    BY <1>5, <1>7
  <2>2. c .. c - 1 = {}
    BY <1>7
  <2> QED
    BY <2>1, <2>2 DEF Freed
<1>11. F!ChainIn(t, c) = [k \in 1 .. z - c + 1 |-> c + k - 1]
  BY <1>4, <1>5, RunChain
<1>12. c \in c .. z
  BY <1>7
<1>13. AtFree(t, J, ds, o, hd)
  BY <1>9, <1>10, <1>11, <1>12 DEF AtFree
<1>14. Phase(t, d, J, ds, o, hd)
  BY <1>13 DEF Phase
<1> QED
  BY <1>2, <1>3, <1>14, VolumeOf DEF J

-----------------------------------------------------------------------------
(* Allocation. *)

(* o and p are the same call, for the same. *)
SameCall(o, p) ==
  p.goal = o.goal /\ p.n = o.n /\ p.size = o.size /\ p.file = o.file /\ p.done = o.done

(* The entry c of the first copy is written with v, the cluster x with row, *)
(* the slot i of x with e.                                                 *)
EntryAt(t, u, c, v, f)   == u = IF f = 1 THEN [t EXCEPT ![c] = v] ELSE t
RowAt(d, d2, x, row)     == d2 = [d EXCEPT ![x] = row]
SlotAt(d, d2, x, i, e)   == d2 = [d EXCEPT ![x][i] = e]

LEMMA VolumeScan ==
  ASSUME NEW t \in Table, NEW d, NEW ds, NEW o, NEW hd, Volume(t, d, ds, o, hd), o.at = "scan",
         o.n \in Nat, NEW s \in F!Cluster,
         \A c \in s .. s + o.n - 1 : c \in F!Cluster /\ t[c] = F!FREE,
         NEW p, SameCall(o, p), p.last = o.last, p.at = "link", p.first = s, p.i = 0, p.f = 1
  PROVE  Volume(t, d, ds, p, hd)
<1> DEFINE K == Heads(d, o, hd)
<1>1. Heads(d, p, hd) = K
  BY DEF Heads, Kept, SameCall
<1>2. ChainsOf(t, K, ds) /\ Firsts(d) \cap hd = {} /\ FilesGood(t, d, ds) /\ Wanted(t, d, ds, o, hd)
  BY DEF Volume, Phase
<1> HIDE DEF K
<1>3. Wanted(t, d, ds, p, hd) /\ o.n >= 1 /\ p.n = o.n
  BY <1>2 DEF Wanted, Waits, SameCall
<1>4. PICK m \in Nat : F!Cluster = 2 .. m
  BY Geometry
<1>5. s \in 2 .. m /\ s + o.n - 1 \in s .. s + o.n - 1 /\ 0 \in 0 .. o.n - 1 /\ s .. s + 0 - 1 = {} /\ s + 0 = s
  BY <1>3, <1>4
<1>6. Linked(t, s, o.n, 0)
  BY <1>5 DEF Linked
<1>7. Unused(t, K, ds, s .. s + o.n - 1)
  BY <1>2, FreeUnused
<1>8. AtLink(t, K, ds, p)
  BY <1>3, <1>5, <1>6, <1>7 DEF AtLink
<1>9. Phase(t, d, Heads(d, p, hd), ds, p, hd)
  BY <1>1, <1>3, <1>8 DEF Phase
<1> QED
  BY <1>1, <1>2, <1>9, VolumeOf

(* A step of an allocation that enters a cluster in the first copy. *)
LEMMA LinkOne ==
  ASSUME NEW t \in Table, NEW a \in F!Cluster, NEW n \in Nat, n >= 1, NEW i \in 0 .. n - 1,
         Linked(t, a, n, i)
  PROVE  /\ a + i \in F!Cluster
         /\ Linked([t EXCEPT ![a + i] = IF i + 1 = n THEN EOC ELSE a + i + 1], a, n, i + 1)
<1>1. PICK m \in Nat : F!Cluster = 2 .. m /\ F!Cluster \subseteq F!TableIndex
  BY Geometry
<1> DEFINE x == a + i
           u == [t EXCEPT ![x] = IF i + 1 = n THEN EOC ELSE a + i + 1]
<1>2. a \in 2 .. m /\ a + n - 1 \in 2 .. m
  BY <1>1 DEF Linked
<1>3. x \in 2 .. m /\ (x = a + n - 1 <=> i + 1 = n)
  BY <1>2
<1>4. \A c \in 2 .. m : u[c] = IF c = x THEN (IF i + 1 = n THEN EOC ELSE x + 1) ELSE t[c]
  BY <1>1, <1>3 DEF Table
<1> HIDE DEF u
<1>5. ASSUME NEW c \in a .. a + (i + 1) - 1 PROVE u[c] = IF c = a + n - 1 THEN EOC ELSE c + 1
  <2>1. c \in 2 .. m /\ (c = x \/ c \in a .. a + i - 1)
    BY <1>2
  <2>2. CASE c = x
    BY <1>3, <1>4, <2>1, <2>2
  <2>3. CASE c \in a .. a + i - 1 /\ c # x
    BY <1>4, <2>1, <2>3 DEF Linked
  <2> QED
    BY <2>1, <2>2, <2>3
<1>6. ASSUME NEW c \in a + (i + 1) .. a + n - 1 PROVE u[c] = F!FREE
  <2>1. c \in 2 .. m /\ c # x /\ c \in a + i .. a + n - 1
    BY <1>2
  <2> QED
    BY <1>4, <2>1 DEF Linked
<1>7. Linked(u, a, n, i + 1)
  BY <1>5, <1>6 DEF Linked
<1> QED
  BY <1>1, <1>3, <1>7 DEF u

(* What holds once the entry is in the first copy. *)
LEMMA LinkEntered ==
  ASSUME NEW t \in Table, NEW d, NEW ds, NEW o, NEW hd, Volume(t, d, ds, o, hd), o.at = "link",
         o.n \in Nat,
         NEW u, EntryAt(t, u, o.first + o.i,
                        IF o.i + 1 = o.n THEN EOC ELSE o.first + o.i + 1, o.f)
  PROVE  LET K == Heads(d, o, hd) IN
         /\ ChainsOf(u, K, ds) /\ FilesGood(u, d, ds) /\ Firsts(d) \cap hd = {}
         /\ Wanted(u, d, ds, o, hd) /\ o.first \in F!Cluster /\ o.i \in 0 .. o.n - 1
         /\ Linked(u, o.first, o.n, o.i + 1)
         /\ Unused(u, K, ds, o.first .. o.first + o.n - 1)
<1> DEFINE K == Heads(d, o, hd)
<1>0. u = IF o.f = 1
          THEN [t EXCEPT ![o.first + o.i] = IF o.i + 1 = o.n THEN EOC ELSE o.first + o.i + 1]
          ELSE t
  BY DEF EntryAt
<1>1. /\ ChainsOf(t, K, ds) /\ Firsts(d) \cap hd = {} /\ FilesGood(t, d, ds)
      /\ Wanted(t, d, ds, o, hd) /\ AtLink(t, K, ds, o)
  BY DEF Volume, Phase
<1>2. Firsts(d) \subseteq K /\ (o.file \in F!Cluster => o.file \in K)
  BY DEF Heads
<1> HIDE DEF K
<1>3. /\ o.first \in F!Cluster /\ o.i \in 0 .. o.n - 1 /\ o.n >= 1
      /\ Linked(t, o.first, o.n, IF o.f = 1 THEN o.i ELSE o.i + 1)
      /\ Unused(t, K, ds, o.first .. o.first + o.n - 1)
  BY <1>1 DEF AtLink, Wanted
<1>4. CASE o.f # 1
  BY <1>0, <1>1, <1>3, <1>4 DEF K
<1>5. CASE o.f = 1
  <2> DEFINE x == o.first + o.i
  <2>1. Linked(t, o.first, o.n, o.i)
    BY <1>3, <1>5
  <2>2. x \in F!Cluster /\ Linked(u, o.first, o.n, o.i + 1)
    BY <1>0, <1>3, <1>5, <2>1, LinkOne
  <2>3. PICK m \in Nat : F!Cluster = 2 .. m
    BY Geometry
  <2>4. x \in o.first .. o.first + o.n - 1
    BY <1>3, <2>3
  <2>5. Unused(t, K, ds, {x})
    BY <1>3, <2>4 DEF Unused
  <2>6. ChainsOf(u, K, ds) /\ FilesGood(u, d, ds) /\ \A a \in K : SameChain(t, u, a)
    BY <1>0, <1>1, <1>2, <1>5, <2>2, <2>5, TableChanged
  <2> HIDE DEF x
  <2>7. Unused(u, K, ds, o.first .. o.first + o.n - 1)
    BY <1>3, <2>6, UnusedKept
  <2>8. Waits(t, d, o, hd) => Waits(u, d, o, hd)
    BY <1>2, <2>6, FileKept DEF Waits
  <2>9. Wanted(u, d, ds, o, hd)
    BY <1>1, <2>8 DEF Wanted
  <2> QED
    BY <1>1, <1>3, <2>2, <2>6, <2>7, <2>9 DEF K
<1> QED
  BY <1>4, <1>5

(* The entry goes to the next copy, or the next entry is begun. *)
LEMMA VolumeLinkOn ==
  ASSUME NEW u, NEW d, NEW ds, NEW o, NEW hd,
         ChainsOf(u, Heads(d, o, hd), ds), FilesGood(u, d, ds), Firsts(d) \cap hd = {},
         Wanted(u, d, ds, o, hd), o.first \in F!Cluster, o.i \in 0 .. o.n - 1, o.n \in Nat,
         Linked(u, o.first, o.n, o.i + 1), o.at = "link",
         Unused(u, Heads(d, o, hd), ds, o.first .. o.first + o.n - 1),
         NEW p, SameCall(o, p), p.last = o.last, p.at = "link", p.first = o.first,
         \/ p.f # 1 /\ p.i = o.i
         \/ p.f = 1 /\ p.i = o.i + 1 /\ o.i + 1 # o.n
  PROVE  Volume(u, d, ds, p, hd)
<1>1. Heads(d, p, hd) = Heads(d, o, hd)
  BY DEF Heads, Kept, SameCall
<1>2. Wanted(u, d, ds, p, hd)
  BY DEF Wanted, Waits, SameCall
<1>3. p.i \in 0 .. p.n - 1 /\ p.n = o.n /\ (IF p.f = 1 THEN p.i ELSE p.i + 1) = o.i + 1
  BY DEF SameCall
<1>4. AtLink(u, Heads(d, p, hd), ds, p)
  BY <1>1, <1>3 DEF AtLink
<1>5. Phase(u, d, Heads(d, p, hd), ds, p, hd)
  BY <1>2, <1>4 DEF Phase
<1> QED
  BY <1>1, <1>5, VolumeOf

(* The last entry is in all copies. *)
LEMMA VolumeLinked ==
  ASSUME NEW u \in Table, NEW d, NEW ds, NEW o, NEW hd,
         ChainsOf(u, Heads(d, o, hd), ds), FilesGood(u, d, ds), Firsts(d) \cap hd = {},
         Wanted(u, d, ds, o, hd), o.first \in F!Cluster, o.n \in Nat,
         Linked(u, o.first, o.n, o.n), o.at = "link",
         Unused(u, Heads(d, o, hd), ds, o.first .. o.first + o.n - 1)
  PROVE  /\ o.goal = "caller" => Volume(u, d, ds, F!Idle, hd \cup {o.first})
         /\ o.goal = "file" => \A p :
              /\ p.goal = o.goal /\ p.n = o.n /\ p.size = o.size /\ p.done = o.done
              /\ p.first = o.first /\ p.file = o.first
              /\ \/ p.at = "write" /\ p.cur = o.first /\ p.size > 0 /\ p.i = p.n - 1
                 \/ p.at = "clear" /\ p.i = 0
              => Volume(u, d, ds, p, hd)
         /\ o.goal = "dir" => \A p :
              /\ SameCall(o, p) /\ p.last = o.last /\ p.at = "extend" /\ p.first = o.first
              /\ p.f = 1
              => Volume(u, d, ds, p, hd)
<1> DEFINE K == Heads(d, o, hd)  a == o.first  n == o.n
<1>1. Firsts(d) \subseteq K /\ hd \subseteq K /\ n >= 1
  BY DEF Heads, Kept, Wanted
<1>2. PICK m \in Nat : F!Cluster = 2 .. m
  BY Geometry
<1>3. ChainsOf(u, K \cup {a}, ds)
  BY <1>1, HeadAdded
<1>4. a \notin K
  <2>1. a \in a .. a + n - 1
    BY <1>1, <1>2
  <2> QED
    BY <2>1, ReachSelf DEF Unused
<1>5. ASSUME o.goal = "caller" PROVE Volume(u, d, ds, F!Idle, hd \cup {o.first})
  <2>1. Firsts(d) \cap (hd \cup {a}) = {}
    BY <1>1, <1>4
  <2> HIDE DEF K
  <2> QED
    BY <1>1, <1>3, <2>1, Returned
<1>6. ASSUME o.goal = "file", NEW p,
             p.goal = o.goal /\ p.n = o.n /\ p.size = o.size /\ p.done = o.done,
             p.first = o.first /\ p.file = o.first,
             \/ p.at = "write" /\ p.cur = o.first /\ p.size > 0 /\ p.i = p.n - 1
             \/ p.at = "clear" /\ p.i = 0
      PROVE  Volume(u, d, ds, p, hd)
  <2>1. Heads(d, p, hd) \subseteq K \cup {a}
    BY <1>6 DEF Heads, Kept
  <2>2. Fills(u, p, hd)
    BY <1>1, <1>4, <1>6 DEF Fills, Wanted
  <2>3. p.done = 0 /\ a .. a - 1 = {} /\ a .. a + 0 - 1 = {} /\ (a - a) * CB = 0 /\ 0 \in 0 .. p.n - 1
    <3>1. a - a = 0 /\ 0 * CB = 0
      BY <1>2, Sized
    <3> QED
      BY <1>1, <1>2, <1>6, <3>1 DEF Wanted
  <2>4. p.at = "write" => AtWrite(u, d, p, hd)
    BY <1>6, <2>2, <2>3, ReachSelf DEF AtWrite
  <2>5. p.at = "clear" => AtClear(u, d, p, hd)
    BY <1>6, <2>2, <2>3 DEF AtClear
  <2>6. Phase(u, d, Heads(d, p, hd), ds, p, hd)
    BY <1>6, <2>4, <2>5 DEF Phase
  <2> HIDE DEF K, a
  <2> QED
    BY <1>3, <2>1, <2>6, VolumeOf
<1>7. ASSUME o.goal = "dir", NEW p, SameCall(o, p), p.last = o.last, p.at = "extend",
             p.first = o.first, p.f = 1
      PROVE  Volume(u, d, ds, p, hd)
  <2>1. Heads(d, p, hd) = K
    BY <1>7 DEF Heads, Kept, SameCall
  <2>2. n = 1 /\ Waits(u, d, p, hd) /\ p.last = ds[Len(ds)] /\ p.goal = "dir"
    BY <1>7 DEF Wanted, Waits, SameCall
  <2>3. a \in a .. a + n - 1 /\ a + n - 1 = a
    BY <1>2, <2>2
  <2>4. u[a] = EOC
    BY <1>1, <2>3, LinkedRun
  <2>5. Unused(u, K, ds, {a})
    BY <2>3 DEF Unused
  <2>6. AtExtend(u, d, Heads(d, p, hd), ds, p)
    BY <1>7, <2>1, <2>2, <2>4, <2>5 DEF AtExtend
  <2>7. Phase(u, d, Heads(d, p, hd), ds, p, hd)
    BY <1>7, <2>2, <2>6 DEF Phase
  <2> QED
    BY <2>1, <2>7, VolumeOf
<1> QED
  BY <1>5, <1>6, <1>7

-----------------------------------------------------------------------------
(* Bytes. *)

Listed(d, ds, k, i, e) ==
  e = d[ds[k]][i] /\ d[ds[k]][i].kind = "file" /\ ~F!EndedAt(d, ds, k, i)

LEMMA ListedBy ==
  ASSUME NEW d, NEW ds \in Seq(F!Cluster), NEW e
  PROVE  e \in F!EnteredIn(d, ds) <=>
           \E k \in 1 .. Len(ds), i \in 1 .. ENTRIES : Listed(d, ds, k, i, e)
<1>1. DOMAIN ds = 1 .. Len(ds)
  OBVIOUS
<1> DEFINE Shown(k, i) == d[ds[k]][i].kind = "file" /\ ~F!EndedAt(d, ds, k, i)
           P == {q \in (1 .. Len(ds)) \X (1 .. ENTRIES) : Shown(q[1], q[2])}
<1>2. F!EnteredIn(d, ds) = {d[ds[q[1]]][q[2]] : q \in P}
  BY <1>1 DEF F!EnteredIn, F!ListedIn
<1>3. ASSUME NEW k \in 1 .. Len(ds), NEW i \in 1 .. ENTRIES, Shown(k, i), e = d[ds[k]][i]
      PROVE  \E q \in P : e = d[ds[q[1]]][q[2]]
  <2>1. << k, i >> \in P /\ << k, i >>[1] = k /\ << k, i >>[2] = i
    BY <1>3
  <2> QED
    BY <1>3, <2>1
<1>4. ASSUME NEW q \in P, e = d[ds[q[1]]][q[2]]
      PROVE  \E k \in 1 .. Len(ds), i \in 1 .. ENTRIES : Shown(k, i) /\ e = d[ds[k]][i]
  BY <1>4
<1> HIDE DEF P
<1> QED
  BY <1>2, <1>3, <1>4 DEF Listed

LEMMA ListedSame ==
  ASSUME NEW d, NEW d2, NEW ds \in Seq(F!Cluster),
         \A k \in 1 .. Len(ds) : d2[ds[k]] = d[ds[k]]
  PROVE  F!EnteredIn(d, ds) \subseteq F!EnteredIn(d2, ds)
<1> SUFFICES ASSUME NEW e \in F!EnteredIn(d, ds) PROVE e \in F!EnteredIn(d2, ds)
  OBVIOUS
<1>1. PICK k \in 1 .. Len(ds), i \in 1 .. ENTRIES : Listed(d, ds, k, i, e)
  BY ListedBy
<1>2. F!EndedAt(d2, ds, k, i) => F!EndedAt(d, ds, k, i)
  <2>1. \A l \in 1 .. k : l \in 1 .. Len(ds)
    OBVIOUS
  <2> QED
    BY <2>1 DEF F!EndedAt
<1>3. Listed(d2, ds, k, i, e)
  BY <1>1, <1>2 DEF Listed
<1> QED
  BY <1>3, ListedBy

(* A cluster of a chain is written with the bytes of its owner, or zeroes. *)
RowIn(d, d2, x, b) ==
  d2[x] \in {F!Bytes(b), F!Zero} /\ \A c \in F!Cluster : c # x => d2[c] = d[c]

LEMMA RowWritten ==
  ASSUME NEW t, NEW d \in Clusters, NEW ds, NEW K, ChainsOf(t, K, ds), FilesGood(t, d, ds),
         NEW b \in K, NEW x \in F!Cluster, Reach(t, b, x),
         Firsts(d) \subseteq K, NEW d2, RowIn(d, d2, x, b)
  PROVE  /\ Firsts(d2) = Firsts(d) /\ F!EnteredIn(d, ds) \subseteq F!EnteredIn(d2, ds)
         /\ FilesGood(t, d2, ds)
<1>1. ds \in Seq(F!Cluster) /\ \A k \in 1 .. Len(ds) : ds[k] # x
  BY DEF ChainsOf, DirIs
<1>2. d2[x] \in {F!Bytes(b), F!Zero} /\ \A c \in F!Cluster : c # x => d2[c] = d[c]
  BY DEF RowIn
<1>3. \A k \in 1 .. Len(ds) : ds[k] \in F!Cluster
  BY <1>1
<1>4. F!EnteredIn(d, ds) \subseteq F!EnteredIn(d2, ds)
  BY <1>1, <1>2, <1>3, ListedSame
<1>5. \A i \in 1 .. ENTRIES : ~IsFile(d, x, i) /\ ~IsFile(d2, x, i)
  <2>1. \A i \in 1 .. ENTRIES : ~IsFile(d, x, i)
    BY <1>1 DEF FilesGood
  <2>2. \A i \in 1 .. ENTRIES : F!Bytes(b)[i].kind = "bytes" /\ F!Zero[i].kind = "end"
    BY DEF F!Bytes, F!Zero, F!Slot
  <2> QED
    BY <1>2, <2>1, <2>2 DEF IsFile
<1>6. \A c \in F!Cluster, i \in 1 .. ENTRIES :
        (IsFile(d2, c, i) <=> IsFile(d, c, i)) /\ (IsFile(d2, c, i) => d2[c][i] = d[c][i])
  BY <1>2, <1>5 DEF IsFile
<1>7. Firsts(d2) = Firsts(d)
  BY <1>6 DEF Firsts
<1>8. ASSUME NEW a \in K, NEW s, FileGood(t, d, a, s) PROVE FileGood(t, d2, a, s)
  <2>1. ASSUME NEW c \in F!Cluster, Reach(t, a, c) PROVE d2[c] = d[c] \/ Filled(d2, c, a)
    <3>1. CASE c # x
      BY <1>2, <3>1
    <3>2. CASE c = x
      <4>1. a = b
        BY <2>1, <3>2, Apart
      <4> QED
        BY <1>2, <3>2, <4>1 DEF Filled
    <3> QED
      BY <3>1, <3>2
  <2> QED
    BY <1>8, <2>1, SameTable, FileKept
<1>9. FilesGood(t, d2, ds)
  <2> SUFFICES ASSUME NEW c \in F!Cluster, NEW i \in 1 .. ENTRIES, IsFile(d2, c, i)
               PROVE  /\ \E k \in 1 .. Len(ds) : c = ds[k]
                      /\ d2[c][i].first \in F!Cluster
                      /\ FileGood(t, d2, d2[c][i].first, d2[c][i].size)
    BY DEF FilesGood
  <2>1. IsFile(d, c, i) /\ d2[c][i] = d[c][i]
    BY <1>6
  <2>2. /\ \E k \in 1 .. Len(ds) : c = ds[k]
        /\ d[c][i].first \in F!Cluster
        /\ FileGood(t, d, d[c][i].first, d[c][i].size)
    BY <2>1 DEF FilesGood
  <2>3. d[c][i].first \in K
    BY <2>1, <2>2 DEF Firsts
  <2> QED
    BY <1>8, <2>1, <2>2, <2>3
<1> QED
  BY <1>4, <1>7, <1>9

(* The next cluster of a chain. *)
LEMMA NextIn ==
  ASSUME NEW t \in Table, NEW a \in F!Cluster, Whole(t, a), NEW c, Reach(t, a, c), F!InChain(t[c])
  PROVE  t[c] = c + 1 /\ Reach(t, a, c + 1)
<1>1. PICK m \in Nat : m >= 2 /\ m < EOC /\ EOC \in Nat /\ F!Cluster = 2 .. m
  BY Geometry
<1>2. PICK z \in F!Cluster : Reach(t, a, z) /\ t[z] = EOC
  BY DEF Whole
<1>3. c <= z /\ c \in 2 .. m /\ z \in 2 .. m /\ a \in 2 .. m /\ a <= c
  BY <1>1, <1>2, ReachEnd DEF Reach
<1>4. c # z
  BY <1>1, <1>2 DEF F!InChain
<1>5. c \in a .. z - 1 /\ c + 1 \in 2 .. m /\ a <= c + 1 /\ \A e \in a .. (c + 1) - 1 : e \in a .. z - 1
  BY <1>3, <1>4
<1>6. \A e \in a .. z - 1 : t[e] = e + 1
  BY <1>2 DEF Reach
<1> QED
  BY <1>1, <1>5, <1>6 DEF Reach

(* Clusters that are all filled make a good file. *)
LEMMA FilledGood ==
  ASSUME NEW t \in Table, NEW d, NEW o, NEW hd, Fills(t, o, hd), o.n \in Nat, o.size \in Nat,
         \A c \in o.first .. o.first + o.n - 1 : d[c] \in {F!Bytes(o.first), F!Zero}
  PROVE  FileGood(t, d, o.file, o.size)
<1> DEFINE a == o.first  n == o.n
<1>1. o.file = a /\ a \in F!Cluster /\ n >= 1 /\ Linked(t, a, n, n) /\ n = F!needed_clusters(o.size)
  BY DEF Fills
<1>2. /\ a + n - 1 \in F!Cluster /\ t[a + n - 1] = EOC /\ Reach(t, a, a + n - 1)
      /\ \A c \in F!Cluster : Reach(t, a, c) <=> c \in a .. a + n - 1
  BY <1>1, LinkedRun
<1>3. ASSUME NEW c \in F!Cluster, Reach(t, a, c) PROVE Filled(d, c, a)
  BY <1>2, <1>3 DEF Filled
<1>4. ASSUME o.size + CB <= SizeMod, NEW z \in F!Cluster, Reach(t, a, z), t[z] = EOC
      PROVE  (z - a + 1) * CB >= o.size
  <2>1. PICK m \in Nat : F!Cluster = 2 .. m
    BY Geometry
  <2>2. z <= a + n - 1 /\ a + n - 1 <= z
    BY <1>1, <1>2, <1>4, ReachEnd
  <2>3. z - a + 1 = n
    BY <1>1, <1>2, <2>1, <2>2
  <2>4. n * CB >= o.size
    BY <1>1, <1>4, Needed
  <2> QED
    BY <2>3, <2>4
<1> QED
  BY <1>1, <1>3, <1>4 DEF FileGood

LEMMA TimesLess ==
  ASSUME NEW a \in Nat, NEW b \in Nat, NEW c \in Nat \ {0}, a * c < b * c
  PROVE  a < b
<1> SUFFICES ASSUME b <= a PROVE FALSE
  OBVIOUS
<1>1. PICK e \in Nat : a = b + e
  <2>1. a - b \in Nat /\ a = b + (a - b)
    OBVIOUS
  <2> QED
    BY <2>1
<1>2. a * c = b * c + e * c /\ e * c \in Nat /\ b * c \in Nat
  BY <1>1
<1> QED
  BY <1>2

LEMMA VolumeWrite ==
  ASSUME NEW t \in Table, NEW d \in Clusters, NEW ds, NEW o \in Calls, NEW hd,
         Volume(t, d, ds, o, hd), o.at = "write",
         NEW d2, RowAt(d, d2, o.cur, F!Bytes(o.first))
  PROVE  /\ F!EnteredIn(d, ds) \subseteq F!EnteredIn(d2, ds)
         /\ Volume(t, d2, ds, F!Idle, hd)
         /\ \A p : /\ p.i = o.i /\ p.first = o.first
                   /\ p.at = "write" /\ p.cur = t[o.cur] /\ p.done = o.done + CB
                   /\ p.goal = o.goal /\ p.n = o.n /\ p.size = o.size /\ p.file = o.file
                   /\ F!InChain(t[o.cur])
                   => Volume(t, d2, ds, p, hd)
         /\ \A p : /\ o.goal = "file" /\ o.done + CB >= o.size /\ p.at = "search"
                   /\ p.cur = F!Root /\ p.file = o.file /\ p.size = o.size
                   => Volume(t, d2, ds, p, hd)
<1> DEFINE K == Heads(d, o, hd)
<1>0. d2 = [d EXCEPT ![o.cur] = F!Bytes(o.first)]
  BY DEF RowAt
<1>1. /\ ChainsOf(t, K, ds) /\ Firsts(d) \cap hd = {} /\ FilesGood(t, d, ds) /\ AtWrite(t, d, o, hd)
  BY DEF Volume, Phase
<1>2. Firsts(d) \subseteq K /\ hd \subseteq K
  BY DEF Heads, Kept
<1>3. o.first \in K /\ o.first \in F!Cluster /\ o.cur \in F!Cluster /\ Reach(t, o.first, o.cur)
  BY <1>1 DEF AtWrite, Fills, Heads, Firsts, Reach
<1>4. Whole(t, o.first)
  BY <1>1, <1>3 DEF ChainsOf
<1>5. /\ Firsts(d2) = Firsts(d) /\ F!EnteredIn(d, ds) \subseteq F!EnteredIn(d2, ds)
      /\ FilesGood(t, d2, ds)
  <2>1. RowIn(d, d2, o.cur, o.first)
    BY <1>0, <1>3 DEF Clusters, RowIn
  <2> HIDE DEF K
  <2> QED
    BY ONLY d \in Clusters, <1>1, <1>2, <1>3, <2>1, RowWritten
<1>6. Volume(t, d2, ds, F!Idle, hd)
  <2> HIDE DEF K
  <2> QED
    BY <1>1, <1>2, <1>5, Returned
<1>7. PICK m \in Nat : F!Cluster = 2 .. m
  BY Geometry
<1>8. o.cur \in 2 .. m /\ o.first \in 2 .. m /\ o.first <= o.cur
  BY <1>3, <1>7 DEF Reach
<1>9. CB \in Nat \ {0} /\ o.n \in Nat /\ o.size \in Nat
  BY Sized DEF Calls
<1>10. ((o.cur + 1) - o.first) * CB = (o.cur - o.first) * CB + CB
  <2>1. o.cur - o.first \in Nat /\ (o.cur + 1) - o.first = (o.cur - o.first) + 1
    BY <1>8
  <2> DEFINE k == o.cur - o.first
  <2>2. k \in Nat
    BY <2>1
  <2> HIDE DEF k
  <2>3. (k + 1) * CB = k * CB + CB
    BY <1>9, <2>2
  <2> QED
    BY <2>1, <2>3 DEF k
<1>11. d2[o.cur] = F!Bytes(o.first) /\ \A c \in F!Cluster : c # o.cur => d2[c] = d[c]
  BY <1>0, <1>3 DEF Clusters
<1>12. o.goal = "file" => \A c \in o.first .. o.cur : d2[c] = F!Bytes(o.first)
  <2> SUFFICES ASSUME o.goal = "file", NEW c \in o.first .. o.cur PROVE d2[c] = F!Bytes(o.first)
    OBVIOUS
  <2>1. c \in 2 .. m /\ (c = o.cur \/ c \in o.first .. o.cur - 1)
    BY <1>8
  <2> QED
    BY <1>1, <1>7, <1>11, <2>1 DEF AtWrite
<1>13. ASSUME NEW p, p.i = o.i, p.first = o.first,
              p.at = "write", p.cur = t[o.cur], p.done = o.done + CB,
              p.goal = o.goal, p.n = o.n, p.size = o.size, p.file = o.file, F!InChain(t[o.cur])
       PROVE  Volume(t, d2, ds, p, hd)
  <2>1. Heads(d2, p, hd) = K
    BY <1>5, <1>13 DEF Heads, Kept
  <2>2. p.cur = o.cur + 1 /\ Reach(t, p.first, p.cur)
    BY <1>3, <1>4, <1>13, NextIn
  <2>3. p.cur - 1 = o.cur
    BY <1>8, <2>2
  <2>4. Fills(t, o, hd) => Fills(t, p, hd)
    BY <1>13 DEF Fills
  <2>5. p.goal = "file" => p.done = (p.cur - p.first) * CB
    BY <1>1, <1>10, <1>13, <2>2 DEF AtWrite
  <2>6. p.goal = "file" => \A c \in p.first .. p.cur - 1 : d2[c] = F!Bytes(p.first)
    BY <1>12, <1>13, <2>3
  <2>7. AtWrite(t, d2, p, hd)
    BY <1>1, <1>5, <1>13, <2>2, <2>4, <2>5, <2>6 DEF AtWrite
  <2>8. Phase(t, d2, Heads(d2, p, hd), ds, p, hd)
    BY <1>13, <2>7 DEF Phase
  <2> HIDE DEF K
  <2> QED
    BY <1>1, <1>5, <2>1, <2>8, VolumeOf
<1>14. ASSUME NEW p, o.goal = "file", o.done + CB >= o.size, p.at = "search",
              p.cur = F!Root, p.file = o.file, p.size = o.size
       PROVE  Volume(t, d2, ds, p, hd)
  <2>1. Heads(d2, p, hd) = K
    BY <1>5, <1>14 DEF Heads, Kept
  <2>2. /\ Fills(t, o, hd) /\ o.size > 0 /\ o.done = (o.cur - o.first) * CB /\ o.n >= 1
        /\ o.n = F!needed_clusters(o.size) /\ Linked(t, o.first, o.n, o.n)
    BY <1>1, <1>14 DEF AtWrite, Fills
  <2>3. o.cur \in o.first .. o.first + o.n - 1
    BY <1>3, <1>9, <2>2, LinkedRun
  <2>4. o.n * CB < o.size + CB
    BY <1>9, <2>2, Needed
  <2> DEFINE k == (o.cur + 1) - o.first
  <2>5. k \in Nat /\ k <= o.n
    BY <1>8, <1>9, <2>3
  <2>6. k * CB >= o.size
    BY <1>10, <1>14, <2>2
  <2>7. o.n < k + 1
    <3> HIDE DEF k
    <3>1. k * CB \in Nat /\ (k + 1) * CB = k * CB + CB /\ o.n * CB \in Nat
      BY <1>9, <2>5
    <3>2. o.n * CB < (k + 1) * CB
      BY <1>9, <2>4, <2>6, <3>1
    <3> QED
      BY <1>9, <2>5, <3>2, TimesLess
  <2>8. o.first + o.n - 1 = o.cur
    BY <1>8, <1>9, <2>5, <2>7
  <2>9. \A c \in o.first .. o.first + o.n - 1 : d2[c] \in {F!Bytes(o.first), F!Zero}
    BY <1>12, <1>14, <2>8
  <2>10. FileGood(t, d2, o.file, o.size)
    BY <1>9, <2>2, <2>9, FilledGood
  <2>11. Waits(t, d2, p, hd)
    BY <1>14, <2>2, <2>10 DEF Waits, Fills
  <2>12. \E l \in 1 .. Len(ds) : p.cur = ds[l]
    BY <1>1, <1>14 DEF ChainsOf, DirIs
  <2>13. Phase(t, d2, Heads(d2, p, hd), ds, p, hd)
    BY <1>14, <2>11, <2>12 DEF Phase
  <2> HIDE DEF K
  <2> QED
    BY <1>1, <1>5, <2>1, <2>13, VolumeOf
<1> QED
  BY <1>5, <1>6, <1>13, <1>14

LEMMA VolumeClear ==
  ASSUME NEW t \in Table, NEW d \in Clusters, NEW ds, NEW o \in Calls, NEW hd,
         Volume(t, d, ds, o, hd), o.at = "clear",
         NEW d2, RowAt(d, d2, o.first + o.i, F!Zero)
  PROVE  /\ F!EnteredIn(d, ds) \subseteq F!EnteredIn(d2, ds)
         /\ \A p : /\ SameCall(o, p) /\ p.first = o.first
                   /\ p.at = "clear" /\ p.i = o.i + 1 /\ o.i + 1 < o.n
                   => Volume(t, d2, ds, p, hd)
         /\ \A p : /\ ~(o.i + 1 < o.n) /\ p.at = "search"
                   /\ p.cur = F!Root /\ p.file = o.file /\ p.size = o.size
                   => Volume(t, d2, ds, p, hd)
<1> DEFINE K == Heads(d, o, hd)
<1>0. d2 = [d EXCEPT ![o.first + o.i] = F!Zero]
  BY DEF RowAt
<1>1. /\ ChainsOf(t, K, ds) /\ Firsts(d) \cap hd = {} /\ FilesGood(t, d, ds) /\ AtClear(t, d, o, hd)
  BY DEF Volume, Phase
<1>2. Firsts(d) \subseteq K /\ hd \subseteq K
  BY DEF Heads, Kept
<1>3. /\ Fills(t, o, hd) /\ o.i \in 0 .. o.n - 1 /\ o.first \in F!Cluster /\ o.n \in Nat /\ o.n >= 1
      /\ Linked(t, o.first, o.n, o.n) /\ o.size \in Nat /\ o.goal = "file"
  BY <1>1 DEF AtClear, Fills, Calls
<1>4. o.first \in K
  BY <1>3 DEF Fills, Heads
<1>5. PICK m \in Nat : F!Cluster = 2 .. m
  BY Geometry
<1> DEFINE x == o.first + o.i
<1>6. o.first \in 2 .. m /\ o.first + o.n - 1 \in 2 .. m
  BY <1>3, <1>5, LinkedRun
<1>7. x \in F!Cluster /\ x \in o.first .. o.first + o.n - 1
  BY <1>3, <1>5, <1>6
<1>8. Reach(t, o.first, x)
  BY <1>3, <1>7, LinkedRun
<1>9. /\ Firsts(d2) = Firsts(d) /\ F!EnteredIn(d, ds) \subseteq F!EnteredIn(d2, ds)
      /\ FilesGood(t, d2, ds)
  <2>1. RowIn(d, d2, x, o.first)
    BY <1>0, <1>7 DEF Clusters, RowIn
  <2> HIDE DEF K, x
  <2> QED
    BY ONLY d \in Clusters, <1>1, <1>2, <1>4, <1>7, <1>8, <2>1, RowWritten
<1>10. d2[x] = F!Zero /\ \A c \in F!Cluster : c # x => d2[c] = d[c]
  BY <1>0, <1>7 DEF Clusters
<1> HIDE DEF K
<1>11. \A c \in o.first .. x : d2[c] = F!Zero
  <2> SUFFICES ASSUME NEW c \in o.first .. x PROVE d2[c] = F!Zero
    OBVIOUS
  <2>1. c \in 2 .. m /\ (c = x \/ c \in o.first .. o.first + o.i - 1)
    BY <1>3, <1>5, <1>6, <1>7
  <2> QED
    BY <1>1, <1>5, <1>10, <2>1 DEF AtClear
<1>12. ASSUME NEW p, SameCall(o, p), p.first = o.first,
              p.at = "clear", p.i = o.i + 1, o.i + 1 < o.n
       PROVE  Volume(t, d2, ds, p, hd)
  <2>1. Heads(d2, p, hd) = K
    BY <1>9, <1>12 DEF Heads, Kept, SameCall, K
  <2>2. Fills(t, p, hd) /\ p.n = o.n /\ p.goal = "file"
    BY <1>3, <1>12 DEF Fills, SameCall
  <2>3. p.i \in 0 .. p.n - 1 /\ p.first + p.i - 1 = x
    BY <1>3, <1>6, <1>12, <2>2
  <2>4. AtClear(t, d2, p, hd)
    BY <1>11, <1>12, <2>2, <2>3 DEF AtClear
  <2>5. Phase(t, d2, Heads(d2, p, hd), ds, p, hd)
    BY <1>12, <2>4 DEF Phase
  <2> QED
    BY <1>1, <1>9, <2>1, <2>5, VolumeOf
<1>13. ASSUME NEW p, ~(o.i + 1 < o.n), p.at = "search",
              p.cur = F!Root, p.file = o.file, p.size = o.size
       PROVE  Volume(t, d2, ds, p, hd)
  <2>1. Heads(d2, p, hd) = K
    BY <1>9, <1>13 DEF Heads, Kept, K
  <2>2. o.first + o.n - 1 = x
    BY <1>3, <1>6, <1>13
  <2>3. \A c \in o.first .. o.first + o.n - 1 : d2[c] \in {F!Bytes(o.first), F!Zero}
    BY <1>11, <2>2
  <2>4. FileGood(t, d2, o.file, o.size)
    BY <1>3, <2>3, FilledGood
  <2>5. Waits(t, d2, p, hd)
    BY <1>3, <1>13, <2>4 DEF Waits, Fills
  <2>6. \E l \in 1 .. Len(ds) : p.cur = ds[l]
    BY <1>1, <1>13 DEF ChainsOf, DirIs
  <2>7. Phase(t, d2, Heads(d2, p, hd), ds, p, hd)
    BY <1>13, <2>5, <2>6 DEF Phase
  <2> QED
    BY <1>1, <1>9, <2>1, <2>7, VolumeOf
<1> QED
  BY <1>9, <1>12, <1>13

-----------------------------------------------------------------------------
(* The directory. *)

(* Slots of x that are no files are written: zeroed, or with the entry e. *)
SlotsIn(d, d2, x, e) ==
  /\ \A c \in F!Cluster : c # x => d2[c] = d[c]
  /\ \A i \in 1 .. ENTRIES : \/ d2[x][i] = d[x][i]
                             \/ ~IsFile(d, x, i) /\ d2[x][i] \in {F!Zero[i], e}

LEMMA DirWritten ==
  ASSUME NEW t, NEW d, NEW ds, NEW K, ChainsOf(t, K, ds), FilesGood(t, d, ds),
         Firsts(d) \subseteq K, NEW x, \E k \in 1 .. Len(ds) : x = ds[k],
         NEW e, e.first \in K, FileGood(t, d, e.first, e.size), NEW d2, SlotsIn(d, d2, x, e)
  PROVE  /\ FilesGood(t, d2, ds) /\ Firsts(d2) \subseteq Firsts(d) \cup {e.first}
         /\ FileGood(t, d2, e.first, e.size)
<1>1. /\ ds \in Seq(F!Cluster) /\ K \subseteq F!Cluster /\ x \in F!Cluster
      /\ \A a \in K : ~Reach(t, a, x)
  BY DEF ChainsOf, DirIs
<1>2. ASSUME NEW a \in K, NEW s, FileGood(t, d, a, s) PROVE FileGood(t, d2, a, s)
  <2>1. \A c \in F!Cluster : Reach(t, a, c) => d2[c] = d[c] \/ Filled(d2, c, a)
    BY <1>1 DEF SlotsIn
  <2> QED
    BY <1>2, <2>1, SameTable, FileKept
<1>3. \A i \in 1 .. ENTRIES : F!Zero[i].kind = "end"
  BY DEF F!Zero, F!Slot
<1>4. ASSUME NEW c \in F!Cluster, NEW i \in 1 .. ENTRIES, IsFile(d2, c, i)
      PROVE  \/ IsFile(d, c, i) /\ d2[c][i] = d[c][i]
             \/ c = x /\ d2[c][i] = e
  BY <1>3, <1>4 DEF SlotsIn, IsFile
<1>5. ASSUME NEW c \in F!Cluster, NEW i \in 1 .. ENTRIES, IsFile(d, c, i)
      PROVE  /\ \E k \in 1 .. Len(ds) : c = ds[k]
             /\ d[c][i].first \in F!Cluster /\ d[c][i].first \in Firsts(d)
             /\ FileGood(t, d, d[c][i].first, d[c][i].size)
  BY <1>5 DEF FilesGood, Firsts
<1>6. FilesGood(t, d2, ds)
  <2> SUFFICES ASSUME NEW c \in F!Cluster, NEW i \in 1 .. ENTRIES, IsFile(d2, c, i)
               PROVE  /\ \E k \in 1 .. Len(ds) : c = ds[k]
                      /\ d2[c][i].first \in F!Cluster
                      /\ FileGood(t, d2, d2[c][i].first, d2[c][i].size)
    BY DEF FilesGood
  <2>1. CASE IsFile(d, c, i) /\ d2[c][i] = d[c][i]
    BY <1>2, <1>5, <2>1
  <2>2. CASE c = x /\ d2[c][i] = e
    BY <1>1, <1>2, <2>2
  <2> QED
    BY <1>4, <2>1, <2>2
<1>7. Firsts(d2) \subseteq Firsts(d) \cup {e.first}
  <2> SUFFICES ASSUME NEW a \in Firsts(d2) PROVE a \in Firsts(d) \cup {e.first}
    OBVIOUS
  <2>1. PICK c \in F!Cluster, i \in 1 .. ENTRIES : IsFile(d2, c, i) /\ d2[c][i].first = a
    BY DEF Firsts
  <2>2. CASE IsFile(d, c, i) /\ d2[c][i] = d[c][i]
    BY <1>5, <2>1, <2>2
  <2>3. CASE c = x /\ d2[c][i] = e
    BY <2>1, <2>3
  <2> QED
    BY <1>4, <2>1, <2>2, <2>3
<1> QED
  BY <1>2, <1>6, <1>7

(* No listed file is lost when only slots without an entry change, and end *)
(* markers only where no file is, nor behind.                              *)
Spared(d, d2, ds, n) ==
  \A k \in 1 .. Len(ds), i \in 1 .. ENTRIES :
    /\ IsFile(d, ds[k], i) => k <= n /\ d2[ds[k]][i] = d[ds[k]][i]
    /\ k <= n /\ d2[ds[k]][i].kind = "end" => d[ds[k]][i].kind = "end"

LEMMA ListedKept ==
  ASSUME NEW d, NEW d2, NEW ds \in Seq(F!Cluster), NEW es \in Seq(F!Cluster),
         Len(ds) <= Len(es), \A k \in 1 .. Len(ds) : es[k] = ds[k],
         NEW n \in Nat, Spared(d, d2, ds, n)
  PROVE  F!EnteredIn(d, ds) \subseteq F!EnteredIn(d2, es)
<1> SUFFICES ASSUME NEW e \in F!EnteredIn(d, ds) PROVE e \in F!EnteredIn(d2, es)
  OBVIOUS
<1>1. PICK k \in 1 .. Len(ds), i \in 1 .. ENTRIES : Listed(d, ds, k, i, e)
  BY ListedBy
<1>2. k <= n /\ d2[ds[k]][i] = d[ds[k]][i] /\ k \in 1 .. Len(es)
  BY <1>1 DEF Listed, IsFile, Spared
<1>3. F!EndedAt(d2, es, k, i) => F!EndedAt(d, ds, k, i)
  <2> SUFFICES ASSUME F!EndedAt(d2, es, k, i) PROVE F!EndedAt(d, ds, k, i)
    OBVIOUS
  <2>1. PICK l \in 1 .. k, j \in 1 .. ENTRIES :
          (l < k \/ j < i) /\ d2[es[l]][j].kind = "end"
    BY DEF F!EndedAt
  <2>2. l \in 1 .. Len(ds) /\ l <= n
    BY <1>2
  <2>3. d[ds[l]][j].kind = "end"
    BY <2>1, <2>2 DEF Spared
  <2> QED
    BY <2>1, <2>3 DEF F!EndedAt
<1>4. Listed(d2, es, k, i, e)
  BY <1>1, <1>2, <1>3 DEF Listed
<1> QED
  BY <1>2, <1>4, ListedBy

(* A slot that is free gets the entry. *)
LEMMA VolumeEntered ==
  ASSUME NEW t, NEW d \in Clusters, NEW ds, NEW o, NEW hd,
         Volume(t, d, ds, o, hd), o.at = "search", NEW i \in 1 .. ENTRIES,
         d[o.cur][i].kind \in {"end", "deleted"},
         NEW d2, SlotAt(d, d2, o.cur, i, F!Slot("file", o.name, o.file, o.size))
  PROVE  /\ F!EnteredIn(d, ds) \subseteq F!EnteredIn(d2, ds)
         /\ Volume(t, d2, ds, F!Idle, hd)
<1> DEFINE K == Heads(d, o, hd)
           e == F!Slot("file", o.name, o.file, o.size)
           x == o.cur
<1>1. /\ ChainsOf(t, K, ds) /\ Firsts(d) \cap hd = {} /\ FilesGood(t, d, ds)
      /\ Waits(t, d, o, hd) /\ \E k \in 1 .. Len(ds) : x = ds[k]
  BY DEF Volume, Phase
<1>2. Firsts(d) \subseteq K /\ hd \subseteq K /\ o.file \in K /\ o.file \notin hd
  BY <1>1 DEF Heads, Kept, Waits
<1>3. ds \in Seq(F!Cluster) /\ x \in F!Cluster /\ Len(ds) \in Nat
  BY <1>1 DEF ChainsOf, DirIs
<1>4. /\ \A c \in F!Cluster : c # x => d2[c] = d[c]
      /\ \A j \in 1 .. ENTRIES : d2[x][j] = IF j = i THEN e ELSE d[x][j]
  <2> HIDE DEF e
  <2>1. d2 = [d EXCEPT ![x][i] = e]
    BY DEF e, SlotAt
  <2> QED
    BY ONLY <1>3, <2>1, d \in Clusters, i \in 1 .. ENTRIES DEF Clusters
<1>5. e.kind = "file" /\ e.first = o.file /\ e.size = o.size
  BY DEF F!Slot
<1>6. ~IsFile(d, x, i)
  BY DEF IsFile
<1> HIDE DEF K, e, x
<1>7. SlotsIn(d, d2, x, e)
  BY <1>4, <1>6 DEF SlotsIn
<1>8. FileGood(t, d, e.first, e.size) /\ e.first \in K
  BY <1>1, <1>2, <1>5 DEF Waits
<1>9. FilesGood(t, d2, ds) /\ Firsts(d2) \subseteq Firsts(d) \cup {o.file}
  BY ONLY <1>1, <1>2, <1>5, <1>7, <1>8, DirWritten, SMTT(40)
<1>10. Spared(d, d2, ds, Len(ds))
  <2> SUFFICES ASSUME NEW k \in 1 .. Len(ds), NEW j \in 1 .. ENTRIES
               PROVE  /\ IsFile(d, ds[k], j) => k <= Len(ds) /\ d2[ds[k]][j] = d[ds[k]][j]
                      /\ d2[ds[k]][j].kind = "end" => d[ds[k]][j].kind = "end"
    BY DEF Spared
  <2>1. k <= Len(ds) /\ ds[k] \in F!Cluster
    BY <1>3
  <2>2. CASE ds[k] = x
    BY <1>4, <1>5, <1>6, <2>1, <2>2 DEF IsFile
  <2>3. CASE ds[k] # x
    BY <1>4, <2>1, <2>3
  <2> QED
    BY <2>2, <2>3
<1>11. F!EnteredIn(d, ds) \subseteq F!EnteredIn(d2, ds)
  <2>1. Len(ds) <= Len(ds)
    BY <1>3
  <2> QED
    BY ONLY <1>3, <1>10, <2>1, ListedKept
<1>12. Firsts(d2) \subseteq K /\ Firsts(d2) \cap hd = {}
  BY <1>1, <1>2, <1>9
<1>13. Volume(t, d2, ds, F!Idle, hd)
  BY ONLY <1>1, <1>2, <1>9, <1>12, Returned
<1> QED
  BY <1>11, <1>13

LEMMA VolumeSearch ==
  ASSUME NEW t, NEW d, NEW ds, NEW o, NEW hd, Volume(t, d, ds, o, hd), o.at = "search"
  PROVE  /\ \A p : /\ F!InChain(t[o.cur]) /\ p.at = "search" /\ p.cur = t[o.cur]
                   /\ p.file = o.file /\ p.size = o.size
                   => Volume(t, d, ds, p, hd)
         /\ \A p : /\ ~F!InChain(t[o.cur]) /\ p.at = "scan" /\ p.goal = "dir" /\ p.n = 1
                   /\ p.last = o.cur /\ p.file = o.file /\ p.size = o.size
                   => Volume(t, d, ds, p, hd)
<1> DEFINE K == Heads(d, o, hd)
<1>1. /\ ChainsOf(t, K, ds) /\ Firsts(d) \cap hd = {} /\ FilesGood(t, d, ds)
      /\ Waits(t, d, o, hd)
  BY DEF Volume, Phase
<1>2. PICK k \in 1 .. Len(ds) : o.cur = ds[k]
  BY DEF Volume, Phase
<1>3. /\ ds \in Seq(F!Cluster) /\ Len(ds) \in Nat /\ t[ds[Len(ds)]] = EOC
      /\ \A l \in 1 .. Len(ds) - 1 : t[ds[l]] = ds[l + 1]
  BY <1>1 DEF ChainsOf, DirIs
<1>4. PICK m \in Nat : m >= 2 /\ m < EOC /\ EOC \in Nat /\ F!Cluster = 2 .. m
  BY Geometry
<1>5. /\ k = Len(ds) => ~F!InChain(t[o.cur])
      /\ k # Len(ds) => F!InChain(t[o.cur]) /\ \E l \in 1 .. Len(ds) : t[o.cur] = ds[l]
  <2>1. CASE k = Len(ds)
    BY <1>2, <1>3, <1>4, <2>1 DEF F!InChain
  <2>2. CASE k # Len(ds)
    <3>1. k \in 1 .. Len(ds) - 1 /\ k + 1 \in 1 .. Len(ds)
      BY <1>3, <2>2
    <3>2. t[o.cur] = ds[k + 1] /\ ds[k + 1] \in 2 .. m
      BY <1>2, <1>3, <1>4, <3>1
    <3>3. F!InChain(t[o.cur])
      BY <1>4, <3>2 DEF F!InChain
    <3> QED
      BY <2>2, <3>1, <3>2, <3>3
  <2> QED
    BY <2>1, <2>2
<1>6. ASSUME NEW p, F!InChain(t[o.cur]), p.at = "search", p.cur = t[o.cur],
             p.file = o.file, p.size = o.size
      PROVE  Volume(t, d, ds, p, hd)
  <2>1. Heads(d, p, hd) = K /\ Waits(t, d, p, hd)
    BY <1>1, <1>6 DEF Heads, Kept, Waits
  <2>2. Phase(t, d, Heads(d, p, hd), ds, p, hd)
    BY <1>5, <1>6, <2>1 DEF Phase
  <2> HIDE DEF K
  <2> QED
    BY <1>1, <2>1, <2>2, VolumeOf
<1>7. ASSUME NEW p, ~F!InChain(t[o.cur]), p.at = "scan", p.goal = "dir", p.n = 1,
             p.last = o.cur, p.file = o.file, p.size = o.size
      PROVE  Volume(t, d, ds, p, hd)
  <2>1. Heads(d, p, hd) = K /\ Waits(t, d, p, hd)
    BY <1>1, <1>7 DEF Heads, Kept, Waits
  <2>2. Wanted(t, d, ds, p, hd)
    BY <1>2, <1>5, <1>7, <2>1 DEF Wanted
  <2>3. Phase(t, d, Heads(d, p, hd), ds, p, hd)
    BY <1>7, <2>2 DEF Phase
  <2> HIDE DEF K
  <2> QED
    BY <1>1, <2>1, <2>3, VolumeOf
<1> QED
  BY <1>6, <1>7

(* The directory with its new cluster. *)
DirOf(ds, o) == IF o.f = 1 THEN Append(ds, o.first) ELSE ds

LEMMA VolumeExtend ==
  ASSUME NEW t \in Table, NEW d, NEW ds, NEW o, NEW hd, Volume(t, d, ds, o, hd),
         o.at = "extend", o.f >= 1, o.f \in Nat,
         NEW u, EntryAt(t, u, o.last, o.first, o.f)
  PROVE  /\ F!EnteredIn(d, ds) \subseteq F!EnteredIn(d, DirOf(ds, o))
         /\ \A p : /\ p.goal = o.goal /\ p.file = o.file /\ p.size = o.size /\ p.first = o.first
                   /\ p.last = o.last
                   /\ p.at = "clear_dir" \/ (p.at = "extend" /\ p.f > 1 /\ p.f # 1)
                   => Volume(u, d, DirOf(ds, o), p, hd)
<1> DEFINE K == Heads(d, o, hd)  es == DirOf(ds, o)
<1>1. /\ ChainsOf(t, K, ds) /\ Firsts(d) \cap hd = {} /\ FilesGood(t, d, ds)
      /\ Waits(t, d, o, hd) /\ AtExtend(t, d, K, ds, o) /\ (o.f > 1 => Fresh(d, ds, o))
  BY DEF Volume, Phase
<1>2. Firsts(d) \subseteq K /\ o.file \in K
  BY <1>1 DEF Heads, Waits
<1>3. ds \in Seq(F!Cluster) /\ Len(ds) \in Nat /\ Len(ds) >= 1
  BY <1>1 DEF ChainsOf, DirIs
<1>4. /\ ChainsOf(u, K, es) /\ FilesGood(u, d, es) /\ Waits(u, d, o, hd)
      /\ es \in Seq(F!Cluster) /\ Len(es) > 1
      /\ es[Len(es)] = o.first /\ es[Len(es) - 1] = o.last /\ NoFiles(d, o.first)
      /\ F!EnteredIn(d, ds) \subseteq F!EnteredIn(d, es)
  <2>1. CASE o.f # 1
    <3>1. o.f > 1 /\ es = ds /\ u = t
      BY <2>1 DEF DirOf, EntryAt
    <3> QED
      BY <1>1, <1>3, <3>1 DEF AtExtend, Fresh
  <2>2. CASE o.f = 1
    <3> DEFINE b == o.first
    <3>1. /\ es = Append(ds, b) /\ u = [t EXCEPT ![ds[Len(ds)]] = b] /\ o.last = ds[Len(ds)]
          /\ b \in F!Cluster /\ t[b] = EOC /\ Unused(t, K, ds, {b})
      BY <1>1, <2>2 DEF AtExtend, DirOf, EntryAt
    <3> HIDE DEF es, b
    <3>2. ChainsOf(u, K, es) /\ \A a \in K : SameChain(t, u, a)
      <4> HIDE DEF K
      <4> QED
        BY ONLY t \in Table, <1>1, <3>1, DirExtended
    <3>3. /\ es \in Seq(F!Cluster) /\ Len(es) = Len(ds) + 1 /\ es[Len(ds) + 1] = b
          /\ \A k \in 1 .. Len(ds) : es[k] = ds[k]
      BY <1>3, <3>1
    <3>4. /\ Len(ds) \in 1 .. Len(ds) /\ Len(es) - 1 = Len(ds) /\ Len(es) > 1
          /\ Len(ds) <= Len(es) /\ \A k \in 1 .. Len(ds) : k \in 1 .. Len(es) /\ k <= Len(ds)
      BY <1>3, <3>3
    <3>5. \A k \in 1 .. Len(ds) : \E l \in 1 .. Len(es) : ds[k] = es[l]
      BY <3>3, <3>4
    <3>6. FilesGood(u, d, es)
      BY ONLY <1>1, <1>2, <3>2, <3>5, FilesGoodKept
    <3>7. Waits(u, d, o, hd)
      BY <1>1, <1>2, <3>2, FileKept DEF Waits
    <3>8. NoFiles(d, b)
      BY <1>1, <3>1 DEF FilesGood, Unused, NoFiles
    <3>9. Spared(d, d, ds, Len(ds))
      BY <3>4 DEF Spared
    <3>10. F!EnteredIn(d, ds) \subseteq F!EnteredIn(d, es)
      BY ONLY <1>3, <3>3, <3>4, <3>9, ListedKept
    <3>11. es[Len(es)] = b /\ es[Len(es) - 1] = o.last
      BY <3>1, <3>3, <3>4
    <3> QED
      BY <3>2, <3>3, <3>4, <3>6, <3>7, <3>8, <3>10, <3>11 DEF b
  <2> QED
    BY <2>1, <2>2
<1>5. ASSUME NEW p, p.goal = o.goal /\ p.file = o.file /\ p.size = o.size /\ p.first = o.first,
             p.last = o.last,
             p.at = "clear_dir" \/ (p.at = "extend" /\ p.f > 1 /\ p.f # 1)
      PROVE  Volume(u, d, es, p, hd)
  <2>1. Heads(d, p, hd) = K /\ Waits(u, d, p, hd)
    BY <1>4, <1>5 DEF Heads, Kept, Waits
  <2>2. Fresh(d, es, p)
    BY <1>4, <1>5 DEF Fresh
  <2>3. p.at = "extend" => AtExtend(u, d, Heads(d, p, hd), es, p)
    BY <1>1, <1>4, <1>5 DEF AtExtend
  <2>4. Phase(u, d, Heads(d, p, hd), es, p, hd)
    BY <1>5, <2>1, <2>2, <2>3 DEF Phase
  <2> HIDE DEF K, es
  <2> QED
    BY <1>1, <1>4, <2>1, <2>4, VolumeOf
<1> QED
  BY <1>4, <1>5

(* The new cluster is zeroed, then has the entry as its first. *)
NewIn(d, d2, x, e) ==
  /\ \A c \in F!Cluster : c # x => d2[c] = d[c]
  /\ \A i \in 1 .. ENTRIES : d2[x][i] \in {F!Zero[i], e}

LEMMA FreshWritten ==
  ASSUME NEW t, NEW d \in Clusters, NEW ds, NEW o, NEW hd, Volume(t, d, ds, o, hd),
         o.at \in {"clear_dir", "enter"},
         NEW e, e.kind = "file", e.first = o.file, e.size = o.size,
         NEW d2, NewIn(d, d2, o.first, e)
  PROVE  /\ F!EnteredIn(d, ds) \subseteq F!EnteredIn(d2, ds)
         /\ ChainsOf(t, Heads(d, o, hd), ds) /\ FilesGood(t, d2, ds)
         /\ Firsts(d2) \subseteq Firsts(d) \cup {o.file}
         /\ Firsts(d2) \cap hd = {} /\ Waits(t, d2, o, hd)
         /\ d2[o.first] = F!Zero => Fresh(d2, ds, o)
<1> DEFINE K == Heads(d, o, hd)  x == o.first
<1>1. /\ ChainsOf(t, K, ds) /\ Firsts(d) \cap hd = {} /\ FilesGood(t, d, ds)
      /\ Waits(t, d, o, hd) /\ Fresh(d, ds, o)
  BY DEF Volume, Phase
<1>2. Firsts(d) \subseteq K /\ o.file \in K /\ o.file \notin hd
  BY <1>1 DEF Heads, Waits
<1>3. /\ ds \in Seq(F!Cluster) /\ Len(ds) \in Nat /\ Len(ds) >= 1 /\ x = ds[Len(ds)]
      /\ Len(ds) \in 1 .. Len(ds) /\ \A k, l \in 1 .. Len(ds) : ds[k] = ds[l] => k = l
  BY <1>1 DEF ChainsOf, DirIs, Fresh
<1>4. x \in F!Cluster /\ \E k \in 1 .. Len(ds) : x = ds[k]
  BY <1>3
<1>5. \A c \in F!Cluster : c # x => d2[c] = d[c]
  BY DEF NewIn
<1>6. \A i \in 1 .. ENTRIES : d2[x][i] \in {F!Zero[i], e}
  BY DEF NewIn
<1>7. \A i \in 1 .. ENTRIES : ~IsFile(d, x, i)
  BY <1>1 DEF Fresh, NoFiles
<1> HIDE DEF K, x
<1>8. SlotsIn(d, d2, x, e)
  BY <1>5, <1>6, <1>7 DEF SlotsIn
<1>9. FileGood(t, d, e.first, e.size) /\ e.first \in K
  BY <1>1, <1>2 DEF Waits
<1>10. /\ FilesGood(t, d2, ds) /\ Firsts(d2) \subseteq Firsts(d) \cup {e.first}
       /\ FileGood(t, d2, e.first, e.size)
  BY ONLY <1>1, <1>2, <1>4, <1>8, <1>9, DirWritten
<1>11. Spared(d, d2, ds, Len(ds) - 1)
  <2> SUFFICES ASSUME NEW k \in 1 .. Len(ds), NEW i \in 1 .. ENTRIES
               PROVE  /\ IsFile(d, ds[k], i) => k <= Len(ds) - 1 /\ d2[ds[k]][i] = d[ds[k]][i]
                      /\ k <= Len(ds) - 1 /\ d2[ds[k]][i].kind = "end" => d[ds[k]][i].kind = "end"
    BY DEF Spared
  <2>1. CASE k = Len(ds)
    <3>1. ~(k <= Len(ds) - 1) /\ ds[k] = x
      BY <1>3, <2>1
    <3> QED
      BY <1>7, <3>1
  <2>2. CASE k # Len(ds)
    <3>1. k <= Len(ds) - 1 /\ ds[k] # x /\ ds[k] \in F!Cluster
      BY <1>3, <2>2
    <3> QED
      BY <1>5, <3>1
  <2> QED
    BY <2>1, <2>2
<1>12. F!EnteredIn(d, ds) \subseteq F!EnteredIn(d2, ds)
  <2>1. Len(ds) <= Len(ds) /\ Len(ds) - 1 \in Nat
    BY <1>3
  <2> QED
    BY ONLY <1>3, <1>11, <2>1, ListedKept
<1>13. d2[o.first] = F!Zero => Fresh(d2, ds, o)
  <2>1. \A i \in 1 .. ENTRIES : F!Zero[i].kind = "end"
    BY DEF F!Zero, F!Slot
  <2> QED
    BY <1>1, <1>5, <2>1 DEF Fresh, NoFiles, IsFile, x
<1>14. Waits(t, d2, o, hd)
  BY <1>1, <1>10 DEF Waits
<1>15. Firsts(d2) \cap hd = {} /\ Firsts(d2) \subseteq Firsts(d) \cup {o.file}
  BY <1>1, <1>2, <1>10
<1> QED
  BY <1>1, <1>10, <1>12, <1>13, <1>14, <1>15 DEF K

LEMMA VolumeClearDir ==
  ASSUME NEW t, NEW d \in Clusters, NEW ds, NEW o, NEW hd, Volume(t, d, ds, o, hd),
         o.at = "clear_dir", NEW d2, RowAt(d, d2, o.first, F!Zero),
         NEW p, p.at = "enter", p.file = o.file, p.size = o.size, p.first = o.first
  PROVE  F!EnteredIn(d, ds) \subseteq F!EnteredIn(d2, ds) /\ Volume(t, d2, ds, p, hd)
<1> DEFINE e == F!Slot("file", o.name, o.file, o.size)
<1>1. e.kind = "file" /\ e.first = o.file /\ e.size = o.size
  BY DEF F!Slot
<1> HIDE DEF e
<1>0. o.first \in F!Cluster
  BY DEF Volume, Phase, Fresh, ChainsOf, DirIs
<1>5. NewIn(d, d2, o.first, e) /\ d2[o.first] = F!Zero
  BY <1>0 DEF NewIn, Clusters, RowAt
<1>2. /\ F!EnteredIn(d, ds) \subseteq F!EnteredIn(d2, ds)
      /\ ChainsOf(t, Heads(d, o, hd), ds) /\ FilesGood(t, d2, ds)
      /\ Firsts(d2) \subseteq Firsts(d) \cup {o.file}
      /\ Firsts(d2) \cap hd = {} /\ Waits(t, d2, o, hd) /\ Fresh(d2, ds, o)
  BY ONLY <1>1, <1>5, d \in Clusters, Volume(t, d, ds, o, hd), o.at = "clear_dir", FreshWritten
<1>3. Heads(d2, p, hd) \subseteq Heads(d, o, hd)
  BY <1>2 DEF Heads, Kept, Waits
<1>4. Phase(t, d2, Heads(d2, p, hd), ds, p, hd)
  BY <1>2 DEF Phase, Waits, Fresh
<1> QED
  BY ONLY <1>2, <1>3, <1>4, VolumeOf

LEMMA VolumeEnter ==
  ASSUME NEW t, NEW d \in Clusters, NEW ds, NEW o, NEW hd, Volume(t, d, ds, o, hd),
         o.at = "enter", NEW d2,
         RowAt(d, d2, o.first, [F!Zero EXCEPT ![1] = F!Slot("file", o.name, o.file, o.size)])
  PROVE  F!EnteredIn(d, ds) \subseteq F!EnteredIn(d2, ds) /\ Volume(t, d2, ds, F!Idle, hd)
<1> DEFINE e == F!Slot("file", o.name, o.file, o.size)
<1>1. e.kind = "file" /\ e.first = o.file /\ e.size = o.size
  BY DEF F!Slot
<1>0. o.first \in F!Cluster
  BY DEF Volume, Phase, Fresh, ChainsOf, DirIs
<1>2. NewIn(d, d2, o.first, e)
  <2>1. d2 = [d EXCEPT ![o.first] = [F!Zero EXCEPT ![1] = e]]
    BY DEF RowAt
  <2> HIDE DEF e
  <2>2. d2[o.first] = [F!Zero EXCEPT ![1] = e] /\ \A c \in F!Cluster : c # o.first => d2[c] = d[c]
    BY <1>0, <2>1 DEF Clusters
  <2>3. \A i \in 1 .. ENTRIES : [F!Zero EXCEPT ![1] = e][i] \in {F!Zero[i], e}
    BY DEF F!Zero
  <2> QED
    BY ONLY <2>2, <2>3 DEF NewIn
<1> HIDE DEF e
<1>3. /\ F!EnteredIn(d, ds) \subseteq F!EnteredIn(d2, ds)
      /\ ChainsOf(t, Heads(d, o, hd), ds) /\ FilesGood(t, d2, ds)
      /\ Firsts(d2) \subseteq Firsts(d) \cup {o.file}
      /\ Firsts(d2) \cap hd = {} /\ Waits(t, d2, o, hd)
  BY ONLY <1>1, <1>2, d \in Clusters, Volume(t, d, ds, o, hd), o.at = "enter", FreshWritten
<1>4. Firsts(d2) \subseteq Heads(d, o, hd) /\ hd \subseteq Heads(d, o, hd)
  BY <1>3 DEF Heads, Kept, Waits
<1>5. Volume(t, d2, ds, F!Idle, hd)
  BY ONLY <1>3, <1>4, Returned
<1> QED
  BY <1>3, <1>5

-----------------------------------------------------------------------------
(* Freeing. *)

AllFree(u, ch) == \A k \in DOMAIN ch : u[ch[k]] = F!FREE

LEMMA VolumeFree ==
  ASSUME NEW t \in Table, NEW d, NEW ds, NEW o, NEW hd \in SUBSET F!Cluster,
         Volume(t, d, ds, o, hd), o.at = "free", o.f \in Nat, o.f >= 1,
         NEW u, EntryAt(t, u, o.cur, F!FREE, o.f),
         NEW on, on = IF o.f = 1 THEN t[o.cur] ELSE o.last
  PROVE  /\ \A p : /\ p.at = "free" /\ p.file = o.file /\ p.first = o.first /\ p.chain = o.chain
                   /\ \/ p.cur = o.cur /\ p.f # 1 /\ p.last = on
                      \/ p.cur = on /\ p.f = 1 /\ ~(p.f > 1) /\ F!InChain(on)
                   => Volume(u, d, ds, p, hd)
         /\ Volume(u, d, ds, F!Idle, hd \ {o.first})
         /\ ~F!InChain(on) => AllFree(u, o.chain)
<1> DEFINE K == Heads(d, o, hd)
<1>1. /\ ChainsOf(t, K, ds) /\ Firsts(d) \cap hd = {} /\ FilesGood(t, d, ds)
      /\ AtFree(t, K, ds, o, hd)
  BY DEF Volume, Phase
<1>2. Firsts(d) \subseteq K /\ hd \ {o.first} \subseteq K
  BY DEF Heads, Kept
<1> HIDE DEF K
<1>3. PICK z \in F!Cluster :
        /\ o.cur \in o.first .. z
        /\ Freed(t, o.first, IF o.f = 1 THEN o.cur ELSE o.cur + 1, z)
        /\ o.f > 1 => o.last = IF o.cur = z THEN EOC ELSE o.cur + 1
        /\ Unused(t, K, ds, o.first .. z)
        /\ o.chain = [k \in 1 .. z - o.first + 1 |-> o.first + k - 1]
  BY <1>1 DEF AtFree
<1>4. PICK m \in Nat : /\ m >= 2 /\ m < EOC /\ EOC \in Nat /\ F!Cluster = 2 .. m
                       /\ F!Cluster \subseteq F!TableIndex
  BY Geometry
<1>5. o.first \in F!Cluster
  BY <1>1 DEF AtFree
<1>6. o.file = 0 /\ o.first \in hd
  BY <1>1 DEF AtFree
<1>7. o.first \in F!Cluster
  BY <1>5
<1>8. /\ o.first \in 2 .. m /\ z \in 2 .. m /\ o.cur \in 2 .. m /\ o.first <= o.cur /\ o.cur <= z
  BY <1>3, <1>4, <1>7
<1>9. on = IF o.cur = z THEN EOC ELSE o.cur + 1
  <2>1. CASE o.f = 1
    BY <1>3, <1>8, <2>1 DEF Freed
  <2>2. CASE o.f # 1
    BY <1>3, <2>2
  <2> QED
    BY <2>1, <2>2
<1>10. /\ ChainsOf(u, K, ds) /\ FilesGood(u, d, ds) /\ Unused(u, K, ds, o.first .. z)
       /\ Freed(u, o.first, o.cur + 1, z)
  <2>1. CASE o.f # 1
    BY <1>1, <1>3, <2>1 DEF EntryAt
  <2>2. CASE o.f = 1
    <3>1. u = [t EXCEPT ![o.cur] = F!FREE] /\ o.cur \in F!Cluster /\ o.cur \in o.first .. z
      BY <1>4, <1>8, <2>2 DEF EntryAt
    <3>2. Unused(t, K, ds, {o.cur})
      BY <1>3, <3>1 DEF Unused
    <3>3. ChainsOf(u, K, ds) /\ FilesGood(u, d, ds) /\ \A a \in K : SameChain(t, u, a)
      BY ONLY t \in Table, <1>1, <1>2, <3>1, <3>2, TableChanged
    <3>4. Unused(u, K, ds, o.first .. z)
      BY ONLY <1>3, <3>3, UnusedKept
    <3>5. u[o.cur] = F!FREE /\ \A c \in 2 .. m : c # o.cur => u[c] = t[c]
      BY <1>4, <3>1 DEF Table
    <3>6. Freed(t, o.first, o.cur, z)
      BY <1>3, <2>2
    <3>7. ASSUME NEW c \in o.first .. (o.cur + 1) - 1 PROVE u[c] = F!FREE
      <4>1. c \in 2 .. m /\ (c = o.cur \/ c \in o.first .. o.cur - 1)
        BY <1>8
      <4> QED
        BY <3>5, <3>6, <4>1 DEF Freed
    <3>8. ASSUME NEW c \in o.cur + 1 .. z PROVE u[c] = IF c = z THEN EOC ELSE c + 1
      <4>1. c \in 2 .. m /\ c # o.cur /\ c \in o.cur .. z
        BY <1>8
      <4> QED
        BY <3>5, <3>6, <4>1 DEF Freed
    <3> QED
      BY <3>3, <3>4, <3>7, <3>8 DEF Freed
  <2> QED
    BY <2>1, <2>2
<1>11. Volume(u, d, ds, F!Idle, hd \ {o.first})
  <2>1. Firsts(d) \cap (hd \ {o.first}) = {}
    BY <1>1
  <2> QED
    BY ONLY <1>2, <1>10, <2>1, Returned
<1>12. F!InChain(on) => on = o.cur + 1 /\ o.cur # z
  BY <1>4, <1>9 DEF F!InChain
<1>13. ASSUME NEW p, p.at = "free", p.file = o.file, p.first = o.first, p.chain = o.chain,
              \/ p.cur = o.cur /\ p.f # 1 /\ p.last = on
              \/ p.cur = on /\ p.f = 1 /\ ~(p.f > 1) /\ F!InChain(on)
       PROVE  Volume(u, d, ds, p, hd)
  <2>1. Heads(d, p, hd) = K
    BY <1>13 DEF Heads, Kept, K
  <2>2. /\ p.cur \in p.first .. z
        /\ (IF p.f = 1 THEN p.cur ELSE p.cur + 1) = o.cur + 1
        /\ p.f > 1 => p.last = IF p.cur = z THEN EOC ELSE p.cur + 1
    <3>1. CASE p.cur = o.cur /\ p.f # 1 /\ p.last = on
      BY <1>3, <1>9, <1>13, <3>1
    <3>2. CASE p.cur = on /\ p.f = 1 /\ ~(p.f > 1) /\ F!InChain(on)
      <4>1. on = o.cur + 1 /\ o.cur # z
        BY <1>12, <3>2
      <4>2. on \in o.first .. z
        BY <1>8, <4>1
      <4> QED
        BY <1>13, <3>2, <4>1, <4>2
    <3> QED
      BY <1>13, <3>1, <3>2
  <2>3. AtFree(u, K, ds, p, hd)
    BY <1>3, <1>6, <1>10, <1>13, <2>2 DEF AtFree
  <2>4. Phase(u, d, Heads(d, p, hd), ds, p, hd)
    BY <1>13, <2>1, <2>3 DEF Phase
  <2> QED
    BY ONLY <1>1, <1>10, <2>1, <2>4, VolumeOf
<1>14. ASSUME ~F!InChain(on), NEW k \in DOMAIN o.chain PROVE u[o.chain[k]] = F!FREE
  <2>1. o.cur = z
    <3> SUFFICES ASSUME o.cur # z PROVE FALSE
      OBVIOUS
    <3>1. on = o.cur + 1 /\ on \in 2 .. m
      BY <1>8, <1>9
    <3> QED
      BY <1>4, <1>14, <3>1 DEF F!InChain
  <2>2. k \in 1 .. z - o.first + 1 /\ o.chain[k] = o.first + k - 1
    BY <1>3
  <2>3. o.chain[k] \in o.first .. (o.cur + 1) - 1
    BY <1>8, <2>1, <2>2
  <2> QED
    BY <1>10, <2>3 DEF Freed
<1>15. ~F!InChain(on) => AllFree(u, o.chain)
  BY <1>14 DEF AllFree
<1> QED
  BY <1>11, <1>13, <1>15

LEMMA FreedLast ==
  ASSUME NEW t \in Table, NEW d, NEW ds, NEW o, NEW hd \in SUBSET F!Cluster,
         Volume(t, d, ds, o, hd), o.at = "free", o.f \in Nat, o.f >= 1,
         NEW u, EntryAt(t, u, o.cur, F!FREE, o.f),
         NEW on, on = IF o.f = 1 THEN t[o.cur] ELSE o.last, ~F!InChain(on)
  PROVE  AllFree(u, o.chain)
BY VolumeFree

-----------------------------------------------------------------------------
(* A formatted volume. *)

LEMMA VolumeFormatted ==
  ASSUME NEW kd \in {"deleted", "label"},
         NEW t, t = [c \in F!TableIndex |-> IF c <= F!Root THEN EOC ELSE F!FREE],
         NEW d, d = [c \in F!Cluster |->
                       IF c = F!Root
                       THEN [F!Zero EXCEPT ![1] = F!Slot(kd, F!NoName, 0, 0)]
                       ELSE F!Stale]
  PROVE  Volume(t, d, << F!Root >>, F!Idle, {})
<1> DEFINE ds == << F!Root >>
<1>1. PICK m \in Nat : /\ m >= 2 /\ F!Cluster = 2 .. m /\ F!Cluster \subseteq F!TableIndex
                       /\ F!Root = 2
  BY Geometry
<1>2. /\ ds \in Seq(F!Cluster) /\ Len(ds) = 1 /\ ds[1] = F!Root /\ t[F!Root] = EOC
  BY <1>1
<1> HIDE DEF ds
<1>3. DirIs(t, ds)
  <2>1. \A k, l \in 1 .. 1 : k = l
    OBVIOUS
  <2>2. 1 .. 1 - 1 = {} /\ 1 >= 1
    OBVIOUS
  <2> QED
    BY <1>2, <2>1, <2>2 DEF DirIs
<1>4. \A c \in F!Cluster, i \in 1 .. ENTRIES : ~IsFile(d, c, i)
  <2> SUFFICES ASSUME NEW c \in F!Cluster, NEW i \in 1 .. ENTRIES PROVE d[c][i].kind # "file"
    BY DEF IsFile
  <2>1. F!Zero[i].kind = "end" /\ F!Stale[i].kind = "stale"
    BY DEF F!Zero, F!Stale, F!Slot
  <2>2. F!Slot(kd, F!NoName, 0, 0).kind = kd
    BY DEF F!Slot
  <2>3. [F!Zero EXCEPT ![1] = F!Slot(kd, F!NoName, 0, 0)][i]
          \in {F!Zero[i], F!Slot(kd, F!NoName, 0, 0)}
    BY DEF F!Zero
  <2>4. d[c] \in {[F!Zero EXCEPT ![1] = F!Slot(kd, F!NoName, 0, 0)], F!Stale}
    OBVIOUS
  <2> QED
    BY ONLY kd \in {"deleted", "label"}, <2>1, <2>2, <2>3, <2>4
<1>5. Firsts(d) = {} /\ FilesGood(t, d, ds)
  BY <1>4 DEF Firsts, FilesGood
<1>6. ChainsOf(t, {}, ds)
  BY <1>3 DEF ChainsOf
<1>7. Volume(t, d, ds, F!Idle, {})
  BY ONLY <1>5, <1>6, Returned
<1> QED
  BY <1>7 DEF ds

-----------------------------------------------------------------------------
(* The steps of the driver: types, copies, the volume, what is listed, and *)
(* the directory, which only its extension changes.                        *)

Moves(ds) ==
  \E es : /\ es = ds \/ (F!extend /\ es = DirOf(ds, op))
          /\ Volume(fat'[1], data', es, op', held')
          /\ F!EnteredIn(data, ds) \subseteq F!EnteredIn(data', es)

FatStep(ds) == FatTypes' /\ Copies(fat', op', faults') /\ Moves(ds)

FatAt(ds) == FatTypes /\ Copies(fat, op, faults) /\ Volume(fat[1], data, ds, op, held)

LEMMA FoundIs ==
  ASSUME NEW t, NEW d, NEW ds, NEW o, NEW hd, Volume(t, d, ds, o, hd)
  PROVE  /\ F!ChainIn(t, F!Root) = ds /\ ds \in Seq(F!Cluster)
         /\ \A e \in F!EnteredIn(d, ds) :
              e.first \in Firsts(d) /\ FileGood(t, d, e.first, e.size)
<1>1. DirIs(t, ds) /\ FilesGood(t, d, ds)
  BY DEF Volume, ChainsOf
<1>2. ds \in Seq(F!Cluster) /\ F!ChainIn(t, F!Root) = ds
  BY <1>1, ChainIs DEF DirIs
<1>3. ASSUME NEW e \in F!EnteredIn(d, ds)
      PROVE  e.first \in Firsts(d) /\ FileGood(t, d, e.first, e.size)
  <2>1. PICK k \in 1 .. Len(ds), i \in 1 .. ENTRIES : Listed(d, ds, k, i, e)
    BY <1>2, ListedBy
  <2>2. IsFile(d, ds[k], i) /\ e = d[ds[k]][i] /\ ds[k] \in F!Cluster
    BY <1>2, <2>1 DEF Listed, IsFile
  <2> QED
    BY <1>1, <2>2 DEF FilesGood, Firsts
<1> QED
  BY <1>2, <1>3

LEMMA IdleCall == F!Idle \in Calls
<1>1. 1 \in 1 .. NumFats
  BY Sized
<1>2. << >> \in Seq(Nat) /\ 0 \in Nat
  OBVIOUS
<1> QED
  BY <1>1, <1>2 DEF F!Idle, Calls, FatPlaces, F!NoChain

(* While no entry is being written, the copies agree or there was a fault. *)
LEMMA CopiesSame ==
  ASSUME NEW ft, NEW o, NEW fl \in Nat, Copies(ft, o, fl),
         o.at \notin {"link", "extend", "free"}, NEW p, NEW fl2 \in Nat, fl2 >= fl
  PROVE  Copies(ft, p, fl2)
BY DEF Copies

LEMMA StepBegin ==
  ASSUME NEW ds, FatAt(ds), NEW o \in Calls, F!Begin(o),
         Volume(fat[1], data, ds, F!Idle, held) => Volume(fat[1], data, ds, o, held)
  PROVE  FatStep(ds)
<1>1. /\ op = F!Idle /\ calls < MaxCalls /\ op' = o /\ calls' = calls + 1
      /\ g_ready' = g_ready /\ fat' = fat /\ data' = data /\ held' = held /\ faults' = faults
  BY DEF F!Begin
<1>2. FatTypes'
  BY <1>1, Sized DEF FatTypes, FatAt
<1>3. op.at = "idle" /\ faults \in Nat /\ faults >= faults
  BY <1>1, Sized DEF F!Idle, FatTypes, FatAt
<1>4. Copies(fat', op', faults')
  BY <1>1, <1>3, CopiesSame DEF FatAt
<1>5. Volume(fat'[1], data', ds, op', held')
  BY <1>1 DEF FatAt
<1> QED
  BY <1>1, <1>2, <1>4, <1>5 DEF FatStep, Moves

LEMMA StepCall ==
  ASSUME NEW ds, FatAt(ds), F!Call
  PROVE  FatStep(ds)
<1>1. ASSUME NEW n \in 1 .. 2, F!fat32_alloc_clusters(n) PROVE FatStep(ds)
  <2> DEFINE o == [F!Idle EXCEPT !.at = "scan", !.goal = "caller", !.n = n]
  <2>0. n \in Nat /\ n >= 1
    OBVIOUS
  <2>1. o \in Calls /\ o.at = "scan" /\ o.file = 0 /\ o.n >= 1 /\ o.goal = "caller"
    BY ONLY <2>0, IdleCall DEF Calls, FatPlaces, F!Idle, o
  <2>2. F!Begin(o)
    BY <1>1 DEF F!fat32_alloc_clusters
  <2> HIDE DEF o
  <2>3. Volume(fat[1], data, ds, F!Idle, held) => Volume(fat[1], data, ds, o, held)
    BY <2>1, VolumeAlloc
  <2> QED
    BY <2>1, <2>2, <2>3, StepBegin
<1>2. ASSUME NEW name \in Names, NEW s \in Sizes, NEW given \in BOOLEAN,
             F!fat32_create_file(name, s, given)
      PROVE  FatStep(ds)
  <2> DEFINE o == [F!Idle EXCEPT !.at = "scan", !.goal = "file", !.n = F!needed_clusters(s),
                                 !.name = name, !.size = s, !.given = given]
  <2>0. s \in Nat /\ F!needed_clusters(s) \in Nat /\ F!needed_clusters(s) >= 1
    BY Sized, Needed
  <2>1. /\ o \in Calls /\ o.at = "scan" /\ o.file = 0 /\ o.n >= 1 /\ o.goal = "file"
        /\ o.n = F!needed_clusters(o.size) /\ o.done = 0
    BY <2>0, IdleCall DEF Calls, FatPlaces, F!Idle
  <2>2. F!Begin(o)
    BY <1>2 DEF F!fat32_create_file
  <2> HIDE DEF o
  <2>3. Volume(fat[1], data, ds, F!Idle, held) => Volume(fat[1], data, ds, o, held)
    BY <2>1, VolumeAlloc
  <2> QED
    BY <2>1, <2>2, <2>3, StepBegin
<1>3. ASSUME NEW c \in held, F!fat32_free_chain(c) PROVE FatStep(ds)
  <2> DEFINE o == [F!Idle EXCEPT !.at = "free", !.cur = c, !.first = c, !.chain = F!Chain(c)]
  <2>0. op = F!Idle /\ F!Begin(o) /\ Volume(fat[1], data, ds, F!Idle, held)
    BY <1>3 DEF F!fat32_free_chain, F!Begin, FatAt
  <2>1. F!Chain(c) = F!ChainIn(fat[1], c) /\ c \in F!Cluster /\ c \in Nat
    BY Geometry DEF F!Chain, FatAt, FatTypes
  <2>2. Whole(fat[1], c)
    BY <2>0, IdleHeads DEF Volume, ChainsOf
  <2>3. F!ChainIn(fat[1], c) \in Seq(Nat)
    <3>1. PICK z \in F!Cluster : Reach(fat[1], c, z) /\ fat[1][z] = EOC
      BY <2>2 DEF Whole
    <3>2. F!ChainIn(fat[1], c) = [k \in 1 .. z - c + 1 |-> c + k - 1]
      BY <2>1, <3>1, RunChain
    <3>3. z - c + 1 \in Nat /\ \A k \in 1 .. z - c + 1 : c + k - 1 \in Nat
      <4>1. PICK m \in Nat : F!Cluster = 2 .. m
        BY Geometry
      <4> QED
        BY <2>1, <3>1, <4>1 DEF Reach
    <3> QED
      BY <3>2, <3>3
  <2>4. /\ o \in Calls /\ o.at = "free" /\ o.file = 0 /\ o.first = c /\ o.cur = c /\ o.f = 1
        /\ o.chain = F!ChainIn(fat[1], c)
    BY <2>1, <2>3, IdleCall DEF Calls, FatPlaces, F!Idle
  <2> HIDE DEF o
  <2>5. Volume(fat[1], data, ds, o, held)
    BY <2>0, <2>4, VolumeFreeCall
  <2> QED
    BY <2>0, <2>4, <2>5, StepBegin
<1>4. ASSUME NEW c \in {e.first : e \in F!Entered}, NEW s \in Sizes \ {0}, F!fat32_write_file(c, s)
      PROVE  FatStep(ds)
  <2> DEFINE o == [F!Idle EXCEPT !.at = "write", !.goal = "caller", !.cur = c, !.first = c,
                                 !.size = s]
  <2>0. op = F!Idle /\ F!Begin(o) /\ Volume(fat[1], data, ds, F!Idle, held)
    BY <1>4 DEF F!fat32_write_file, F!Begin, FatAt
  <2>1. c \in Firsts(data)
    <3>1. F!Entered = F!EnteredIn(data, ds)
      BY <2>0, FoundIs DEF F!Entered, F!Chain
    <3> QED
      BY <1>4, <2>0, <3>1, FoundIs
  <2>2. c \in Nat /\ s \in Nat
    BY <2>1, Geometry, Sized DEF Firsts
  <2>3. /\ o \in Calls /\ o.at = "write" /\ o.goal = "caller" /\ o.file = 0 /\ o.first = c
        /\ o.cur = c /\ o.i = 0
    BY <2>2, IdleCall DEF Calls, FatPlaces, F!Idle
  <2> HIDE DEF o
  <2>4. Volume(fat[1], data, ds, o, held)
    BY <2>0, <2>1, <2>3, VolumeWriteCall
  <2> QED
    BY <2>0, <2>3, <2>4, StepBegin
<1> QED
  BY <1>1, <1>2, <1>3, <1>4 DEF F!Call

LEMMA CallFacts ==
  ASSUME NEW ds, FatAt(ds)
  PROVE  /\ fat[1] \in Table /\ data \in Clusters /\ held \in SUBSET F!Cluster
         /\ Volume(fat[1], data, ds, op, held) /\ op \in Calls
         /\ op.n \in Nat /\ op.i \in Nat /\ op.first \in Nat /\ op.done \in Nat /\ CB \in Nat
         /\ op.f \in 1 .. NumFats /\ op.f \in Nat /\ op.f >= 1
<1>1. /\ fat \in [1 .. NumFats -> Table] /\ op \in Calls /\ held \in SUBSET F!Cluster
      /\ data \in Clusters /\ Volume(fat[1], data, ds, op, held)
  BY DEF FatAt, FatTypes
<1>2. 1 \in 1 .. NumFats /\ NumFats \in Nat /\ CB \in Nat
  BY Sized
<1>3. op.f \in 1 .. NumFats /\ op.n \in Nat /\ op.i \in Nat /\ op.first \in Nat /\ op.done \in Nat
  BY ONLY <1>1 DEF Calls
<1>4. op.f \in Nat /\ op.f >= 1
  BY ONLY <1>2, <1>3
<1> QED
  BY ONLY <1>1, <1>2, <1>3, <1>4

(* A step that writes no entry of the table. *)
LEMMA StepOf ==
  ASSUME NEW ds, FatAt(ds), op.at \notin {"link", "extend", "free"}, fat' = fat,
         g_ready' = g_ready, calls' = calls, faults' \in 0 .. MaxFaults, faults' >= faults,
         data' \in Clusters, op' \in Calls, held' = held,
         Volume(fat[1], data', ds, op', held),
         F!EnteredIn(data, ds) \subseteq F!EnteredIn(data', ds)
  PROVE  FatStep(ds)
<1>1. FatTypes'
  BY DEF FatTypes, FatAt
<1>2. faults \in Nat /\ faults' \in Nat
  BY Sized DEF FatTypes, FatAt
<1>3. Copies(fat', op', faults')
  BY <1>2, CopiesSame DEF FatAt
<1> QED
  BY <1>1, <1>3 DEF FatStep, Moves

LEMMA RowTypes ==
  /\ F!Zero \in [1 .. ENTRIES -> SlotSet]
  /\ \A b \in Nat : F!Bytes(b) \in [1 .. ENTRIES -> SlotSet]
  /\ \A name \in Names \cup {F!NoName}, first, size \in Nat :
       F!Slot("file", name, first, size) \in SlotSet
<1>1. \A k \in {"end", "bytes", "file", "stale", "deleted"}, n \in Names \cup {F!NoName},
         a, s \in Nat : F!Slot(k, n, a, s) \in SlotSet
  BY DEF F!Slot, SlotSet
<1>2. 0 \in Nat /\ F!NoName \in Names \cup {F!NoName}
  OBVIOUS
<1>3. F!Slot("end", F!NoName, 0, 0) \in SlotSet
  BY <1>1, <1>2
<1>4. \A b \in Nat : F!Slot("bytes", F!NoName, b, 0) \in SlotSet
  BY <1>1, <1>2
<1>5. F!Zero \in [1 .. ENTRIES -> SlotSet]
  BY <1>3 DEF F!Zero
<1>6. \A b \in Nat : F!Bytes(b) \in [1 .. ENTRIES -> SlotSet]
  BY <1>4 DEF F!Bytes
<1> QED
  BY <1>1, <1>5, <1>6

LEMMA StepScan ==
  ASSUME NEW ds, FatAt(ds), F!scan
  PROVE  FatStep(ds)
<1>1. /\ op.at = "scan" /\ g_ready' = g_ready /\ fat' = fat /\ data' = data /\ held' = held
      /\ calls' = calls
  BY DEF F!scan
<1>2. PICK unread \in {{}} \cup {{c} : c \in F!Cluster} :
        /\ IF unread = {} THEN UNCHANGED faults ELSE F!Fault
        /\ \/ \E s \in 2 .. F!max_cluster :
                /\ F!FirstRun(s, op.n, unread)
                /\ op' = [op EXCEPT !.at = "link", !.first = s, !.i = 0, !.f = 1]
           \/ /\ \A s \in 2 .. F!max_cluster : ~F!FreeRun(s, op.n, unread)
              /\ F!Return
  BY DEF F!scan
<1>3. faults' \in 0 .. MaxFaults /\ faults' >= faults
  <2>1. faults \in 0 .. MaxFaults /\ MaxFaults \in Nat
    BY Sized DEF FatTypes, FatAt
  <2>2. faults' = faults \/ (faults < MaxFaults /\ faults' = faults + 1)
    BY <1>2 DEF F!Fault
  <2> QED
    BY ONLY <2>1, <2>2
<1>4. /\ fat[1] \in Table /\ data \in Clusters /\ op \in Calls /\ op.n \in Nat
      /\ Volume(fat[1], data, ds, op, held)
  BY ONLY FatAt(ds), CallFacts
<1>5. op' \in Calls /\ Volume(fat[1], data, ds, op', held)
  <2>1. CASE F!Return
    BY <1>1, <1>4, <2>1, Abandoned, IdleCall DEF F!Return
  <2>2. ASSUME NEW s \in 2 .. F!max_cluster, F!FirstRun(s, op.n, unread),
               op' = [op EXCEPT !.at = "link", !.first = s, !.i = 0, !.f = 1]
        PROVE  op' \in Calls /\ Volume(fat[1], data, ds, op', held)
    <3>1. PICK m \in Nat : m >= 2 /\ F!Cluster = 2 .. m /\ F!max_cluster = m
      <4>1. F!g_total_clusters \in Nat \ {0}
        BY StorageAssumption DEF F!Fat32Assumption
      <4> QED
        BY <4>1 DEF F!Cluster, F!max_cluster
    <3>2. s \in F!Cluster /\ s \in Nat /\ s >= 2
      BY <2>2, <3>1
    <3>3. \A c \in s .. s + op.n - 1 : c \in F!Cluster /\ fat[1][c] = F!FREE
      BY <1>4, <2>2, <3>1, <3>2 DEF F!FirstRun, F!FreeRun, F!is_free
    <3>4. 1 \in 1 .. NumFats
      BY Sized
    <3>5. op' \in Calls
      BY <1>4, <2>2, <3>2, <3>4 DEF Calls, FatPlaces
    <3>6. /\ SameCall(op, op') /\ op'.last = op.last /\ op'.at = "link" /\ op'.first = s
          /\ op'.i = 0 /\ op'.f = 1
      BY <1>4, <2>2 DEF Calls, SameCall
    <3>7. Volume(fat[1], data, ds, op', held)
      BY ONLY <1>1, <1>4, <3>2, <3>3, <3>6, VolumeScan
    <3> QED
      BY <3>5, <3>7
  <2> QED
    BY <1>2, <2>1, <2>2
<1> QED
  BY <1>1, <1>3, <1>4, <1>5, StepOf

LEMMA StepWrite ==
  ASSUME NEW ds, FatAt(ds), F!write
  PROVE  FatStep(ds)
<1> DEFINE next == fat[1][op.cur]
<1>1. /\ op.at = "write" /\ g_ready' = g_ready /\ fat' = fat /\ held' = held
      /\ calls' = calls /\ faults' = faults
      /\ data' = [data EXCEPT ![op.cur] = F!Bytes(op.first)]
      /\ op' = IF op.done + CB < op.size /\ F!InChain(next)
               THEN [op EXCEPT !.cur = next, !.done = op.done + CB]
               ELSE IF op.goal = "file" /\ op.done + CB >= op.size
               THEN [op EXCEPT !.at = "search", !.cur = F!Root]
               ELSE F!Idle
  BY DEF F!write, F!Keep, F!fat32_next_cluster, CB
<1>2. /\ fat[1] \in Table /\ data \in Clusters /\ op \in Calls /\ op.done \in Nat /\ CB \in Nat
      /\ op.first \in Nat /\ Volume(fat[1], data, ds, op, held)
  BY ONLY FatAt(ds), CallFacts
<1>3. op.cur \in F!Cluster
  BY <1>1, <1>2 DEF Volume, Phase, AtWrite, Reach
<1>4. next \in Nat
  BY <1>2, <1>3, Geometry DEF Table
<1>5. data' \in Clusters
  BY <1>1, <1>2, RowTypes DEF Clusters
<1>6. faults' \in 0 .. MaxFaults /\ faults' >= faults
  BY <1>1, Sized DEF FatTypes, FatAt
<1>9. RowAt(data, data', op.cur, F!Bytes(op.first))
  BY <1>1 DEF RowAt
<1>7. /\ F!EnteredIn(data, ds) \subseteq F!EnteredIn(data', ds)
      /\ Volume(fat[1], data', ds, F!Idle, held)
  <2>1. op.at = "write"
    BY <1>1
  <2> HIDE DEF next
  <2>2. F!EnteredIn(data, ds) \subseteq F!EnteredIn(data', ds)
    BY ONLY <1>2, <1>9, <2>1, VolumeWrite
  <2>3. Volume(fat[1], data', ds, F!Idle, held)
    BY ONLY <1>2, <1>9, <2>1, VolumeWrite
  <2> QED
    BY <2>2, <2>3
<1>8. op' \in Calls /\ Volume(fat[1], data', ds, op', held)
  <2>1. CASE op' = F!Idle
    BY <1>7, <2>1, IdleCall
  <2>2. CASE F!InChain(next) /\ op' = [op EXCEPT !.cur = next, !.done = op.done + CB]
    <3>1. op' \in Calls
      <4>1. op \in Calls /\ op.done + CB \in Nat /\ next \in Nat
        BY <1>2, <1>4
      <4> QED
        BY ONLY <2>2, <4>1 DEF Calls
    <3>2. /\ op'.i = op.i /\ op'.first = op.first /\ op'.at = "write" /\ op'.cur = fat[1][op.cur]
          /\ op'.done = op.done + CB /\ op'.goal = op.goal /\ op'.n = op.n
          /\ op'.size = op.size /\ op'.file = op.file
      BY <1>1, <1>2, <2>2 DEF Calls
    <3> QED
      BY <1>1, <1>2, <1>9, <2>2, <3>1, <3>2, VolumeWrite
  <2>3. CASE /\ op.goal = "file" /\ op.done + CB >= op.size
             /\ op' = [op EXCEPT !.at = "search", !.cur = F!Root]
    <3>1. op' \in Calls
      <4>1. op \in Calls /\ F!Root \in Nat
        BY <1>2, Geometry
      <4> QED
        BY ONLY <2>3, <4>1 DEF Calls, FatPlaces
    <3>2. op'.at = "search" /\ op'.cur = F!Root /\ op'.file = op.file /\ op'.size = op.size
      BY <1>2, <2>3 DEF Calls
    <3> QED
      BY <1>1, <1>2, <1>9, <2>3, <3>1, <3>2, VolumeWrite
  <2> QED
    BY <1>1, <2>1, <2>2, <2>3
<1> QED
  BY <1>1, <1>5, <1>6, <1>7, <1>8, StepOf

LEMMA StepClear ==
  ASSUME NEW ds, FatAt(ds), F!clear
  PROVE  FatStep(ds)
<1>1. /\ op.at = "clear" /\ g_ready' = g_ready /\ fat' = fat /\ held' = held
      /\ calls' = calls /\ faults' = faults
      /\ data' = [data EXCEPT ![op.first + op.i] = F!Zero]
      /\ op' = IF op.i + 1 < op.n THEN [op EXCEPT !.i = @ + 1]
               ELSE [op EXCEPT !.at = "search", !.cur = F!Root]
  BY DEF F!clear, F!Keep
<1>2. /\ fat[1] \in Table /\ data \in Clusters /\ op \in Calls /\ op.i \in Nat
      /\ Volume(fat[1], data, ds, op, held)
  BY ONLY FatAt(ds), CallFacts
<1>3. data' \in Clusters
  BY <1>1, <1>2, RowTypes DEF Clusters
<1>4. faults' \in 0 .. MaxFaults /\ faults' >= faults
  BY <1>1, Sized DEF FatTypes, FatAt
<1>9. RowAt(data, data', op.first + op.i, F!Zero)
  BY <1>1 DEF RowAt
<1>5. F!EnteredIn(data, ds) \subseteq F!EnteredIn(data', ds)
  BY ONLY <1>1, <1>2, <1>9, VolumeClear
<1>6. op' \in Calls /\ Volume(fat[1], data', ds, op', held)
  <2>1. CASE op.i + 1 < op.n
    <3>1. op' = [op EXCEPT !.i = op.i + 1]
      BY <1>1, <1>2, <2>1 DEF Calls
    <3>2. op' \in Calls
      <4>1. op \in Calls /\ op.i + 1 \in Nat
        BY <1>2
      <4> QED
        BY ONLY <3>1, <4>1 DEF Calls
    <3>3. SameCall(op, op') /\ op'.first = op.first /\ op'.at = "clear" /\ op'.i = op.i + 1
      BY <1>1, <1>2, <3>1 DEF Calls, SameCall
    <3> QED
      BY <1>1, <1>2, <1>9, <2>1, <3>2, <3>3, VolumeClear
  <2>2. CASE ~(op.i + 1 < op.n)
    <3>1. op' \in Calls
      <4>1. op \in Calls /\ F!Root \in Nat /\ op' = [op EXCEPT !.at = "search", !.cur = F!Root]
        BY <1>1, <1>2, <2>2, Geometry
      <4> QED
        BY ONLY <4>1 DEF Calls, FatPlaces
    <3>2. op'.at = "search" /\ op'.cur = F!Root /\ op'.file = op.file /\ op'.size = op.size
      BY <1>1, <1>2, <2>2 DEF Calls
    <3> QED
      BY <1>1, <1>2, <1>9, <2>2, <3>1, <3>2, VolumeClear
  <2> QED
    BY <2>1, <2>2
<1> QED
  BY <1>1, <1>3, <1>4, <1>5, <1>6, StepOf

LEMMA StepSearch ==
  ASSUME NEW ds, FatAt(ds), F!search, ~FatReadErrors
  PROVE  FatStep(ds)
<1>1. /\ op.at = "search" /\ g_ready' = g_ready /\ fat' = fat /\ held' = held
      /\ calls' = calls /\ faults' = faults
      /\ \/ \E i \in 1 .. ENTRIES :
              /\ F!is_slot(op.cur, i)
              /\ data' = [data EXCEPT ![op.cur][i] = F!Entry]
              /\ F!Return
         \/ /\ op' = IF F!InChain(fat[1][op.cur]) THEN [op EXCEPT !.cur = fat[1][op.cur]]
                     ELSE [op EXCEPT !.at = "scan", !.goal = "dir", !.n = 1, !.last = op.cur]
            /\ data' = data
  BY DEF F!search, F!ReadFails, F!next_read, F!fat32_next_cluster
<1>2. /\ fat[1] \in Table /\ data \in Clusters /\ op \in Calls
      /\ Volume(fat[1], data, ds, op, held)
  BY Sized DEF FatAt, FatTypes
<1>3. faults' \in 0 .. MaxFaults /\ faults' >= faults
  BY <1>1, Sized DEF FatTypes, FatAt
<1>4. op.cur \in F!Cluster
  BY <1>1, <1>2 DEF Volume, Phase, ChainsOf, DirIs
<1>5. /\ data' \in Clusters /\ op' \in Calls /\ Volume(fat[1], data', ds, op', held)
      /\ F!EnteredIn(data, ds) \subseteq F!EnteredIn(data', ds)
  <2>1. ASSUME NEW i \in 1 .. ENTRIES, F!is_slot(op.cur, i),
               data' = [data EXCEPT ![op.cur][i] = F!Entry], F!Return
        PROVE  /\ data' \in Clusters /\ op' \in Calls /\ Volume(fat[1], data', ds, op', held)
               /\ F!EnteredIn(data, ds) \subseteq F!EnteredIn(data', ds)
    <3> DEFINE e == F!Slot("file", op.name, op.file, op.size)
    <3>1. e \in SlotSet
      BY <1>2, RowTypes DEF Calls
    <3>2. data' = [data EXCEPT ![op.cur][i] = e] /\ op' = F!Idle
      BY <2>1 DEF F!Entry, F!Return
    <3>3. SlotAt(data, data', op.cur, i, e)
      BY <3>2 DEF SlotAt
    <3>4. data[op.cur][i].kind \in {"end", "deleted"}
      BY <2>1 DEF F!is_slot
    <3>5. data' \in Clusters
      <4> HIDE DEF e
      <4> QED
        BY ONLY <1>2, <1>4, <3>1, <3>2, i \in 1 .. ENTRIES DEF Clusters
    <3>6. /\ F!EnteredIn(data, ds) \subseteq F!EnteredIn(data', ds)
          /\ Volume(fat[1], data', ds, F!Idle, held)
      <4>1. op.at = "search"
        BY <1>1
      <4> QED
        BY ONLY <1>2, <3>3, <3>4, <4>1, i \in 1 .. ENTRIES, VolumeEntered
    <3> QED
      BY <3>2, <3>5, <3>6, IdleCall
  <2>2. ASSUME op' = IF F!InChain(fat[1][op.cur]) THEN [op EXCEPT !.cur = fat[1][op.cur]]
                     ELSE [op EXCEPT !.at = "scan", !.goal = "dir", !.n = 1, !.last = op.cur],
               data' = data
        PROVE  /\ data' \in Clusters /\ op' \in Calls /\ Volume(fat[1], data', ds, op', held)
               /\ F!EnteredIn(data, ds) \subseteq F!EnteredIn(data', ds)
    <3>1. op.cur \in Nat /\ fat[1][op.cur] \in Nat
      BY <1>2, <1>4, Geometry DEF Table
    <3>2. CASE F!InChain(fat[1][op.cur])
      <4>1. op' = [op EXCEPT !.cur = fat[1][op.cur]] /\ op \in Calls
        BY <1>2, <2>2, <3>2
      <4>2. op' \in Calls
        BY ONLY <3>1, <4>1 DEF Calls
      <4>3. op'.at = op.at /\ op'.cur = fat[1][op.cur] /\ op'.file = op.file /\ op'.size = op.size
        BY ONLY <4>1 DEF Calls
      <4>4. op'.at = "search" /\ op.at = "search"
        BY <1>1, <4>3
      <4>5. Volume(fat[1], data, ds, op', held)
        BY ONLY <1>2, <3>2, <4>3, <4>4, VolumeSearch
      <4> QED
        BY <1>2, <2>2, <4>2, <4>5
    <3>3. CASE ~F!InChain(fat[1][op.cur])
      <4>1. op' = [op EXCEPT !.at = "scan", !.goal = "dir", !.n = 1, !.last = op.cur] /\ op \in Calls
        BY <1>2, <2>2, <3>3
      <4>2. op' \in Calls
        BY ONLY <3>1, <4>1 DEF Calls, FatPlaces
      <4>3. /\ op'.at = "scan" /\ op'.goal = "dir" /\ op'.n = 1 /\ op'.last = op.cur
            /\ op'.file = op.file /\ op'.size = op.size
        BY ONLY <4>1 DEF Calls
      <4>4. op.at = "search"
        BY <1>1
      <4>5. Volume(fat[1], data, ds, op', held)
        BY ONLY <1>2, <3>3, <4>3, <4>4, VolumeSearch
      <4> QED
        BY <1>2, <2>2, <4>2, <4>5
    <3> QED
      BY <3>2, <3>3
  <2> QED
    BY <1>1, <2>1, <2>2
<1> QED
  BY <1>1, <1>3, <1>5, StepOf

LEMMA StepClearDir ==
  ASSUME NEW ds, FatAt(ds), F!clear_dir
  PROVE  FatStep(ds)
<1>1. /\ op.at = "clear_dir" /\ g_ready' = g_ready /\ fat' = fat /\ held' = held
      /\ calls' = calls /\ faults' = faults
      /\ data' = [data EXCEPT ![op.first] = F!Zero] /\ op' = [op EXCEPT !.at = "enter"]
  BY DEF F!clear_dir, F!Keep
<1>2. /\ fat[1] \in Table /\ data \in Clusters /\ op \in Calls
      /\ Volume(fat[1], data, ds, op, held)
  BY Sized DEF FatAt, FatTypes
<1>3. faults' \in 0 .. MaxFaults /\ faults' >= faults
  BY <1>1, Sized DEF FatTypes, FatAt
<1>4. data' \in Clusters
  BY <1>1, <1>2, RowTypes DEF Clusters
<1>5. op' \in Calls
  BY <1>1, <1>2 DEF Calls, FatPlaces
<1>6. op'.at = "enter" /\ op'.file = op.file /\ op'.size = op.size /\ op'.first = op.first
  BY <1>1, <1>2 DEF Calls
<1>7. RowAt(data, data', op.first, F!Zero) /\ op.at = "clear_dir"
  BY <1>1 DEF RowAt
<1>8. F!EnteredIn(data, ds) \subseteq F!EnteredIn(data', ds) /\ Volume(fat[1], data', ds, op', held)
  BY ONLY <1>2, <1>6, <1>7, VolumeClearDir
<1> QED
  BY <1>1, <1>3, <1>4, <1>5, <1>8, StepOf

LEMMA StepEnter ==
  ASSUME NEW ds, FatAt(ds), F!enter
  PROVE  FatStep(ds)
<1> DEFINE e == F!Slot("file", op.name, op.file, op.size)
<1>1. /\ op.at = "enter" /\ g_ready' = g_ready /\ fat' = fat /\ held' = held
      /\ calls' = calls /\ faults' = faults
      /\ data' = [data EXCEPT ![op.first] = [F!Zero EXCEPT ![1] = e]] /\ op' = F!Idle
  BY DEF F!enter, F!Keep, F!Return, F!Entry
<1>2. /\ fat[1] \in Table /\ data \in Clusters /\ op \in Calls
      /\ Volume(fat[1], data, ds, op, held)
  BY Sized DEF FatAt, FatTypes
<1>3. faults' \in 0 .. MaxFaults /\ faults' >= faults
  BY <1>1, Sized DEF FatTypes, FatAt
<1>4. e \in SlotSet
  BY <1>2, RowTypes DEF Calls
<1>5. data' \in Clusters
  <2> HIDE DEF e
  <2>1. [F!Zero EXCEPT ![1] = e] \in [1 .. ENTRIES -> SlotSet]
    BY ONLY <1>4, RowTypes
  <2> QED
    BY ONLY <1>1, <1>2, <2>1 DEF Clusters
<1>6. RowAt(data, data', op.first, [F!Zero EXCEPT ![1] = e]) /\ op.at = "enter"
  BY <1>1 DEF RowAt
<1>7. F!EnteredIn(data, ds) \subseteq F!EnteredIn(data', ds) /\ Volume(fat[1], data', ds, F!Idle, held)
  BY ONLY <1>2, <1>6, VolumeEnter
<1> QED
  BY <1>1, <1>3, <1>5, <1>7, IdleCall, StepOf

(* An entry is written: in the first copy, or its sector in another. *)
Entering(ft, c, v, f) ==
  IF f = 1 THEN [ft EXCEPT ![1][c] = v]
  ELSE [ft EXCEPT ![f] = [e \in F!TableIndex |->
                            IF F!Sector(e) = F!Sector(c) THEN ft[1][e] ELSE ft[f][e]]]

Spread(ft, ft2, c, f) ==
  /\ \A g \in 1 .. NumFats : g # f => ft2[g] = ft[g]
  /\ f = 1 => \A e \in F!TableIndex : e # c => ft2[1][e] = ft[1][e]
  /\ f # 1 => \A e \in F!TableIndex :
                ft2[f][e] = IF F!Sector(e) = F!Sector(c) THEN ft[1][e] ELSE ft[f][e]

LEMMA EntryFacts ==
  ASSUME NEW ft \in [1 .. NumFats -> Table], NEW c \in F!Cluster,
         NEW v \in {F!FREE, EOC} \cup F!Cluster, NEW f \in 1 .. NumFats,
         NEW ft2, ft2 = Entering(ft, c, v, f)
  PROVE  /\ ft2 \in [1 .. NumFats -> Table] /\ EntryAt(ft[1], ft2[1], c, v, f)
         /\ Spread(ft, ft2, c, f)
<1>1. 1 \in 1 .. NumFats /\ c \in F!TableIndex /\ NumFats \in Nat
  BY Sized, Geometry
<1>2. CASE f = 1
  <2>1. ft2 = [ft EXCEPT ![1] = [ft[1] EXCEPT ![c] = v]]
    BY <1>1, <1>2 DEF Entering
  <2>2. [ft[1] EXCEPT ![c] = v] \in Table
    BY <1>1 DEF Table
  <2>3. ft2[1] = [ft[1] EXCEPT ![c] = v]
    BY <1>1, <2>1
  <2>4. ft2 \in [1 .. NumFats -> Table] /\ \A g \in 1 .. NumFats : g # 1 => ft2[g] = ft[g]
    BY <1>1, <2>1, <2>2
  <2>5. \A e \in F!TableIndex : e # c => ft2[1][e] = ft[1][e]
    BY <1>1, <2>3 DEF Table
  <2> QED
    BY <1>2, <2>3, <2>4, <2>5 DEF EntryAt, Spread
<1>3. CASE f # 1
  <2> DEFINE r == [e \in F!TableIndex |-> IF F!Sector(e) = F!Sector(c) THEN ft[1][e] ELSE ft[f][e]]
  <2>1. ft2 = [ft EXCEPT ![f] = r]
    BY <1>3 DEF Entering
  <2>2. r \in Table
    BY <1>1 DEF Table
  <2>3. \A e \in F!TableIndex : r[e] = IF F!Sector(e) = F!Sector(c) THEN ft[1][e] ELSE ft[f][e]
    OBVIOUS
  <2> HIDE DEF r
  <2>4. /\ ft2 \in [1 .. NumFats -> Table] /\ ft2[f] = r
        /\ \A g \in 1 .. NumFats : g # f => ft2[g] = ft[g]
    BY <1>1, <2>1, <2>2
  <2>5. ft2[1] = ft[1]
    BY <1>1, <1>3, <2>4
  <2> QED
    BY <1>3, <2>3, <2>4, <2>5 DEF EntryAt, Spread
<1> QED
  BY <1>2, <1>3

(* The copies come to agree. *)
LEMMA CopiesEntry ==
  ASSUME NEW ft \in [1 .. NumFats -> Table], NEW o, NEW fl, Copies(ft, o, fl),
         o.at \in {"link", "extend", "free"}, o.f \in 1 .. NumFats,
         Entered(o) \in F!Cluster, NEW v \in {F!FREE, EOC} \cup F!Cluster,
         NEW ft2, ft2 = Entering(ft, Entered(o), v, o.f), NEW p,
         \/ p.at = o.at /\ p.f = o.f + 1 /\ Entered(p) = Entered(o)
         \/ o.f = NumFats
  PROVE  Copies(ft2, p, fl)
<1> SUFFICES ASSUME fl = 0, NEW g \in 1 .. NumFats
             PROVE  \/ ft2[g] = ft2[1]
                    \/ /\ p.at \in {"link", "extend", "free"} /\ 1 < p.f /\ p.f <= g
                       /\ \A e \in F!TableIndex :
                            F!Sector(e) # F!Sector(Entered(p)) => ft2[g][e] = ft2[1][e]
  BY DEF Copies
<1> DEFINE c == Entered(o)
<1>1. NumFats \in Nat /\ 1 \in 1 .. NumFats /\ o.f \in Nat /\ o.f >= 1 /\ o.f <= NumFats
      /\ g \in Nat /\ g >= 1 /\ g <= NumFats
  BY Sized
<1>2. \/ ft[g] = ft[1]
      \/ /\ 1 < o.f /\ o.f <= g
         /\ \A e \in F!TableIndex : F!Sector(e) # F!Sector(c) => ft[g][e] = ft[1][e]
  BY DEF Copies
<1> HIDE DEF c
<1>3. /\ \A h \in 1 .. NumFats : h # o.f => ft2[h] = ft[h]
      /\ o.f = 1 => \A e \in F!TableIndex : e # c => ft2[1][e] = ft[1][e]
      /\ o.f # 1 => \A e \in F!TableIndex :
                     ft2[o.f][e] = IF F!Sector(e) = F!Sector(c) THEN ft[1][e] ELSE ft[o.f][e]
      /\ ft2 \in [1 .. NumFats -> Table]
  <2>1. Spread(ft, ft2, c, o.f) /\ ft2 \in [1 .. NumFats -> Table]
    BY EntryFacts DEF c
  <2> QED
    BY ONLY <2>1 DEF Spread
<1>4. CASE g = 1
  BY <1>4
<1>5. CASE o.f = 1 /\ g # 1
  <2>1. ft2[g] = ft[g] /\ ft[g] = ft[1]
    BY <1>1, <1>2, <1>3, <1>5
  <2>2. \A e \in F!TableIndex : F!Sector(e) # F!Sector(c) => ft2[g][e] = ft2[1][e]
    BY <1>3, <1>5, <2>1
  <2>3. p.at = o.at /\ p.f = 2 /\ Entered(p) = c /\ 2 <= g
    BY <1>1, <1>5 DEF c
  <2> QED
    BY <2>2, <2>3
<1>6. CASE o.f # 1 /\ g = o.f
  <2>1. ft2[1] = ft[1] /\ ft2[1] \in Table /\ ft2[g] \in Table
    BY <1>1, <1>3, <1>6
  <2>2. \A e \in F!TableIndex : ft2[g][e] = ft[1][e]
    BY <1>2, <1>3, <1>6
  <2> QED
    BY <2>1, <2>2 DEF Table
<1>7. CASE o.f # 1 /\ g # o.f /\ g # 1
  <2>1. ft2[1] = ft[1] /\ ft2[g] = ft[g]
    BY <1>1, <1>3, <1>7
  <2>2. CASE ft[g] = ft[1]
    BY <2>1, <2>2
  <2>3. CASE ft[g] # ft[1]
    <3>1. /\ o.f <= g /\ o.f < NumFats
          /\ \A e \in F!TableIndex : F!Sector(e) # F!Sector(c) => ft2[g][e] = ft2[1][e]
      BY <1>1, <1>2, <1>7, <2>1, <2>3
    <3>2. p.at = o.at /\ p.f = o.f + 1 /\ Entered(p) = c /\ p.f <= g /\ 1 < p.f
      BY <1>1, <1>7, <3>1 DEF c
    <3> QED
      BY <3>1, <3>2
  <2> QED
    BY <2>2, <2>3
<1> QED
  BY <1>4, <1>5, <1>6, <1>7

(* A step that writes an entry. *)
LEMMA StepEntry ==
  ASSUME NEW ds, FatAt(ds), op.at \in {"link", "extend", "free"},
         Entered(op) \in F!Cluster, NEW v \in {F!FREE, EOC} \cup F!Cluster,
         fat' = F!fat32_write_fat_entry(Entered(op), v, op.f),
         g_ready' = g_ready, calls' = calls, faults' = faults, data' = data,
         op' \in Calls, held' \in SUBSET F!Cluster,
         \/ op'.at = op.at /\ op'.f = op.f + 1 /\ Entered(op') = Entered(op)
         \/ op.f = NumFats,
         NEW es, es = ds \/ (F!extend /\ es = DirOf(ds, op)),
         F!EnteredIn(data, ds) \subseteq F!EnteredIn(data, es),
         \A u : EntryAt(fat[1], u, Entered(op), v, op.f) => Volume(u, data, es, op', held')
  PROVE  FatStep(ds)
<1>1. fat \in [1 .. NumFats -> Table] /\ op.f \in 1 .. NumFats
  BY DEF FatAt, FatTypes, Calls
<1>2. fat' = Entering(fat, Entered(op), v, op.f)
  BY DEF F!fat32_write_fat_entry, Entering
<1>3. fat' \in [1 .. NumFats -> Table] /\ EntryAt(fat[1], fat'[1], Entered(op), v, op.f)
  BY ONLY <1>1, <1>2, Entered(op) \in F!Cluster, v \in {F!FREE, EOC} \cup F!Cluster, EntryFacts
<1>4. FatTypes'
  BY <1>3 DEF FatTypes, FatAt
<1>5. Copies(fat, op, faults)
  BY DEF FatAt
<1>6. Copies(fat', op', faults')
  BY <1>1, <1>2, <1>5, CopiesEntry
<1>7. Volume(fat'[1], data', es, op', held')
  BY <1>3
<1> QED
  BY <1>4, <1>6, <1>7 DEF FatStep, Moves

LEMMA EntryTable ==
  ASSUME NEW t \in Table, NEW c \in F!Cluster, NEW v \in {F!FREE, EOC} \cup F!Cluster, NEW f,
         NEW u, EntryAt(t, u, c, v, f)
  PROVE  u \in Table
BY Geometry DEF EntryAt, Table

LEMMA StepLink ==
  ASSUME NEW ds, FatAt(ds), F!link
  PROVE  FatStep(ds)
<1> DEFINE c == op.first + op.i
           last == op.i + 1 = op.n
           v == IF last THEN EOC ELSE c + 1
<1>1. /\ op.at = "link" /\ g_ready' = g_ready /\ data' = data
      /\ calls' = calls /\ faults' = faults
      /\ fat' = F!fat32_write_fat_entry(c, v, op.f)
      /\ op' = IF op.f < NumFats THEN [op EXCEPT !.f = @ + 1]
               ELSE IF ~last THEN [op EXCEPT !.i = @ + 1, !.f = 1] ELSE F!Allocated
      /\ held' = IF op' = F!Idle THEN held \cup {op.first} ELSE held
  BY DEF F!link
<1>2. /\ fat[1] \in Table /\ op \in Calls /\ op.n \in Nat /\ op.i \in Nat
      /\ op.f \in 1 .. NumFats /\ held \in SUBSET F!Cluster
      /\ Volume(fat[1], data, ds, op, held)
  BY ONLY FatAt(ds), CallFacts
<1>3. /\ Entered(op) = c /\ op.goal \in {"caller", "file", "dir"}
      /\ op.first \in F!Cluster /\ op.i \in 0 .. op.n - 1
      /\ op.first + op.n - 1 \in F!Cluster
  BY <1>1, <1>2 DEF Entered, Volume, Phase, AtLink, Wanted, Linked
<1>4. PICK m \in Nat : m >= 2 /\ F!Cluster = 2 .. m
  BY Geometry
<1>5. c \in F!Cluster /\ v \in {F!FREE, EOC} \cup F!Cluster
  <2>0. /\ op.first \in 2 .. m /\ op.first + op.n - 1 \in 2 .. m /\ op.i \in Nat /\ op.n \in Nat
        /\ op.i <= op.n - 1
    BY <1>2, <1>3, <1>4
  <2>1. ~last => c + 1 \in 2 .. m
    BY ONLY m \in Nat, <2>0 DEF c, last
  <2>2. c \in 2 .. m
    BY <1>2, <1>3, <1>4
  <2> QED
    BY <1>4, <2>1, <2>2
<1>6. F!Idle.at = "idle"
  BY DEF F!Idle
<1>7. ASSUME NEW u, EntryAt(fat[1], u, c, v, op.f)
      PROVE  /\ ChainsOf(u, Heads(data, op, held), ds) /\ FilesGood(u, data, ds)
             /\ Firsts(data) \cap held = {} /\ Wanted(u, data, ds, op, held)
             /\ Linked(u, op.first, op.n, op.i + 1) /\ u \in Table
             /\ Unused(u, Heads(data, op, held), ds, op.first .. op.first + op.n - 1)
  <2>1. EntryAt(fat[1], u, op.first + op.i,
                IF op.i + 1 = op.n THEN EOC ELSE op.first + op.i + 1, op.f)
    BY <1>7
  <2>2. op.at = "link"
    BY <1>1
  <2>3. u \in Table
    BY <1>2, <1>5, <1>7, EntryTable
  <2>4. /\ ChainsOf(u, Heads(data, op, held), ds) /\ FilesGood(u, data, ds)
        /\ Firsts(data) \cap held = {} /\ Wanted(u, data, ds, op, held)
        /\ Linked(u, op.first, op.n, op.i + 1)
        /\ Unused(u, Heads(data, op, held), ds, op.first .. op.first + op.n - 1)
    BY ONLY <1>2, <2>1, <2>2, LinkEntered
  <2> QED
    BY <2>3, <2>4
<1> HIDE DEF c, v, last
<1>8. CASE op.f < NumFats
  <2>1. op' = [op EXCEPT !.f = op.f + 1]
    BY <1>1, <1>2, <1>8 DEF Calls
  <2>2. op.f + 1 \in 1 .. NumFats /\ op.f + 1 # 1
    BY <1>2, <1>8, Sized
  <2>3. op' \in Calls
    BY ONLY <1>2, <2>1, <2>2 DEF Calls
  <2>4. /\ SameCall(op, op') /\ op'.last = op.last /\ op'.at = op.at /\ op'.first = op.first
        /\ op'.f = op.f + 1 /\ op'.i = op.i
    BY ONLY <1>2, <2>1 DEF Calls, SameCall
  <2>5. Entered(op') = Entered(op) /\ op'.at = "link" /\ held' = held /\ op.at = "link"
    <3>1. op'.at = "link" /\ op.at = "link"
      BY <1>1, <2>4
    <3>2. held' = held
      BY <1>1, <1>6, <3>1
    <3>3. Entered(op') = Entered(op)
      BY ONLY <2>4, <3>1 DEF Entered
    <3> QED
      BY <3>1, <3>2, <3>3
  <2>6. ASSUME NEW u, EntryAt(fat[1], u, c, v, op.f) PROVE Volume(u, data, ds, op', held)
    BY ONLY <1>2, <1>3, <1>7, <2>2, <2>4, <2>5, <2>6, VolumeLinkOn
  <2> QED
    BY <1>1, <1>2, <1>3, <1>5, <2>3, <2>4, <2>5, <2>6, StepEntry
<1>9. CASE ~(op.f < NumFats)
  <2>0. op.f = NumFats
    BY <1>2, <1>9, Sized
  <2>1. CASE ~last
    <3>1. op' = [op EXCEPT !.i = op.i + 1, !.f = 1]
      BY <1>1, <1>2, <1>9, <2>1 DEF Calls
    <3>2. 1 \in 1 .. NumFats /\ op.i + 1 \in Nat /\ op.i + 1 # op.n
      BY <1>2, <2>1, Sized DEF last
    <3>3. op' \in Calls
      BY ONLY <1>2, <3>1, <3>2 DEF Calls
    <3>4. /\ SameCall(op, op') /\ op'.last = op.last /\ op'.at = op.at /\ op'.first = op.first
          /\ op'.f = 1 /\ op'.i = op.i + 1
      BY ONLY <1>2, <3>1 DEF Calls, SameCall
    <3>5. op'.at = "link" /\ held' = held /\ op.at = "link"
      BY <1>1, <1>6, <3>4
    <3>6. ASSUME NEW u, EntryAt(fat[1], u, c, v, op.f) PROVE Volume(u, data, ds, op', held)
      BY ONLY <1>2, <1>3, <1>7, <3>2, <3>4, <3>5, <3>6, VolumeLinkOn
    <3> QED
      BY <1>1, <1>2, <1>3, <1>5, <2>0, <3>3, <3>5, <3>6, StepEntry
  <2>2. CASE last
    <3>1. op' = F!Allocated /\ op.i + 1 = op.n
      BY <1>1, <1>9, <2>2 DEF last
    <3>2. ASSUME NEW u, EntryAt(fat[1], u, c, v, op.f)
          PROVE  /\ ChainsOf(u, Heads(data, op, held), ds) /\ FilesGood(u, data, ds)
                 /\ Firsts(data) \cap held = {} /\ Wanted(u, data, ds, op, held)
                 /\ Linked(u, op.first, op.n, op.n) /\ u \in Table /\ op.at = "link"
                 /\ Unused(u, Heads(data, op, held), ds, op.first .. op.first + op.n - 1)
                 /\ op.first \in F!Cluster /\ op.n \in Nat
      BY <1>1, <1>2, <1>3, <1>7, <3>1, <3>2
    <3>3. CASE op.goal = "caller"
      <4>1. op' = F!Idle /\ held' = held \cup {op.first}
        BY <1>1, <3>1, <3>3 DEF F!Allocated
      <4>2. ASSUME NEW u, EntryAt(fat[1], u, c, v, op.f) PROVE Volume(u, data, ds, op', held')
        <5>1. Volume(u, data, ds, F!Idle, held \cup {op.first})
          BY ONLY <3>2, <3>3, <4>2, VolumeLinked
        <5> QED
          BY <4>1, <5>1
      <4>3. held' \in SUBSET F!Cluster /\ op' \in Calls
        BY <1>2, <1>3, <4>1, IdleCall
      <4> QED
        BY <1>1, <1>3, <1>5, <2>0, <4>2, <4>3, StepEntry
    <3>4. CASE op.goal = "file"
      <4> DEFINE p1 == [op EXCEPT !.at = "write", !.cur = op.first, !.file = op.first]
                 p2 == [op EXCEPT !.at = "clear", !.i = 0, !.file = op.first]
      <4>1. (op' = p1 /\ op.size > 0) \/ op' = p2
        BY <3>1, <3>4 DEF F!Allocated
      <4>2. op.first \in Nat
        BY <1>3, Geometry
      <4>3. /\ p1 \in Calls /\ p1.goal = op.goal /\ p1.n = op.n /\ p1.size = op.size
            /\ p1.done = op.done /\ p1.first = op.first /\ p1.file = op.first
            /\ p1.at = "write" /\ p1.cur = op.first /\ p1.i = op.i
        BY ONLY <1>2, <4>2 DEF Calls, FatPlaces
      <4>4. /\ p2 \in Calls /\ p2.goal = op.goal /\ p2.n = op.n /\ p2.size = op.size
            /\ p2.done = op.done /\ p2.first = op.first /\ p2.file = op.first
            /\ p2.at = "clear" /\ p2.i = 0
        BY ONLY <1>2, <4>2 DEF Calls, FatPlaces
      <4> HIDE DEF p1, p2
      <4>5. op.i = op.n - 1
        BY <1>2, <3>1
      <4>6. /\ op' \in Calls /\ op'.goal = op.goal /\ op'.n = op.n /\ op'.size = op.size
            /\ op'.done = op.done /\ op'.first = op.first /\ op'.file = op.first
            /\ \/ op'.at = "write" /\ op'.cur = op.first /\ op'.size > 0 /\ op'.i = op'.n - 1
               \/ op'.at = "clear" /\ op'.i = 0
        BY <4>1, <4>3, <4>4, <4>5
      <4>7. op' # F!Idle /\ held' = held
        BY <1>1, <1>6, <4>6
      <4>8. ASSUME NEW u, EntryAt(fat[1], u, c, v, op.f) PROVE Volume(u, data, ds, op', held)
        BY ONLY <3>2, <3>4, <4>6, <4>8, VolumeLinked
      <4> QED
        BY <1>1, <1>2, <1>3, <1>5, <2>0, <4>6, <4>7, <4>8, StepEntry
    <3>5. CASE op.goal = "dir"
      <4>1. op' = [op EXCEPT !.at = "extend", !.f = 1]
        BY <3>1, <3>5 DEF F!Allocated
      <4>2. 1 \in 1 .. NumFats
        BY Sized
      <4>3. /\ op' \in Calls /\ SameCall(op, op') /\ op'.last = op.last /\ op'.at = "extend"
            /\ op'.first = op.first /\ op'.f = 1
        BY ONLY <1>2, <4>1, <4>2 DEF Calls, FatPlaces, SameCall
      <4>4. op' # F!Idle /\ held' = held
        BY <1>1, <1>6, <4>3
      <4>5. ASSUME NEW u, EntryAt(fat[1], u, c, v, op.f) PROVE Volume(u, data, ds, op', held)
        BY ONLY <3>2, <3>5, <4>3, <4>5, VolumeLinked
      <4> QED
        BY <1>1, <1>2, <1>3, <1>5, <2>0, <4>3, <4>4, <4>5, StepEntry
    <3> QED
      BY <1>3, <3>3, <3>4, <3>5
  <2> QED
    BY <2>1, <2>2
<1> QED
  BY <1>8, <1>9

LEMMA StepExtend ==
  ASSUME NEW ds, FatAt(ds), F!extend
  PROVE  FatStep(ds)
<1>1. /\ op.at = "extend" /\ g_ready' = g_ready /\ data' = data /\ held' = held
      /\ calls' = calls /\ faults' = faults
      /\ fat' = F!fat32_write_fat_entry(op.last, op.first, op.f)
      /\ op' = IF op.f < NumFats THEN [op EXCEPT !.f = @ + 1]
               ELSE [op EXCEPT !.at = "clear_dir"]
  BY DEF F!extend, F!Keep
<1>2. /\ fat[1] \in Table /\ op \in Calls /\ op.f \in 1 .. NumFats /\ held \in SUBSET F!Cluster
      /\ Volume(fat[1], data, ds, op, held) /\ op.f \in Nat /\ op.f >= 1
  BY ONLY FatAt(ds), CallFacts
<1>3. Entered(op) = op.last /\ op.last \in F!Cluster /\ op.first \in F!Cluster
  <2>1. /\ AtExtend(fat[1], data, Heads(data, op, held), ds, op)
        /\ ds \in Seq(F!Cluster) /\ Len(ds) >= 1 /\ Len(ds) \in Nat
    BY <1>1, <1>2 DEF Volume, Phase, ChainsOf, DirIs
  <2>2. Len(ds) \in 1 .. Len(ds) /\ (Len(ds) > 1 => Len(ds) - 1 \in 1 .. Len(ds))
    BY <2>1
  <2>3. op.f = 1 \/ op.f > 1
    BY <1>2
  <2> QED
    BY <1>1, <2>1, <2>2, <2>3 DEF Entered, AtExtend
<1>4. F!EnteredIn(data, ds) \subseteq F!EnteredIn(data, DirOf(ds, op))
  <2>1. PICK u : EntryAt(fat[1], u, op.last, op.first, op.f)
    BY DEF EntryAt
  <2>2. op.at = "extend"
    BY <1>1
  <2> QED
    BY ONLY <1>2, <2>1, <2>2, VolumeExtend
<1>5. op.first \in {F!FREE, EOC} \cup F!Cluster
  BY <1>3
<1>6. CASE op.f < NumFats
  <2>1. op' = [op EXCEPT !.f = op.f + 1]
    BY <1>1, <1>2, <1>6 DEF Calls
  <2>2. op.f + 1 \in 1 .. NumFats /\ op.f + 1 # 1 /\ op.f + 1 > 1
    BY <1>2, <1>6, Sized
  <2>3. op' \in Calls
    BY ONLY <1>2, <2>1, <2>2 DEF Calls
  <2>4. /\ op'.goal = op.goal /\ op'.file = op.file /\ op'.size = op.size /\ op'.first = op.first
        /\ op'.last = op.last /\ op'.at = op.at /\ op'.f = op.f + 1
    BY ONLY <1>2, <2>1 DEF Calls
  <2>5. op'.at = "extend" /\ op.at = "extend"
    BY <1>1, <2>4
  <2>6. Entered(op') = Entered(op)
    BY ONLY <2>4, <2>5 DEF Entered
  <2>7. ASSUME NEW u, EntryAt(fat[1], u, op.last, op.first, op.f)
        PROVE  Volume(u, data, DirOf(ds, op), op', held)
    BY ONLY <1>2, <2>2, <2>4, <2>5, <2>7, VolumeExtend
  <2> QED
    BY <1>1, <1>2, <1>3, <1>4, <1>5, <2>3, <2>4, <2>5, <2>6, <2>7, StepEntry
<1>7. CASE ~(op.f < NumFats)
  <2>0. op.f = NumFats
    BY <1>2, <1>7, Sized
  <2>1. op' = [op EXCEPT !.at = "clear_dir"]
    BY <1>1, <1>7
  <2>2. op' \in Calls
    BY ONLY <1>2, <2>1 DEF Calls, FatPlaces
  <2>3. /\ op'.goal = op.goal /\ op'.file = op.file /\ op'.size = op.size /\ op'.first = op.first
        /\ op'.last = op.last /\ op'.at = "clear_dir"
    BY ONLY <1>2, <2>1 DEF Calls
  <2>4. op.at = "extend"
    BY <1>1
  <2>5. ASSUME NEW u, EntryAt(fat[1], u, op.last, op.first, op.f)
        PROVE  Volume(u, data, DirOf(ds, op), op', held)
    BY ONLY <1>2, <2>3, <2>4, <2>5, VolumeExtend
  <2> QED
    BY <1>1, <1>2, <1>3, <1>4, <1>5, <2>0, <2>2, <2>4, <2>5, StepEntry
<1> QED
  BY <1>6, <1>7

LEMMA StepFree ==
  ASSUME NEW ds, FatAt(ds), F!free, ~FatReadErrors
  PROVE  FatStep(ds) /\ F!FreedAll
<1> DEFINE on == IF op.f = 1 THEN fat[1][op.cur] ELSE op.last
<1>1. /\ op.at = "free" /\ g_ready' = g_ready /\ data' = data
      /\ calls' = calls /\ faults' = faults
      /\ fat' = F!fat32_write_fat_entry(op.cur, F!FREE, op.f)
      /\ \/ op.f < NumFats /\ op' = [op EXCEPT !.f = @ + 1, !.last = on] /\ held' = held
         \/ ~(op.f < NumFats) /\ F!InChain(on) /\ op' = [op EXCEPT !.f = 1, !.cur = on] /\ held' = held
         \/ ~(op.f < NumFats) /\ ~F!InChain(on) /\ op' = F!Idle /\ held' = held \ {op.first}
  BY DEF F!free, F!ReadFails, F!next_read, F!fat32_next_cluster, F!Return
<1>2. /\ fat[1] \in Table /\ op \in Calls /\ op.f \in 1 .. NumFats /\ held \in SUBSET F!Cluster
      /\ Volume(fat[1], data, ds, op, held) /\ op.f \in Nat /\ op.f >= 1
  BY ONLY FatAt(ds), CallFacts
<1>3. Entered(op) = op.cur /\ op.cur \in F!Cluster /\ F!FREE \in {F!FREE, EOC} \cup F!Cluster
  <2>1. AtFree(fat[1], Heads(data, op, held), ds, op, held)
    BY <1>1, <1>2 DEF Volume, Phase
  <2>2. PICK z \in F!Cluster : op.cur \in op.first .. z
    BY <2>1 DEF AtFree
  <2>3. op.first \in F!Cluster
    BY <1>2, <2>1 DEF AtFree
  <2>4. PICK m \in Nat : F!Cluster = 2 .. m
    BY Geometry
  <2>5. op.cur \in F!Cluster
    BY <2>2, <2>3, <2>4
  <2> QED
    BY <1>1, <2>5 DEF Entered
<1>4. on \in Nat
  <2>1. CASE op.f = 1
    <3>1. op.cur \in F!TableIndex /\ EOC \in Nat /\ F!FREE \in Nat /\ F!Cluster \subseteq Nat
      BY <1>3, Geometry
    <3>2. fat[1][op.cur] \in {F!FREE, EOC} \cup F!Cluster
      BY <1>2, <3>1 DEF Table
    <3> QED
      BY <2>1, <3>1, <3>2
  <2>2. CASE op.f # 1
    BY <1>2, <2>2 DEF Calls
  <2> QED
    BY <2>1, <2>2
<1>5. on = IF op.f = 1 THEN fat[1][op.cur] ELSE op.last
  OBVIOUS
<1>6. op.at = "free"
  BY <1>1
<1> HIDE DEF on
<1>7. F!EnteredIn(data, ds) \subseteq F!EnteredIn(data, ds) /\ F!Idle.at = "idle"
  BY DEF F!Idle
<1>8. CASE op.f < NumFats /\ op' = [op EXCEPT !.f = @ + 1, !.last = on] /\ held' = held
  <2>1. op' = [op EXCEPT !.f = op.f + 1, !.last = on]
    BY <1>2, <1>8 DEF Calls
  <2>2. op.f + 1 \in 1 .. NumFats /\ op.f + 1 # 1
    BY <1>2, <1>8, Sized
  <2>3. op' \in Calls
    BY ONLY <1>2, <1>4, <2>1, <2>2 DEF Calls
  <2>4. /\ op'.file = op.file /\ op'.first = op.first /\ op'.chain = op.chain
        /\ op'.cur = op.cur /\ op'.last = on /\ op'.at = op.at /\ op'.f = op.f + 1
    BY ONLY <1>2, <2>1 DEF Calls
  <2>5. op'.at = "free"
    BY <1>1, <2>4
  <2>6. Entered(op') = Entered(op)
    BY ONLY <1>6, <2>4, <2>5 DEF Entered
  <2>7. ASSUME NEW u, EntryAt(fat[1], u, op.cur, F!FREE, op.f)
        PROVE  Volume(u, data, ds, op', held)
    BY ONLY <1>2, <1>5, <1>6, <2>2, <2>4, <2>5, <2>7, VolumeFree
  <2>8. FatStep(ds)
    BY <1>1, <1>2, <1>3, <1>7, <1>8, <2>3, <2>4, <2>5, <2>6, <2>7, StepEntry
  <2>9. F!FreedAll
    BY <1>7, <2>5 DEF F!FreedAll, F!FreedReported
  <2> QED
    BY <2>8, <2>9
<1>9. CASE /\ ~(op.f < NumFats) /\ F!InChain(on) /\ op' = [op EXCEPT !.f = 1, !.cur = on]
           /\ held' = held
  <2>0. op.f = NumFats
    BY <1>2, <1>9, Sized
  <2>1. 1 \in 1 .. NumFats /\ ~(1 > 1)
    BY Sized
  <2>2. op' \in Calls
    BY ONLY <1>2, <1>4, <1>9, <2>1 DEF Calls
  <2>3. /\ op'.file = op.file /\ op'.first = op.first /\ op'.chain = op.chain
        /\ op'.cur = on /\ op'.at = op.at /\ op'.f = 1
    BY ONLY <1>2, <1>9 DEF Calls
  <2>4. op'.at = "free" /\ ~(op'.f > 1)
    BY <1>1, <2>1, <2>3
  <2>5. ASSUME NEW u, EntryAt(fat[1], u, op.cur, F!FREE, op.f)
        PROVE  Volume(u, data, ds, op', held)
    BY ONLY <1>2, <1>5, <1>6, <1>9, <2>3, <2>4, <2>5, VolumeFree
  <2>6. FatStep(ds)
    BY <1>1, <1>2, <1>3, <1>7, <1>9, <2>0, <2>2, <2>5, StepEntry
  <2>7. F!FreedAll
    BY <1>7, <2>4 DEF F!FreedAll, F!FreedReported
  <2> QED
    BY <2>6, <2>7
<1>10. CASE ~(op.f < NumFats) /\ ~F!InChain(on) /\ op' = F!Idle /\ held' = held \ {op.first}
  <2>0. op.f = NumFats /\ held' \in SUBSET F!Cluster /\ op' \in Calls
    BY <1>2, <1>10, Sized, IdleCall
  <2>1. ASSUME NEW u, EntryAt(fat[1], u, op.cur, F!FREE, op.f)
        PROVE  /\ Volume(u, data, ds, F!Idle, held \ {op.first})
               /\ AllFree(u, op.chain)
    <3>1. Volume(u, data, ds, F!Idle, held \ {op.first})
      BY ONLY <1>2, <1>5, <1>6, <2>1, VolumeFree
    <3>2. ~F!InChain(on)
      BY <1>10
    <3>3. AllFree(u, op.chain)
      BY ONLY <1>2, <1>5, <1>6, <2>1, <3>2, FreedLast
    <3> QED
      BY <3>1, <3>3
  <2>2. \A u : EntryAt(fat[1], u, op.cur, F!FREE, op.f) => Volume(u, data, ds, op', held')
    BY <1>10, <2>1
  <2>3. FatStep(ds)
    BY <1>1, <1>3, <1>7, <2>0, <2>2, StepEntry
  <2>4. EntryAt(fat[1], fat'[1], op.cur, F!FREE, op.f)
    <3>1. fat' = Entering(fat, op.cur, F!FREE, op.f) /\ fat \in [1 .. NumFats -> Table]
      BY <1>1 DEF F!fat32_write_fat_entry, Entering, FatAt, FatTypes
    <3> QED
      BY ONLY <1>2, <1>3, <3>1, EntryFacts
  <2>5. F!FreedAll
    BY <2>1, <2>4 DEF F!FreedAll, F!FreedReported, AllFree
  <2> QED
    BY <2>3, <2>5
<1> QED
  BY <1>1, <1>8, <1>9, <1>10

(* A fault, a mount, and steps of nobody. *)
LEMMA StepFault ==
  ASSUME NEW ds, FatAt(ds), F!io_error \/ F!power_failure
  PROVE  FatStep(ds)
<1>1. /\ faults < MaxFaults /\ faults' = faults + 1 /\ op' = F!Idle /\ fat' = fat /\ data' = data
      /\ calls' = calls /\ held' = IF op.at = "free" THEN held \ {op.first} ELSE held
      /\ g_ready' \in {g_ready, FALSE}
  BY DEF F!io_error, F!power_failure, F!Fault, F!Abandon, F!Return
<1>2. faults' \in 0 .. MaxFaults /\ faults' # 0
  BY <1>1, Sized DEF FatAt, FatTypes
<1>3. held' \in SUBSET F!Cluster
  BY <1>1 DEF FatAt, FatTypes
<1>4. FatTypes'
  BY <1>1, <1>2, <1>3, IdleCall DEF FatAt, FatTypes
<1>5. Copies(fat', op', faults')
  BY <1>2 DEF Copies
<1>6. Volume(fat[1], data, ds, F!Idle, held')
  BY <1>1, Abandoned DEF FatAt
<1>7. Moves(ds)
  BY <1>1, <1>6 DEF Moves
<1> QED
  BY <1>4, <1>5, <1>7 DEF FatStep

LEMMA StepNone ==
  ASSUME NEW ds, FatAt(ds), F!fat32_init \/ UNCHANGED fvars
  PROVE  FatStep(ds)
<1>1. /\ fat' = fat /\ data' = data /\ op' = op /\ held' = held /\ calls' = calls
      /\ faults' = faults /\ g_ready' \in {g_ready, TRUE}
  BY DEF F!fat32_init, fvars
<1>2. FatTypes' /\ Copies(fat', op', faults')
  BY <1>1 DEF FatAt, FatTypes
<1>3. Moves(ds)
  BY <1>1 DEF Moves, FatAt
<1> QED
  BY <1>2, <1>3 DEF FatStep

(* fat32_free_chain returns in its own step only. *)
LEMMA FreesOnly ==
  ASSUME NEW ds, FatAt(ds), F!Next \/ UNCHANGED fvars, ~F!free
  PROVE  F!FreedAll
<1> SUFFICES ASSUME op.at = "free", op' = F!Idle, faults' = faults PROVE FALSE
  BY DEF F!FreedAll, F!FreedReported
<1>1. F!Idle.at = "idle" /\ op # op' /\ faults \in Nat
  BY Sized DEF F!Idle, FatAt, FatTypes
<1>2. ~F!Call
  BY <1>1 DEF F!Call, F!fat32_alloc_clusters, F!fat32_create_file, F!fat32_free_chain,
              F!fat32_write_file, F!Begin
<1>3. ~F!io_error /\ ~F!power_failure
  BY <1>1 DEF F!io_error, F!power_failure, F!Fault
<1>4. ~F!fat32_init /\ ~UNCHANGED fvars
  BY <1>1 DEF F!fat32_init, fvars
<1>5. /\ ~F!scan /\ ~F!link /\ ~F!write /\ ~F!clear /\ ~F!search /\ ~F!extend /\ ~F!clear_dir
      /\ ~F!enter
  BY DEF F!scan, F!link, F!write, F!clear, F!search, F!extend, F!clear_dir, F!enter
<1> QED
  BY <1>2, <1>3, <1>4, <1>5 DEF F!Next, F!Step

LEMMA FatNext ==
  ASSUME NEW ds, FatAt(ds), F!Next \/ UNCHANGED fvars, ~FatReadErrors
  PROVE  FatStep(ds) /\ F!NoneLost /\ F!FreedAll
<1>1. FatStep(ds) /\ F!FreedAll
  <2>1. CASE F!free
    BY <2>1, StepFree
  <2>2. CASE ~F!free
    <3>1. F!FreedAll
      BY <2>2, FreesOnly
    <3>2. FatStep(ds)
      BY <2>2, StepCall, StepScan, StepLink, StepWrite, StepClear, StepSearch, StepExtend,
         StepClearDir, StepEnter, StepFault, StepNone DEF F!Next, F!Step
    <3> QED
      BY <3>1, <3>2
  <2> QED
    BY <2>1, <2>2
<1>2. PICK es : /\ Volume(fat'[1], data', es, op', held')
                /\ F!EnteredIn(data, ds) \subseteq F!EnteredIn(data', es)
  BY <1>1 DEF FatStep, Moves
<1>3. F!Entered = F!EnteredIn(data, ds)
  BY FoundIs DEF F!Entered, F!Chain, FatAt
<1>4. F!ChainIn(fat'[1], F!Root) = es
  BY <1>2, FoundIs
<1>5. F!NoneLost
  BY <1>2, <1>3, <1>4 DEF F!NoneLost
<1> QED
  BY <1>1, <1>5

-----------------------------------------------------------------------------
(* What is in the directory's clusters. *)

(* Nothing is written, or no directory cluster with bytes. *)
LEMMA CleanKept ==
  ASSUME NEW d, NEW d2, NEW ds, NEW o, NEW p, NEW x, Clean(d, ds, o, x),
         Uncleared(o) => Uncleared(p),
         \A k \in 1 .. Len(ds), i \in 1 .. ENTRIES :
           d2[ds[k]][i].kind \in {"bytes", "stale"} => d2[ds[k]][i] = d[ds[k]][i]
  PROVE  Clean(d2, ds, p, x)
BY DEF Clean

LEMMA CleanWrite ==
  ASSUME NEW ds, FatAt(ds), Clean(data, ds, op, exposed), F!write
  PROVE  Clean(data', ds, op', exposed')
<1>1. /\ op.at = "write" /\ exposed' = exposed
      /\ data' = [data EXCEPT ![op.cur] = F!Bytes(op.first)]
  BY DEF F!write, F!Keep
<1>2. /\ AtWrite(fat[1], data, op, held) /\ ChainsOf(fat[1], Heads(data, op, held), ds)
      /\ data \in Clusters
  BY <1>1 DEF FatAt, FatTypes, Volume, Phase
<1>3. op.first \in Heads(data, op, held)
  BY <1>2 DEF AtWrite, Fills, Heads
<1>4. Reach(fat[1], op.first, op.cur)
  BY <1>2 DEF AtWrite
<1>5. \A k \in 1 .. Len(ds) : ds[k] # op.cur /\ ds[k] \in F!Cluster
  BY <1>2, <1>3, <1>4 DEF ChainsOf, DirIs
<1>6. \A k \in 1 .. Len(ds) : data'[ds[k]] = data[ds[k]]
  BY ONLY <1>1, <1>2, <1>5 DEF Clusters
<1>7. ~Uncleared(op)
  BY <1>1 DEF Uncleared
<1>8. \A k \in 1 .. Len(ds), i \in 1 .. ENTRIES :
        data'[ds[k]][i].kind \in {"bytes", "stale"} => data'[ds[k]][i] = data[ds[k]][i]
  BY ONLY <1>6
<1>9. exposed' = exposed
  BY <1>1
<1> QED
  BY ONLY <1>7, <1>8, <1>9, Clean(data, ds, op, exposed), CleanKept

LEMMA CleanZero ==
  ASSUME NEW ds, FatAt(ds), Clean(data, ds, op, exposed), F!clear \/ F!clear_dir \/ F!enter
  PROVE  Clean(data', ds, op', exposed')
<1> DEFINE x == IF op.at = "clear" THEN op.first + op.i ELSE op.first
           r == IF op.at = "enter" THEN [F!Zero EXCEPT ![1] = F!Entry] ELSE F!Zero
<1>1. /\ op.at \in {"clear", "clear_dir", "enter"} /\ exposed' = exposed
      /\ data' = [data EXCEPT ![x] = r]
  BY DEF F!clear, F!clear_dir, F!enter, F!Keep
<1>2. \A i \in 1 .. ENTRIES : r[i].kind \in {"end", "file"}
  <2>1. \A i \in 1 .. ENTRIES : F!Zero[i].kind = "end"
    BY DEF F!Zero, F!Slot
  <2>2. \A i \in 1 .. ENTRIES : [F!Zero EXCEPT ![1] = F!Entry][i] \in {F!Zero[i], F!Entry}
    BY DEF F!Zero
  <2>3. F!Entry.kind = "file"
    BY DEF F!Entry, F!Slot
  <2> QED
    BY <2>1, <2>2, <2>3
<1>3. op.at = "clear_dir" => x = ds[Len(ds)]
  BY DEF FatAt, Volume, Phase, Fresh
<1>4. data \in Clusters /\ ds \in Seq(F!Cluster)
  BY DEF FatAt, FatTypes, Volume, ChainsOf, DirIs
<1>5. \A k \in 1 .. Len(ds) : ds[k] \in F!Cluster
  BY <1>4
<1> HIDE DEF x, r
<1>6. \A k \in 1 .. Len(ds) : data'[ds[k]] = IF ds[k] = x THEN r ELSE data[ds[k]]
  BY ONLY <1>1, <1>4, <1>5 DEF Clusters
<1>7. CASE op.at = "clear_dir"
  <2> SUFFICES ASSUME ~exposed, NEW k \in 1 .. Len(ds), NEW i \in 1 .. ENTRIES,
                      data'[ds[k]][i].kind \in {"bytes", "stale"}
               PROVE  FALSE
    BY <1>1 DEF Clean
  <2>1. ds[k] # x
    BY <1>2, <1>6
  <2>2. data[ds[k]][i].kind \in {"bytes", "stale"}
    BY <1>6, <2>1
  <2>3. k = Len(ds)
    BY <2>2 DEF Clean
  <2> QED
    BY <1>3, <1>7, <2>1, <2>3
<1>8. CASE op.at # "clear_dir"
  <2>1. ~Uncleared(op)
    BY <1>1, <1>8 DEF Uncleared
  <2>2. \A k \in 1 .. Len(ds), i \in 1 .. ENTRIES :
          data'[ds[k]][i].kind \in {"bytes", "stale"} => data'[ds[k]][i] = data[ds[k]][i]
    BY <1>2, <1>6
  <2> QED
    BY ONLY <1>1, <2>1, <2>2, Clean(data, ds, op, exposed), CleanKept
<1> QED
  BY <1>7, <1>8

LEMMA CleanSearch ==
  ASSUME NEW ds, FatAt(ds), Clean(data, ds, op, exposed), F!search
  PROVE  Clean(data', ds, op', exposed')
<1>1. op.at = "search" /\ exposed' = exposed
  BY DEF F!search
<1>2. ~Uncleared(op)
  BY <1>1 DEF Uncleared
<1>3. \A k \in 1 .. Len(ds), i \in 1 .. ENTRIES :
        data'[ds[k]][i].kind \in {"bytes", "stale"} => data'[ds[k]][i] = data[ds[k]][i]
  <2>1. CASE data' = data
    BY <2>1
  <2>2. ASSUME NEW j \in 1 .. ENTRIES, data' = [data EXCEPT ![op.cur][j] = F!Entry]
        PROVE  \A k \in 1 .. Len(ds), i \in 1 .. ENTRIES :
                 data'[ds[k]][i].kind \in {"bytes", "stale"} => data'[ds[k]][i] = data[ds[k]][i]
    <3>1. F!Entry.kind = "file"
      BY DEF F!Entry, F!Slot
    <3>2. data \in Clusters /\ ds \in Seq(F!Cluster)
      BY DEF FatAt, FatTypes, Volume, ChainsOf, DirIs
    <3>3. \A k \in 1 .. Len(ds) : ds[k] \in F!Cluster
      BY <3>2
    <3>4. \A k \in 1 .. Len(ds), i \in 1 .. ENTRIES :
            data'[ds[k]][i] \in {data[ds[k]][i], F!Entry}
      BY ONLY <2>2, <3>2, <3>3 DEF Clusters
    <3> QED
      BY ONLY <3>1, <3>4
  <2> QED
    BY <2>1, <2>2 DEF F!search
<1> QED
  BY ONLY <1>1, <1>2, <1>3, Clean(data, ds, op, exposed), CleanKept

LEMMA CleanExtend ==
  ASSUME NEW ds, FatAt(ds), Clean(data, ds, op, exposed), F!extend,
         NEW es, es = ds \/ es = DirOf(ds, op)
  PROVE  Clean(data', es, op', exposed')
<1>1. /\ op.at = "extend" /\ exposed' = exposed /\ data' = data
      /\ op' = IF op.f < NumFats THEN [op EXCEPT !.f = @ + 1]
               ELSE [op EXCEPT !.at = "clear_dir"]
  BY DEF F!extend, F!Keep
<1>2. op \in Calls /\ op.f \in Nat /\ op.f >= 1
  BY ONLY FatAt(ds), CallFacts
<1>3. Uncleared(op')
  <2>1. CASE op.f < NumFats
    <3>1. op' = [op EXCEPT !.f = op.f + 1]
      BY <1>1, <2>1
    <3>2. op'.at = op.at /\ op'.f = op.f + 1
      BY ONLY <1>2, <3>1 DEF Calls
    <3> QED
      BY <1>1, <1>2, <3>2 DEF Uncleared
  <2>2. CASE ~(op.f < NumFats)
    <3>1. op' = [op EXCEPT !.at = "clear_dir"]
      BY <1>1, <2>2
    <3>2. op'.at = "clear_dir"
      BY ONLY <1>2, <3>1 DEF Calls
    <3> QED
      BY <3>2 DEF Uncleared
  <2> QED
    BY <2>1, <2>2
<1>4. CASE es = ds
  BY ONLY <1>1, <1>3, <1>4, Clean(data, ds, op, exposed), CleanKept
<1>5. CASE op.f = 1 /\ es = Append(ds, op.first)
  <2>1. ds \in Seq(F!Cluster) /\ Len(ds) \in Nat
    BY DEF FatAt, Volume, ChainsOf, DirIs
  <2>2. Len(es) = Len(ds) + 1 /\ \A k \in 1 .. Len(ds) : es[k] = ds[k]
    BY <1>5, <2>1
  <2>3. ~Uncleared(op)
    BY <1>1, <1>5 DEF Uncleared
  <2> SUFFICES ASSUME ~exposed, NEW k \in 1 .. Len(es), NEW i \in 1 .. ENTRIES,
                      data[es[k]][i].kind \in {"bytes", "stale"}
               PROVE  k = Len(es)
    BY <1>1, <1>3 DEF Clean
  <2>4. CASE k \in 1 .. Len(ds)
    BY <2>2, <2>3, <2>4 DEF Clean
  <2> QED
    BY <2>1, <2>2, <2>4
<1> QED
  BY <1>4, <1>5 DEF DirOf

(* Steps that write no cluster and link none to the directory. *)
LEMMA CleanRest ==
  ASSUME NEW ds, Clean(data, ds, op, exposed),
         \/ F!Call \/ F!scan \/ F!link \/ F!free \/ F!io_error \/ F!power_failure
         \/ F!fat32_init \/ UNCHANGED fvars
  PROVE  Clean(data', ds, op', exposed')
<1>1. CASE F!io_error \/ F!power_failure
  <2>1. data' = data /\ (~exposed' => ~exposed /\ ~F!Uncleared)
    BY <1>1 DEF F!io_error, F!power_failure, F!Abandon
  <2>2. F!Uncleared <=> Uncleared(op)
    BY DEF F!Uncleared, Uncleared
  <2> QED
    BY <2>1, <2>2 DEF Clean
<1>2. CASE F!fat32_init \/ UNCHANGED fvars
  <2>1. data' = data /\ op' = op /\ exposed' = exposed
    BY <1>2 DEF F!fat32_init, fvars
  <2> QED
    BY ONLY <2>1, Clean(data, ds, op, exposed)
<1>3. CASE F!Call \/ F!scan \/ F!link \/ F!free
  <2>1. F!Idle.at = "idle"
    BY DEF F!Idle
  <2>2. data' = data /\ exposed' = exposed /\ op.at \in {"idle", "scan", "link", "free"}
    BY <1>3, <2>1 DEF F!Call, F!fat32_alloc_clusters, F!fat32_create_file, F!fat32_free_chain,
       F!fat32_write_file, F!Begin, F!scan, F!link, F!free
  <2>3. ~Uncleared(op)
    BY <2>2 DEF Uncleared
  <2> QED
    BY ONLY <2>2, <2>3, Clean(data, ds, op, exposed), CleanKept
<1> QED
  BY <1>1, <1>2, <1>3

LEMMA CleanNext ==
  ASSUME NEW ds, FatAt(ds), Clean(data, ds, op, exposed), F!Next \/ UNCHANGED fvars,
         NEW es, es = ds \/ (F!extend /\ es = DirOf(ds, op))
  PROVE  Clean(data', es, op', exposed')
<1>1. CASE F!extend
  BY <1>1, CleanExtend
<1>2. CASE ~F!extend
  BY <1>2, CleanWrite, CleanZero, CleanSearch, CleanRest DEF F!Next, F!Step
<1> QED
  BY <1>1, <1>2

LEMMA FatInit ==
  ASSUME F!Init
  PROVE  FatInv
<1> DEFINE t == [c \in F!TableIndex |-> IF c <= F!Root THEN EOC ELSE F!FREE]
<1>0. PICK kd \in {"deleted", "label"} :
        data = [c \in F!Cluster |->
                  IF c = F!Root THEN [F!Zero EXCEPT ![1] = F!Slot(kd, F!NoName, 0, 0)]
                  ELSE F!Stale]
  BY DEF F!Init
<1>1. /\ g_ready = FALSE /\ fat = [f \in 1 .. NumFats |-> t] /\ op = F!Idle /\ held = {}
      /\ calls = 0 /\ faults = 0
  BY DEF F!Init
<1>2. t \in Table
  BY DEF Table
<1>3. Volume(t, data, << F!Root >>, F!Idle, {})
  BY ONLY <1>0, VolumeFormatted DEF t
<1> HIDE DEF t
<1>4. fat \in [1 .. NumFats -> Table] /\ \A f \in 1 .. NumFats : fat[f] = t
  BY <1>1, <1>2
<1>5. fat[1] = t /\ calls \in 0 .. MaxCalls /\ faults \in 0 .. MaxFaults
  BY <1>1, <1>4, Sized
<1>6. data \in Clusters
  <2>1. F!Slot(kd, F!NoName, 0, 0) \in SlotSet /\ F!Slot("stale", F!NoName, 0, 0) \in SlotSet
    BY DEF F!Slot, SlotSet
  <2>2. F!Stale \in [1 .. ENTRIES -> SlotSet]
    BY <2>1 DEF F!Stale
  <2>3. [F!Zero EXCEPT ![1] = F!Slot(kd, F!NoName, 0, 0)] \in [1 .. ENTRIES -> SlotSet]
    BY ONLY <2>1, RowTypes
  <2> QED
    BY ONLY <1>0, <2>2, <2>3 DEF Clusters
<1>7. FatTypes
  BY <1>1, <1>4, <1>5, <1>6, IdleCall DEF FatTypes
<1>8. Copies(fat, op, faults)
  BY <1>4, <1>5 DEF Copies
<1>9. Clean(data, << F!Root >>, op, exposed)
  <2>1. \A k \in 1 .. Len(<< F!Root >>) : << F!Root >>[k] = F!Root
    OBVIOUS
  <2>2. \A i \in 1 .. ENTRIES :
          [F!Zero EXCEPT ![1] = F!Slot(kd, F!NoName, 0, 0)][i]
            \in {F!Zero[i], F!Slot(kd, F!NoName, 0, 0)}
    BY DEF F!Zero
  <2>3. \A i \in 1 .. ENTRIES : F!Zero[i].kind = "end"
    BY DEF F!Zero, F!Slot
  <2>4. F!Slot(kd, F!NoName, 0, 0).kind = kd
    BY DEF F!Slot
  <2>5. F!Root \in F!Cluster
    BY Geometry
  <2>6. data[F!Root] = [F!Zero EXCEPT ![1] = F!Slot(kd, F!NoName, 0, 0)]
    BY ONLY <1>0, <2>5
  <2>7. \A i \in 1 .. ENTRIES : data[F!Root][i].kind \notin {"bytes", "stale"}
    BY ONLY <2>2, <2>3, <2>4, <2>6, kd \in {"deleted", "label"}
  <2> QED
    BY <2>1, <2>7 DEF Clean
<1> QED
  BY <1>1, <1>3, <1>5, <1>7, <1>8, <1>9 DEF FatInv

-----------------------------------------------------------------------------
(* What the invariant says of the volume. *)

LEMMA ChainOf ==
  ASSUME fat[1] \in Table, NEW a \in F!Cluster, Whole(fat[1], a)
  PROVE  /\ \A c \in F!ClustersOf(a) : c \in F!Cluster /\ Reach(fat[1], a, c)
         /\ \E z \in F!Cluster : /\ Reach(fat[1], a, z) /\ fat[1][z] = EOC
                                 /\ F!Chain(a) # F!NoChain /\ Len(F!Chain(a)) = z - a + 1
                                 /\ F!Chain(a)[Len(F!Chain(a))] = z
<1>1. PICK z \in F!Cluster : Reach(fat[1], a, z) /\ fat[1][z] = EOC
  BY DEF Whole
<1>2. PICK m \in Nat : F!Cluster = 2 .. m
  BY Geometry
<1> DEFINE n == z - a + 1
<1>3. /\ a \in 2 .. m /\ z \in 2 .. m /\ a <= z /\ n \in Nat /\ n >= 1 /\ a + n - 1 = z
      /\ \A e \in a .. z - 1 : fat[1][e] = e + 1
  BY <1>1, <1>2 DEF Reach
<1>4. F!Chain(a) = [k \in 1 .. n |-> a + k - 1]
  BY <1>1, RunChain DEF F!Chain
<1> HIDE DEF n
<1>5. /\ DOMAIN F!Chain(a) = 1 .. n /\ \A k \in 1 .. n : F!Chain(a)[k] = a + k - 1
      /\ Len(F!Chain(a)) = n
  BY <1>3, <1>4
<1>6. ASSUME NEW c \in F!ClustersOf(a) PROVE c \in F!Cluster /\ Reach(fat[1], a, c)
  <2>1. PICK k \in 1 .. n : c = a + k - 1
    BY <1>5 DEF F!ClustersOf
  <2>2. c \in 2 .. m /\ a <= c /\ c <= z
    BY <1>3, <2>1
  <2>3. \A e \in a .. c - 1 : e \in a .. z - 1
    BY <1>3, <2>2
  <2> QED
    BY <1>2, <1>3, <2>2, <2>3 DEF Reach
<1>7. F!Chain(a) # F!NoChain
  <2>1. Len(F!NoChain) = 0
    BY DEF F!NoChain
  <2> QED
    BY <1>3, <1>5, <2>1
<1>8. F!Chain(a)[Len(F!Chain(a))] = z
  <2>1. n \in 1 .. n
    BY ONLY <1>3
  <2>2. F!Chain(a)[n] = a + n - 1
    BY ONLY <1>5, <2>1
  <2> QED
    BY ONLY <1>3, <1>5, <2>2
<1> QED
  BY <1>1, <1>5, <1>6, <1>7, <1>8 DEF n

LEMMA SoundTypes ==
  ASSUME NEW ds, FatAt(ds)
  PROVE  F!TypeOK
<1>1. /\ g_ready \in BOOLEAN /\ fat \in [1 .. NumFats -> Table] /\ DOMAIN data = F!Cluster
      /\ held \subseteq F!Cluster /\ calls \in 0 .. MaxCalls /\ faults \in 0 .. MaxFaults
      /\ op \in Calls
  BY DEF FatAt, FatTypes, Clusters
<1>2. PICK m \in Nat : F!Cluster = 2 .. m
  BY Geometry
<1>3. Phase(fat[1], data, Heads(data, op, held), ds, op, held)
  BY DEF FatAt, Volume
<1>4. op.first \in Nat /\ op.i \in Nat /\ op.n \in Nat
  BY <1>1 DEF Calls
<1>5. ASSUME op.first \in F!Cluster, op.i \in 0 .. op.n - 1, op.first + op.n - 1 \in F!Cluster
      PROVE  op.first + op.i \in F!Cluster
  BY <1>2, <1>4, <1>5
<1>6. ASSUME op.at \in {"link", "write", "clear"} PROVE op.first + op.i \in F!Cluster
  <2>1. CASE op.at = "link"
    BY <1>3, <1>5, <2>1 DEF Phase, AtLink, Linked
  <2>2. CASE op.at = "clear"
    BY <1>3, <1>5, <2>2 DEF Phase, AtClear, Fills, Linked
  <2>3. CASE op.at = "write"
    <3>1. AtWrite(fat[1], data, op, held)
      BY <1>3, <2>3 DEF Phase
    <3>2. CASE op.goal = "caller"
      <4>1. op.first \in F!Cluster /\ op.i = 0
        BY <3>1, <3>2 DEF AtWrite, Firsts
      <4> QED
        BY <1>2, <1>4, <4>1
    <3>3. CASE op.goal = "file"
      <4>1. /\ op.first \in F!Cluster /\ op.first + op.n - 1 \in F!Cluster /\ op.n >= 1
            /\ op.i = op.n - 1
        BY <3>1, <3>3 DEF AtWrite, Fills, Linked
      <4> QED
        BY <1>4, <1>5, <4>1
    <3> QED
      BY <3>1, <3>2, <3>3 DEF AtWrite
  <2> QED
    BY <1>6, <2>1, <2>2, <2>3
<1> QED
  BY <1>1, <1>6 DEF F!TypeOK, Table

LEMMA SoundVolume ==
  ASSUME NEW ds, FatAt(ds)
  PROVE  F!ChainsApart /\ F!ListedIsWhole /\ F!NoForeignBytes
<1> DEFINE t == fat[1]
           K == Heads(data, op, held)
<1>1. /\ t \in Table /\ Volume(t, data, ds, op, held) /\ ChainsOf(t, K, ds)
      /\ DirIs(t, ds)
  BY Sized DEF FatAt, FatTypes, Volume, ChainsOf
<1>2. /\ F!Entered = F!EnteredIn(data, ds) /\ F!Chain(F!Root) = ds /\ ds \in Seq(F!Cluster)
      /\ \A e \in F!Entered : e.first \in Firsts(data) /\ FileGood(t, data, e.first, e.size)
  BY <1>1, FoundIs DEF F!Entered, F!Chain
<1>3. \A a \in K : a \in F!Cluster /\ Whole(t, a)
  BY <1>1 DEF ChainsOf
<1>4. Firsts(data) \subseteq K /\ Kept(op, held) \subseteq K
  BY DEF Heads
<1> HIDE DEF K
<1>5. ASSUME NEW a \in K, NEW c \in F!ClustersOf(a) PROVE c \in F!Cluster /\ Reach(t, a, c)
  BY <1>1, <1>3, <1>5, ChainOf
<1>6. \A a \in K : F!ClustersOf(a) \cap F!ClustersOf(F!Root) = {} /\ a # F!Root
  <2>1. ASSUME NEW a \in K, NEW c \in F!ClustersOf(a), c \in F!ClustersOf(F!Root) PROVE FALSE
    <3>1. PICK k \in 1 .. Len(ds) : c = ds[k]
      BY <1>2, <2>1 DEF F!ClustersOf
    <3> QED
      BY <1>1, <1>5, <3>1 DEF ChainsOf
  <2>2. ASSUME F!Root \in K PROVE FALSE
    <3>1. Reach(t, F!Root, F!Root)
      <4>1. F!Root \in Nat
        BY Geometry
      <4> QED
        BY <1>3, <2>2, <4>1 DEF Reach
    <3>2. 1 \in 1 .. Len(ds) /\ ds[1] = F!Root
      BY <1>1 DEF DirIs
    <3> QED
      BY <1>1, <2>2, <3>1, <3>2 DEF ChainsOf
  <2> QED
    BY <2>1, <2>2
<1>7. F!ChainsApart
  <2> DEFINE heads == {e.first : e \in F!Entered}
                        \cup {c \in held : ~(op.at = "free" /\ c = op.first)}
  <2>1. heads \subseteq K
    BY <1>2, <1>4 DEF Kept
  <2>2. ASSUME NEW a \in K, NEW b \in K, a # b
        PROVE  F!ClustersOf(a) \cap F!ClustersOf(b) = {}
    BY <1>1, <1>5, <2>2, Apart
  <2>3. /\ \A a, b \in heads : a # b => F!ClustersOf(a) \cap F!ClustersOf(b) = {}
        /\ \A a \in heads : a # F!Root /\ F!ClustersOf(a) \cap F!ClustersOf(F!Root) = {}
    BY <1>6, <2>1, <2>2
  <2> QED
    BY <2>3 DEF F!ChainsApart
<1>8. F!ListedIsWhole
  <2> SUFFICES ASSUME NEW e \in F!Entered
               PROVE  /\ F!Chain(e.first) # F!NoChain
                      /\ t[F!Chain(e.first)[Len(F!Chain(e.first))]] = EOC
                      /\ e.size + CB <= SizeMod => Len(F!Chain(e.first)) * CB >= e.size
    BY DEF F!ListedIsWhole, CB
  <2>1. e.first \in K /\ FileGood(t, data, e.first, e.size)
    BY <1>2, <1>4
  <2>2. PICK z \in F!Cluster :
          /\ Reach(t, e.first, z) /\ t[z] = EOC
          /\ F!Chain(e.first) # F!NoChain /\ Len(F!Chain(e.first)) = z - e.first + 1
          /\ F!Chain(e.first)[Len(F!Chain(e.first))] = z
    BY <1>1, <1>3, <2>1, ChainOf
  <2>3. e.size + CB <= SizeMod => (z - e.first + 1) * CB >= e.size
    BY <2>1, <2>2 DEF FileGood
  <2> QED
    BY <2>2, <2>3
<1>9. F!NoForeignBytes
  <2> SUFFICES ASSUME NEW e \in F!Entered, NEW c \in F!ClustersOf(e.first), NEW i \in 1 .. ENTRIES
               PROVE  data[c][i] = F!Bytes(e.first)[i] \/ data[c][i] = F!Zero[i]
    BY DEF F!NoForeignBytes
  <2>1. e.first \in K /\ FileGood(t, data, e.first, e.size)
    BY <1>2, <1>4
  <2>2. c \in F!Cluster /\ Reach(t, e.first, c)
    BY <1>5, <2>1
  <2>3. Filled(data, c, e.first)
    BY <2>1, <2>2 DEF FileGood
  <2> QED
    BY <2>3 DEF Filled
<1> QED
  BY <1>7, <1>8, <1>9

LEMMA SoundFound ==
  ASSUME NEW ds, FatAt(ds), Clean(data, ds, op, exposed)
  PROVE  F!NoPhantoms
<1> SUFFICES ASSUME ~F!Uncleared, ~exposed PROVE F!Found = F!Entered
  BY DEF F!NoPhantoms
<1>1. F!Chain(F!Root) = ds /\ ds \in Seq(F!Cluster)
  BY FoundIs DEF F!Chain, FatAt
<1>2. ~Uncleared(op)
  BY DEF F!Uncleared, Uncleared
<1>3. \A k \in 1 .. Len(ds), i \in 1 .. ENTRIES : data[ds[k]][i].kind \notin {"bytes", "stale"}
  BY <1>2 DEF Clean
<1>4. DOMAIN ds = 1 .. Len(ds)
  BY <1>1
<1> DEFINE Shown(kinds) ==
             {p \in (DOMAIN ds) \X (1 .. ENTRIES) :
                data[ds[p[1]]][p[2]].kind \in kinds /\ ~F!EndedAt(data, ds, p[1], p[2])}
<1>5. Shown({"file", "bytes", "stale"}) = Shown({"file"})
  <2>1. ASSUME NEW p \in (DOMAIN ds) \X (1 .. ENTRIES)
        PROVE  data[ds[p[1]]][p[2]].kind \in {"file", "bytes", "stale"}
                 <=> data[ds[p[1]]][p[2]].kind \in {"file"}
    BY <1>3, <1>4
  <2> QED
    BY <2>1
<1> QED
  BY <1>1, <1>5 DEF F!Found, F!Entered, F!EnteredIn, F!ListedIn

LEMMA SoundCopies ==
  ASSUME FatInv
  PROVE  F!CopiesAgree
<1> SUFFICES ASSUME op = F!Idle, faults = 0, NEW f \in 1 .. NumFats PROVE fat[f] = fat[1]
  BY DEF F!CopiesAgree
<1>1. op.at = "idle"
  BY DEF F!Idle
<1> QED
  BY <1>1 DEF FatInv, Copies

LEMMA FatInvAt == FatInv <=> \E ds : FatAt(ds) /\ Clean(data, ds, op, exposed)
BY DEF FatInv, FatAt

-----------------------------------------------------------------------------
(* In the storage stack only the volume's own steps touch it. *)
LEMMA FatPart ==
  ASSUME [Next]_vars
  PROVE  F!Next \/ UNCHANGED fvars
BY DEF Next, vars

(* FatInv holds in every state, for every geometry of a volume, every      *)
(* number of calls and whatever I/O errors and power failures come between *)
(* two sectors.  The read error that fat32_next_cluster hides as the end   *)
(* of a chain is left out here: it cuts the directory off, and ds is then  *)
(* not the only place of entries.  With it the properties are only         *)
(* model-checked.                                                          *)
THEOREM FatInvariance ==
  ASSUME ~FatReadErrors
  PROVE  Spec => []FatInv
<1>1. Init => FatInv
  BY FatInit DEF Init
<1>2. FatInv /\ [Next]_vars => FatInv'
  <2> SUFFICES ASSUME FatInv, [Next]_vars PROVE FatInv'
    OBVIOUS
  <2>1. PICK ds : FatAt(ds) /\ Clean(data, ds, op, exposed)
    BY FatInvAt
  <2>2. FatStep(ds)
    BY <2>1, FatPart, FatNext
  <2>3. PICK es : /\ es = ds \/ (F!extend /\ es = DirOf(ds, op))
                  /\ Volume(fat'[1], data', es, op', held')
    BY <2>2 DEF FatStep, Moves
  <2>4. Clean(data', es, op', exposed')
    BY <2>1, <2>3, FatPart, CleanNext
  <2> QED
    BY <2>2, <2>3, <2>4 DEF FatInv, FatStep
<1> QED
  BY <1>1, <1>2, PTL DEF Spec

(* The volume is sound after every sector the driver writes, so also when  *)
(* power fails there: no cluster is in two chains, every file the root     *)
(* directory lists has its chain whole and long enough and only its own    *)
(* bytes or zeroes in it, calls stay inside the volume, without a fault    *)
(* the copies of the table agree, and fat32_find_file finds nothing that   *)
(* was not entered while no call ended between linking a directory cluster *)
(* and clearing it.  FatReadErrors is FALSE here, as in FatInvariance.     *)
THEOREM VolumeAlwaysSound ==
  ASSUME ~FatReadErrors
  PROVE  Spec => []VolumeSound
<1>1. FatInv => VolumeSound
  <2> SUFFICES ASSUME FatInv PROVE F!VolumeSound
    BY DEF VolumeSound
  <2>1. PICK ds : FatAt(ds) /\ Clean(data, ds, op, exposed)
    BY FatInvAt
  <2> QED
    BY <2>1, SoundTypes, SoundVolume, SoundFound, SoundCopies DEF F!VolumeSound
<1> QED
  BY <1>1, FatInvariance, PTL

-----------------------------------------------------------------------------
(* The file descriptors: one that a caller has is in use. *)
IsDesc(r) == r \in [in_use : {r.in_use}, file : {r.file}, size : {r.size}, pos : {r.pos}]
VfsInv ==
  /\ handles \subseteq V!Fd /\ g_vfs_ready \in BOOLEAN
  /\ DOMAIN g_fds = V!Fd /\ g_fds = [fd \in V!Fd |-> g_fds[fd]]
  /\ \A fd \in V!Fd : IsDesc(g_fds[fd])
  /\ \A fd \in handles : g_vfs_ready /\ g_fds[fd].in_use

(* One descriptor is written; the others stay. *)
Written(fd, r) == g_fds' = [g_fds EXCEPT ![fd] = r]

LEMMA DescWritten ==
  ASSUME VfsInv, NEW fd \in V!Fd, NEW r, Written(fd, r), IsDesc(r)
  PROVE  /\ DOMAIN g_fds' = V!Fd /\ g_fds' = [e \in V!Fd |-> g_fds'[e]]
         /\ \A e \in V!Fd : IsDesc(g_fds'[e])
         /\ g_fds'[fd] = r /\ \A e \in V!Fd : e # fd => g_fds'[e] = g_fds[e]
<1>1. DOMAIN g_fds = V!Fd /\ g_fds = [e \in V!Fd |-> g_fds[e]] /\ \A e \in V!Fd : IsDesc(g_fds[e])
  BY DEF VfsInv
<1>2. g_fds' = [g_fds EXCEPT ![fd] = r]
  BY DEF Written
<1>3. g_fds' = [e \in V!Fd |-> IF e = fd THEN r ELSE g_fds[e]]
  BY <1>1, <1>2
<1>4. DOMAIN g_fds' = V!Fd /\ g_fds' = [e \in V!Fd |-> g_fds'[e]]
  BY <1>3
<1>5. g_fds'[fd] = r /\ \A e \in V!Fd : e # fd => g_fds'[e] = g_fds[e]
  BY <1>3
<1> QED
  BY ONLY <1>1, <1>4, <1>5, IsDesc(r)

LEMMA DescMoved ==
  ASSUME NEW a, NEW b, NEW c, NEW q, NEW p,
         NEW r \in [in_use : {a}, file : {b}, size : {c}, pos : {q}]
  PROVE  LET s == [r EXCEPT !.pos = p]
         IN  IsDesc(s) /\ s.in_use = r.in_use /\ s.file = r.file
<1> DEFINE s == [r EXCEPT !.pos = p]
<1>1. s \in [in_use : {a}, file : {b}, size : {c}, pos : {p}]
  OBVIOUS
<1>2. r.in_use = a /\ r.file = b
  OBVIOUS
<1> HIDE DEF s
<1>3. s.in_use = a /\ s.file = b /\ s.size = c /\ s.pos = p
  BY <1>1
<1>4. IsDesc(s)
  BY <1>1, <1>3 DEF IsDesc
<1> QED
  BY <1>2, <1>3, <1>4 DEF s

LEMMA PosWritten ==
  ASSUME VfsInv, NEW fd \in handles, NEW p, g_fds' = [g_fds EXCEPT ![fd].pos = p],
         handles' = handles, g_vfs_ready' = g_vfs_ready
  PROVE  VfsInv' /\ V!NothingTakenOver
<1> DEFINE r == [g_fds[fd] EXCEPT !.pos = p]
<1>1. fd \in V!Fd /\ IsDesc(g_fds[fd]) /\ g_fds[fd].in_use
  BY DEF VfsInv
<1>2. g_fds[fd] \in [in_use : {g_fds[fd].in_use}, file : {g_fds[fd].file},
                     size : {g_fds[fd].size}, pos : {g_fds[fd].pos}]
  BY ONLY <1>1 DEF IsDesc
<1>3. IsDesc(r) /\ r.in_use = g_fds[fd].in_use /\ r.file = g_fds[fd].file
  BY ONLY <1>2, DescMoved
<1>4. Written(fd, r)
  BY DEF Written
<1> HIDE DEF r
<1>5. /\ DOMAIN g_fds' = V!Fd /\ g_fds' = [e \in V!Fd |-> g_fds'[e]]
      /\ \A e \in V!Fd : IsDesc(g_fds'[e])
      /\ g_fds'[fd] = r /\ \A e \in V!Fd : e # fd => g_fds'[e] = g_fds[e]
  BY <1>1, <1>3, <1>4, DescWritten
<1>6. ASSUME NEW e \in handles
      PROVE  e \in V!Fd /\ g_fds'[e].in_use = g_fds[e].in_use /\ g_fds'[e].file = g_fds[e].file
  BY <1>3, <1>5 DEF VfsInv
<1>7. V!NothingTakenOver
  BY <1>6 DEF V!NothingTakenOver
<1> QED
  BY <1>5, <1>6, <1>7 DEF VfsInv

LEMMA VfsNext ==
  ASSUME VfsInv, V!Next \/ UNCHANGED vvars
  PROVE  VfsInv' /\ V!NothingTakenOver
<1>1. CASE UNCHANGED vvars
  BY <1>1 DEF vvars, VfsInv, V!NothingTakenOver
<1>2. CASE V!vfs_init
  <2>1. handles = {} /\ handles' = {}
    BY <1>2 DEF V!vfs_init, VfsInv
  <2>2. IsDesc(V!Closed)
    BY DEF IsDesc, V!Closed
  <2> QED
    BY <1>2, <2>1, <2>2 DEF V!vfs_init, VfsInv, V!NothingTakenOver
<1>3. ASSUME NEW name, V!vfs_open(name) PROVE VfsInv' /\ V!NothingTakenOver
  <2> DEFINE r == [in_use |-> TRUE, file |-> name, size |-> SizeOf[name], pos |-> 0]
  <2>1. PICK fd \in V!Fd : /\ V!alloc_fd(fd) /\ Written(fd, r) /\ handles' = handles \cup {fd}
    BY <1>3 DEF V!vfs_open, Written
  <2>2. g_vfs_ready' = g_vfs_ready /\ g_vfs_ready
    BY <1>3 DEF V!vfs_open
  <2>3. IsDesc(r) /\ r.in_use
    BY DEF IsDesc
  <2> HIDE DEF r
  <2>4. /\ DOMAIN g_fds' = V!Fd /\ g_fds' = [e \in V!Fd |-> g_fds'[e]]
        /\ \A e \in V!Fd : IsDesc(g_fds'[e])
        /\ g_fds'[fd] = r /\ \A e \in V!Fd : e # fd => g_fds'[e] = g_fds[e]
    BY <2>1, <2>3, DescWritten
  <2>5. fd \notin handles
    BY <2>1 DEF V!alloc_fd, VfsInv
  <2>6. V!NothingTakenOver
    BY <2>4, <2>5 DEF V!NothingTakenOver, VfsInv
  <2> QED
    BY <2>1, <2>2, <2>3, <2>4, <2>6 DEF VfsInv
<1>4. ASSUME NEW fd \in handles, NEW bytes, V!Deliver(fd, bytes)
      PROVE  VfsInv' /\ V!NothingTakenOver
  BY <1>4, PosWritten DEF V!Deliver
<1>5. ASSUME NEW fd \in handles, NEW n, V!vfs_read(fd, n) PROVE VfsInv' /\ V!NothingTakenOver
  BY <1>4, <1>5 DEF V!vfs_read
<1>6. ASSUME NEW fd \in handles, NEW n, V!vfs_read_short(fd, n)
      PROVE  VfsInv' /\ V!NothingTakenOver
  BY <1>4, <1>6 DEF V!vfs_read_short
<1>7. ASSUME NEW fd \in handles, NEW n, V!vfs_seek(fd, n) PROVE VfsInv' /\ V!NothingTakenOver
  BY <1>7, PosWritten DEF V!vfs_seek
<1>8. ASSUME NEW fd \in handles, V!vfs_close(fd) PROVE VfsInv' /\ V!NothingTakenOver
  <2>1. Written(fd, V!Closed) /\ handles' = handles \ {fd} /\ g_vfs_ready' = g_vfs_ready
    BY <1>8 DEF V!vfs_close, Written
  <2>2. IsDesc(V!Closed) /\ fd \in V!Fd
    BY DEF IsDesc, V!Closed, VfsInv
  <2>4. /\ DOMAIN g_fds' = V!Fd /\ g_fds' = [e \in V!Fd |-> g_fds'[e]]
        /\ \A e \in V!Fd : IsDesc(g_fds'[e])
        /\ g_fds'[fd] = V!Closed /\ \A e \in V!Fd : e # fd => g_fds'[e] = g_fds[e]
    BY <2>1, <2>2, DescWritten
  <2>6. V!NothingTakenOver
    BY <2>1, <2>4 DEF V!NothingTakenOver, VfsInv
  <2> QED
    BY <2>1, <2>4, <2>6 DEF VfsInv
<1> QED
  BY <1>1, <1>2, <1>3, <1>5, <1>6, <1>7, <1>8 DEF V!Next

LEMMA VfsInvariance == Spec => []VfsInv
<1>1. Init => VfsInv
  <2>1. IsDesc(V!Closed)
    BY DEF IsDesc, V!Closed
  <2> QED
    BY <2>1 DEF Init, V!Init, VfsInv
<1>2. VfsInv /\ [Next]_vars => VfsInv'
  <2> SUFFICES ASSUME VfsInv, [Next]_vars PROVE VfsInv'
    OBVIOUS
  <2>1. V!Next \/ UNCHANGED vvars
    BY DEF Next, vars
  <2> QED
    BY <2>1, VfsNext
<1> QED
  BY <1>1, <1>2, PTL DEF Spec

(* No call and no fault takes a file out of the root directory,            *)
(* fat32_free_chain reports success only with the whole chain freed, and   *)
(* vfs_open gives nobody's descriptor away; FatReadErrors is FALSE.        *)
THEOREM FilesNeverLost ==
  ASSUME ~FatReadErrors
  PROVE  Spec => FilesKept
<1>1. FatInv /\ VfsInv /\ [Next]_vars
        => [/\ part = "fat32" => F!NoneLost /\ F!FreedAll
            /\ part = "vfs" => V!NothingTakenOver]_vars
  <2> SUFFICES ASSUME FatInv, VfsInv, [Next]_vars
               PROVE  F!NoneLost /\ F!FreedAll /\ V!NothingTakenOver
    OBVIOUS
  <2>1. PICK ds : FatAt(ds)
    BY FatInvAt
  <2>2. F!NoneLost /\ F!FreedAll
    BY <2>1, FatPart, FatNext
  <2>3. V!Next \/ UNCHANGED vvars
    BY DEF Next, vars
  <2> QED
    BY <2>2, <2>3, VfsNext
<1> QED
  BY <1>1, FatInvariance, VfsInvariance, PTL DEF Spec, FilesKept
=============================================================================

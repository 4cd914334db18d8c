------------------------------- MODULE Initrd --------------------------------
(***************************************************************************)
(* The boot module with the initial ramdisk: mb2_walk_modules and its      *)
(* visitors (kernel/mb2_modules.c), initrd_init and initrd_find            *)
(* (kernel/initrd.c) and the path shim of kernel/fs/vfs_initrd.c.  The     *)
(* boot information and the images are data from outside: any header, any  *)
(* directory.                                                              *)
(***************************************************************************)
EXTENDS Naturals, Sequences, FiniteSets

CONSTANTS
  MAX_FILES,     \* INITRD_MAX_FILES
  HEADER,        \* sizeof(initrd_header_t)
  ENTRY,         \* sizeof(initrd_entry_t)
  WORD,          \* arithmetic on tag sizes is modulo this
  BootInfos,     \* what the loader may hand over: tags and total_size
  Images,        \* start address -> the image loaded there
  MaxVisits      \* bound: tags visited

VARIABLES
  info,      \* the multiboot information
  offset,    \* the walk's place in it
  visits,    \* tags seen so far
  found,     \* visitor_find_initrd: the first module that matches
  count,     \* visitor_count
  g_files,   \* the table of files: name, data, size
  g_mounted

vars == << info, offset, visits, found, count, g_files, g_mounted >>

None == [start |-> 0, size |-> 0, hit |-> FALSE]

Init ==
  /\ info \in BootInfos
  /\ offset = 8 /\ visits = 0 /\ found = None /\ count = 0
  /\ g_files = << >> /\ g_mounted = FALSE

-----------------------------------------------------------------------------
(* Tags are 8-byte aligned. *)
padded(s) == (((s + 7) % WORD) \div 8) * 8
Walking == /\ offset < info.total_size /\ offset \in DOMAIN info.tags
           /\ info.tags[offset].type # "end" /\ visits < MaxVisits

accepts(tag) == ~found.hit /\ tag.named   \* no name, or one with "initrd"
visit ==
  LET tag == info.tags[offset]
  IN  /\ Walking
      /\ count' = IF tag.type = "module" THEN count + 1 ELSE count
      /\ found' = IF tag.type = "module" /\ accepts(tag)
                  THEN [start |-> tag.mod_start,
                        size |-> (tag.mod_end + WORD - tag.mod_start) % WORD,
                        hit |-> TRUE]
                  ELSE found
      /\ offset' = (offset + padded(tag.size)) % WORD
      /\ visits' = visits + 1
      /\ UNCHANGED << info, g_files, g_mounted >>

-----------------------------------------------------------------------------
(* initrd_init: magic and version, the directory inside the image, and of  *)
(* the entries those whose bytes are.                                      *)
Clamped(n) == IF n > MAX_FILES THEN MAX_FILES ELSE n
inside(e, size) == e.offset + e.size <= size
FilesOf(img, size) ==
  LET entries == SubSeq(img.entries, 1, Clamped(img.num_files))
      kept == SelectSeq(entries, LAMBDA e : inside(e, size))
  IN  [i \in DOMAIN kept |-> [name |-> kept[i].name, data |-> kept[i].offset,
                              size |-> kept[i].size]]
initrd_init ==
  /\ ~Walking /\ found.hit /\ ~g_mounted
  /\ found.start \in DOMAIN Images
  /\ LET img == Images[found.start]
     IN  /\ found.size >= HEADER
         /\ img.magic /\ img.version = 1
         /\ HEADER + Clamped(img.num_files) * ENTRY <= found.size
         /\ g_files' = g_files \o FilesOf(img, found.size)
  /\ g_mounted' = TRUE
  /\ UNCHANGED << info, offset, visits, found, count >>

Next == visit \/ initrd_init
Spec == Init /\ [][Next]_vars

(* initrd_find: the first file of that name; vfs_initrd_open looks up      *)
(* "/initrd/<name>" as "/<name>".                                          *)
initrd_find(path) ==
  LET hits == {i \in DOMAIN g_files : g_files[i].name = path}
  IN  IF hits = {} THEN 0 ELSE CHOOSE i \in hits : \A j \in hits : i <= j
vfs_initrd_open(path) == initrd_find(path)

-----------------------------------------------------------------------------
(* Every file that can be opened lies inside the module the loader named,  *)
(* whatever the image's directory says, and the table is not overrun.      *)
FilesInsideImage ==
  /\ Len(g_files) <= MAX_FILES
  /\ \A p \in {g_files[i].name : i \in DOMAIN g_files} :
       LET f == g_files[vfs_initrd_open(p)]
       IN  f.data + f.size <= found.size

(* The ramdisk is the first module that may be one, and the walk that      *)
(* ends has seen every tag in front of the end tag.                        *)
FirstMatch ==
  ~Walking /\ visits < MaxVisits =>
    LET before == {o \in DOMAIN info.tags :
                     /\ o < info.total_size /\ info.tags[o].type = "module"
                     /\ \A e \in DOMAIN info.tags : info.tags[e].type = "end" => o < e}
        named == {o \in before : info.tags[o].named}
    IN  /\ count = Cardinality(before)
        /\ found.hit <=> named # {}
        /\ found.hit => found.start = info.tags[CHOOSE o \in named :
                                                  \A p \in named : o <= p].mod_start
=============================================================================

------------------------------- MODULE Paging --------------------------------
(***************************************************************************)
(* Physical frames and page tables: kernel/pmm.c and kernel/vmm.c, in the  *)
(* order kernel_main starts them.  The tables of the identity map come     *)
(* from the static pool, since the frame allocator starts later and has    *)
(* nothing to give until then; later ones come from the frame allocator.   *)
(*                                                                         *)
(* Tables have two entries instead of 512, so that 4 levels address 16     *)
(* pages.  A table is named by its frame, or past MAX_FRAMES by its place  *)
(* in the static pool.                                                     *)
(***************************************************************************)
EXTENDS Integers, FiniteSets, Sequences

CONSTANTS
  MAX_FRAMES,        \* frames the bitmap covers
  STATIC_PT_PAGES,   \* tables of the static pool
  PAGE_SIZE,
  CountMod,          \* free_frames is unsigned: arithmetic modulo this
  LowFrames,         \* frames of the first megabyte
  KernelFrames, HeapFrames,   \* the image, and the heap behind it
  IDENTITY_MAP_PAGES,
  MemoryMaps,        \* memory maps a boot loader may hand over
  MaxOps             \* bound: operations after boot

(* The window is inside the address space, the count holds all frames, and *)
(* the regions have frames.                                                *)
PagingAssumption ==
  /\ MAX_FRAMES \in Nat \ {0} /\ STATIC_PT_PAGES \in Nat \ {0} /\ PAGE_SIZE \in Nat \ {0}
  /\ IDENTITY_MAP_PAGES \in 0 .. 16 /\ CountMod \in Nat /\ MAX_FRAMES < CountMod
  /\ MaxOps \in Nat
  /\ LowFrames \cup KernelFrames \cup HeapFrames \subseteq 0 .. MAX_FRAMES - 1
  /\ \A m \in MemoryMaps : m \in Seq([base : Nat, length : Nat, type : Nat])

VARIABLES
  phase,             \* how far the boot has come; "halted": out of tables
  map,               \* the memory map of this boot, << >> if there is none
  used,              \* frames whose bit is set
  total_frames, free_frames,
  mem,               \* table -> its entries
  static_pt_used,
  owned,             \* frames handed to drivers
  asked,             \* page -> frame the callers mapped it to, or Absent
  ops

vars == << phase, map, used, total_frames, free_frames, mem, static_pt_used,
           owned, asked, ops >>

Frames == 0 .. MAX_FRAMES - 1
Tables == 1 .. MAX_FRAMES + STATIC_PT_PAGES - 1
Pages  == 0 .. 15
Absent == -1
ZeroTable == [i \in {0, 1} |-> Absent]
Garbage == [i \in {0, 1} |-> 1]      \* what a frame holds before it is cleared
Root == MAX_FRAMES          \* the first table of the static pool
PML4_IDX(v) == v \div 8
pdpt_shift_bug(v) == (v \div 2) % 2
PDPT_IDX(v) == (v \div 4) % 2
PD_IDX(v)   == (v \div 2) % 2
PT_IDX(v)   == v % 2

(* The part of the state map and alloc work on. *)
Now == [used |-> used, free |-> free_frames, mem |-> mem,
        pool |-> static_pt_used, ok |-> TRUE]
Becomes(s) == /\ used' = s.used /\ free_frames' = s.free /\ mem' = s.mem
              /\ static_pt_used' = s.pool

Init ==
  /\ phase = "vmm_init"
  /\ map \in MemoryMaps
  /\ used = {} /\ total_frames = 0 /\ free_frames = 0
  /\ mem = [t \in Tables |-> IF t < MAX_FRAMES THEN Garbage ELSE ZeroTable]
  /\ static_pt_used = 0
  /\ asked = [v \in Pages |-> Absent]
  /\ owned = {} /\ ops = 0

-----------------------------------------------------------------------------
(* The frame allocator.                                                    *)

(* An entry's frames: its base rounded up, its end rounded down. *)
FramesOf(e) ==
  { f \in Frames : /\ (e.base + PAGE_SIZE - 1) \div PAGE_SIZE <= f
                   /\ f < (e.base + e.length) \div PAGE_SIZE }
Usable(m) == { i \in 1 .. Len(m) : m[i].type = 1 /\ FramesOf(m[i]) # {} }

pmm_mark_used(s, fs) ==
  [s EXCEPT !.used = @ \cup fs,
            !.free = (@ - Cardinality(fs \ s.used)) % CountMod]

(* Every frame of every usable entry is counted, also a frame of two. *)
frames_counted(m) ==
  LET sum[i \in 0 .. Len(m)] ==
        IF i = 0 THEN 0
        ELSE sum[i - 1] + (IF m[i].type = 1 THEN Cardinality(FramesOf(m[i])) ELSE 0)
  IN  sum
pmm_init ==
  LET usable == Usable(map)
      all == UNION { FramesOf(map[i]) : i \in usable }
      cleared == [Now EXCEPT !.used = Frames \ all, !.free = frames_counted(map)[Len(map)]]
  IN  /\ phase = "pmm_init"
      /\ phase' = "heap_init"
      /\ IF map = << >> THEN Becomes(Now) /\ UNCHANGED total_frames
         ELSE /\ Becomes(pmm_mark_used(pmm_mark_used(cleared, LowFrames),
                                       KernelFrames))
              /\ total_frames' = CHOOSE n \in 0 .. MAX_FRAMES :
                   /\ \A f \in all : f < n
                   /\ n = 0 \/ n - 1 \in all
      /\ UNCHANGED << map, owned, asked, ops >>

(* The lowest free frame but 0; Absent for PMM_ALLOC_FAIL. *)
first_free(s) ==
  IF \A f \in 1 .. total_frames - 1 : f \in s.used THEN Absent
  ELSE CHOOSE f \in 1 .. total_frames - 1 :
         f \notin s.used /\ \A g \in 1 .. f - 1 : g \in s.used

CanCall == phase = "up" /\ ops < MaxOps
Ran == ops' = ops + 1

pmm_alloc_page ==
  LET f == first_free(Now)
  IN  /\ CanCall /\ Ran /\ f # Absent
      /\ Becomes(pmm_mark_used(Now, {f}))
      /\ owned' = owned \cup {f}
      /\ UNCHANGED << phase, map, total_frames, asked >>

(* The lowest run of n free frames. *)
overlapping_run_bug(f, n) == f + n <= total_frames /\ f \notin used
IsRun(f, n) == f + n <= total_frames /\ \A g \in f .. f + n - 1 : g \notin used
pmm_alloc_contiguous(n) ==
  /\ CanCall /\ Ran
  /\ \E f \in 1 .. total_frames - 1 :
       /\ IsRun(f, n) /\ \A g \in 1 .. f - 1 : ~IsRun(g, n)
       /\ used' = used \cup (f .. f + n - 1)
       /\ free_frames' = (free_frames - n) % CountMod
       /\ owned' = owned \cup (f .. f + n - 1)
  /\ UNCHANGED << phase, map, total_frames, mem, static_pt_used, asked >>

pmm_free_page(f) ==
  /\ CanCall /\ Ran /\ f \in owned
  /\ owned' = owned \ {f}
  /\ IF f < total_frames /\ f \in used
     THEN used' = used \ {f} /\ free_frames' = (free_frames + 1) % CountMod
     ELSE UNCHANGED << used, free_frames >>
  /\ UNCHANGED << phase, map, total_frames, mem, static_pt_used, asked >>

-----------------------------------------------------------------------------
(* Page tables.                                                            *)

(* A table from the frame allocator is cleared; one of the static pool is  *)
(* zero from boot.  With neither left the machine halts.  Every frame is   *)
(* taken to be within reach of the identity map through which tables are   *)
(* written (64 MB, vmm.c:89), as the lowest free frames are.               *)
alloc_table(s) ==
  LET f == first_free(s)
  IN  IF f # Absent
      THEN << [pmm_mark_used(s, {f}) EXCEPT !.mem[f] = ZeroTable], f >>
      ELSE IF s.pool < STATIC_PT_PAGES
      THEN << [s EXCEPT !.pool = @ + 1], MAX_FRAMES + s.pool >>
      ELSE << [s EXCEPT !.ok = FALSE], Absent >>

(* The table an entry points to, allocated if the entry is empty. *)
get_or_create(s, t, i) ==
  IF ~s.ok THEN << s, Absent >>
  ELSE IF s.mem[t][i] # Absent THEN << s, s.mem[t][i] >>
  ELSE LET new == alloc_table(s)
       IN  IF new[2] = Absent THEN new
           ELSE << [new[1] EXCEPT !.mem[t][i] = new[2]], new[2] >>

vmm_map_page(s, v, frame) ==
  LET pdpt == get_or_create(s, Root, PML4_IDX(v))
      pd == get_or_create(pdpt[1], pdpt[2], PDPT_IDX(v))
      pt == get_or_create(pd[1], pd[2], PD_IDX(v))
  IN  IF ~pt[1].ok THEN pt[1]
      ELSE [pt[1] EXCEPT !.mem[pt[2]][PT_IDX(v)] = frame]

pages_mapped(s, v, frame, n) ==
  LET after[i \in 0 .. n] ==
        IF i = 0 THEN s ELSE vmm_map_page(after[i - 1], v + i - 1, frame + i - 1)
  IN  after
vmm_map_range(s, v, frame, n) == pages_mapped(s, v, frame, n)[n]

vmm_init ==
  LET s == vmm_map_range(alloc_table(Now)[1], 0, 0, IDENTITY_MAP_PAGES)
  IN  /\ phase = "vmm_init"
      /\ phase' = IF s.ok THEN "pmm_init" ELSE "halted"
      /\ Becomes(s)
      /\ asked' = [v \in Pages |-> IF v < IDENTITY_MAP_PAGES THEN v ELSE Absent]
      /\ UNCHANGED << map, total_frames, owned, ops >>

(* kernel_main reserves the heap's frames after it has set the heap up. *)
reserve_heap ==
  /\ phase = "heap_init"
  /\ phase' = "up"
  /\ Becomes(pmm_mark_used(Now, HeapFrames))
  /\ UNCHANGED << map, total_frames, owned, asked, ops >>

(* Device registers and tables, mapped one to one above the window.        *)
vmm_map_mmio(v, n) ==
  LET s == vmm_map_range(Now, v, v, n)
  IN  /\ CanCall /\ Ran
      /\ phase' = IF s.ok THEN phase ELSE "halted"
      /\ Becomes(s)
      /\ asked' = [w \in Pages |-> IF w \in v .. v + n - 1 THEN w ELSE asked[w]]
      /\ UNCHANGED << map, total_frames, owned >>

(* Where v translates to: the walk stops at the first absent entry. *)
Step(t, i) == IF t = Absent THEN Absent ELSE mem[t][i]
vmm_virt_to_phys(v) ==
  Step(Step(Step(Step(Root, PML4_IDX(v)), PDPT_IDX(v)), PD_IDX(v)), PT_IDX(v))

vmm_unmap_page(v) ==
  LET pt == Step(Step(Step(Root, PML4_IDX(v)), PDPT_IDX(v)), PD_IDX(v))
  IN  /\ CanCall /\ Ran /\ pt # Absent
      /\ mem' = [mem EXCEPT ![pt][PT_IDX(v)] = Absent]
      /\ asked' = [asked EXCEPT ![v] = Absent]
      /\ UNCHANGED << phase, map, used, total_frames, free_frames,
                      static_pt_used, owned >>

Next ==
  \/ vmm_init
  \/ pmm_init
  \/ reserve_heap
  \/ pmm_alloc_page
  \/ \E n \in 1 .. 2 : pmm_alloc_contiguous(n)
  \/ \E f \in owned : pmm_free_page(f)
  \/ \E v \in Pages \ (0 .. IDENTITY_MAP_PAGES - 1), n \in 1 .. 2 :
       v + n <= 16 /\ vmm_map_mmio(v, n)
  \/ \E v \in Pages \ (0 .. IDENTITY_MAP_PAGES - 1) : vmm_unmap_page(v)

Spec == Init /\ [][Next]_vars
-----------------------------------------------------------------------------
(* Types of every variable. *)
TypeOK ==
  /\ phase \in {"vmm_init", "pmm_init", "heap_init", "up", "halted"}
  /\ used \subseteq Frames /\ owned \subseteq Frames
  /\ total_frames \in 0 .. MAX_FRAMES /\ free_frames \in 0 .. CountMod - 1
  /\ static_pt_used \in 0 .. STATIC_PT_PAGES
  /\ mem \in [Tables -> [{0, 1} -> Tables \cup Pages \cup {Absent}]]
  /\ asked \in [Pages -> Pages \cup {Absent}]
  /\ ops \in 0 .. MaxOps

(* The tables reachable from the root, above the last level. *)
Level(ts) == { mem[t][i] : t \in ts, i \in {0, 1} } \ {Absent}
Upper == {Root} \cup Level({Root}) \cup Level(Level({Root}))
TableFrames == (Upper \cup Level(Upper)) \cap Frames

(* No frame serves two masters: page tables, driver memory, the first      *)
(* megabyte, the kernel and the heap are apart, and their bits are set.    *)
FramesApart ==
  phase = "up" /\ map # << >> =>
    /\ TableFrames \cap owned = {}
    /\ (TableFrames \cup owned) \cap (LowFrames \cup KernelFrames \cup HeapFrames) = {}
    /\ TableFrames \cup owned \cup LowFrames \cup KernelFrames \cup HeapFrames \subseteq used

(* A table hangs below one entry only: mapping under one never shows up    *)
(* under another.                                                          *)
TablesFormTree ==
  phase # "vmm_init" =>
    \A t, u \in Upper : \A i, j \in {0, 1} :
      mem[t][i] # Absent /\ mem[t][i] = mem[u][j] => t = u /\ i = j

(* Only memory the boot loader called usable is handed out. *)
OnlyUsableMemory ==
  phase = "up" =>
    \A f \in owned \cup TableFrames :
      \E i \in Usable(map) :
        map[i].base <= f * PAGE_SIZE
        /\ (f + 1) * PAGE_SIZE <= map[i].base + map[i].length

(* The free count is the number of clear bits, if the entries of the map   *)
(* do not overlap.                                                         *)
FreeCountExact ==
  /\ phase \in {"up", "halted"} /\ total_frames > 0
  /\ \A i, j \in Usable(map) : i # j => FramesOf(map[i]) \cap FramesOf(map[j]) = {}
  => free_frames = Cardinality(Frames \ used)

(* Translation is what the calls asked for: a page leads to the frame it   *)
(* was last mapped to until it is unmapped, whatever was mapped and        *)
(* unmapped around it.                                                     *)
TranslatesAsAsked ==
  phase \notin {"vmm_init", "halted"} =>
    \A v \in Pages : vmm_virt_to_phys(v) = asked[v]

(* The bitmap, its count and the uses of frames agree. *)
FramesSound == TypeOK /\ FramesApart /\ OnlyUsableMemory /\ FreeCountExact
=============================================================================

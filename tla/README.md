# A TLA+ development of AIOS

AIOS is a freestanding x86-64 kernel for one CPU: a preemptive round-robin
scheduler with kernel threads, synchronisation primitives, a heap and page
tables, PS/2 input, a disk stack (AHCI, FAT32, VFS), a small GUI with a window
manager thread, and an LLM inference engine. This directory models it and
states what makes it correct. TLC checks small instances; for every value of the
constants, TLAPS proves the main theorems about the scheduler and its linked
lists, mutex, semaphore, kernel threads, interrupts, heap, frames and page tables,
disk driver, file system, PS/2 drivers, terminal, GUI input ring, windows, and the
language model's loader and cache.
Paths below are relative to `src/kernel/`.

## Inventory

| component | state | operations | hard because | module |
|---|---|---|---|---|
| task table, `task.c` | `g_tasks`, `g_next_pid`, `g_current` | init, create, destroy | slots are reused; create runs with interrupts on | Sched, SchedLinks |
| scheduler, `sched.c` | ready ring, sleep list, quantum | init, add, tick, yield, sleep, exit | the timer interrupt runs it under every other operation; one `next` field serves two lists | Sched, SchedLinks |
| timer, `pit.c` | `g_ticks` | tick | ticks start before the task table exists | Sched |
| interrupts, `idt.c`, `apic.c`, stubs | handlers, routes, vectors in service, the flag | register, route, dispatch, EOI | a handler is switched away from half way | Interrupts |
| kernel threads, `kthread.c` | `g_slots` keyed by PID | create, trampoline, exit, join | hand-over through a shared table without a lock; handles are slot addresses | Kthread |
| mutex, semaphore, `sync.c` | locked, owner, count, waiters | lock, try, unlock, wait, post | preemption between any two stores; bounded waiter lists | Mutex, Semaphore |
| spinlock, `sync.c` | locked | lock, unlock, irqsave variants | one CPU: the holder cannot run under an interrupt | GuiInput |
| heap, `heap.c` | block list | kmalloc, kfree, realloc, aligned | split and coalesce; size arithmetic; no lock | Heap |
| frames and tables, `pmm.c`, `vmm.c` | bitmap, counts, page tables | init, alloc, free, map, unmap | overlapping map entries; table allocation failing half-way | Paging |
| firmware tables, `acpi.c` | ports, sleep types | init, shutdown, reboot | several encodings; broken tables in front | Acpi |
| PCI, `pci.c` | device table | enumerate, find | table limit; functions with gaps, aliases | Pci |
| keyboard, mouse drivers | prefix, modifiers, packet | set-up, interrupt | one data port for two devices; latched interrupts; time-outs | Ps2 |
| terminal, shell | line buffer | feed (interrupt), readline, run | reset and copy against the interrupt | Terminal |
| AHCI, `ahci.c` | command table, port | read, write | time-out against a late completion | Ahci |
| FAT32, `fat32.c` | FAT copies, directory, data | mount, find, create, free | partial failure and power loss at every sector | Fat32, Lfn |
| VFS, initrd | descriptors, image index | open, read, seek, close | offsets against clusters; data from the loader | Vfs, Initrd |
| LLM: loader, tokenizer, model, inference | arena, pointers, merge table, KV cache | init, generate, reset, shutdown | life cycle with failures, position bounds, open addressing | Loader, Tokenizer, Generate, Sampler |
| GUI input, `gui/input*.c` | event ring, mouse state, lock | enqueue from interrupts, poll, reset | interrupts against a thread; a full ring | GuiInput |
| window manager, `gui/wm.c`, `window.c`, desktop, taskbar, menu | window list, drag, saved geometry | event dispatch | a linked list under every click; state shared by windows | Windows, GuiInput |
| applications, `apps/`, text screen `vga.c` | grid, buffers, selection | keys, clicks, scroll | two renderings of one text; bounded buffers | Apps |
| graphics, `gfx/` | frame buffer | shapes, text | clipping in unsigned arithmetic | Framebuffer |

Calls and shared state: the PIT interrupt calls `pit_tick`, then `sched_tick`.
`kthread_create` calls `task_create` (which calls `kmalloc`) and `sched_add`;
the mutex and the semaphore call `sched_yield`. The keyboard and mouse interrupts
call the terminal, or through callbacks the GUI input layer; the window manager
thread polls it and calls `sched_sleep` after each redraw. The VFS calls FAT32,
which calls AHCI, all synchronously. Interrupt handlers run behind interrupt
gates, so they never nest; threads are preempted wherever interrupts are
enabled.

The hazards, each at its line, are in `PROJECT.json`, with the properties that
would catch them.

## Modules

Actions carry the names of the functions they model. What runs between `cli`
and `sti`, under an irqsave lock or in an interrupt is one action; elsewhere each
store or call that another actor can observe is a step.

**Sched** — task table and scheduler over sequences. `state`, `pid`, `wake_tick`
are the fields of `g_tasks`; `ready` and `sleepq` are the two lists read from
their heads; `phase` is how far `kernel_main` has come; `pending` are tasks
between `task_create` and `sched_add`. `pit_irq` is the whole timer interrupt.
`TASK_BLOCKED` is never assigned by the code.

**SchedLinks** — the same over the pointers of `sched.c`: a circular doubly linked
ring with head and count, and a sleep list through the same `next` fields. NULL
is a memory cell of its own, since page 0 is mapped. The stores of `rq_push_back`
are separate steps when `sched_add` makes them, with interrupts enabled;
`TickDuringAdd` says whether a tick may fall between them (never, in MCSync). It implements Sched. **TaskTable** holds the constants
of the two and what is assumed of them.

**Interrupts** — from the device's request through the I/O and Local APIC (external)
to the handler, whose calls are steps, with the switch inside `sched_tick` and
the boot order of handlers, routes and `sti`. Which sleeper is due is a choice.

**OneInside**, **Mutex** — the abstract section that one task at a time is inside
of, and the mutex with each xchg, store and guarded section a step of the running
task, plus preemption at any point and the ring order of the ready queue.
**Semaphore** — each section under the guard is one step. **Kthread** — with the
scan and claim of `task_create` as separate steps; a job stands for a function
and its argument; services never return.

**Heap** — blocks by address; each iteration of coalesce is a step. Sizes keep
their width: rounding wraps at `SizeMod`, the 32-bit mask cuts at `MaskMod`.
**Paging** — the frame bitmap and four-level tables with two entries each, in the
order `kernel_main` builds them. **Acpi**, **Pci** — the reading of firmware tables
and of the bus, which are data from outside. Mapping before reading is left to
Paging. The FADT is the firmware's: `acpi.h:95-99` leaves out its two extended event
blocks, so that what `acpi.c:262-276` reads under the names of the extended control
blocks are the event blocks, and `acpi_init` does so here too. Ports are cut to 16
bits.

**Ahci** — the driver and a controller (external) that fetches the table, moves
data and finishes when it likes, also after the driver gave up. **Fat32** — the
write side, one step per sector written; faults are an I/O error or power loss at
any step, and, with `FatReadErrors`, a read of the table that `fat32_next_cluster`
reports as the end of the chain (`misread`). The slots of a cluster never cleared
(`stale`) and a file's bytes count as entries wherever the code reads them as a
directory: `Found` is what `fat32_find_file` takes for files, `Entered` what
`fat32_create_file` put there, and `exposed` records that a call ended between
linking a directory cluster and clearing it. **Lfn** — the search by long name over directory entries as they may
stand on a disk. **Vfs** — descriptors over files whose bytes are named by file and
place. **Initrd** — boot information, module, image index.

**Loader** — a float of the arena is the place in the file it was decoded from, so
that "the right weights" can be said without arithmetic; with `model_alloc` and the
engine's ownership of memory, each allocation of which may fail. Offsets, sizes and
the arena's bytes wrap at `SizeMod` as `size_t` does and are cut by the heap's mask
at `MaskMod`; the first tensor that is for this reason read outside the file or
written outside the arena sets `strayed` and ends the behaviour, since what memory
holds afterwards is anything. **Tokenizer** —
merge table, encoder over its linked node array, decoder. **Generate** — calls of
`inference_generate` over the key and value cache; a float is the place and token
it was computed for, and what the model predicts is any token. **Sampler** —
weights instead of probabilities, sums compared as fractions; a sum that rounding
leaves below the random number is a choice of the draw.

**EventQueue**, **GuiInput** — the abstract bounded queue, and the event ring with
the interrupts that fill it and the window manager loop that drains it. An
interrupt is a sequence of calls, each of which takes the lock; while it lasts the
thread stands still. What a click hits is a choice here. `held`, `refused` and
`lostUp` are history. **Windows** — the handling of events with geometry, so that
what a press hits follows from the windows' places. **Ps2** — both drivers on one
controller (external). **Terminal** — the line shared by interrupt and shell
thread, and the split into words. **Apps** — what keys and clicks do inside the
applications, and the text screen. **Framebuffer** — a drawing call is the set of
memory cells it writes.

**MC*** give TLC its constants: MCSync, MCMemory, MCStorage, MCLlm and MCGui each
hold the parts of one subsystem that have no state in common; the variable `part`
says which one a behaviour runs, and the others keep an initial state. Memory maps,
model files and block formats are CONSTANTS too (`MemoryMaps`, `Files`, `BlockSize`,
`BlockBytes`): the cfg files give them the definitions of the MC module, the proofs
take any. So are the sizes of screens, windows and line buffers and what the PS/2
devices send. **SchedProofs**, **SchedLinksProofs**, **SyncProofs**,
**MemoryProofs**, **StorageProofs**, **LlmProofs**, **GuiInputProofs** (event ring
and PS/2) and **GuiProofs** (windows and terminal) hold the theorems; those named
after a subsystem extend its MC module, so that they are about the very
specification and properties TLC checks.

## Runs

| run | parts | shows |
|---|---|---|
| `sched` | Sched | types; accounting of tasks to queues; `CpuWellUsed` (somebody to run, no ready task behind an expired quantum); unique PIDs; `WakesOnTime`; `TasksProgress` (every queued task runs, every sleeper runs again) |
| `sync` | Mutex, Semaphore, Kthread, Interrupts, SchedLinks | owner field, waiter lists at their limit, units conserved; `ThreadsSound` (the entry found, run once, no early join); one task inside; `InterruptsSound` (no vector stuck in service, interrupts on in every task); the ready ring whole after every operation (`RingIntegrity`) and the pointers implementing Sched (`RefinesSched`), as long as no tick falls into an insertion; `WaitingEnds` |
| `memory` | Heap, Paging, Acpi, Pci | `BlocksSound` (blocks tile the heap, no two free neighbours, all merges back to one); room for each request; frames have one use and are usable memory, the count exact; tables form a tree and translate as asked last; `MachineFound` |
| `storage` | Fat32, Lfn, Vfs, Initrd, Ahci | `VolumeSound` and `FilesKept` at every sector, error, power loss and unnoticed read failure; `NamesFound`; `FilesRead`; `DiskSuccessIsOwn`; `CallReturns` |
| `llm` | Tokenizer, Loader, Generate, Sampler | tokens spell the text, nothing is left to merge, decoding gives it back; weights are the tensors'; memory lost in two ways only; attention reads what the call computed; `SampledRight` (the best k exactly, the nucleus tight when the best `LIM` tokens reach top-p, all tokens kept when they do not) |
| `gui` | GuiInput, Ps2, Terminal, Windows, Apps, Framebuffer | the ring is a bounded queue; drags end unless a release is lost; strokes and packets whole; the line entered is run; list, activation and reach of windows; restore; screens, texts, the words of a command and shapes; `InputAnswered` |
| `sched_links_race` | SchedLinks | violated: a tick inside `sched_add`'s insertion breaks the ring |
| `gui_input_lock` | GuiInput | violated: an interrupt may wait for the thread it interrupted |
| `vfs_read` | Vfs | violated: with clusters smaller than the scratch buffer, reads at offsets return other bytes |
| `llm_weights` | Loader | violated: feed-forward tensors behind each other's pointers |
| `tgui_mirror` | Apps | violated: the Terminal window does not scroll as the text screen does |
| `free_chain` | Fat32 | violated: a table sector that cannot be read ends the freeing of a chain with success |

Several properties name the conditions under which the code can promise
anything, because without them it does not: `StrokesAndPacketsWhole` holds as
long as no byte was taken by the other device's handler or a set-up loop (which
the model does, and the history variables `lostMouse`, `lostKey`, `foreign`,
`misread` record); `RestoreGivesBack` unless another window was maximised since,
whose geometry overwrote the one static copy; `LineIsRun` lets keys typed between
Enter and the copy add to the line. `WeightsLoaded` and `LostOnlyTwoWays` describe
the memory an init that failed leaves behind rather than deny it.
`WeightsLoaded` claims the weights of files whose numbers do not wrap (`Fits`): the
check at `loader.c:391` and the arena's size at `loader.c:373` are sums and products
over the file's own numbers, and the run has files for which they wrap and the
loader strays. `VolumeSound` says that nothing but entered files is found unless a
directory cluster is linked and not cleared, now or since a call that ended there;
`FilesKept` holds for calls in which no read of the table failed, and the run does
reach the two that lose something (`fat32.c:423`, `fat32.c:549`). `MachineFound`
says that the ports written at shutdown are the control blocks' on a FADT without
extended event blocks in I/O space, and else what those give. `SampledRight` says
what the nucleus filter does beyond its list of 128: it keeps everything when these
do not reach top-p, unlike the smallest set that the comment at `model.c:272`
promises.

*Bounds.* `MaxTick` saturates the clock and `MaxPid` ends creation; with 4 slots,
quantum 2 and sleeps of 0 to 2 ticks there is slot reuse, several deadlines in
one tick, quantum expiry with and without a successor, and sleepers on both sides
of a waking one. Four tasks overfill waiter lists of two. Three jobs share two
task slots and two entries, so both are reused. A heap of seven headers holds
three live blocks with a split, a remainder too small to split and merges in both
directions. Nine frames and a static pool of seven tables let the table
allocation fail at every level. Eleven sectors with two copies of a two-sector table
make a chain of several clusters, a directory that must be extended and a full
volume; up to three calls and one fault beside the reads that fail unnoticed; the
root directory has a label or a deleted entry in its first slot, so that it
fills after one file or two. Names are up to five characters in
fragments of two. Two disk buffers and blocks with one write tell a late
completion from a timely one. Text of four bytes with five merge rules in a table
of four slots makes collisions, a duplicate and a full table; three positions
of the cache are fewer than prompt and answer. Five tokens and a list of three
(`LIM`) put both filters on either side of the list's limit. Model files have
offsets and sizes on both sides of `SizeMod` and `MaskMod`. A ring of four slots and three
interrupts of up to three events each fill the ring, wrap its indices and drop
releases. Two strokes and packets meet every point of the drivers' set-up.
Three windows on a screen where the first two overlap, six events; a screen of
two rows of five scrolls and wraps; shapes are drawn inside, across and beyond
every edge of a picture narrower than its memory lines. `SCRATCH = CLUSTER` in `storage` is a
volume with clusters of 64 KB, the one size for which `vfs_read_raw` is right;
`vfs_read` has smaller ones.

*Deadlock* is checked where the system may not stop (`sched`, `gui_input_lock`).
The other runs end when all jobs, posts, calls, keys or events of the bound are
used up, or when the CPU hung.

*Fairness.* The PIT keeps interrupting (`kernel_main` verifies its delivery at
boot) and boot code runs on; nothing is assumed of tasks, which may compute for
ever. In Mutex the quantum of the running task ends, and a task that gets the CPU
time and again takes its step time and again. In Semaphore, Kthread, Terminal and
GuiInput each thread is weakly fair, which `TasksProgress` establishes for the
scheduler. Interrupt handlers run to their end and a latched interrupt is taken
(Ps2, Interrupts: the CPU goes on). In Ahci the driver's polling goes on, and of
the controller only that it looks at its registers; it need never finish.

## Proofs

`SchedProofs` proves, for every table size of at least 2, every quantum of at least
1 and every set of sleep times, that `Spec` implies `TypeOK`, `TaskAccounting`,
`CpuWellUsed` (and its parts one by one), `LivePidsUnique` and `WakesOnTime`, from
`SchedAssumption`. The inductive invariant `IInv` is the conjunction of these
invariants and `BootState` (before the scheduler is up the queues are empty and
nothing but the boot task is live). They need each other: that `do_switch` keeps
the accounting needs the queues to be distinct and disjoint, that idle stays
available needs the accounting, and that an expired quantum means an empty queue
needs that the current task is in no queue. Lemmas on queues (append, tail,
concatenation, the order-preserving enumeration) carry the sequence reasoning;
`SwitchKeeps` is the one fact about `do_switch` that yield, sleep, exit and the
tick share.

`SchedLinksProofs` proves `RingIntegrity` and that the pointers implement Sched
(`RefinesSched`), from `SchedAssumption` and `~TickDuringAdd`; with a tick inside
`sched_add`'s insertion it is false, as the run `sched_links_race` shows. `LInv` is
the invariant of SchedProofs, read through the refinement mapping and reused by
INSTANCE, and with it that there are two duplicate-free sequences, the ring and the
sleep list, that every link fits (`Lists`); while an insertion is under way, which
of its stores are done (`Inserting`). That walking the pointers meets exactly these
sequences is a lemma about the recursive walk, so that no reachability is needed.

`SyncProofs` proves the parts of MCSync. The *mutex*: exclusion, the owner field,
the waiter list, and that Mutex implements OneInside, for any number of tasks and
any list size; the invariant ties `locked` to the set of tasks at steps that hold
the lock, `owner_pid` to the one of them past its owner store, and list entries to
tasks at waiting steps. The *semaphore*
(`SyncUnitsConserved`), from `SyncAssumption`: the invariant is its types,
conservation and the waiter list together, since a post that wakes removes an entry
and adds a unit in one step. *Kernel threads* (`SyncThreadsSound`), from
`SyncAssumption` and `OneCreator`: one task calls `kthread_create` and
`kthread_join`. That is how the kernel uses them (the one call is in `wm.c:450`);
with two creators the unlocked scans of `g_slots` and `g_tasks` can choose one
entry twice, and the theorem is false. `KInv` says for each point of the
creator which entry and task slot it has chosen and that nobody else has them,
that PIDs are fresh, and that each live thread belongs to one job, whose entry or
local copy names it: reuse of entries and slots is what makes the weaker statement
not inductive. *Interrupts* (`SyncInterruptsSound`), for every quantum: `IrqInv`
ties the vectors in service to the place the CPU is in a handler, every task that
waits for the CPU to its start, a voluntary switch or the timer's handler after the
EOI, and handlers, routes and the
flag to how far the boot has come.

`MemoryProofs` proves, for the *heap*, `BlocksSound` and `RoomForRequest` from
`HeapAssumption`: any heap larger than a header, any alignment, and a mask no wider
than the sizes. The one part of its invariant that TLC does not check by name is
`Merged`: two free neighbours are only in front of coalesce's cursor, which gives
`NoFreeNeighbours` at its end. That all memory comes back as one block follows from
the tiling.

For *frames and tables* it proves `TranslatesAsAsked` and `FramesSound` from `MemoryAssumption`:
any number of frames, pool tables and window pages, any page size, any memory
map, overlapping entries included. `PInv` says that the tables reached from the
root over three levels are distinct marked frames or pool tables in use, none of
them kept by the kernel, the heap or a driver (`TablesGood`): otherwise a
new table could be a page's old one and move it. The lemmas follow
`get_or_create` level by level, with the failures; a step that halts half-way is
covered too. `vmm_map_range` and the count of `pmm_init` are loops, modelled as
recursive functions.

`StorageProofs` proves `DiskSuccessIsOwn` for every set of sectors, buffers and
values, without an assumption. `DiskInv` says who owns the command table, the slot
and the buffers at each point of `ahci_do_rw`: the controller has nothing to fetch
outside the polling loop, executes nothing while the table is rewritten, and works
for the present call or for one that timed out.

For the *volume* it proves `VolumeSound` and `FilesKept` from `StorageAssumption` (the
geometry of a formatted volume: any number and size of sectors, clusters, entries
and table copies, any files) and `~FatReadErrors`: with the read that
`fat32_next_cluster` hides, clusters with entries are cut off the directory, and the
argument, like the code, loses sight of them. That case is only model-checked. What
the driver allocates is a run of consecutive clusters, so `FatInv` says of each chain
that its entries count up to an end mark, and needs no reachability; the directory,
which grows by single clusters, is one sequence `ds`. For every head there is (the
files entered, the chains callers hold, the file waiting for its entry) and every
step of a call it says what of it is linked, filled, cleared or freed already; that
the copies of the table differ at most in what the call in progress has still to
copy, as long as nothing failed; and that the directory's slots are entries, end
marks, deleted or a label but in the one cluster linked and not cleared (`Clean`).
None of this is in the properties, and without it a fault between two sectors leaves
states from which the next call breaks them.

`LlmProofs` proves, from `LlmAssumption`, `CacheHoldsSequence` for every number of
layers, heads, dimensions and positions, and `WeightsLoaded` and `LostOnlyTwoWays`
for every set of files, block formats and tensor limit, every width of `size_t` and
every mask. Files may hold any numbers; of those that wrap nothing is claimed but
the ownership of memory. `GenInv` adds to the cache
property that positions are fed once and in order; the index arithmetic of
`KV_IDX` is shown injective. `LoadInv` adds that, of a file that `Fits`, the arena has
room for the tensors still to come, which is a sum over the file's infos, and which
allocations exist at each stage of `inference_init`.

`GuiInputProofs` proves `DragNeedsButton` and that the ring implements EventQueue
(`RefinesQueue`), for any ring of two slots or more, any buttons and any number of
interrupts. `IInv` follows a press from device to drag: whichever of interrupt,
ring, event in hand or drag holds it, a release is behind it, the button is
down, or a release was lost.

For the *PS/2 drivers* it proves `StrokesAndPacketsWhole`, for any keys but the one
whose code would be the prefix byte, any packets whose first byte has its sync bit,
and any number of both (`Ps2Assumption`). `PsInv` says that three things make one
stream: what a device still has to send, the byte in the controller's buffer, and
what the driver has made of earlier bytes. Each byte still under way is told which
stroke it belongs to, and which of its bytes it is; the prefix flag, the modifiers
and the packet in hand then follow from the bytes already read. The properties
themselves say nothing of bytes under way and are far from inductive.

`GuiProofs` proves, for *windows*, `WindowsSound` and `RestoreGivesBack`, from
`WindowsAssumption`: any screen, frame, window sizes and number of windows for
which a new window's title is on the screen. `WinInv` adds to the properties one order of the
windows that all `next` and `prev` links fit, what the one saved geometry belongs
to, and the relation of a drag to the pressed buttons and the pointer: that a
window stays within reach while it is dragged depends on where in the title bar the
pointer took it.

For the *terminal* it proves `LineIsRun` for any sizes of the two line buffers and
any number of keys. `TermInv` says, for each step of `terminal_readline`, how the
line, the screen, what Enter ended and the shell's copy agree: nothing of the line
is overwritten behind Enter, and the NUL that a second Enter stores inside the copy
is behind the line entered.

Recursive functions (sums, loops) are unfolded one step by a lemma that takes the
least argument at which the unfolding would fail; it needs no induction scheme.

Only model-checked:

- Liveness (`TasksProgress`, `WaitingEnds`, `CallReturns`, `InputAnswered`), which
  needs ENABLED.
- `VolumeSound`, `FilesKept` with reads of the table failing unnoticed.
- `NamesFound`, `FilesRead`, `MachineFound`, `TokensRight`, `SampledRight`: what a
  recursive or folding definition computes for every input.
- `TypesOK` and `ScreensAndTexts` of the GUI: text screens are folds over the
  characters written, the words of a command and the shapes are found by loops.

## Findings

Six runs end in a violation of something the repository says; `PROJECT.json`
quotes the lines: `sched_add` unlocked against the tick, the GUI input lock taken
in interrupts, the cluster size of reads at offsets, the feed-forward tensors, the
Terminal window's scrolling, and a chain reported free that is not.

Seen on the way and without a run of their own: a key without a character is handed
to the window with its scan code in the place of one (`gui/input_wiring.c:72`), the
nucleus filter's list of 128, the FADT's fields, and the wrapping sums of the loader
(see *Runs*).

## Not modelled

- Floating-point kernels (`llm/ops.c`, `tensor.c`, `quant.c`, `simd.c`, the vectors
  of `attention.c` and `transformer.c`): out of TLC's reach.
- Colours, fonts' glyphs, layout, log messages, `serial.c`, `panic.c`,
  `pf_handler.c`: output only. `gdt.c` and the programming of PIT, PIC and APIC
  registers: written once.
- Functions nobody calls: `pmm_mark_free`, `pci_write`, `fb_blit`,
  `fb_blend_pixel`, `gui_input_push_mouse_delta`, the APIC's timer and IPIs,
  the drivers' own event rings.
- `apps/notepad.c` and `apps/ai_chat.c`, which the Makefile leaves out.
- Two tasks inside the heap, the VFS's or FAT32's static buffers, the tokenizer's
  node array, or two window managers in the window list: the code has no lock
  there, and every interleaving can break them; the hazards say where.
- Arithmetic that no caller of the kernel takes to its limit: byte offset plus count
  of a VFS read in 32 bits (`vfs.c:87`, `vfs.c:195`).
- Frames beyond the 64 MB identity map becoming page tables (`vmm.c:89`); tokens
  beyond the vocabulary (`model.c:173`) and texts longer than `TOK_MAX_TEXT`
  (`tokenizer.c:475`), which are refused at once.
- A deadline passing while the controller has not yet looked at a command it was
  just given: `ahci.c:292` looks at the ticks only, Ahci's `deadline_passed` also asks
  that the controller is busy.
- The order of the first two stores of `rq_push_back` (`sched.c:47-48`), which
  SchedLinks makes with the later ones: a reader could tell only in a ring that is
  broken already.

## Plan

1. Theorems: `VolumeSound` and `FilesKept` without `~FatReadErrors`, with the clusters
   cut off the directory as chains of their own.
2. Compositions: Vfs over Fat32 over Ahci with the faults of the lower layer in the
   upper one; Ps2 feeding GuiInput and Terminal.

------------------------------- MODULE Loader --------------------------------
(***************************************************************************)
(* The GGUF loader of kernel/llm/loader.c, model_alloc and model_free of   *)
(* kernel/llm/model.c, and the life of the engine that owns what they      *)
(* allocate (inference_init and inference_shutdown of llm/inference.c).    *)
(*                                                                         *)
(* A file is its size, what its header says, where the tensor infos end    *)
(* and the infos.  A float of the arena is the place in the file it was    *)
(* decoded from: the byte its block starts at and its place in the block.  *)
(*                                                                         *)
(* The numbers of a file are any of size_t, and the code's sums and        *)
(* products of them wrap; the heap's mask cuts sizes once more.  A tensor  *)
(* that is read outside the file or written outside the arena for that     *)
(* reason is recorded in strayed, and nothing is said of what follows.     *)
(***************************************************************************)
EXTENDS Naturals, Sequences, FiniteSets

CONSTANTS
  Files,          \* the files there are
  BlockSize,      \* type -> elements of a block; handled types only
  BlockBytes,     \* type -> bytes of a block
  GGUF_ALIGN, MAX_TENSORS, n_layers, tie_weights,
  SizeMod,        \* size_t counts modulo this (2^64)
  MaskMod,        \* and a size masked with ~15u modulo this (2^32)
  MaxInits        \* bound: calls of inference_init

(* What a file may say: any number of tensor infos (below 2^32), whatever  *)
(* they ask for.  Blocks are not empty.                                    *)
Size == 0 .. SizeMod - 1
Info == [layer : Nat, sub : STRING, n_elem : Size, type : STRING, raw_offset : Size,
         readable : BOOLEAN]
LoaderAssumption ==
  /\ GGUF_ALIGN \in Nat \ {0} /\ MAX_TENSORS \in Nat
  /\ SizeMod \in Nat /\ MaskMod \in Nat \ {0} /\ MaskMod <= SizeMod
  /\ \A ty \in DOMAIN BlockSize : {BlockSize[ty], BlockBytes[ty]} \subseteq Nat \ {0}
  /\ \A f \in Files : /\ f.size \in Nat /\ f.infos_end \in Nat
                      /\ f.infos \in Seq(Info)

VARIABLES
  at,         \* "idle", or where inference_init is
  file,       \* the file in raw_blob
  tn,         \* the tensor the loop is at
  arena,      \* float_arena
  arena_ptr,
  slots,      \* the pointers of the model that are set: slot -> tensor, place
  refs,       \* allocations some pointer of the engine leads to
  lost,       \* allocations nothing points to any more
  g_inited, inits,
  strayed     \* a tensor was read outside the file or written outside the arena

vars == << at, file, tn, arena, arena_ptr, slots, refs, lost, g_inited, inits, strayed >>

None == [size |-> 0, magic |-> FALSE, version |-> FALSE, kv |-> FALSE,
         infos_end |-> 0, infos |-> << >>]
Garbage == [byte |-> 0, place |-> 0]
NoSlots == [s \in {} |-> [tensor |-> 0, dst |-> 0]]
GLOBAL == 99          \* layer of a name that is not "blk.<n>."

Context == {"ctx", "raw_blob"}
Model == {"model", "blocks", "kvc", "kvc_k", "kvc_v"}
Buffers == {"g_logits", "g_ids"}

Init ==
  /\ at = "idle" /\ file = None /\ tn = 1 /\ arena = << >> /\ arena_ptr = 1
  /\ slots = NoSlots /\ refs = {} /\ lost = {} /\ g_inited = FALSE /\ inits = 0
  /\ strayed = FALSE

-----------------------------------------------------------------------------
Handled(ti) == ti.type \in DOMAIN BlockSize
n_blocks(ti) == ti.n_elem \div BlockSize[ti.type]
raw_bytes(ti) == IF Handled(ti) THEN (n_blocks(ti) * BlockBytes[ti.type]) % SizeMod ELSE 0
Counted(f) == 1 .. (IF Len(f.infos) < MAX_TENSORS THEN Len(f.infos) ELSE MAX_TENSORS)

data_section_start(f) == ((f.infos_end + GGUF_ALIGN - 1) \div GGUF_ALIGN) * GGUF_ALIGN

(* find_tensor_slot: where the tensor of that name goes, if anywhere. *)
slot_name ==
  [token_embd |-> "wte", position_embd |-> "wpe", output_norm |-> "ln_f_w",
   output |-> "lm_head", attn_q |-> "wq", ffn_gate |-> "w1", ffn_up |-> "w2",
   ffn_down |-> "w_gate"]
has_slot(ti) ==
  ti.sub \in DOMAIN slot_name /\ (ti.layer = GLOBAL \/ ti.layer < n_layers)
find_tensor_slot(ti) == [layer |-> ti.layer, name |-> slot_name[ti.sub]]

-----------------------------------------------------------------------------
(* inference_shutdown of a running engine frees all it has. *)
freed_by_shutdown == refs
inference_shutdown ==
  /\ at = "idle" /\ g_inited
  /\ refs' = refs \ freed_by_shutdown
  /\ file' = None /\ arena' = << >> /\ arena_ptr' = 1 /\ slots' = NoSlots
  /\ g_inited' = FALSE
  /\ UNCHANGED << at, tn, lost, inits, strayed >>

(* inference_init: a running engine is shut down first.  Then loader_load  *)
(* forgets the model and context it is given pointers to, and reads the    *)
(* whole file.                                                             *)
no_shutdown_bug == refs
Kept == IF g_inited THEN refs \ freed_by_shutdown ELSE refs
dropped == Kept \cap (Model \cup Context \cup {"float_arena"})
opened ==
  /\ at = "idle" /\ inits < MaxInits /\ inits' = inits + 1
  /\ g_inited' = FALSE
  /\ lost' = lost \cup dropped
  /\ slots' = NoSlots /\ tn' = 1 /\ arena_ptr' = 1 /\ arena' = << >>

(* No such file, an empty file, no memory, a short read: the file is       *)
(* closed, the context and the blob are freed.                             *)
loader_fails ==
  /\ opened
  /\ refs' = Kept \ dropped
  /\ UNCHANGED << at, file, strayed >>
loader_reads(f) ==
  /\ opened
  /\ file' = f
  /\ refs' = (Kept \ dropped) \cup Context
  /\ at' = "parse"
  /\ UNCHANGED strayed

GiveUp == /\ at' = "idle" /\ file' = None /\ refs' = refs \cap Buffers
          /\ UNCHANGED << tn, arena, arena_ptr, slots, g_inited, inits, strayed >>

(* A wrong magic number or version, or metadata that does not parse. *)
bad_header ==
  /\ at = "parse" /\ ~(file.magic /\ file.version /\ file.kv)
  /\ GiveUp /\ UNCHANGED lost

(* The tensor infos are read into tinfos.  On one that does not parse      *)
(* bad_tensor frees the blob and the context.                              *)
Readable(f) == \A k \in Counted(f) : f.infos[k].readable
bad_tensor ==
  /\ at = "parse" /\ file.magic /\ file.version /\ file.kv
  /\ ~Readable(file)
  /\ GiveUp /\ lost' = lost \cup {"tinfos"}

(* No memory for tinfos, the arena, or model_alloc's model, blocks or      *)
(* cache, or more layers than it takes: all that was allocated is freed.   *)
oom ==
  /\ at = "parse" /\ file.magic /\ file.version /\ file.kv
  /\ GiveUp /\ UNCHANGED lost

floats(f, k) == IF k \in Counted(f) THEN f.infos[k].n_elem ELSE 0
floats_upto(f) ==
  LET sum[k \in 0 .. MAX_TENSORS] == IF k = 0 THEN 0 ELSE sum[k - 1] + floats(f, k)
  IN  sum
arena_floats(f) == floats_upto(f)[MAX_TENSORS] % SizeMod
arena_bytes(f) == (arena_floats(f) * 4) % SizeMod

(* The floats the allocation is sure to have room for: kmalloc_aligned     *)
(* asks for 32 + 8 more bytes, kmalloc rounds up to 16 and masks.          *)
aligned_room(bytes) ==
  LET block == ((((bytes + 40 + 15) % SizeMod) % MaskMod) \div 16) * 16
  IN  IF block >= bytes + 40 THEN bytes ELSE IF block >= 40 THEN block - 40 ELSE 0
allocate ==
  /\ at = "parse" /\ file.magic /\ file.version /\ file.kv /\ Readable(file)
  /\ arena' = [k \in 1 .. aligned_room(arena_bytes(file)) \div 4 |-> Garbage]
  /\ refs' = refs \cup Model \cup {"float_arena"}
  /\ at' = "assign"
  /\ UNCHANGED << file, tn, arena_ptr, slots, lost, g_inited, inits, strayed >>

(* One tensor: skipped if its type is not handled or its bytes are not in  *)
(* the file, else decoded behind the ones before it.  memcpy copies the    *)
(* bytes of an F32 tensor, the others are decoded by blocks.               *)
src(ti) == (data_section_start(file) + ti.raw_offset) % SizeMod
inside_file(ti) ==
  (data_section_start(file) + ti.raw_offset + raw_bytes(ti)) % SizeMod <= file.size
blocks_done(ti) == IF ti.type = "F32" THEN raw_bytes(ti) \div BlockBytes[ti.type]
                   ELSE n_blocks(ti)
packed_bug(ti) == n_blocks(ti)
advance(ti) == ti.n_elem
decoded(ti, k) ==      \* element k of the tensor, from 0
  [byte |-> src(ti) + (k \div BlockSize[ti.type]) * BlockBytes[ti.type],
   place |-> k % BlockSize[ti.type]]
within(ti) == /\ src(ti) + blocks_done(ti) * BlockBytes[ti.type] <= file.size
              /\ arena_ptr .. arena_ptr + blocks_done(ti) * BlockSize[ti.type] - 1
                   \subseteq DOMAIN arena
assign_tensor ==
  LET ti == file.infos[tn]
  IN  /\ at = "assign" /\ tn \in Counted(file)
      /\ tn' = tn + 1
      /\ IF raw_bytes(ti) # 0 /\ inside_file(ti)
         THEN /\ arena' = [k \in DOMAIN arena |->
                             IF k - arena_ptr \in 0 .. blocks_done(ti) * BlockSize[ti.type] - 1
                             THEN decoded(ti, k - arena_ptr) ELSE arena[k]]
              /\ slots' = IF ~has_slot(ti) THEN slots
                          ELSE [s \in DOMAIN slots \cup {find_tensor_slot(ti)} |->
                                  IF s = find_tensor_slot(ti)
                                  THEN [tensor |-> tn, dst |-> arena_ptr] ELSE slots[s]]
              /\ arena_ptr' = ((arena_ptr - 1 + advance(ti)) % (SizeMod \div 4)) + 1
              /\ strayed' = ~within(ti)
         ELSE UNCHANGED << arena, slots, arena_ptr, strayed >>
      /\ UNCHANGED << at, file, refs, lost, g_inited, inits >>

(* A model without an output matrix may use the embeddings for it. *)
wte == [layer |-> GLOBAL, name |-> "wte"]
lm_head == [layer |-> GLOBAL, name |-> "lm_head"]
loaded ==
  /\ at = "assign" /\ tn \notin Counted(file)
  /\ slots' = IF tie_weights /\ wte \in DOMAIN slots /\ lm_head \notin DOMAIN slots
              THEN [s \in DOMAIN slots \cup {lm_head} |-> slots[IF s = lm_head THEN wte ELSE s]]
              ELSE slots
  /\ at' = "buffers"
  /\ UNCHANGED << file, tn, arena, arena_ptr, refs, lost, g_inited, inits, strayed >>

(* The buffers overwrite g_logits and g_ids, whatever those point to.      *)
(* Without one of them inference_shutdown is called, which does nothing    *)
(* while g_inited is false: the model and the other buffer stay.           *)
buffers(got) ==
  /\ at = "buffers"
  /\ lost' = lost \cup (refs \cap Buffers)
  /\ refs' = (refs \ Buffers) \cup got
  /\ g_inited' = (got = Buffers)
  /\ at' = "idle"
  /\ UNCHANGED << file, tn, arena, arena_ptr, slots, inits, strayed >>

Next ==
  /\ ~strayed
  /\ \/ loader_fails
     \/ \E f \in Files : loader_reads(f)
     \/ bad_header \/ bad_tensor \/ oom \/ allocate \/ assign_tensor \/ loaded
     \/ \E got \in SUBSET Buffers : buffers(got)
     \/ inference_shutdown

Spec == Init /\ [][Next]_vars

-----------------------------------------------------------------------------
(* No sum or product over the file's numbers wraps: those of each tensor   *)
(* in size_t, and the arena's size in the heap's mask.                     *)
Fits(f) ==
  /\ \A k \in Counted(f) :
       LET ti == f.infos[k]
       IN  Handled(ti) =>
             data_section_start(f) + ti.raw_offset + n_blocks(ti) * BlockBytes[ti.type] < SizeMod
  /\ floats_upto(f)[MAX_TENSORS] * 4 + 40 + 15 < MaskMod

(* Types. *)
TypeOK ==
  /\ at \in {"idle", "parse", "assign", "buffers"}
  /\ file \in Files \cup {None}
  /\ \A s \in DOMAIN slots : slots[s].tensor \in DOMAIN file.infos
  /\ \A s \in DOMAIN slots : s.layer = GLOBAL \/ s.layer < n_layers
  /\ refs \subseteq Model \cup Context \cup Buffers \cup {"float_arena"}

(* The floats behind every pointer of the model are those of its tensor,   *)
(* decoded from its own bytes, inside the arena and not overwritten by a   *)
(* later tensor; the floats of a block that is not whole are never set.    *)
WeightsOfTensor ==
  \A s \in DOMAIN slots :
    LET ti == file.infos[slots[s].tensor]
        start == ((file.infos_end + GGUF_ALIGN - 1) \div GGUF_ALIGN) * GGUF_ALIGN
        whole == ti.n_elem - (ti.n_elem % BlockSize[ti.type])
    IN  \A k \in 0 .. ti.n_elem - 1 :
          /\ slots[s].dst + k \in DOMAIN arena
          /\ arena[slots[s].dst + k] =
               IF k >= whole THEN Garbage
               ELSE [byte |-> start + ti.raw_offset
                               + (k \div BlockSize[ti.type]) * BlockBytes[ti.type],
                     place |-> k % BlockSize[ti.type]]

(* Every tensor was read inside the file, whatever offsets and sizes the   *)
(* infos give, and written inside the arena (loader.c:390-402).            *)
ReadsInsideFile ==
  /\ ~strayed
  /\ \A k \in DOMAIN arena : arena[k] # Garbage => arena[k].byte < file.size

(* A running engine has every piece of memory it uses; one that is not     *)
(* running has none, but for what an init without memory for its buffers   *)
(* left.                                                                   *)
EngineOwnsItsMemory ==
  LET all == Model \cup Context \cup Buffers \cup {"float_arena"}
  IN  at = "idle" => IF g_inited THEN refs = all
                     ELSE \E b \in (SUBSET Buffers) \ {Buffers} :
                            refs = b \/ refs = b \cup (all \ Buffers)

(* Memory is lost in two ways only: the table of infos when an info does   *)
(* not parse, and what an init that got no buffers left behind, when the   *)
(* engine is initialised again.                                            *)
LostOnlyTwoWays ==
  [][lost' # lost =>
       \/ at = "parse" /\ lost' \ lost = {"tinfos"} /\ ~Readable(file)
       \/ ~g_inited /\ lost' \ lost \subseteq refs]_vars

(* The tensors of a feed-forward layer go where the block's computation    *)
(* expects them: up to w1, down to w2, gate to w_gate.                     *)
FeedForwardInPlace ==
  \A s \in DOMAIN slots :
    LET sub == file.infos[slots[s].tensor].sub
    IN  /\ sub = "ffn_up" => s.name = "w1"
        /\ sub = "ffn_down" => s.name = "w2"
        /\ sub = "ffn_gate" => s.name = "w_gate"

(* The model's weights are the file's and nothing else was touched, if no  *)
(* number of the file wraps; the engine has its memory exactly while it    *)
(* runs.                                                                   *)
WeightsLoaded ==
  /\ TypeOK /\ EngineOwnsItsMemory
  /\ Fits(file) => WeightsOfTensor /\ ReadsInsideFile
=============================================================================

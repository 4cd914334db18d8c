------------------------------- MODULE MCLlm ---------------------------------
(***************************************************************************)
(* The parts of the language model engine on small instances: tokenizer,   *)
(* loader and engine life, generation, sampling.  A behaviour runs one of  *)
(* them; the others keep an initial state.                                 *)
(***************************************************************************)
EXTENDS Naturals, Sequences

CONSTANTS
  MaxByte, LeadByte, MERGE_HASH_SIZE, TOK_MAX_TEXT, MAX_NODES, MaxIds, BufSizes,
  Files, BlockSize, BlockBytes, GGUF_ALIGN, MAX_TENSORS, n_layers, tie_weights,
  SizeMod, MaskMod, MaxInits,
  Token, bos_id, eos_id, n_heads, n_kv_heads, head_dim, max_seq_len, MaxNew,
  FfnHidden, MaxPrompt, MaxCalls,
  n, MaxWeight, LIM, Unit, TopK, TopP

VARIABLES
  part,
  tok, ht, text, at, i, id, prev, next, max_ids, ids, result, buf_size, t, buf,
  ld_at, file, tn, arena, arena_ptr, slots, refs, lost, g_inited, inits, strayed,
  ffn_hidden, kv, cur_len, call, phase, prompt, pos, cur, emitted, block_failed,
  greedy, top_k, top_p, u, given, probs, stage, sampled

tvars == << tok, ht, text, at, i, id, prev, next, max_ids, ids, result, buf_size, t, buf >>
lvars == << ld_at, file, tn, arena, arena_ptr, slots, refs, lost, g_inited, inits,
            strayed >>
gvars == << ffn_hidden, kv, cur_len, call, phase, prompt, pos, cur, emitted, block_failed >>
svars == << greedy, top_k, top_p, u, given, probs, stage, sampled >>
vars == << part, tvars, lvars, gvars, svars >>

-----------------------------------------------------------------------------
(* A hash that collides; two vocabularies' merge rules, one with a pair    *)
(* listed twice and more rules than slots.  Ids 0 to 2 are the unknown,    *)
(* begin and end tokens; with MaxByte = 3 the word mark is 4, and 5 to 7   *)
(* are "<0x01>" to "<0x03>".                                               *)
Hash(l, r) == (l + r) % MERGE_HASH_SIZE
Vocabulary == << <<4>>, <<1>>, <<5>>, <<2, 3>>, <<4, 1>>, <<1, 2, 3>>, <<1, 1>>,
                 <<4, 1, 1>>, <<7>>, <<6>> >>
Tokenizer(merges, bos, eos) ==
  [vocab |-> [k \in 0 .. Len(Vocabulary) + 2 |-> IF k < 3 THEN << >> ELSE Vocabulary[k - 2]],
   merges |-> merges, unk_id |-> 0, bos_id |-> 1, eos_id |-> 2,
   add_bos |-> bos, add_eos |-> eos]
Rules == {<< <<4, 4>>, <<7, 4>>, <<4, 6>>, <<3, 9>>, <<4, 4>> >>,
          << <<4, 6>>, <<7, 4>>, <<4, 8>>, <<4, 4>>, <<3, 4>> >>}
Tokenizers == {Tokenizer(m, b, ~b) : m \in Rules, b \in BOOLEAN}

(* Files: whole, cut short, with an unknown type, an unreadable info, a    *)
(* wrong magic number, bad metadata, too many tensors, a name twice, and   *)
(* with numbers that wrap at SizeMod = 256 and MaskMod = 128.              *)
MCBlockSize == [F32 |-> 1, F16 |-> 1, Q8_0 |-> 2]
MCBlockBytes == [F32 |-> 4, F16 |-> 2, Q8_0 |-> 3]
Info(l, s, ne, ty, o, r) == [layer |-> l, sub |-> s, n_elem |-> ne, type |-> ty,
                             raw_offset |-> o, readable |-> r]
File(size, magic, kvs, end, infos) ==
  [size |-> size, magic |-> magic, version |-> TRUE, kv |-> kvs, infos_end |-> end,
   infos |-> infos]
Embd == Info(99, "token_embd", 3, "F16", 0, TRUE)
Query == Info(0, "attn_q", 5, "Q8_0", 8, TRUE)
Up == Info(1, "ffn_up", 2, "F32", 16, TRUE)
NoLayer == Info(2, "ffn_down", 2, "F32", 24, TRUE)
Unhandled == Info(0, "ffn_gate", 2, "Q5", 4, TRUE)
Gate == Info(0, "ffn_gate", 2, "F16", 4, TRUE)
Far == Info(0, "attn_q", 6, "F16", 232, TRUE)        \* ends past the largest size_t
Behind == Info(0, "attn_q", 2, "F32", 248, TRUE)     \* so does its start
Vast == Info(0, "attn_q", 65, "F32", 0, TRUE)        \* 260 bytes are 4
Wide == Info(1, "attn_q", 26, "F16", 0, TRUE)        \* its floats do not pass the mask
Unreadable == Info(0, "attn_q", 1, "F32", 4, FALSE)
MCFiles ==
  {File(45, TRUE, TRUE, 9, << Embd, Query, Up, NoLayer >>),
   File(60, TRUE, TRUE, 12, << Query, Embd, Unhandled, Up >>),
   File(33, TRUE, TRUE, 11, << Up, Query, Embd >>),
   File(60, TRUE, TRUE, 12, << Embd, Unreadable >>),
   File(60, FALSE, TRUE, 12, << Embd, Query >>),
   File(60, TRUE, FALSE, 12, << Embd, Query >>),
   File(60, TRUE, TRUE, 16, << Query, Embd, Up, NoLayer, Embd >>),
   File(45, TRUE, TRUE, 9, << Embd, Query, Query, Gate >>),
   File(40, TRUE, TRUE, 12, << Embd, Far, Up >>),
   File(40, TRUE, TRUE, 12, << Behind, Query >>),
   File(40, TRUE, TRUE, 12, << Embd, Vast, Up >>),
   File(80, TRUE, TRUE, 12, << Embd, Wide >>)}

T == INSTANCE Tokenizer WITH merge_hash <- Hash
L == INSTANCE Loader WITH at <- ld_at
G == INSTANCE Generate
S == INSTANCE Sampler WITH result <- sampled

ASSUME LlmAssumption == G!GenerateAssumption /\ L!LoaderAssumption

-----------------------------------------------------------------------------
Init ==
  /\ part \in {"tokenizer", "loader", "generate", "sampler"}
  /\ part # "tokenizer" => tok = Tokenizer(<< >>, TRUE, FALSE)
  /\ part # "tokenizer" => text = << >>
  /\ part # "tokenizer" => max_ids = 3 /\ buf_size = 5
  /\ IF part = "tokenizer" THEN T!Init
     ELSE /\ ht = << >> /\ at = "pre" /\ i = 1 /\ id = << >> /\ prev = << >> /\ next = << >>
          /\ ids = << >> /\ result = "none" /\ t = 1 /\ buf = << >>
  /\ L!Init
  /\ part # "generate" => ffn_hidden = 0
  /\ G!Init
  /\ part # "sampler" => given = [v \in 0 .. n - 1 |-> 1]
  /\ part # "sampler" => greedy = TRUE /\ top_k = 0 /\ top_p = Unit /\ u = 0
  /\ IF part = "sampler" THEN S!Init ELSE probs = given /\ stage = "top_k" /\ sampled = n

Next ==
  \/ part = "tokenizer" /\ T!Next /\ UNCHANGED << part, lvars, gvars, svars >>
  \/ part = "loader" /\ L!Next /\ UNCHANGED << part, tvars, gvars, svars >>
  \/ part = "generate" /\ G!Next /\ UNCHANGED << part, tvars, lvars, svars >>
  \/ part = "sampler" /\ S!Next /\ UNCHANGED << part, tvars, lvars, gvars >>

Spec == Init /\ [][Next]_vars

-----------------------------------------------------------------------------
(* Encoding and decoding: the node list links the nodes that are left, the *)
(* merge table answers with the first rule, the tokens spell the text at   *)
(* every stage, nothing is left to merge, and decoding gives the text      *)
(* back.                                                                   *)
TokensRight == part = "tokenizer" => T!TokensRight

(* The floats behind the model's pointers are those of its tensors, read   *)
(* inside the file, if no number of the file wraps in loader.c:344-391;    *)
(* the engine has its memory exactly while it runs.                        *)
WeightsLoaded == part = "loader" => L!WeightsLoaded

(* Memory is lost in two known ways only. *)
LostOnlyTwoWays == L!LostOnlyTwoWays

(* Attention reads what this call computed. *)
CacheHoldsSequence == part = "generate" => G!TypeOK /\ G!CacheHoldsSequence

(* The filters keep the best k tokens and the smallest nucleus, and the    *)
(* token drawn was kept.                                                   *)
SampledRight == part = "sampler" => S!SampledRight

(* Feed-forward tensors go where the blocks expect them. *)
FeedForwardInPlace == part = "loader" => L!FeedForwardInPlace
=============================================================================

------------------------------ MODULE Generate -------------------------------
(***************************************************************************)
(* One inference_generate after another (kernel/llm/inference.c) over      *)
(* model_forward, the transformer blocks, and attention with its key and   *)
(* value cache (llm/model.c, transformer.c, attention.c).  Vectors are     *)
(* left out: a float of the cache is the place and the token it was        *)
(* computed for.  What the model samples is any token.                     *)
(*                                                                         *)
(* model_alloc leaves a block's ffn_hidden at 0, and then every call of    *)
(* transformer_block_forward fails; other values are those of a block      *)
(* filled in as transformer.h describes.                                   *)
(***************************************************************************)
EXTENDS Naturals, Sequences

CONSTANTS
  Token, bos_id, eos_id,     \* vocab_size is Cardinality(Token)
  n_layers, n_heads, n_kv_heads, head_dim, max_seq_len,
  MaxNew,                    \* g_cfg.max_tokens
  FfnHidden,                 \* values of ffn_hidden
  MaxPrompt, MaxCalls        \* bounds: tokens of a prompt, generates

(* The query heads are shared out evenly among the key and value heads     *)
(* (kv_per_q of attn_forward).                                             *)
GenerateAssumption ==
  /\ bos_id \in Token
  /\ {n_layers, head_dim, max_seq_len, MaxNew, MaxPrompt, MaxCalls} \subseteq Nat
  /\ {n_heads, n_kv_heads} \subseteq Nat \ {0}
  /\ n_heads = (n_heads \div n_kv_heads) * n_kv_heads

VARIABLES
  ffn_hidden,
  kv,          \* kvc->k, and kvc->v: index -> what was stored there
  cur_len,     \* kvc->cur_len
  call,        \* number of the inference_generate in progress, or the last
  phase,       \* "idle", "prime" or "step"
  prompt,      \* g_ids
  pos, cur,    \* the position and the token of the next forward
  emitted,     \* tokens sampled in this call
  block_failed \* did a block fail in this call?

vars == << ffn_hidden, kv, cur_len, call, phase, prompt, pos, cur, emitted, block_failed >>

Layers == 0 .. n_layers - 1
KvHeads == 0 .. n_kv_heads - 1
Dims == 0 .. head_dim - 1

(* KV_IDX: [n_layers][n_kv_heads][max_seq_len][head_dim] *)
KV_IDX(l, h, p, d) == l * (n_kv_heads * max_seq_len * head_dim)
                        + h * (max_seq_len * head_dim) + p * head_dim + d
kv_slots == n_layers * n_kv_heads * max_seq_len * head_dim

Zero == [call |-> 0, layer |-> 0, head |-> 0, pos |-> 0, dim |-> 0, token |-> bos_id]

Init ==
  /\ ffn_hidden \in FfnHidden
  /\ kv = [k \in 0 .. kv_slots - 1 |-> Zero] /\ cur_len = 0    \* kvcache_alloc
  /\ call = 0 /\ phase = "idle" /\ prompt = << >> /\ pos = 0 /\ cur = bos_id
  /\ emitted = << >> /\ block_failed = FALSE

-----------------------------------------------------------------------------
(* Query head h reads the keys and values of head kv_head(h), those of     *)
(* positions 0 .. pos of its layer, after attn_forward stored its own.     *)
kv_head(h) == (h * n_kv_heads) \div n_heads

(* transformer_block_forward needs ffn_hidden floats of scratch, and it    *)
(* and attn_forward memory for their vectors: without it a block does      *)
(* nothing.  model_forward runs the blocks in turn, on the layers Ran that *)
(* get their memory, and does not look at what they return.                *)
block_can_run == ffn_hidden # 0
ran_layers(Ran) == IF block_can_run THEN Ran ELSE {}
kv_after(Ran, token) ==
  LET writes == ran_layers(Ran) \X KvHeads \X Dims
      to(w) == KV_IDX(w[1], w[2], pos, w[3])
  IN  [k \in DOMAIN kv |->
         IF \E w \in writes : to(w) = k
         THEN LET w == CHOOSE x \in writes : to(x) = k
              IN  [call |-> call, layer |-> w[1], head |-> w[2], pos |-> pos,
                   dim |-> w[3], token |-> token]
         ELSE kv[k]]
len_after(Ran) ==      \* attn_forward: at least pos + 1; model_forward: one more
  1 + (IF ran_layers(Ran) # {} /\ pos + 1 > cur_len THEN pos + 1 ELSE cur_len)
forward(Ran, token) ==     \* tokens are of the vocabulary (model.c:173)
  /\ kv' = kv_after(Ran, token)
  /\ cur_len' = len_after(Ran)
  /\ block_failed' = (block_failed \/ ran_layers(Ran) # Layers)
out_of_context == pos >= max_seq_len

(* The prompt as the tokenizer gives it; an empty one is the begin mark. *)
inference_generate(ids) ==
  /\ phase = "idle" /\ call < MaxCalls /\ call' = call + 1
  /\ prompt' = ids /\ emitted' = << >> /\ pos' = 0 /\ block_failed' = FALSE
  /\ phase' = "prime"
  /\ UNCHANGED << ffn_hidden, kv, cur_len, cur >>

Return == phase' = "idle" /\ UNCHANGED << ffn_hidden, call, prompt >>

(* All prompt tokens but the last one. *)
more_to_prime == pos + 1 < Len(prompt)
prime(Ran) ==
  /\ phase = "prime" /\ more_to_prime /\ ~out_of_context
  /\ forward(Ran, prompt[pos + 1])
  /\ pos' = pos + 1
  /\ UNCHANGED << ffn_hidden, call, phase, prompt, cur, emitted >>
primed ==
  /\ phase = "prime" /\ ~more_to_prime
  /\ cur' = IF prompt # << >> THEN prompt[Len(prompt)] ELSE bos_id
  /\ phase' = "step"
  /\ UNCHANGED << ffn_hidden, kv, cur_len, call, prompt, pos, emitted, block_failed >>
too_long ==
  /\ phase \in {"prime", "step"} /\ out_of_context
  /\ phase = "prime" => more_to_prime
  /\ Return
  /\ UNCHANGED << kv, cur_len, pos, cur, emitted, block_failed >>

(* One token: forward, sample, and go on from it unless it is the end. *)
stale_token_bug(token) == cur
fed_back(token) == token
step(Ran, token) ==
  /\ phase = "step" /\ ~out_of_context /\ Len(emitted) < MaxNew
  /\ forward(Ran, cur)
  /\ IF token = eos_id
     THEN Return /\ UNCHANGED << pos, cur, emitted >>
     ELSE /\ emitted' = Append(emitted, token)
          /\ cur' = fed_back(token)
          /\ pos' = pos + 1
          /\ UNCHANGED << ffn_hidden, call, phase, prompt >>
enough ==
  /\ phase = "step" /\ Len(emitted) = MaxNew /\ ~out_of_context
  /\ Return /\ UNCHANGED << kv, cur_len, pos, cur, emitted, block_failed >>

inference_reset ==
  /\ phase = "idle" /\ cur_len # 0 /\ cur_len' = 0
  /\ UNCHANGED << ffn_hidden, kv, call, phase, prompt, pos, cur, emitted, block_failed >>

Prompts == UNION {[1 .. n -> Token] : n \in 0 .. MaxPrompt}
Next ==
  \/ \E ids \in Prompts : inference_generate(ids)
  \/ \E Ran \in SUBSET Layers : prime(Ran)
  \/ primed \/ too_long
  \/ \E Ran \in SUBSET Layers, token \in Token : step(Ran, token)
  \/ enough \/ inference_reset

Spec == Init /\ [][Next]_vars

-----------------------------------------------------------------------------
(* Types; positions and cache places exist. *)
TypeOK ==
  /\ phase \in {"idle", "prime", "step"}
  /\ prompt \in Prompts /\ emitted \in Seq(Token) /\ cur \in Token
  /\ pos \in 0 .. max_seq_len /\ cur_len \in Nat
  /\ \A l \in Layers, h \in KvHeads, p \in 0 .. max_seq_len - 1, d \in Dims :
       KV_IDX(l, h, p, d) \in DOMAIN kv

(* What attention reads for the next token is what this call computed: at  *)
(* every position already passed, for every layer and query head, the      *)
(* cache holds the entry of the prompt's token or of the token sampled     *)
(* there, each fed once and in order, from the key head the query heads of *)
(* a group share; nothing of an earlier call, of another layer or head is  *)
(* left or mixed in.  (A block that fails leaves the place as it was, and  *)
(* model_forward goes on.)                                                 *)
CacheHoldsSequence ==
  phase # "idle" /\ ~block_failed =>
    LET fed == (IF prompt = << >> THEN << bos_id >> ELSE prompt) \o emitted
    IN  \A l \in Layers, h \in 0 .. n_heads - 1, p \in 0 .. pos - 1, d \in Dims :
          kv[KV_IDX(l, kv_head(h), p, d)] =
            [call |-> call, layer |-> l, head |-> h \div (n_heads \div n_kv_heads),
             pos |-> p, dim |-> d, token |-> fed[p + 1]]
=============================================================================

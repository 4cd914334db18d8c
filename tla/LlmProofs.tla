----------------------------- MODULE LlmProofs -------------------------------
(***************************************************************************)
(* Proofs about the language model engine.  The key and value cache is one *)
(* flat array; that attention reads what this call computed rests on the   *)
(* index arithmetic of KV_IDX (two places of the cache never share a       *)
(* float), on the positions being fed once and in order, and on the query  *)
(* heads of a group sharing one key head.                                  *)
(***************************************************************************)
EXTENDS MCLlm, SequenceTheorems, WellFoundedInduction, TLAPS

(* A number below a * m has a quotient below a. *)
LEMMA Rows ==
  ASSUME NEW a \in Nat, NEW m \in Nat, NEW x \in 0 .. a - 1, NEW y \in 0 .. m - 1
  PROVE  x * m + y \in 0 .. a * m - 1
<1>1. x * m + m = (x + 1) * m
  OBVIOUS
<1>2. (x + 1) * m <= a * m
  <2>1. a = (x + 1) + (a - (x + 1)) /\ a - (x + 1) \in Nat
    OBVIOUS
  <2>2. PICK e \in Nat : a = (x + 1) + e
    BY <2>1
  <2>3. a * m = (x + 1) * m + e * m /\ e * m \in Nat
    BY <2>2
  <2> QED
    BY <2>3
<1>3. x * m \in Nat
  OBVIOUS
<1> QED
  BY <1>1, <1>2, <1>3

(* Row and column of a place in a table are determined by its index. *)
LEMMA RowsApart ==
  ASSUME NEW m \in Nat, NEW x \in Nat, NEW v \in Nat,
         NEW y \in 0 .. m - 1, NEW w \in 0 .. m - 1,
         x * m + y = v * m + w
  PROVE  x = v /\ y = w
<1>1. ASSUME NEW a \in Nat, NEW b \in Nat, NEW c \in 0 .. m - 1, NEW d \in 0 .. m - 1,
             a * m + c = b * m + d
      PROVE  ~(a < b)
  <2> SUFFICES ASSUME a < b PROVE FALSE
    OBVIOUS
  <2>1. PICK e \in Nat : b = (a + 1) + e
    <3>1. b - (a + 1) \in Nat /\ b = (a + 1) + (b - (a + 1))
      OBVIOUS
    <3> QED
      BY <3>1
  <2>2. b * m = a * m + m + e * m /\ e * m \in Nat
    BY <2>1
  <2>3. a * m \in Nat /\ b * m \in Nat
    OBVIOUS
  <2> QED
    BY <1>1, <2>2, <2>3
<1>2. ~(x < v) /\ ~(v < x)
  BY <1>1
<1>3. x = v
  BY <1>2
<1> QED
  BY <1>3

(* Dividing both by the size of a group: h is in group h \div g. *)
LEMMA Groups ==
  ASSUME NEW g \in Nat \ {0}, NEW k \in Nat \ {0}, NEW h \in 0 .. g * k - 1
  PROVE  /\ (h * k) \div (g * k) = h \div g
         /\ h \div g \in 0 .. k - 1
<1>1. PICK z \in Nat, r \in 0 .. g - 1 : h = z * g + r /\ z = h \div g
  <2>1. h = (h \div g) * g + (h % g) /\ h % g \in 0 .. g - 1 /\ h \div g \in Nat
    OBVIOUS
  <2> QED
    BY <2>1
<1>2. h * k = z * (g * k) + r * k
  BY <1>1
<1>3. r * k \in 0 .. g * k - 1
  <2>1. r * k + 0 \in 0 .. g * k - 1
    BY Rows
  <2> QED
    BY <2>1
<1>4. z < k
  <2> SUFFICES ASSUME z >= k PROVE FALSE
    OBVIOUS
  <2>1. PICK e \in Nat : z = k + e
    <3>1. z - k \in Nat /\ z = k + (z - k)
      OBVIOUS
    <3> QED
      BY <3>1
  <2>2. z * g = g * k + e * g /\ e * g \in Nat
    BY <2>1
  <2> QED
    BY <1>1, <2>2
<1>5. g * k \in Nat \ {0}
  OBVIOUS
<1>6. (h * k) \div (g * k) = z
  <2> DEFINE m == g * k
             b == h * k
  <2>1. b \in Nat /\ m \in Nat \ {0}
    BY <1>5
  <2>2. b = (b \div m) * m + (b % m) /\ b % m \in 0 .. m - 1 /\ b \div m \in Nat
    <3> HIDE DEF m, b
    <3> QED
      BY <2>1
  <2>3. b = z * m + r * k /\ r * k \in 0 .. m - 1
    BY <1>2, <1>3
  <2> HIDE DEF m, b
  <2>4. b \div m = z
    BY <2>1, <2>2, <2>3, RowsApart
  <2> QED
    BY <2>4 DEF m, b
<1> QED
  BY <1>1, <1>4, <1>6

-----------------------------------------------------------------------------
Positions == 0 .. max_seq_len - 1
Place(l, h, p, d) ==
  l \in G!Layers /\ h \in G!KvHeads /\ p \in Positions /\ d \in G!Dims

LEMMA Sizes ==
  /\ bos_id \in Token /\ n_layers \in Nat /\ head_dim \in Nat /\ max_seq_len \in Nat
  /\ MaxNew \in Nat /\ MaxPrompt \in Nat /\ MaxCalls \in Nat
  /\ n_heads \in Nat \ {0} /\ n_kv_heads \in Nat \ {0}
  /\ n_heads = (n_heads \div n_kv_heads) * n_kv_heads
BY LlmAssumption DEF G!GenerateAssumption

(* The index as nested rows. *)
Flat(l, h, p, d) == ((l * n_kv_heads + h) * max_seq_len + p) * head_dim + d

LEMMA IndexIsFlat ==
  ASSUME NEW l, NEW h, NEW p, NEW d, Place(l, h, p, d)
  PROVE  G!KV_IDX(l, h, p, d) = Flat(l, h, p, d)
<1>1. /\ l \in Nat /\ h \in Nat /\ p \in Nat /\ d \in Nat
      /\ n_kv_heads \in Nat /\ max_seq_len \in Nat /\ head_dim \in Nat
  BY Sizes DEF Place, G!Layers, G!KvHeads, Positions, G!Dims
<1> DEFINE a == l * n_kv_heads + h
           c == l * n_kv_heads
<1>2. c \in Nat /\ a = c + h /\ a \in Nat
  BY <1>1
<1>3. l * (n_kv_heads * max_seq_len * head_dim) = c * (max_seq_len * head_dim)
  BY <1>1
<1>4. /\ (a * max_seq_len + p) * head_dim = (a * max_seq_len) * head_dim + p * head_dim
      /\ (a * max_seq_len) * head_dim = a * (max_seq_len * head_dim)
      /\ a * (max_seq_len * head_dim) = c * (max_seq_len * head_dim) + h * (max_seq_len * head_dim)
  <2> HIDE DEF a, c
  <2> QED
    BY <1>1, <1>2
<1> QED
  BY <1>1, <1>2, <1>3, <1>4 DEF G!KV_IDX, Flat

(* Every place of the cache is in the array, *)
LEMMA IndexInside ==
  ASSUME NEW l, NEW h, NEW p, NEW d, Place(l, h, p, d)
  PROVE  G!KV_IDX(l, h, p, d) \in 0 .. G!kv_slots - 1
<1>1. l * n_kv_heads + h \in 0 .. n_layers * n_kv_heads - 1
  BY Sizes, Rows DEF Place, G!Layers, G!KvHeads
<1> DEFINE a == l * n_kv_heads + h
           A == n_layers * n_kv_heads
<1>2. A \in Nat /\ a \in 0 .. A - 1
  BY <1>1, Sizes
<1> HIDE DEF a, A
<1>3. a * max_seq_len + p \in 0 .. A * max_seq_len - 1
  BY <1>2, Sizes, Rows DEF Place, Positions
<1> DEFINE b == a * max_seq_len + p
           B == A * max_seq_len
<1>4. B \in Nat /\ b \in 0 .. B - 1
  BY <1>2, <1>3, Sizes
<1> HIDE DEF b, B
<1>5. b * head_dim + d \in 0 .. B * head_dim - 1
  BY <1>4, Sizes, Rows DEF Place, G!Dims
<1> QED
  BY <1>5, IndexIsFlat DEF Flat, G!kv_slots, a, A, b, B

(* and no two places share a float. *)
LEMMA IndexApart ==
  ASSUME NEW l, NEW h, NEW p, NEW d, Place(l, h, p, d),
         NEW l2, NEW h2, NEW p2, NEW d2, Place(l2, h2, p2, d2),
         G!KV_IDX(l, h, p, d) = G!KV_IDX(l2, h2, p2, d2)
  PROVE  l = l2 /\ h = h2 /\ p = p2 /\ d = d2
<1> DEFINE a == l * n_kv_heads + h
           a2 == l2 * n_kv_heads + h2
           b == a * max_seq_len + p
           b2 == a2 * max_seq_len + p2
<1>1. a \in Nat /\ a2 \in Nat
  BY Sizes DEF Place, G!Layers, G!KvHeads
<1>2. b \in Nat /\ b2 \in Nat
  <2> HIDE DEF a, a2
  <2> QED
    BY <1>1, Sizes DEF Place, Positions
<1>3. b * head_dim + d = b2 * head_dim + d2
  BY IndexIsFlat DEF Flat
<1>4. b = b2 /\ d = d2
  <2> HIDE DEF b, b2
  <2> QED
    BY <1>2, <1>3, Sizes, RowsApart DEF Place, G!Dims
<1>5. a = a2 /\ p = p2
  <2> HIDE DEF a, a2
  <2> QED
    BY <1>1, <1>4, Sizes, RowsApart DEF Place, Positions
<1>6. l = l2 /\ h = h2
  <2>1. l \in Nat /\ l2 \in Nat /\ h \in 0 .. n_kv_heads - 1 /\ h2 \in 0 .. n_kv_heads - 1
    BY Sizes DEF Place, G!Layers, G!KvHeads
  <2> QED
    BY <1>5, <2>1, Sizes, RowsApart
<1> QED
  BY <1>4, <1>5, <1>6

(* A query head reads the key head its group shares. *)
LEMMA SharedHead ==
  ASSUME NEW h \in 0 .. n_heads - 1
  PROVE  /\ G!kv_head(h) \in G!KvHeads
         /\ G!kv_head(h) = h \div (n_heads \div n_kv_heads)
<1> DEFINE g == n_heads \div n_kv_heads
<1>1. g \in Nat
  BY Sizes
<1>2. n_heads = g * n_kv_heads
  BY Sizes
<1> HIDE DEF g
<1>3. g # 0
  BY <1>1, <1>2, Sizes
<1>4. h \in 0 .. g * n_kv_heads - 1
  BY <1>2
<1>5. /\ (h * n_kv_heads) \div (g * n_kv_heads) = h \div g
      /\ h \div g \in 0 .. n_kv_heads - 1
  BY <1>1, <1>3, <1>4, Sizes, Groups
<1>6. (h * n_kv_heads) \div n_heads = h \div g
  BY <1>2, <1>5
<1> QED
  BY <1>5, <1>6 DEF G!kv_head, G!KvHeads, g

-----------------------------------------------------------------------------
(* The tokens this call feeds to the model, in order. *)
Fed == (IF prompt = << >> THEN << bos_id >> ELSE prompt) \o emitted

Entry(l, h, p, d, token) ==
  [call |-> call, layer |-> l, head |-> h, pos |-> p, dim |-> d, token |-> token]

(* Types; the array keeps its size. *)
GenTypes ==
  /\ phase \in {"idle", "prime", "step"}
  /\ prompt \in G!Prompts /\ emitted \in Seq(Token) /\ cur \in Token
  /\ pos \in 0 .. max_seq_len /\ cur_len \in Nat /\ call \in Nat
  /\ DOMAIN kv = 0 .. G!kv_slots - 1
  /\ block_failed \in BOOLEAN

(* How far the feeding has come: while priming the position is in front of *)
(* the prompt's last token, afterwards it is that of the current token.    *)
FeedingAt ==
  /\ phase = "prime" => emitted = << >> /\ (pos = 0 \/ pos < Len(prompt))
  /\ phase = "step" => pos + 1 = Len(Fed) /\ cur = Fed[pos + 1]

(* At every position passed the cache holds this call's entry. *)
CacheFilled ==
  phase # "idle" /\ ~block_failed =>
    \A l \in G!Layers, h \in G!KvHeads, p \in 0 .. pos - 1, d \in G!Dims :
      kv[G!KV_IDX(l, h, p, d)] = Entry(l, h, p, d, Fed[p + 1])

GenInv == GenTypes /\ FeedingAt /\ CacheFilled

LEMMA PromptIsSeq ==
  ASSUME NEW s \in G!Prompts
  PROVE  s \in Seq(Token)
<1>1. PICK k \in 0 .. MaxPrompt : s \in [1 .. k -> Token]
  BY DEF G!Prompts
<1> QED
  BY <1>1, Sizes

(* What a forward leaves in the cache when every block runs: the entries   *)
(* of its position, and of no other.                                       *)
LEMMA Stored ==
  ASSUME GenTypes, pos \in Positions, NEW Ran, NEW token,
         G!ran_layers(Ran) = G!Layers,
         NEW l, NEW h, NEW p, NEW d, Place(l, h, p, d)
  PROVE  G!kv_after(Ran, token)[G!KV_IDX(l, h, p, d)] =
           IF p = pos THEN Entry(l, h, pos, d, token) ELSE kv[G!KV_IDX(l, h, p, d)]
<1> DEFINE W == G!ran_layers(Ran) \X G!KvHeads \X G!Dims
           To(w) == G!KV_IDX(w[1], w[2], pos, w[3])
           k == G!KV_IDX(l, h, p, d)
           Made(w) == [call |-> call, layer |-> w[1], head |-> w[2], pos |-> pos,
                       dim |-> w[3], token |-> token]
           chosen == CHOOSE x \in W : To(x) = k
<1>1. k \in DOMAIN kv
  BY IndexInside DEF GenTypes
<1>2. G!kv_after(Ran, token)[k] = IF \E w \in W : To(w) = k THEN Made(chosen) ELSE kv[k]
  BY <1>1 DEF G!kv_after
<1>3. ASSUME NEW w \in W, To(w) = k
      PROVE  l = w[1] /\ h = w[2] /\ p = pos /\ d = w[3]
  <2>1. Place(w[1], w[2], pos, w[3])
    BY DEF Place
  <2> QED
    BY <1>3, <2>1, IndexApart
<1>4. CASE p = pos
  <2>1. << l, h, d >> \in W
    BY DEF Place
  <2>2. To(<< l, h, d >>) = k
    BY <1>4
  <2>3. \E w \in W : To(w) = k
    BY <2>1, <2>2
  <2>4. chosen \in W /\ To(chosen) = k
    <3> HIDE DEF W, To, k
    <3> QED
      BY <2>3
  <2>5. l = chosen[1] /\ h = chosen[2] /\ d = chosen[3]
    <3> HIDE DEF chosen, W, To, k
    <3> QED
      BY <1>3, <2>4
  <2>6. Made(chosen) = Entry(l, h, pos, d, token)
    <3> HIDE DEF chosen
    <3> QED
      BY <2>5 DEF Entry
  <2> HIDE DEF chosen, W, To, k, Made
  <2> QED
    BY <1>2, <1>4, <2>3, <2>6 DEF k
<1>5. CASE p # pos
  <2>1. ~\E w \in W : To(w) = k
    BY <1>3, <1>5
  <2> HIDE DEF chosen, W, To, k, Made
  <2> QED
    BY <1>2, <1>5, <2>1 DEF k
<1> QED
  BY <1>4, <1>5

(* One forward: the cache is filled one position further. *)
LEMMA Forwarded ==
  ASSUME GenInv, phase # "idle", ~G!out_of_context,
         NEW Ran, NEW token, G!forward(Ran, token),
         token = Fed[pos + 1]
  PROVE  /\ DOMAIN kv' = 0 .. G!kv_slots - 1
         /\ cur_len' \in Nat /\ block_failed' \in BOOLEAN
         /\ ~block_failed' =>
              \A l \in G!Layers, h \in G!KvHeads, p \in 0 .. pos, d \in G!Dims :
                kv'[G!KV_IDX(l, h, p, d)] = Entry(l, h, p, d, Fed[p + 1])
<1>1. pos \in Positions /\ GenTypes
  BY Sizes DEF GenInv, GenTypes, G!out_of_context, Positions
<1>2. kv' = G!kv_after(Ran, token)
  BY DEF G!forward
<1>3. DOMAIN kv' = DOMAIN kv
  BY <1>2 DEF G!kv_after
<1>4. cur_len' \in Nat
  BY <1>1 DEF G!forward, G!len_after, GenTypes, Positions
<1>5. block_failed' \in BOOLEAN
  BY <1>1 DEF G!forward, GenTypes
<1>6. ASSUME ~block_failed',
             NEW l \in G!Layers, NEW h \in G!KvHeads, NEW p \in 0 .. pos, NEW d \in G!Dims
      PROVE  kv'[G!KV_IDX(l, h, p, d)] = Entry(l, h, p, d, Fed[p + 1])
  <2>1. ~block_failed /\ G!ran_layers(Ran) = G!Layers
    BY <1>6 DEF G!forward
  <2>2. Place(l, h, p, d)
    BY <1>1, Sizes DEF Place, Positions
  <2>3. kv'[G!KV_IDX(l, h, p, d)] =
          IF p = pos THEN Entry(l, h, pos, d, token) ELSE kv[G!KV_IDX(l, h, p, d)]
    BY <1>1, <1>2, <2>1, <2>2, Stored
  <2>4. CASE p = pos
    BY <2>3, <2>4
  <2>5. CASE p # pos
    <3>1. p \in 0 .. pos - 1
      BY <1>1, <2>5 DEF Positions
    <3>2. kv[G!KV_IDX(l, h, p, d)] = Entry(l, h, p, d, Fed[p + 1])
      BY <2>1, <3>1 DEF GenInv, CacheFilled
    <3> QED
      BY <2>3, <2>5, <3>2
  <2> QED
    BY <2>4, <2>5
<1> QED
  BY <1>1, <1>3, <1>4, <1>5, <1>6 DEF GenTypes

LEMMA GenInitial ==
  Init => GenInv
<1> SUFFICES ASSUME Init PROVE GenInv
  OBVIOUS
<1>1. /\ kv = [k \in 0 .. G!kv_slots - 1 |-> G!Zero] /\ cur_len = 0
      /\ call = 0 /\ phase = "idle" /\ prompt = << >> /\ pos = 0 /\ cur = bos_id
      /\ emitted = << >> /\ block_failed = FALSE
  BY DEF Init, G!Init
<1>2. << >> \in G!Prompts
  <2>1. << >> \in [1 .. 0 -> Token]
    OBVIOUS
  <2>2. 0 \in 0 .. MaxPrompt
    BY Sizes
  <2>3. \E k \in 0 .. MaxPrompt : << >> \in [1 .. k -> Token]
    BY <2>1, <2>2
  <2> QED
    BY <2>3 DEF G!Prompts
<1>3. << >> \in Seq(Token)
  OBVIOUS
<1>4. GenTypes
  <2>1. prompt \in G!Prompts /\ emitted \in Seq(Token)
    BY ONLY <1>1, <1>2, <1>3
  <2>2. pos \in 0 .. max_seq_len /\ cur_len \in Nat /\ call \in Nat /\ cur \in Token
    BY <1>1, Sizes
  <2>3. block_failed \in BOOLEAN /\ phase \in {"idle", "prime", "step"}
    BY <1>1
  <2>4. DOMAIN kv = 0 .. G!kv_slots - 1
    BY <1>1
  <2> QED
    BY ONLY <2>1, <2>2, <2>3, <2>4 DEF GenTypes
<1> QED
  BY <1>1, <1>4 DEF GenInv, FeedingAt, CacheFilled

LEMMA GenStutters ==
  ASSUME GenInv, UNCHANGED gvars
  PROVE  GenInv'
<1>1. UNCHANGED << kv, cur_len, call, phase, prompt, pos, cur, emitted, block_failed >>
  BY DEF gvars
<1>2. Fed' = Fed /\ \A l, h, p, d, token : Entry(l, h, p, d, token)' = Entry(l, h, p, d, token)
  BY <1>1 DEF Fed, Entry
<1>3. GenTypes' /\ FeedingAt'
  BY <1>1, <1>2 DEF GenInv, GenTypes, FeedingAt
<1>4. CacheFilled'
  BY <1>1, <1>2 DEF GenInv, CacheFilled
<1> QED
  BY <1>3, <1>4 DEF GenInv

LEMMA GenStarts ==
  ASSUME GenInv, NEW s \in G!Prompts, G!inference_generate(s)
  PROVE  GenInv'
<1>1. /\ call' = call + 1 /\ prompt' = s /\ emitted' = << >> /\ pos' = 0
      /\ block_failed' = FALSE /\ phase' = "prime" /\ UNCHANGED << kv, cur_len, cur >>
  BY DEF G!inference_generate
<1>2. << >> \in Seq(Token)
  OBVIOUS
<1>3. GenTypes'
  <2>1. prompt' \in G!Prompts /\ emitted' \in Seq(Token)
    BY ONLY <1>1, <1>2, s \in G!Prompts
  <2>2. pos' \in 0 .. max_seq_len /\ call' \in Nat
    BY <1>1, Sizes DEF GenInv, GenTypes
  <2>3. block_failed' \in BOOLEAN /\ phase' \in {"idle", "prime", "step"}
    BY <1>1
  <2>4. UNCHANGED << kv, cur_len, cur >>
    BY <1>1
  <2> QED
    BY <2>1, <2>2, <2>3, <2>4 DEF GenInv, GenTypes
<1> QED
  BY <1>1, <1>3 DEF GenInv, FeedingAt, CacheFilled

LEMMA GenPrimes ==
  ASSUME GenInv, NEW Ran, G!prime(Ran)
  PROVE  GenInv'
<1>1. /\ phase = "prime" /\ ~G!out_of_context /\ pos + 1 < Len(prompt)
      /\ G!forward(Ran, prompt[pos + 1]) /\ pos' = pos + 1
      /\ UNCHANGED << call, phase, prompt, cur, emitted >>
  BY DEF G!prime, G!more_to_prime
<1>2. prompt \in Seq(Token) /\ pos \in Nat /\ emitted = << >>
  BY <1>1, PromptIsSeq DEF GenInv, GenTypes, FeedingAt
<1>3. Fed = prompt
  BY <1>1, <1>2 DEF Fed
<1>4. Fed' = Fed
  BY <1>1 DEF Fed
<1>5. /\ DOMAIN kv' = 0 .. G!kv_slots - 1
      /\ cur_len' \in Nat /\ block_failed' \in BOOLEAN
      /\ ~block_failed' =>
           \A l \in G!Layers, h \in G!KvHeads, p \in 0 .. pos, d \in G!Dims :
             kv'[G!KV_IDX(l, h, p, d)] = Entry(l, h, p, d, Fed[p + 1])
  BY <1>1, <1>3, Forwarded
<1>6. GenTypes'
  BY <1>1, <1>5, Sizes DEF GenInv, GenTypes, G!out_of_context
<1>7. FeedingAt'
  BY <1>1, <1>2 DEF FeedingAt
<1>8. CacheFilled'
  BY <1>1, <1>2, <1>4, <1>5 DEF CacheFilled, Entry
<1> QED
  BY <1>6, <1>7, <1>8 DEF GenInv

LEMMA GenPrimed ==
  ASSUME GenInv, G!primed
  PROVE  GenInv'
<1>1. /\ phase = "prime" /\ ~(pos + 1 < Len(prompt)) /\ phase' = "step"
      /\ cur' = IF prompt # << >> THEN prompt[Len(prompt)] ELSE bos_id
      /\ UNCHANGED << kv, cur_len, call, prompt, pos, emitted, block_failed >>
  BY DEF G!primed, G!more_to_prime
<1>2. prompt \in Seq(Token) /\ pos \in Nat /\ emitted = << >>
  BY <1>1, PromptIsSeq DEF GenInv, GenTypes, FeedingAt
<1>3. Fed = IF prompt = << >> THEN << bos_id >> ELSE prompt
  BY <1>2, Sizes DEF Fed
<1>4. Fed' = Fed
  BY <1>1 DEF Fed
<1>5. pos + 1 = Len(Fed) /\ cur' = Fed[pos + 1] /\ cur' \in Token
  <2>1. CASE prompt = << >>
    BY <1>1, <1>2, <1>3, <2>1, Sizes DEF GenInv, FeedingAt
  <2>2. CASE prompt # << >>
    BY <1>1, <1>2, <1>3, <2>2 DEF GenInv, FeedingAt
  <2> QED
    BY <2>1, <2>2
<1>6. GenTypes'
  BY <1>1, <1>5 DEF GenInv, GenTypes
<1>7. FeedingAt'
  BY <1>1, <1>4, <1>5 DEF FeedingAt
<1>8. CacheFilled'
  BY <1>1, <1>4 DEF GenInv, CacheFilled, Entry
<1> QED
  BY <1>6, <1>7, <1>8 DEF GenInv

(* A call returns without a forward, or the cache is reset: nothing more   *)
(* is read before the next call.                                           *)
LEMMA GenReturns ==
  ASSUME GenInv, phase' = "idle", cur_len' \in Nat,
         UNCHANGED << kv, call, prompt, pos, cur, emitted, block_failed >>
  PROVE  GenInv'
BY DEF GenInv, GenTypes, FeedingAt, CacheFilled

(* One token sampled: it is fed next. *)
LEMMA GenSteps ==
  ASSUME GenInv, NEW Ran, NEW token \in Token, G!step(Ran, token)
  PROVE  GenInv'
<1>1. phase = "step" /\ ~G!out_of_context /\ G!forward(Ran, cur)
  BY DEF G!step
<1>2. pos + 1 = Len(Fed) /\ cur = Fed[pos + 1]
  BY <1>1 DEF GenInv, FeedingAt
<1>3. /\ DOMAIN kv' = 0 .. G!kv_slots - 1
      /\ cur_len' \in Nat /\ block_failed' \in BOOLEAN
      /\ ~block_failed' =>
           \A l \in G!Layers, h \in G!KvHeads, p \in 0 .. pos, d \in G!Dims :
             kv'[G!KV_IDX(l, h, p, d)] = Entry(l, h, p, d, Fed[p + 1])
  BY <1>1, <1>2, Forwarded
<1>4. CASE token = eos_id
  <2>1. phase' = "idle" /\ UNCHANGED << call, prompt, pos, cur, emitted >>
    BY <1>4 DEF G!step, G!Return
  <2> QED
    BY <1>3, <2>1 DEF GenInv, GenTypes, FeedingAt, CacheFilled
<1>5. CASE token # eos_id
  <2>1. /\ emitted' = Append(emitted, token) /\ cur' = token /\ pos' = pos + 1
        /\ UNCHANGED << call, phase, prompt >>
    BY <1>5 DEF G!step, G!fed_back
  <2>2. prompt \in Seq(Token) /\ pos \in Nat /\ emitted \in Seq(Token) /\ bos_id \in Token
    BY PromptIsSeq, Sizes DEF GenInv, GenTypes
  <2> DEFINE base == IF prompt = << >> THEN << bos_id >> ELSE prompt
  <2>3. base \in Seq(Token) /\ base' = base
    BY <2>1, <2>2
  <2>4. Fed = base \o emitted /\ Fed' = base \o Append(emitted, token)
    BY <2>1, <2>3 DEF Fed
  <2> HIDE DEF base
  <2>5. /\ Len(Fed') = Len(Fed) + 1 /\ Fed'[Len(Fed) + 1] = token
        /\ \A x \in 1 .. Len(Fed) : Fed'[x] = Fed[x]
    BY <2>2, <2>3, <2>4
  <2>6. GenTypes'
    BY <1>1, <1>3, <2>1, <2>2, Sizes DEF GenInv, GenTypes, G!out_of_context
  <2>7. FeedingAt'
    BY <1>1, <1>2, <2>1, <2>2, <2>5 DEF FeedingAt
  <2>8. CacheFilled'
    <3> SUFFICES ASSUME ~block_failed', NEW l \in G!Layers, NEW h \in G!KvHeads,
                        NEW p \in 0 .. pos, NEW d \in G!Dims
                 PROVE  kv'[G!KV_IDX(l, h, p, d)] = Entry(l, h, p, d, Fed'[p + 1])
      BY <2>1, <2>2 DEF CacheFilled, Entry
    <3>1. Fed'[p + 1] = Fed[p + 1]
      BY <1>2, <2>2, <2>5
    <3> QED
      BY <1>3, <3>1
  <2> QED
    BY <2>6, <2>7, <2>8 DEF GenInv
<1> QED
  BY <1>4, <1>5

LEMMA GenInductive ==
  ASSUME GenInv, [Next]_vars
  PROVE  GenInv'
<1>1. CASE UNCHANGED gvars
  BY <1>1, GenStutters
<1>2. CASE G!Next
  <2>1. CASE G!too_long \/ G!enough \/ G!inference_reset
    <3>1. /\ phase' = "idle" /\ cur_len' \in Nat
          /\ UNCHANGED << kv, call, prompt, pos, cur, emitted, block_failed >>
      BY <2>1 DEF G!too_long, G!enough, G!inference_reset, G!Return, GenInv, GenTypes
    <3> QED
      BY <3>1, GenReturns
  <2> QED
    BY <1>2, <2>1, GenStarts, GenPrimes, GenPrimed, GenSteps DEF G!Next
<1> QED
  BY <1>1, <1>2 DEF Next, vars, gvars

(* Generation for every number of layers, heads, dimensions and positions: *)
(* the positions are fed once and in order, and the cache holds this       *)
(* call's entries at every position passed.                                *)
THEOREM LlmGenInvariance ==
  Spec => []GenInv
BY GenInitial, GenInductive, PTL DEF Spec

(* What attention reads for the next token is what this call computed, for *)
(* every size of model and context, and any number of calls, failed blocks *)
(* and resets.                                                             *)
THEOREM LlmCacheHoldsSequence ==
  Spec => []CacheHoldsSequence
<1>1. GenInv => CacheHoldsSequence
  <2> SUFFICES ASSUME GenInv PROVE G!TypeOK /\ G!CacheHoldsSequence
    BY DEF CacheHoldsSequence
  <2>1. G!TypeOK
    <3>1. ASSUME NEW l \in G!Layers, NEW h \in G!KvHeads,
                 NEW p \in 0 .. max_seq_len - 1, NEW d \in G!Dims
          PROVE  G!KV_IDX(l, h, p, d) \in DOMAIN kv
      BY IndexInside DEF Place, Positions, GenInv, GenTypes
    <3> QED
      BY <3>1 DEF G!TypeOK, GenInv, GenTypes
  <2>2. ASSUME phase # "idle", ~block_failed,
               NEW l \in G!Layers, NEW h \in 0 .. n_heads - 1, NEW p \in 0 .. pos - 1,
               NEW d \in G!Dims
        PROVE  kv[G!KV_IDX(l, G!kv_head(h), p, d)] =
                 [call |-> call, layer |-> l, head |-> h \div (n_heads \div n_kv_heads),
                  pos |-> p, dim |-> d, token |-> Fed[p + 1]]
    BY <2>2, SharedHead DEF GenInv, CacheFilled, Entry
  <2>3. G!CacheHoldsSequence
    BY <2>2 DEF G!CacheHoldsSequence, Fed
  <2> QED
    BY <2>1, <2>3
<1> QED
  BY <1>1, LlmGenInvariance, PTL

-----------------------------------------------------------------------------
(* The loader.  Where inference_init is, what it has so far and what it    *)
(* owes: before the tensors nothing is set; while they are decoded, and if *)
(* the file's numbers do not wrap, the floats from arena_ptr on are        *)
(* untouched and there are enough of them for the tensors to come.         *)
AllMemory == L!Model \cup L!Context \cup L!Buffers \cup {"float_arena"}

LoadTypes ==
  /\ ld_at \in {"idle", "parse", "assign", "buffers"}
  /\ file \in Files \cup {L!None}
  /\ tn \in Nat \ {0}
  /\ refs \subseteq AllMemory

(* Every slot is that of a tensor of the file. *)
SlotPlaced(s) ==
  /\ slots[s].tensor \in L!Counted(file)
  /\ s.layer = L!GLOBAL \/ s.layer < n_layers

(* That tensor is in its blocks, and its floats lie in front of arena_ptr. *)
SlotSound(s) ==
  LET ti == file.infos[slots[s].tensor]
  IN  /\ slots[s].dst \in Nat \ {0} /\ slots[s].dst + ti.n_elem <= arena_ptr
      /\ L!Handled(ti)
      /\ \A k \in 0 .. ti.n_elem - 1 :
           /\ slots[s].dst + k \in DOMAIN arena
           /\ arena[slots[s].dst + k] =
                IF k < L!n_blocks(ti) * BlockSize[ti.type] THEN L!decoded(ti, k) ELSE L!Garbage

Stage ==
  /\ ld_at # "idle" => file \in Files /\ ~g_inited
  /\ ld_at = "parse" => DOMAIN slots = {} /\ DOMAIN arena = {} /\ arena_ptr = 1 /\ tn = 1
  /\ ld_at = "assign" => tn - 1 \in 0 .. MAX_TENSORS

(* All the floats of the file's tensors. *)
AllFloats == L!floats_upto(file)[MAX_TENSORS]
ToCome ==
  /\ DOMAIN arena = 1 .. AllFloats
  /\ arena_ptr - 1 <= L!floats_upto(file)[tn - 1]
  /\ \A k \in DOMAIN arena : k >= arena_ptr => arena[k] = L!Garbage
Filled ==
  /\ arena_ptr \in Nat \ {0}
  /\ ld_at = "assign" => ToCome
  /\ L!ReadsInsideFile
  /\ \A s \in DOMAIN slots : SlotSound(s)

(* What the engine's pointers lead to, at each stage. *)
Owned ==
  /\ ld_at = "idle" /\ g_inited => refs = AllMemory
  /\ ~g_inited => ~(L!Buffers \subseteq refs)
  /\ ld_at = "idle" => refs \ L!Buffers \in {{}, AllMemory \ L!Buffers}
  /\ ld_at = "parse" => refs \ L!Buffers = L!Context
  /\ ld_at \in {"assign", "buffers"} => refs \ L!Buffers = AllMemory \ L!Buffers

LoadInv ==
  /\ LoadTypes /\ Stage /\ Owned
  /\ \A s \in DOMAIN slots : SlotPlaced(s)
  /\ L!Fits(file) => Filled

(* A set of numbers that is not empty has a least element. *)
LEMMA LeastOf ==
  ASSUME NEW Z, Z \subseteq Nat, Z # {}
  PROVE  \E x \in Z : \A y \in Z : x <= y
<1> DEFINE R == {ss \in Nat \X Nat : ss[1] < ss[2]}
<1>1. IsWellFoundedOn(R, Nat)
  BY NatLessThanWellFounded DEF OpToRel
<1>2. \A y, x \in Nat : y < x => << y, x >> \in R
  OBVIOUS
<1> HIDE DEF R
<1>3. PICK x \in Z : \A y \in Z : ~(<< y, x >> \in R)
  BY <1>1, WFMin, Zenon
<1>4. ASSUME NEW y \in Z PROVE x <= y
  <2>1. x \in Nat /\ y \in Nat
    OBVIOUS
  <2>2. ~(y < x)
    BY <1>2, <1>3, <2>1
  <2> QED
    BY <2>1, <2>2
<1> QED
  BY <1>4

LEMMA FileFacts ==
  /\ GGUF_ALIGN \in Nat \ {0} /\ MAX_TENSORS \in Nat
  /\ \A ty \in DOMAIN BlockSize : BlockSize[ty] \in Nat \ {0} /\ BlockBytes[ty] \in Nat \ {0}
  /\ \A f \in Files : f.size \in Nat /\ f.infos_end \in Nat /\ f.infos \in Seq(L!Info)
  /\ SizeMod \in Nat \ {0} /\ MaskMod \in Nat \ {0} /\ MaskMod <= SizeMod
BY LlmAssumption DEF L!LoaderAssumption

LEMMA FloatsOfTensor ==
  ASSUME NEW f \in Files
  PROVE  /\ L!Counted(f) \subseteq DOMAIN f.infos /\ L!Counted(f) \subseteq 1 .. MAX_TENSORS
         /\ \A k \in 1 .. MAX_TENSORS : L!floats(f, k) \in Nat
         /\ \A k \in L!Counted(f) : L!floats(f, k) = f.infos[k].n_elem
<1>1. L!Counted(f) \subseteq DOMAIN f.infos /\ L!Counted(f) \subseteq 1 .. MAX_TENSORS
  BY FileFacts DEF L!Counted
<1>2. ASSUME NEW k \in L!Counted(f) PROVE f.infos[k].n_elem \in Nat
  <2>1. f.infos \in Seq(L!Info) /\ k \in DOMAIN f.infos
    BY <1>1, FileFacts
  <2>2. f.infos[k] \in L!Info
    BY <2>1
  <2> QED
    BY <2>2, FileFacts DEF L!Info, L!Size
<1> QED
  BY <1>1, <1>2 DEF L!floats

(* The first pass's sum, defined by recursion on the tensors, is what the  *)
(* recursion says.                                                         *)
LEMMA FloatsUpto ==
  ASSUME NEW f \in Files
  PROVE  /\ \A k \in 0 .. MAX_TENSORS : L!floats_upto(f)[k] \in Nat
         /\ L!floats_upto(f)[0] = 0
         /\ \A k \in 1 .. MAX_TENSORS :
              L!floats_upto(f)[k] = L!floats_upto(f)[k - 1] + L!floats(f, k)
<1> DEFINE M == MAX_TENSORS
           e(k) == L!floats(f, k)
           Def(g, m) == /\ g \in [0 .. m -> Nat] /\ g[0] = 0
                        /\ \A k \in 1 .. m : g[k] = g[k - 1] + e(k)
           Made(m) == \E g : Def(g, m)
           Bad == {m \in 0 .. M : ~Made(m)}
           Rec(g) == g = [k \in 0 .. M |-> IF k = 0 THEN 0 ELSE g[k - 1] + e(k)]
           s == L!floats_upto(f)
<1>0. M \in Nat /\ \A k \in 1 .. M : e(k) \in Nat
  BY FileFacts, FloatsOfTensor
<1> HIDE DEF M, e
<1>1. Bad = {}
  <2> SUFFICES ASSUME Bad # {} PROVE FALSE
    OBVIOUS
  <2>0. Bad \subseteq Nat
    BY <1>0
  <2>1. PICK m \in Bad : \A y \in Bad : m <= y
    <3> HIDE DEF Bad
    <3> QED
      BY <2>0, LeastOf
  <2>2. m # 0
    <3>1. Def([k \in 0 .. 0 |-> 0], 0)
      OBVIOUS
    <3>2. Made(0)
      BY <3>1
    <3> HIDE DEF Made
    <3> QED
      BY <2>1, <3>2
  <2>3. m - 1 \in 0 .. M /\ Made(m - 1)
    <3> HIDE DEF Made
    <3> QED
      BY <1>0, <2>1, <2>2
  <2>4. PICK g : Def(g, m - 1)
    BY <2>3
  <2>5. Def([k \in 0 .. m |-> IF k = m THEN g[m - 1] + e(m) ELSE g[k]], m)
    BY <1>0, <2>1, <2>2, <2>4
  <2>6. Made(m)
    BY <2>5
  <2> HIDE DEF Made
  <2> QED
    BY <2>1, <2>6
<1>2. PICK g : Def(g, M)
  <2>1. Made(M)
    <3> HIDE DEF Made
    <3> QED
      BY <1>0, <1>1
  <2> QED
    BY <2>1
<1>3. Rec(g)
  BY <1>0, <1>2
<1>4. s = CHOOSE h : Rec(h)
  BY DEF L!floats_upto, M, e
<1> HIDE DEF s
<1>5. Rec(s)
  <2> HIDE DEF Rec
  <2> QED
    BY <1>3, <1>4
<1>6. s[0] = 0 /\ \A k \in 1 .. M : s[k] = s[k - 1] + e(k)
  BY <1>0, <1>5
<1>7. \A k \in 0 .. M : s[k] \in Nat
  <2> DEFINE B == {k \in 0 .. M : s[k] \notin Nat}
  <2> SUFFICES ASSUME B # {} PROVE FALSE
    OBVIOUS
  <2>0. B \subseteq Nat
    BY <1>0
  <2>1. PICK m \in B : \A y \in B : m <= y
    <3> HIDE DEF B
    <3> QED
      BY <2>0, LeastOf
  <2>2. m # 0
    BY <1>6, <2>1
  <2>3. m - 1 \in 0 .. M /\ s[m - 1] \in Nat
    BY <1>0, <2>1, <2>2
  <2>4. s[m] = s[m - 1] + e(m) /\ e(m) \in Nat
    BY <1>0, <1>6, <2>1, <2>2
  <2> QED
    BY <2>1, <2>3, <2>4
<1> QED
  BY <1>6, <1>7 DEF s, M, e

(* It does not shrink. *)
LEMMA FloatsGrow ==
  ASSUME NEW f \in Files, NEW j \in 0 .. MAX_TENSORS
  PROVE  L!floats_upto(f)[j] <= L!floats_upto(f)[MAX_TENSORS]
<1> DEFINE s == L!floats_upto(f)
           M == MAX_TENSORS
           B == {k \in j .. M : ~(s[j] <= s[k])}
<1>1. /\ M \in Nat /\ \A k \in 0 .. M : s[k] \in Nat
      /\ \A k \in 1 .. M : s[k] = s[k - 1] + L!floats(f, k) /\ L!floats(f, k) \in Nat
  BY FileFacts, FloatsUpto, FloatsOfTensor
<1> HIDE DEF s
<1>2. B = {}
  <2> SUFFICES ASSUME B # {} PROVE FALSE
    OBVIOUS
  <2>0. B \subseteq Nat
    BY <1>1
  <2>1. PICK m \in B : \A y \in B : m <= y
    <3> HIDE DEF B
    <3> QED
      BY <2>0, LeastOf
  <2>2. m # j
    BY <1>1, <2>1
  <2>3. m - 1 \in j .. M /\ s[j] <= s[m - 1]
    BY <1>1, <2>1, <2>2
  <2> QED
    BY <1>1, <2>1, <2>3
<1>3. s[j] <= s[M]
  BY <1>1, <1>2
<1> QED
  BY <1>3 DEF s

(* The numbers of a file that fits do not wrap: the arena has a float for  *)
(* each element.                                                           *)
LEMMA RoomForAll ==
  ASSUME NEW f \in Files, L!Fits(f)
  PROVE  L!aligned_room(L!arena_bytes(f)) \div 4 = L!floats_upto(f)[MAX_TENSORS]
<1> DEFINE all == L!floats_upto(f)[MAX_TENSORS]
<1>1. all \in Nat /\ all * 4 + 55 < MaskMod
  <2>1. MAX_TENSORS \in 0 .. MAX_TENSORS
    BY FileFacts
  <2>2. all \in Nat
    BY <2>1, FloatsUpto
  <2> QED
    BY <2>2 DEF L!Fits
<1>2. L!arena_bytes(f) = ((all % SizeMod) * 4) % SizeMod
  BY DEF L!arena_bytes, L!arena_floats
<1> HIDE DEF all
<1>3. SizeMod \in Nat /\ MaskMod \in Nat /\ MaskMod <= SizeMod
  BY FileFacts
<1>4. all % SizeMod = all /\ (all * 4) % SizeMod = all * 4
  BY <1>1, <1>3
<1>5. L!arena_bytes(f) = all * 4
  BY <1>2, <1>4
<1> DEFINE bytes == all * 4
           asked == bytes + 40 + 15
<1>6. bytes \in Nat /\ asked \in Nat /\ asked < MaskMod
  BY <1>1
<1>7. (asked % SizeMod) % MaskMod = asked
  BY <1>3, <1>6
<1>8. (asked \div 16) * 16 >= bytes + 40
  BY <1>6
<1>9. L!aligned_room(bytes) = bytes
  BY <1>7, <1>8 DEF L!aligned_room
<1>10. bytes \div 4 = all
  BY <1>1
<1> QED
  BY <1>5, <1>9, <1>10 DEF all

-----------------------------------------------------------------------------
LEMMA MemorySets ==
  /\ L!Buffers # {}
  /\ L!Buffers \cap (L!Model \cup L!Context \cup {"float_arena"}) = {}
BY DEF L!Buffers, L!Model, L!Context

LEMMA NothingSet ==
  DOMAIN L!NoSlots = {} /\ DOMAIN << >> = {}
BY DEF L!NoSlots

LEMMA LoadInitial ==
  Init => LoadInv
<1> SUFFICES ASSUME Init PROVE LoadInv
  OBVIOUS
<1>1. /\ ld_at = "idle" /\ file = L!None /\ tn = 1 /\ arena = << >> /\ arena_ptr = 1
      /\ slots = L!NoSlots /\ refs = {} /\ g_inited = FALSE /\ strayed = FALSE
  BY DEF Init, L!Init
<1>2. LoadTypes
  BY <1>1 DEF LoadTypes
<1>3. Stage
  BY <1>1 DEF Stage
<1>4. Owned
  BY <1>1, MemorySets DEF Owned
<1>5. Filled /\ \A s \in DOMAIN slots : SlotPlaced(s)
  BY <1>1, NothingSet DEF Filled, L!ReadsInsideFile
<1> QED
  BY <1>2, <1>3, <1>4, <1>5 DEF LoadInv

(* What depends on the file alone. *)
LEMMA SameFile ==
  ASSUME file' = file
  PROVE  /\ L!Fits(file)' = L!Fits(file)
         /\ L!floats_upto(file)' = L!floats_upto(file) /\ AllFloats' = AllFloats
         /\ L!Counted(file)' = L!Counted(file)
<1>1. /\ L!floats_upto(file)' = L!floats_upto(file)
      /\ L!Counted(file)' = L!Counted(file)
  BY DEF L!floats_upto, L!floats, L!Counted
<1>2. L!Fits(file)' = L!Fits(file)
  BY <1>1 DEF L!Fits, L!Handled, L!data_section_start, L!n_blocks
<1> QED
  BY <1>1, <1>2 DEF AllFloats

LEMMA LoadStutters ==
  ASSUME LoadInv, UNCHANGED lvars
  PROVE  LoadInv'
<1>1. UNCHANGED << ld_at, file, tn, arena, arena_ptr, slots, refs, g_inited, strayed >>
  BY DEF lvars
<1>2. LoadTypes' /\ Stage' /\ Owned' /\ \A s \in DOMAIN slots' : SlotPlaced(s)'
  BY <1>1, SameFile DEF LoadInv, LoadTypes, Stage, Owned, SlotPlaced
<1>3. Filled => Filled'
  BY <1>1, SameFile DEF Filled, ToCome, SlotSound, L!ReadsInsideFile, L!decoded, L!src,
     L!data_section_start
<1> QED
  BY <1>1, <1>2, <1>3, SameFile DEF LoadInv

(* loader_load starts: only buffers an earlier init got may be left. *)
LEMMA Opened ==
  ASSUME LoadInv, L!opened
  PROVE  /\ L!Kept \ L!dropped \subseteq L!Buffers
         /\ ~(L!Buffers \subseteq L!Kept \ L!dropped)
<1>1. refs \subseteq AllMemory /\ (~g_inited => ~(L!Buffers \subseteq refs))
  BY DEF LoadInv, LoadTypes, Owned
<1>2. L!Kept \subseteq refs /\ (g_inited => L!Kept = {})
  BY DEF L!Kept, L!freed_by_shutdown
<1> QED
  BY <1>1, <1>2, MemorySets DEF L!dropped, AllMemory

LEMMA LoadOpens ==
  ASSUME LoadInv, ~strayed, L!loader_fails \/ \E f \in Files : L!loader_reads(f)
  PROVE  LoadInv'
<1>1. /\ g_inited' = FALSE /\ slots' = L!NoSlots /\ tn' = 1 /\ arena_ptr' = 1
      /\ arena' = << >> /\ L!opened /\ ld_at = "idle" /\ strayed' = FALSE
  BY DEF L!loader_fails, L!loader_reads, L!opened
<1>2. /\ L!Kept \ L!dropped \subseteq L!Buffers
      /\ ~(L!Buffers \subseteq L!Kept \ L!dropped)
  BY <1>1, Opened
<1>3. \/ refs' = L!Kept \ L!dropped /\ UNCHANGED << ld_at, file >>
      \/ refs' = (L!Kept \ L!dropped) \cup L!Context /\ file' \in Files /\ ld_at' = "parse"
  BY DEF L!loader_fails, L!loader_reads
<1> DEFINE left == L!Kept \ L!dropped
<1> HIDE DEF left
<1>4. /\ left \subseteq L!Buffers /\ ~(L!Buffers \subseteq left)
      /\ \/ refs' = left /\ UNCHANGED << ld_at, file >>
         \/ refs' = left \cup L!Context /\ file' \in Files /\ ld_at' = "parse"
  BY <1>2, <1>3 DEF left
<1>5. LoadTypes'
  BY <1>1, <1>4 DEF LoadInv, LoadTypes, AllMemory
<1>6. Stage'
  BY <1>1, <1>4, NothingSet DEF Stage
<1>7. Owned'
  BY <1>1, <1>4, MemorySets DEF Owned, AllMemory
<1>8. Filled' /\ \A s \in DOMAIN slots' : SlotPlaced(s)'
  BY <1>1, <1>4, NothingSet DEF Filled, L!ReadsInsideFile
<1> QED
  BY <1>5, <1>6, <1>7, <1>8 DEF LoadInv

(* The header or an info does not parse, or there is no memory. *)
LEMMA LoadGivesUp ==
  ASSUME LoadInv, ~strayed, ld_at = "parse", L!GiveUp
  PROVE  LoadInv'
<1>1. /\ ld_at' = "idle" /\ file' = L!None /\ refs' = refs \cap L!Buffers
      /\ UNCHANGED << tn, arena, arena_ptr, slots, g_inited, strayed >>
  BY DEF L!GiveUp
<1>2. ~g_inited /\ DOMAIN slots = {} /\ DOMAIN arena = {} /\ arena_ptr = 1
  BY DEF LoadInv, Stage
<1>3. LoadTypes'
  BY <1>1 DEF LoadInv, LoadTypes
<1>4. Stage'
  BY <1>1 DEF Stage
<1>5. Owned'
  BY <1>1, <1>2 DEF LoadInv, Owned
<1>6. Filled' /\ \A s \in DOMAIN slots' : SlotPlaced(s)'
  BY <1>1, <1>2 DEF Filled, L!ReadsInsideFile
<1> QED
  BY <1>3, <1>4, <1>5, <1>6 DEF LoadInv

LEMMA LoadAllocates ==
  ASSUME LoadInv, ~strayed, L!allocate
  PROVE  LoadInv'
<1>1. /\ ld_at = "parse" /\ ld_at' = "assign"
      /\ arena' = [k \in 1 .. L!aligned_room(L!arena_bytes(file)) \div 4 |-> L!Garbage]
      /\ refs' = refs \cup L!Model \cup {"float_arena"}
      /\ UNCHANGED << file, tn, arena_ptr, slots, g_inited, strayed >>
  BY DEF L!allocate
<1>2. /\ file \in Files /\ ~g_inited /\ DOMAIN slots = {} /\ arena_ptr = 1 /\ tn = 1
      /\ refs \ L!Buffers = L!Context
  BY <1>1 DEF LoadInv, Stage, Owned
<1>3. LoadTypes'
  BY <1>1 DEF LoadInv, LoadTypes, AllMemory
<1>4. Stage'
  <2>1. 0 \in 0 .. MAX_TENSORS
    BY FileFacts
  <2> QED
    BY <1>1, <1>2, <2>1 DEF Stage
<1>5. Owned'
  BY <1>1, <1>2, MemorySets DEF LoadInv, Owned, AllMemory
<1>6. ASSUME L!Fits(file) PROVE Filled'
  <2>1. arena' = [k \in 1 .. AllFloats |-> L!Garbage]
    BY <1>1, <1>2, <1>6, RoomForAll DEF AllFloats
  <2>2. L!floats_upto(file)[tn - 1] = 0
    <3>1. tn - 1 = 0
      BY <1>2
    <3> QED
      BY <1>2, <3>1, FloatsUpto
  <2>3. ToCome'
    BY <1>1, <1>2, <2>1, <2>2, SameFile DEF ToCome
  <2> QED
    BY <1>1, <1>2, <2>1, <2>3 DEF Filled, L!ReadsInsideFile
<1> QED
  BY <1>1, <1>2, <1>3, <1>4, <1>5, <1>6, SameFile DEF LoadInv

(* The engine's buffers: with both it runs. *)
LEMMA LoadBuffers ==
  ASSUME LoadInv, NEW got \in SUBSET L!Buffers, L!buffers(got)
  PROVE  LoadInv'
<1>1. /\ ld_at = "buffers" /\ ld_at' = "idle" /\ refs' = (refs \ L!Buffers) \cup got
      /\ g_inited' = (got = L!Buffers)
      /\ UNCHANGED << file, tn, arena, arena_ptr, slots, strayed >>
  BY DEF L!buffers
<1>2. LoadTypes'
  BY <1>1 DEF LoadInv, LoadTypes, AllMemory
<1>3. Stage'
  BY <1>1 DEF Stage
<1>4. Owned'
  <2>1. refs \ L!Buffers = AllMemory \ L!Buffers
    BY <1>1 DEF LoadInv, Owned
  <2> QED
    BY <1>1, <2>1, MemorySets DEF Owned, AllMemory
<1>5. \A s \in DOMAIN slots' : SlotPlaced(s)'
  BY <1>1, SameFile DEF LoadInv, SlotPlaced
<1>6. Filled => Filled'
  BY <1>1 DEF Filled, L!ReadsInsideFile, SlotSound, L!decoded, L!src, L!data_section_start
<1> QED
  BY <1>1, <1>2, <1>3, <1>4, <1>5, <1>6, SameFile DEF LoadInv

LEMMA LoadShutdown ==
  ASSUME LoadInv, ~strayed, L!inference_shutdown
  PROVE  LoadInv'
<1>1. /\ ld_at = "idle" /\ UNCHANGED << ld_at, tn, strayed >>
      /\ refs' = {} /\ file' = L!None /\ arena' = << >> /\ arena_ptr' = 1
      /\ slots' = L!NoSlots /\ g_inited' = FALSE
  BY DEF L!inference_shutdown, L!freed_by_shutdown
<1>2. LoadTypes'
  BY <1>1 DEF LoadInv, LoadTypes
<1>3. Stage'
  BY <1>1 DEF Stage
<1>4. Owned'
  BY <1>1, MemorySets DEF Owned
<1>5. Filled' /\ \A s \in DOMAIN slots' : SlotPlaced(s)'
  BY <1>1, NothingSet DEF Filled, L!ReadsInsideFile
<1> QED
  BY <1>2, <1>3, <1>4, <1>5 DEF LoadInv

(* The embeddings stand in for a missing output matrix. *)
LEMMA LoadTies ==
  ASSUME LoadInv, L!loaded
  PROVE  LoadInv'
<1>1. /\ ld_at = "assign" /\ ld_at' = "buffers"
      /\ UNCHANGED << file, tn, arena, arena_ptr, refs, g_inited, strayed >>
  BY DEF L!loaded
<1>2. ASSUME NEW s \in DOMAIN slots'
      PROVE  \E x \in DOMAIN slots : slots'[s] = slots[x] /\ (s = x \/ s = L!lm_head)
  <2>1. CASE slots' = slots
    BY <1>2, <2>1
  <2>2. CASE slots' # slots
    <3>1. /\ slots' = [x \in DOMAIN slots \cup {L!lm_head} |->
                         slots[IF x = L!lm_head THEN L!wte ELSE x]]
          /\ L!wte \in DOMAIN slots
      BY <2>2 DEF L!loaded
    <3> QED
      BY <1>2, <3>1
  <2> QED
    BY <2>1, <2>2
<1>3. \A s \in DOMAIN slots' : SlotPlaced(s)'
  <2> TAKE s \in DOMAIN slots'
  <2>1. PICK x \in DOMAIN slots : slots'[s] = slots[x] /\ (s = x \/ s = L!lm_head)
    BY <1>2
  <2>2. SlotPlaced(x)
    BY DEF LoadInv
  <2>3. L!lm_head.layer = L!GLOBAL
    BY DEF L!lm_head
  <2> QED
    BY <1>1, <2>1, <2>2, <2>3, SameFile DEF SlotPlaced
<1>4. ASSUME Filled PROVE Filled'
  <2>1. \A s \in DOMAIN slots' : SlotSound(s)'
    <3> TAKE s \in DOMAIN slots'
    <3>1. PICK x \in DOMAIN slots : slots'[s] = slots[x]
      BY <1>2
    <3>2. SlotSound(x)
      BY <1>4 DEF Filled
    <3> QED
      BY <1>1, <3>1, <3>2 DEF SlotSound, L!decoded, L!src, L!data_section_start
  <2> QED
    BY <1>1, <1>4, <2>1 DEF Filled, L!ReadsInsideFile
<1>5. LoadTypes' /\ Stage' /\ Owned'
  BY <1>1 DEF LoadInv, LoadTypes, Stage, Owned
<1> QED
  BY <1>1, <1>3, <1>4, <1>5, SameFile DEF LoadInv

(* The whole blocks of a handled tensor, and where an element's block is. *)
LEMMA Blocks ==
  ASSUME NEW ti \in L!Info, L!Handled(ti)
  PROVE  /\ BlockSize[ti.type] \in Nat \ {0} /\ BlockBytes[ti.type] \in Nat \ {0}
         /\ ti.n_elem \in Nat /\ ti.raw_offset \in Nat
         /\ L!n_blocks(ti) \in Nat
         /\ L!n_blocks(ti) * BlockSize[ti.type] \in Nat
         /\ L!n_blocks(ti) * BlockSize[ti.type] = ti.n_elem - (ti.n_elem % BlockSize[ti.type])
         /\ L!n_blocks(ti) * BlockSize[ti.type] <= ti.n_elem
         /\ \A k \in 0 .. L!n_blocks(ti) * BlockSize[ti.type] - 1 :
              /\ k \div BlockSize[ti.type] \in Nat
              /\ (k \div BlockSize[ti.type]) * BlockBytes[ti.type] \in Nat
              /\ (k \div BlockSize[ti.type]) * BlockBytes[ti.type]
                   < L!n_blocks(ti) * BlockBytes[ti.type]
<1> DEFINE Z == BlockSize[ti.type]
           Y == BlockBytes[ti.type]
           e == ti.n_elem
           b == e \div Z
<1>1. Z \in Nat \ {0} /\ Y \in Nat \ {0} /\ e \in Nat /\ ti.raw_offset \in Nat
  BY FileFacts DEF L!Handled, L!Info, L!Size
<1>2. L!n_blocks(ti) = b
  BY DEF L!n_blocks
<1> HIDE DEF Z, Y, e
<1>3. e = b * Z + (e % Z) /\ e % Z \in 0 .. Z - 1 /\ b \in Nat
  BY <1>1
<1> HIDE DEF b
<1>4. b * Z \in Nat
  BY <1>1, <1>3
<1>5. b * Z = e - (e % Z) /\ b * Z <= e
  BY <1>1, <1>3, <1>4
<1>6. ASSUME NEW k \in 0 .. b * Z - 1
      PROVE  k \div Z \in Nat /\ (k \div Z) * Y \in Nat /\ (k \div Z) * Y < b * Y
  <2>1. b # 0 /\ k \in 0 .. Z * b - 1
    BY <1>1, <1>3
  <2>2. k \div Z \in 0 .. b - 1
    BY <1>1, <1>3, <2>1, Groups
  <2> DEFINE z == k \div Z
  <2> HIDE DEF z
  <2>3. z \in 0 .. b - 1
    BY <2>2 DEF z
  <2>4. z * Y + 0 \in 0 .. b * Y - 1
    BY <1>1, <1>3, <2>3, Rows
  <2>5. z * Y \in Nat /\ b * Y \in Nat
    BY <1>1, <1>3, <2>3
  <2>6. z * Y < b * Y
    BY <2>4, <2>5
  <2> QED
    BY <2>3, <2>5, <2>6 DEF z
<1> QED
  BY <1>1, <1>2, <1>3, <1>4, <1>5, <1>6 DEF Z, Y, e

LEMMA TensorFacts ==
  ASSUME LoadInv, ld_at = "assign", tn \in L!Counted(file)
  PROVE  /\ file \in Files /\ tn \in 1 .. MAX_TENSORS /\ tn \in DOMAIN file.infos
         /\ file.infos[tn] \in L!Info
         /\ L!floats_upto(file)[tn - 1] \in Nat /\ L!floats_upto(file)[tn] \in Nat
         /\ L!floats_upto(file)[tn] = L!floats_upto(file)[tn - 1] + file.infos[tn].n_elem
         /\ L!floats_upto(file)[tn] <= AllFloats
         /\ AllFloats \in Nat
<1>1. file \in Files
  BY DEF LoadInv, Stage
<1>2. tn \in 1 .. MAX_TENSORS /\ tn \in DOMAIN file.infos
  BY <1>1, FloatsOfTensor
<1>3. file.infos \in Seq(L!Info) /\ MAX_TENSORS \in Nat
  BY <1>1, FileFacts
<1>4. file.infos[tn] \in L!Info
  BY <1>2, <1>3
<1>5. L!floats(file, tn) = file.infos[tn].n_elem
  BY <1>1, FloatsOfTensor
<1>6. /\ \A k \in 0 .. MAX_TENSORS : L!floats_upto(file)[k] \in Nat
      /\ L!floats_upto(file)[tn] = L!floats_upto(file)[tn - 1] + L!floats(file, tn)
  BY <1>1, <1>2, FloatsUpto
<1>7. L!floats_upto(file)[tn] <= AllFloats
  BY <1>1, <1>2, <1>3, FloatsGrow DEF AllFloats
<1>8. AllFloats \in Nat
  BY <1>3, <1>6 DEF AllFloats
<1> QED
  BY <1>1, <1>2, <1>3, <1>4, <1>5, <1>6, <1>7, <1>8

LEMMA DataStart ==
  ASSUME NEW f \in Files
  PROVE  L!data_section_start(f) \in Nat
<1>1. GGUF_ALIGN \in Nat \ {0} /\ f.infos_end \in Nat
  BY FileFacts
<1>2. f.infos_end + GGUF_ALIGN - 1 \in Nat
  BY <1>1
<1>3. (f.infos_end + GGUF_ALIGN - 1) \div GGUF_ALIGN \in Nat
  BY <1>1, <1>2
<1> QED
  BY <1>1, <1>3 DEF L!data_section_start

(* In a file that fits the sums and products of a tensor are what they     *)
(* would be without a largest number.                                      *)
LEMMA NoWrap ==
  ASSUME file \in Files, L!Fits(file), NEW k \in L!Counted(file), L!Handled(file.infos[k])
  PROVE  LET ti == file.infos[k]
             D  == L!data_section_start(file)
             size == L!n_blocks(ti) * BlockBytes[ti.type]
         IN  /\ size \in Nat /\ D \in Nat
             /\ L!raw_bytes(ti) = size
             /\ L!src(ti) = D + ti.raw_offset
             /\ L!inside_file(ti) <=> D + ti.raw_offset + size <= file.size
             /\ L!blocks_done(ti) = L!n_blocks(ti)
<1> DEFINE ti == file.infos[k]
           D  == L!data_section_start(file)
           Y  == BlockBytes[ti.type]
           b  == L!n_blocks(ti)
           o  == ti.raw_offset
           size == b * Y
<1>1. ti \in L!Info
  <2>1. k \in DOMAIN file.infos /\ file.infos \in Seq(L!Info)
    BY FloatsOfTensor, FileFacts
  <2> QED
    BY <2>1
<1>2. Y \in Nat \ {0} /\ b \in Nat /\ o \in Nat
  BY <1>1, Blocks
<1>3. D \in Nat
  BY DataStart
<1>4. D + o + size < SizeMod
  BY DEF L!Fits
<1>5. SizeMod \in Nat
  BY FileFacts
<1>6. L!raw_bytes(ti) = size % SizeMod /\ L!src(ti) = (D + o) % SizeMod
  BY DEF L!raw_bytes, L!src
<1>7. L!inside_file(ti) <=> (D + o + L!raw_bytes(ti)) % SizeMod <= file.size
  BY DEF L!inside_file
<1>8. L!blocks_done(ti) = IF ti.type = "F32" THEN L!raw_bytes(ti) \div Y ELSE b
  BY DEF L!blocks_done
<1> HIDE DEF ti, D, Y, b, o
<1>9. size \in Nat
  BY <1>2
<1>10. (b * Y) \div Y = b
  BY <1>2
<1> HIDE DEF size
<1>11. size % SizeMod = size /\ (D + o) % SizeMod = D + o /\ (D + o + size) % SizeMod = D + o + size
  BY <1>2, <1>3, <1>4, <1>5, <1>9
<1>12. L!raw_bytes(ti) = size /\ L!src(ti) = D + o
  BY <1>6, <1>11
<1>13. L!inside_file(ti) <=> D + o + size <= file.size
  BY <1>7, <1>11, <1>12
<1>14. L!blocks_done(ti) = b
  BY <1>8, <1>10, <1>12 DEF size
<1> QED
  BY <1>3, <1>9, <1>12, <1>13, <1>14 DEF ti, D, Y, b, o, size

(* One tensor decoded behind the ones before it, in a file that fits. *)
LEMMA Assigned ==
  ASSUME LoadInv, L!assign_tensor, L!Fits(file)
  PROVE  Filled'
<1> DEFINE ti == file.infos[tn]
           whole == L!n_blocks(ti) * BlockSize[ti.type]
<1>1. /\ ld_at = "assign" /\ tn \in L!Counted(file) /\ tn' = tn + 1
      /\ UNCHANGED << ld_at, file >>
  BY DEF L!assign_tensor
<1>2. /\ file \in Files /\ tn \in 1 .. MAX_TENSORS /\ ti \in L!Info
      /\ L!floats_upto(file)[tn - 1] \in Nat /\ L!floats_upto(file)[tn] \in Nat
      /\ L!floats_upto(file)[tn] = L!floats_upto(file)[tn - 1] + ti.n_elem
      /\ L!floats_upto(file)[tn] <= AllFloats
      /\ AllFloats \in Nat
  BY <1>1, TensorFacts
<1>3. ti.n_elem \in Nat /\ ti.raw_offset \in Nat
  BY <1>2, FileFacts DEF L!Info, L!Size
<1>4. /\ DOMAIN arena = 1 .. AllFloats
      /\ arena_ptr \in Nat \ {0} /\ arena_ptr - 1 <= L!floats_upto(file)[tn - 1]
      /\ \A k \in DOMAIN arena : k >= arena_ptr => arena[k] = L!Garbage
      /\ ~strayed /\ L!ReadsInsideFile
  BY <1>1 DEF LoadInv, Filled, ToCome, L!ReadsInsideFile
<1>5. AllFloats' = AllFloats /\ L!floats_upto(file)' = L!floats_upto(file)
  BY <1>1, SameFile
<1>6. /\ arena_ptr \in Nat /\ 1 <= arena_ptr /\ ti.n_elem \in Nat /\ AllFloats \in Nat
      /\ arena_ptr - 1 + ti.n_elem <= L!floats_upto(file)[tn]
      /\ arena_ptr - 1 + ti.n_elem <= AllFloats
  BY <1>2, <1>3, <1>4
<1>9. tn' - 1 = tn
  BY <1>1, <1>2
<1>7. CASE ~(L!raw_bytes(ti) # 0 /\ L!inside_file(ti))
  <2>1. UNCHANGED << arena, slots, arena_ptr, strayed >>
    BY <1>7 DEF L!assign_tensor
  <2>2. ToCome'
    <3>1. arena_ptr' - 1 <= L!floats_upto(file)'[tn' - 1]
      BY <1>1, <1>2, <1>3, <1>4, <1>5, <2>1
    <3> QED
      BY <1>1, <1>4, <1>5, <2>1, <3>1 DEF ToCome
  <2> QED
    BY <1>1, <2>1, <2>2
    DEF LoadInv, Filled, L!ReadsInsideFile, SlotSound, L!decoded, L!src, L!data_section_start
<1>8. CASE L!raw_bytes(ti) # 0 /\ L!inside_file(ti)
  <2> DEFINE D == L!data_section_start(file)
             size == L!n_blocks(ti) * BlockBytes[ti.type]
  <2>2. L!Handled(ti)
    BY <1>8 DEF L!raw_bytes
  <2>3. /\ whole \in Nat /\ whole <= ti.n_elem
        /\ \A k \in 0 .. whole - 1 :
             /\ k \div BlockSize[ti.type] \in Nat
             /\ (k \div BlockSize[ti.type]) * BlockBytes[ti.type] \in Nat
             /\ (k \div BlockSize[ti.type]) * BlockBytes[ti.type] < size
    BY <1>2, <2>2, Blocks
  <2>0. /\ size \in Nat /\ D \in Nat /\ L!src(ti) = D + ti.raw_offset
        /\ D + ti.raw_offset + size <= file.size
        /\ L!blocks_done(ti) = L!n_blocks(ti)
    BY <1>1, <1>2, <1>8, <2>2, NoWrap
  <2>10. file.size \in Nat
    BY <1>2, FileFacts
  <2>11. /\ arena' = [k \in DOMAIN arena |->
                       IF k - arena_ptr \in 0 .. whole - 1
                       THEN L!decoded(ti, k - arena_ptr) ELSE arena[k]]
         /\ slots' = IF ~L!has_slot(ti) THEN slots
                     ELSE [s \in DOMAIN slots \cup {L!find_tensor_slot(ti)} |->
                             IF s = L!find_tensor_slot(ti)
                             THEN [tensor |-> tn, dst |-> arena_ptr] ELSE slots[s]]
         /\ arena_ptr' = ((arena_ptr - 1 + ti.n_elem) % (SizeMod \div 4)) + 1
         /\ strayed' = ~L!within(ti)
    BY <1>8, <2>0 DEF L!assign_tensor, L!advance
  <2>12. arena_ptr' = arena_ptr + ti.n_elem
    <3>0. AllFloats * 4 + 40 + 15 < MaskMod
      BY DEF L!Fits, AllFloats
    <3>1. /\ AllFloats * 4 + 55 < MaskMod
          /\ MaskMod \in Nat /\ SizeMod \in Nat /\ MaskMod <= SizeMod
      BY <1>2, <3>0, FileFacts
    <3> DEFINE w == SizeMod \div 4
               x == arena_ptr - 1 + ti.n_elem
    <3>2. w \in Nat /\ AllFloats < w
      BY <1>2, <3>1
    <3>3. x \in Nat /\ x <= AllFloats
      BY <1>2, <1>3, <1>4
    <3>4. arena_ptr' = (x % w) + 1
      BY <2>11
    <3> HIDE DEF w
    <3>5. x % w = x
      BY <1>2, <3>2, <3>3
    <3> QED
      BY <1>3, <1>4, <3>4, <3>5
  <2>1. /\ arena' = [k \in DOMAIN arena |->
                       IF k - arena_ptr \in 0 .. whole - 1
                       THEN L!decoded(ti, k - arena_ptr) ELSE arena[k]]
        /\ slots' = IF ~L!has_slot(ti) THEN slots
                    ELSE [s \in DOMAIN slots \cup {L!find_tensor_slot(ti)} |->
                            IF s = L!find_tensor_slot(ti)
                            THEN [tensor |-> tn, dst |-> arena_ptr] ELSE slots[s]]
        /\ arena_ptr' = arena_ptr + ti.n_elem
    BY <2>11, <2>12
  <2>13. L!within(ti)
    <3>1. L!within(ti) <=> /\ L!src(ti) + size <= file.size
                           /\ arena_ptr .. arena_ptr + whole - 1 \subseteq DOMAIN arena
      BY <2>0 DEF L!within
    <3> HIDE DEF size, D, whole
    <3>2. L!src(ti) + size <= file.size
      BY <1>3, <2>0, <2>10
    <3>4. whole \in Nat /\ whole <= ti.n_elem
      BY <2>3
    <3>3. arena_ptr .. arena_ptr + whole - 1 \subseteq 1 .. AllFloats
      BY ONLY <1>6, <3>4
    <3> QED
      BY <1>4, <3>1, <3>2, <3>3
  <2> HIDE DEF whole
  <2>4. arena_ptr' \in Nat \ {0}
    BY <1>3, <1>4, <2>1
  <2>5. ToCome'
    <3>1. arena_ptr' - 1 <= L!floats_upto(file)'[tn' - 1]
      <4>1. arena_ptr' = arena_ptr + ti.n_elem
        BY <2>1
      <4>2. arena_ptr' - 1 <= L!floats_upto(file)[tn]
        BY <1>6, <4>1
      <4> QED
        BY <1>5, <1>9, <4>2
    <3>3. DOMAIN arena' = 1 .. AllFloats'
      BY <1>4, <1>5, <2>1
    <3>4. ASSUME NEW k \in DOMAIN arena', k >= arena_ptr'
          PROVE  arena'[k] = L!Garbage
      <4>1. k \in Nat /\ k \in DOMAIN arena /\ k >= arena_ptr
        BY <1>2, <1>3, <1>4, <2>1, <3>4
      <4>2. ~(k - arena_ptr \in 0 .. whole - 1)
        BY <1>3, <1>4, <2>1, <2>3, <3>4, <4>1
      <4> QED
        BY <1>4, <2>1, <4>1, <4>2
    <3> QED
      BY <3>1, <3>3, <3>4 DEF ToCome
  <2>6. L!ReadsInsideFile'
    <3> SUFFICES ASSUME NEW k \in DOMAIN arena, arena'[k] # L!Garbage
                 PROVE  arena'[k].byte < file.size
      BY <1>1, <2>1, <2>11, <2>13 DEF L!ReadsInsideFile
    <3>1. CASE ~(k - arena_ptr \in 0 .. whole - 1)
      BY <1>4, <2>1, <3>1 DEF L!ReadsInsideFile
    <3>2. CASE k - arena_ptr \in 0 .. whole - 1
      <4> DEFINE j == k - arena_ptr
                 o == (j \div BlockSize[ti.type]) * BlockBytes[ti.type]
      <4>1. arena'[k].byte = D + ti.raw_offset + o
        BY <2>0, <2>1, <3>2 DEF L!decoded
      <4>2. o \in Nat /\ o < size
        BY <2>3, <3>2
      <4> HIDE DEF D, o, size
      <4> QED
        BY <1>3, <2>0, <2>10, <4>1, <4>2
    <3> QED
      BY <3>1, <3>2
  <2>7. ASSUME NEW s \in DOMAIN slots, slots'[s] = slots[s]
        PROVE  SlotSound(s)'
    <3> DEFINE tt == file.infos[slots[s].tensor]
               d == slots[s].dst
    <3>0. slots[s].tensor \in DOMAIN file.infos
      BY <1>2, FloatsOfTensor DEF LoadInv, SlotPlaced
    <3>1. /\ d \in Nat \ {0} /\ d + tt.n_elem <= arena_ptr
          /\ L!Handled(tt)
          /\ \A k \in 0 .. tt.n_elem - 1 :
               /\ d + k \in DOMAIN arena
               /\ arena[d + k] =
                    IF k < L!n_blocks(tt) * BlockSize[tt.type]
                    THEN L!decoded(tt, k) ELSE L!Garbage
      BY DEF LoadInv, Filled, SlotSound
    <3>2. tt.n_elem \in Nat
      <4>1. file.infos \in Seq(L!Info)
        BY <1>2, FileFacts
      <4>2. tt \in L!Info
        BY <3>0, <4>1
      <4> QED
        BY <4>2, FileFacts DEF L!Info, L!Size
    <3>3. ASSUME NEW k \in 0 .. tt.n_elem - 1
          PROVE  d + k \in DOMAIN arena' /\ arena'[d + k] = arena[d + k]
      <4>1. d + k \in DOMAIN arena
        BY <3>1
      <4>2. d \in Nat /\ k \in 0 .. tt.n_elem - 1 /\ tt.n_elem \in Nat /\ arena_ptr \in Nat
        BY <1>4, <3>1, <3>2
      <4>3. d + tt.n_elem <= arena_ptr
        BY <3>1
      <4> HIDE DEF d, tt
      <4>4. (d + k) - arena_ptr < 0
        BY <4>2, <4>3
      <4> DEFINE x == d + k
      <4>5. x \in DOMAIN arena /\ ~(x - arena_ptr \in 0 .. whole - 1)
        BY <2>3, <4>1, <4>4
      <4> HIDE DEF x
      <4>6. x \in DOMAIN arena' /\ arena'[x] = arena[x]
        BY <2>1, <4>5
      <4> QED
        BY <4>6 DEF x
    <3>4. d + tt.n_elem <= arena_ptr'
      <4>1. d \in Nat /\ tt.n_elem \in Nat /\ d + tt.n_elem <= arena_ptr
        BY <3>1, <3>2
      <4>2. arena_ptr' = arena_ptr + ti.n_elem
        BY <2>1
      <4> HIDE DEF d, tt
      <4> QED
        BY ONLY <1>6, <4>1, <4>2
    <3>5. /\ \A k : L!decoded(tt, k)' = L!decoded(tt, k)
          /\ L!n_blocks(tt)' = L!n_blocks(tt) /\ L!Handled(tt)' = L!Handled(tt)
          /\ tt' = tt /\ d' = d
      BY <1>1, <2>7 DEF L!decoded, L!src, L!data_section_start, L!n_blocks, L!Handled
    <3> QED
      BY <1>1, <2>7, <3>1, <3>3, <3>4, <3>5, ZenonT(60)
      DEF SlotSound, L!decoded, L!src, L!data_section_start, L!n_blocks, L!Handled
  <2>8. ASSUME L!has_slot(ti), NEW s, s = L!find_tensor_slot(ti),
               slots'[s] = [tensor |-> tn, dst |-> arena_ptr]
        PROVE  SlotSound(s)'
    <3>1. slots'[s].tensor = tn /\ slots'[s].dst = arena_ptr
      BY <2>8
    <3>3. ASSUME NEW k \in 0 .. ti.n_elem - 1
          PROVE  /\ arena_ptr + k \in DOMAIN arena'
                 /\ arena'[arena_ptr + k] =
                      IF k < whole THEN L!decoded(ti, k) ELSE L!Garbage
      <4>0. arena_ptr + k \in 1 .. AllFloats
        BY <1>6
      <4>1. arena_ptr + k \in DOMAIN arena
        BY <1>4, <4>0
      <4>2. arena_ptr + k >= arena_ptr /\ (arena_ptr + k) - arena_ptr = k
        BY <1>3, <1>4
      <4>3. k \in 0 .. whole - 1 <=> k < whole
        BY <1>3, <2>3
      <4> QED
        BY <1>4, <2>1, <4>1, <4>2, <4>3
    <3>4. arena_ptr + ti.n_elem <= arena_ptr'
      BY <1>3, <1>4, <2>1
    <3>5. ti = file.infos[tn] /\ file' = file
      BY <1>1
    <3> HIDE DEF ti
    <3> QED
      BY <1>2, <1>4, <2>2, <3>1, <3>3, <3>4, <3>5
      DEF SlotSound, L!decoded, L!src, L!data_section_start, L!n_blocks, L!Handled, whole
  <2>9. \A s \in DOMAIN slots' : SlotSound(s)'
    <3> TAKE s \in DOMAIN slots'
    <3>1. CASE s \in DOMAIN slots /\ slots'[s] = slots[s]
      BY <2>7, <3>1
    <3>2. CASE ~(s \in DOMAIN slots /\ slots'[s] = slots[s])
      <4>1. /\ L!has_slot(ti) /\ s = L!find_tensor_slot(ti)
            /\ slots'[s] = [tensor |-> tn, dst |-> arena_ptr]
        BY <2>1, <3>2
      <4> QED
        BY <2>8, <4>1
    <3> QED
      BY <3>1, <3>2
  <2> QED
    BY <2>4, <2>5, <2>6, <2>9 DEF Filled
<1> QED
  BY <1>7, <1>8

LEMMA LoadAssigns ==
  ASSUME LoadInv, L!assign_tensor
  PROVE  LoadInv'
<1> DEFINE ti == file.infos[tn]
<1>1. /\ ld_at = "assign" /\ tn \in L!Counted(file) /\ tn' = tn + 1
      /\ UNCHANGED << ld_at, file, refs, g_inited >>
  BY DEF L!assign_tensor
<1>2. file \in Files /\ tn \in 1 .. MAX_TENSORS /\ MAX_TENSORS \in Nat
  BY <1>1, TensorFacts, FileFacts
<1>3. LoadTypes' /\ Stage' /\ Owned'
  BY <1>1, <1>2 DEF LoadInv, LoadTypes, Stage, Owned
<1>4. \A s \in DOMAIN slots' : SlotPlaced(s)'
  <2> TAKE s \in DOMAIN slots'
  <2>1. CASE s \in DOMAIN slots /\ slots'[s] = slots[s]
    BY <1>1, <2>1, SameFile DEF LoadInv, SlotPlaced
  <2>2. CASE ~(s \in DOMAIN slots /\ slots'[s] = slots[s])
    <3>1. /\ L!has_slot(ti) /\ s = L!find_tensor_slot(ti)
          /\ slots'[s] = [tensor |-> tn, dst |-> arena_ptr]
      BY <2>2 DEF L!assign_tensor
    <3>2. s.layer = L!GLOBAL \/ s.layer < n_layers
      BY <3>1 DEF L!has_slot, L!find_tensor_slot
    <3> QED
      BY <1>1, <3>1, <3>2, SameFile DEF SlotPlaced
  <2> QED
    BY <2>1, <2>2
<1> QED
  BY <1>1, <1>3, <1>4, Assigned, SameFile DEF LoadInv

LEMMA LoadInductive ==
  ASSUME LoadInv, [Next]_vars
  PROVE  LoadInv'
<1>1. CASE UNCHANGED lvars
  BY <1>1, LoadStutters
<1>2. CASE L!Next
  <2>0. ~strayed
    BY <1>2 DEF L!Next
  <2>1. CASE L!bad_header \/ L!bad_tensor \/ L!oom
    <3>1. ld_at = "parse" /\ L!GiveUp
      BY <2>1 DEF L!bad_header, L!bad_tensor, L!oom
    <3> QED
      BY <2>0, <3>1, LoadGivesUp
  <2> QED
    BY <1>2, <2>0, <2>1, LoadOpens, LoadAllocates, LoadAssigns, LoadTies, LoadBuffers, LoadShutdown
    DEF L!Next
<1> QED
  BY <1>1, <1>2 DEF Next, vars, lvars

(* Loading for every set of files, block sizes and number of tensors: the  *)
(* engine's pointers lead to what each stage allocated, and, if no sum or  *)
(* product over the file's numbers wraps in loader.c:354-391, the arena    *)
(* has room for the tensors to come.                                       *)
THEOREM LlmLoadInvariance ==
  Spec => []LoadInv
BY LoadInitial, LoadInductive, PTL DEF Spec

(* The invariant says of a slot what WeightsOfTensor asks for. *)
LEMMA SlotHoldsTensor ==
  ASSUME LoadInv, L!Fits(file)
  PROVE  L!WeightsOfTensor
<1> SUFFICES ASSUME NEW s \in DOMAIN slots,
                    NEW k \in 0 .. file.infos[slots[s].tensor].n_elem - 1
             PROVE  LET ti == file.infos[slots[s].tensor]
                        start == ((file.infos_end + GGUF_ALIGN - 1) \div GGUF_ALIGN) * GGUF_ALIGN
                        whole == ti.n_elem - (ti.n_elem % BlockSize[ti.type])
                    IN  /\ slots[s].dst + k \in DOMAIN arena
                        /\ arena[slots[s].dst + k] =
                             IF k >= whole THEN L!Garbage
                             ELSE [byte |-> start + ti.raw_offset
                                             + (k \div BlockSize[ti.type]) * BlockBytes[ti.type],
                                   place |-> k % BlockSize[ti.type]]
  BY DEF L!WeightsOfTensor
<1> DEFINE ti == file.infos[slots[s].tensor]
<1>1. /\ slots[s].tensor \in L!Counted(file) /\ L!Handled(ti)
      /\ slots[s].dst + k \in DOMAIN arena
      /\ arena[slots[s].dst + k] =
           IF k < L!n_blocks(ti) * BlockSize[ti.type] THEN L!decoded(ti, k) ELSE L!Garbage
  BY DEF LoadInv, Filled, SlotSound, SlotPlaced
<1>2. file \in Files
  <2>1. L!Counted(L!None) = {}
    BY FileFacts DEF L!Counted, L!None
  <2> QED
    BY <1>1, <2>1 DEF LoadInv, LoadTypes
<1>3. file.infos \in Seq(L!Info)
  BY <1>2, FileFacts
<1>4. ti \in L!Info
  BY <1>1, <1>2, <1>3, FloatsOfTensor
<1>7. L!src(ti) = L!data_section_start(file) + ti.raw_offset
  BY <1>1, <1>2, NoWrap
<1>5. /\ ti.n_elem \in Nat
      /\ L!n_blocks(ti) * BlockSize[ti.type] \in Nat
      /\ L!n_blocks(ti) * BlockSize[ti.type] = ti.n_elem - (ti.n_elem % BlockSize[ti.type])
  BY <1>1, <1>4, Blocks
<1> DEFINE whole == L!n_blocks(ti) * BlockSize[ti.type]
<1>6. k \in Nat /\ (k < whole <=> ~(k >= whole))
  BY <1>5
<1> QED
  BY <1>1, <1>5, <1>6, <1>7 DEF L!decoded, L!data_section_start

LEMMA EngineOwns ==
  ASSUME LoadInv
  PROVE  L!EngineOwnsItsMemory
<1> SUFFICES ASSUME ld_at = "idle"
             PROVE  IF g_inited THEN refs = AllMemory
                    ELSE \E b \in (SUBSET L!Buffers) \ {L!Buffers} :
                           refs = b \/ refs = b \cup (AllMemory \ L!Buffers)
  BY DEF L!EngineOwnsItsMemory, AllMemory
<1>1. CASE g_inited
  BY <1>1 DEF LoadInv, Owned
<1>2. CASE ~g_inited
  <2> DEFINE b == refs \cap L!Buffers
  <2>1. b \in (SUBSET L!Buffers) \ {L!Buffers}
    BY <1>2 DEF LoadInv, Owned
  <2>2. refs = b \cup (refs \ L!Buffers)
    OBVIOUS
  <2>3. refs \ L!Buffers = {} \/ refs \ L!Buffers = AllMemory \ L!Buffers
    BY DEF LoadInv, Owned
  <2>4. refs = b \/ refs = b \cup (AllMemory \ L!Buffers)
    BY <2>2, <2>3
  <2> QED
    BY <1>2, <2>1, <2>4
<1> QED
  BY <1>1, <1>2

(* The engine has the memory it needs exactly while it runs, for every set *)
(* of files, tables of tensors, block formats and sequence of loads,       *)
(* failures and shutdowns.  Of every file whose numbers do not wrap        *)
(* (loader.c:354-391, heap.c:128) the model's weights are the tensors,     *)
(* read inside the file and not overwritten by a later tensor.  Of a file  *)
(* whose numbers wrap nothing is claimed: the loader may leave the file    *)
(* and the arena.                                                          *)
THEOREM LlmWeightsLoaded ==
  Spec => []WeightsLoaded
<1>1. LoadInv => WeightsLoaded
  <2> SUFFICES ASSUME LoadInv PROVE L!WeightsLoaded
    BY DEF WeightsLoaded
  <2>1. L!TypeOK
    <3>1. \A s \in DOMAIN slots : /\ slots[s].tensor \in DOMAIN file.infos
                                  /\ s.layer = L!GLOBAL \/ s.layer < n_layers
      <4>1. file \in Files \/ L!Counted(file) = {}
        BY FileFacts DEF LoadInv, LoadTypes, L!Counted, L!None
      <4>2. L!Counted(file) \subseteq DOMAIN file.infos
        BY <4>1, FloatsOfTensor
      <4> QED
        BY <4>2 DEF LoadInv, SlotPlaced
    <3> QED
      BY <3>1 DEF LoadInv, LoadTypes, L!TypeOK, AllMemory
  <2> QED
    BY <2>1, SlotHoldsTensor, EngineOwns DEF L!WeightsLoaded, LoadInv, Filled
<1> QED
  BY <1>1, LlmLoadInvariance, PTL

LossExplained ==
  lost' # lost =>
    \/ ld_at = "parse" /\ lost' \ lost = {"tinfos"} /\ ~L!Readable(file)
    \/ ~g_inited /\ lost' \ lost \subseteq refs

(* Of the memory the loader and the engine allocate, only the table of     *)
(* tensor infos of a file that does not parse and what an init without     *)
(* buffers left are ever lost, for every set of files.                     *)
THEOREM LlmLostOnlyTwoWays ==
  Spec => LostOnlyTwoWays
<1>1. ASSUME LoadInv, [Next]_vars
      PROVE  [LossExplained]_(L!vars)
  <2>1. CASE UNCHANGED lvars
    BY <2>1 DEF lvars, L!vars
  <2>2. CASE L!Next
    <3> SUFFICES ASSUME lost' # lost
                 PROVE  \/ ld_at = "parse" /\ lost' \ lost = {"tinfos"} /\ ~L!Readable(file)
                        \/ ~g_inited /\ lost' \ lost \subseteq refs
      BY DEF LossExplained
    <3>1. CASE L!loader_fails \/ \E f \in Files : L!loader_reads(f)
      <4>1. lost' = lost \cup L!dropped
        BY <3>1 DEF L!loader_fails, L!loader_reads, L!opened
      <4>2. L!dropped \subseteq refs /\ (g_inited => L!dropped = {})
        BY DEF L!dropped, L!Kept, L!freed_by_shutdown
      <4> QED
        BY <4>1, <4>2
    <3>2. CASE L!bad_tensor
      BY <3>2 DEF L!bad_tensor
    <3>3. CASE \E got \in SUBSET L!Buffers : L!buffers(got)
      <4>1. ld_at = "buffers" /\ lost' = lost \cup (refs \cap L!Buffers)
        BY <3>3 DEF L!buffers
      <4>2. ~g_inited
        BY <1>1, <4>1 DEF LoadInv, Stage
      <4> QED
        BY <4>1, <4>2
    <3>4. CASE L!bad_header \/ L!oom \/ L!allocate \/ L!assign_tensor \/ L!loaded
                 \/ L!inference_shutdown
      BY <3>4 DEF L!bad_header, L!oom, L!allocate, L!assign_tensor, L!loaded,
         L!inference_shutdown
    <3> QED
      BY <2>2, <3>1, <3>2, <3>3, <3>4 DEF L!Next
  <2> QED
    BY <1>1, <2>1, <2>2 DEF Next, vars, lvars
<1> QED
  BY <1>1, LlmLoadInvariance, PTL DEF Spec, LostOnlyTwoWays, L!LostOnlyTwoWays, LossExplained
=============================================================================

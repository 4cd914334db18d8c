------------------------------ MODULE Tokenizer ------------------------------
(***************************************************************************)
(* The byte-pair tokenizer of kernel/llm/tokenizer.c: tokenizer_build,     *)
(* then an encode, then a decode of its ids.  Bytes are numbers: 0 is      *)
(* white space, MARKER the word boundary mark and hex(b) the text "<0xNN>" *)
(* of byte b, which the code spells with 3 and 6 bytes.  The encoder's     *)
(* node list is the array with links it is in the code; the steps are      *)
(* the iterations of the loops over the text, the merges and the ids.      *)
(***************************************************************************)
EXTENDS Naturals, Sequences, SequencesExt, FiniteSetsExt

CONSTANTS
  MaxByte,          \* bytes of words are 1 .. MaxByte
  LeadByte,         \* the one that starts a UTF-8 sequence of two bytes
  Tokenizers,       \* what tokenizer_build is called with
  merge_hash(_, _), MERGE_HASH_SIZE,
  TOK_MAX_TEXT, MAX_NODES, MaxIds, BufSizes

VARIABLES
  tok,                  \* vocab (id -> string), merges, bos_id .. add_eos
  ht,                   \* merge_index: slot -> rank, or MERGE_EMPTY
  text, at, i,
  id, prev, next,       \* s_nodes
  max_ids, ids, result, \* the arguments and results of tokenizer_encode
  buf_size, t, buf      \* those of tokenizer_decode

vars == << tok, ht, text, at, i, id, prev, next, max_ids, ids, result,
           buf_size, t, buf >>

SPACE == 0
MARKER == MaxByte + 1
hex(b) == MARKER + b
MERGE_EMPTY == 999
NODE_NONE == 998

Byte == 1 .. MaxByte
Texts == SeqOf(Byte \cup {SPACE}, TOK_MAX_TEXT)
Ids == DOMAIN tok.vocab

(* tokenizer_str_to_token: the first entry that is the string, or unk_id. *)
tokenizer_str_to_token(s) ==
  LET same == {k \in Ids : tok.vocab[k] = s}
  IN  IF same = {} THEN tok.unk_id ELSE Min(same)

(* The string of a merge's result is that of its two sides. *)
merge_result(r) ==
  tokenizer_str_to_token(tok.vocab[tok.merges[r][1]] \o tok.vocab[tok.merges[r][2]])

(* Open addressing with linear probing.  A rule that finds no empty slot   *)
(* is left out; a pair that is listed twice has two slots.                 *)
probed(h, k) == (h + k) % MERGE_HASH_SIZE
Slots == 0 .. MERGE_HASH_SIZE - 1
inserted(table, l, r, rank) ==
  LET empty == {k \in Slots : table[probed(merge_hash(l, r), k)] = MERGE_EMPTY}
  IN  IF empty = {} THEN table
      ELSE [table EXCEPT ![probed(merge_hash(l, r), Min(empty))] = rank]
built_index(merges) ==
  FoldLeftDomain(LAMBDA table, r : inserted(table, merges[r][1], merges[r][2], r),
                 [k \in Slots |-> MERGE_EMPTY], merges)

first_slot_only_bug(l, r) ==
  LET rank == ht[merge_hash(l, r)]
  IN  IF rank # MERGE_EMPTY /\ tok.merges[rank] = << l, r >> THEN rank ELSE MERGE_EMPTY
merge_lookup(l, r) ==
  LET at_probe(k) == ht[probed(merge_hash(l, r), k)]
      stops == {k \in Slots : at_probe(k) = MERGE_EMPTY
                              \/ tok.merges[at_probe(k)] = << l, r >>}
  IN  IF stops = {} THEN MERGE_EMPTY ELSE at_probe(Min(stops))

-----------------------------------------------------------------------------
(* Builds without memory fail and leave an empty tokenizer; they are left  *)
(* out.  The caller has room for one id (tokenizer_encode of an empty text *)
(* does not look at max_ids).  Texts are no longer than TOK_MAX_TEXT       *)
(* (tokenizer.c:475), beyond which tokenizer_encode fails at once.         *)
Init ==
  /\ tok \in Tokenizers
  /\ ht = built_index(tok.merges)
  /\ text \in Texts /\ max_ids \in MaxIds /\ buf_size \in BufSizes
  /\ at = "pre" /\ i = 1 /\ id = << >> /\ prev = << >> /\ next = << >>
  /\ ids = << >> /\ result = "none" /\ t = 1 /\ buf = << >>

encode_args == << tok, ht, text, max_ids, buf_size >>
decoding == << t, buf >>
links == << prev, next >>

(* utf8_seq_len: a stray continuation byte counts as one. *)
utf8_seq_len(b) == IF b = LeadByte THEN 2 ELSE 1
Char == SubSeq(text, i, i + utf8_seq_len(text[i]) - 1)
Complete == i + utf8_seq_len(text[i]) - 1 <= Len(text)
word_start == i = 1 \/ text[i - 1] = SPACE

byte_to_token_id(b) ==
  IF tokenizer_str_to_token(<< b >>) # tok.unk_id
  THEN tokenizer_str_to_token(<< b >>) ELSE tokenizer_str_to_token(<< hex(b) >>)

(* What one iteration of pre_tokenize appends, and the bytes it takes. *)
marked == tokenizer_str_to_token(<< MARKER >> \o Char)
plain == tokenizer_str_to_token(Char)
MarkedMatch == word_start /\ Complete /\ marked # tok.unk_id
PlainMatch == Complete /\ plain # tok.unk_id
marker_ids == IF word_start THEN << tokenizer_str_to_token(<< MARKER >>) >> ELSE << >>
appended ==
  IF MarkedMatch THEN << marked >>
  ELSE marker_ids \o (IF PlainMatch THEN << plain >> ELSE << byte_to_token_id(text[i]) >>)
taken == IF MarkedMatch \/ PlainMatch THEN Len(Char) ELSE 1

room(n) == n <= MAX_NODES
pre_tokenize ==
  /\ at = "pre" /\ i <= Len(text)
  /\ IF text[i] = SPACE
     THEN i' = i + 1 /\ UNCHANGED << at, id, result >>
     ELSE IF room(Len(id) + Len(appended))
     THEN /\ id' = id \o appended
          /\ i' = i + taken
          /\ UNCHANGED << at, result >>
     ELSE at' = "done" /\ result' = "invalid" /\ UNCHANGED << i, id >>
  /\ UNCHANGED << encode_args, links, ids, decoding >>

(* The links; an empty text is the begin mark alone, if that is added, and *)
(* one that is all white space is refused.                                 *)
link_nodes ==
  /\ at = "pre" /\ i > Len(text)
  /\ IF text = << >>
     THEN /\ ids' = IF tok.add_bos THEN << tok.bos_id >> ELSE << >>
          /\ result' = "ok" /\ at' = "done"
          /\ UNCHANGED links
     ELSE IF id = << >>
     THEN result' = "invalid" /\ at' = "done" /\ UNCHANGED << ids, links >>
     ELSE /\ prev' = [k \in DOMAIN id |-> IF k = 1 THEN NODE_NONE ELSE k - 1]
          /\ next' = [k \in DOMAIN id |-> IF k = Len(id) THEN NODE_NONE ELSE k + 1]
          /\ at' = "merge"
          /\ UNCHANGED << ids, result >>
  /\ UNCHANGED << encode_args, i, id, decoding >>

(* The walk from the head visits the nodes that are not deleted, in the    *)
(* order of the array (ListSound).                                         *)
LiveNodes == {k \in DOMAIN next : id[k] # NODE_NONE}
rank_at(k) == merge_lookup(id[k], id[next[k]])
Mergeable == {k \in LiveNodes : next[k] # NODE_NONE /\ rank_at(k) # MERGE_EMPTY}
lowest(k) == \A m \in Mergeable : rank_at(k) < rank_at(m) \/ (rank_at(k) = rank_at(m) /\ k <= m)

back_link(k, j) ==
  IF next[j] = NODE_NONE THEN prev ELSE [prev EXCEPT ![next[j]] = k]
merge ==
  /\ at = "merge"
  /\ \E k \in Mergeable :
       LET j == next[k]
       IN  /\ lowest(k)
           /\ id' = [id EXCEPT ![k] = merge_result(rank_at(k)), ![j] = NODE_NONE]
           /\ next' = [next EXCEPT ![k] = next[j]]
           /\ prev' = back_link(k, j)
  /\ UNCHANGED << encode_args, at, i, ids, result, decoding >>

(* No pair is left: the ids in order, between the marks.  Too many ids     *)
(* leave *n_out at 0.                                                      *)
nothing_to_merge == Mergeable = {}
Collected ==
  (IF tok.add_bos THEN << tok.bos_id >> ELSE << >>)
  \o SelectSeq(id, LAMBDA x : x # NODE_NONE)
  \o (IF tok.add_eos THEN << tok.eos_id >> ELSE << >>)
collect ==
  /\ at = "merge" /\ nothing_to_merge
  /\ at' = "done"
  /\ IF Len(Collected) <= max_ids
     THEN ids' = Collected /\ result' = "ok"
     ELSE result' = "overflow" /\ UNCHANGED ids
  /\ UNCHANGED << encode_args, i, id, links, decoding >>

-----------------------------------------------------------------------------
start_decode ==
  /\ at = "done" /\ result = "ok" /\ at' = "decode"
  /\ UNCHANGED << encode_args, i, id, links, ids, result, decoding >>

(* What a token adds to the text: the byte of "<0xNN>", a blank for the    *)
(* word mark unless it is the first of the ids, and its bytes.             *)
skipped == ids[t] \in {tok.bos_id, tok.eos_id} \/ ids[t] \notin Ids
unmarked(s) ==
  IF s # << >> /\ s[1] = MARKER
  THEN (IF t = 1 THEN << >> ELSE << SPACE >>) \o Tail(s) ELSE s
spelled(s) ==
  IF Len(s) = 1 /\ s[1] > MARKER THEN << s[1] - MARKER >> ELSE unmarked(s)
fits(n) == n < buf_size              \* leave room for NUL
decode_token ==
  /\ at = "decode" /\ t <= Len(ids)
  /\ IF skipped THEN t' = t + 1 /\ UNCHANGED << at, buf, result >>
     ELSE IF fits(Len(buf) + Len(spelled(tok.vocab[ids[t]])))
     THEN /\ buf' = buf \o spelled(tok.vocab[ids[t]])
          /\ t' = t + 1 /\ UNCHANGED << at, result >>
     ELSE at' = "decoded" /\ result' = "overflow" /\ UNCHANGED << t, buf >>
  /\ UNCHANGED << encode_args, i, id, links, ids >>
decode_end ==
  /\ at = "decode" /\ t > Len(ids) /\ at' = "decoded"
  /\ UNCHANGED << encode_args, i, id, links, ids, result, decoding >>

Next == \/ pre_tokenize \/ link_nodes \/ merge \/ collect
        \/ start_decode \/ decode_token \/ decode_end

Spec == Init /\ [][Next]_vars

-----------------------------------------------------------------------------
(* Types; the decoded text leaves room for its end. *)
TypeOK ==
  /\ at \in {"pre", "merge", "done", "decode", "decoded"}
  /\ result \in {"none", "ok", "invalid", "overflow"}
  /\ ids \in Seq(Ids) /\ Len(ids) <= max_ids
  /\ Len(buf) + 1 <= buf_size

(* A merge unlinks one node: forward and backward the links join exactly   *)
(* the nodes that are left, in text order.                                 *)
ListSound ==
  at = "merge" =>
    \A k \in LiveNodes :
      LET after == {j \in LiveNodes : j > k}
          before == {j \in LiveNodes : j < k}
      IN  /\ next[k] = IF after = {} THEN NODE_NONE ELSE Min(after)
          /\ prev[k] = IF before = {} THEN NODE_NONE ELSE Max(before)

(* The hash table answers every pair with its first rule, whatever the     *)
(* pairs collide; only rules that did not fit into it are not found.       *)
LookupIsFirstRule ==
  at = "merge" => \A l, r \in Ids :
    LET rules == {k \in DOMAIN tok.merges :
                    tok.merges[k] = << l, r >> /\ k <= MERGE_HASH_SIZE}
    IN  merge_lookup(l, r) = IF rules = {} THEN MERGE_EMPTY ELSE Min(rules)

(* The text with a mark before every word and no other white space. *)
MarkedText ==
  FlattenSeq([k \in DOMAIN text |->
    IF text[k] = SPACE THEN << >>
    ELSE IF k = 1 \/ text[k - 1] = SPACE THEN << MARKER, text[k] >> ELSE << text[k] >>])
BytesOf(s) == [k \in DOMAIN s |-> IF s[k] > MARKER THEN s[k] - MARKER ELSE s[k]]

(* However the text is cut and merged, the tokens spell it, as long as     *)
(* none of them is the unknown token.                                      *)
TokensSpellText ==
  at = "merge" /\ (\A k \in LiveNodes : id[k] # tok.unk_id) =>
    FlattenSeq([k \in DOMAIN id |->
      IF id[k] = NODE_NONE THEN << >> ELSE BytesOf(tok.vocab[id[k]])]) = MarkedText

(* The encoding is finished: no two neighbours have a merge rule. *)
NothingLeftToMerge ==
  at = "done" /\ result = "ok" =>
    \A k \in 1 .. Len(ids) - 1 : merge_lookup(ids[k], ids[k + 1]) = MERGE_EMPTY

(* An encode that is refused as invalid had nothing but white space: the   *)
(* node array is never too small for a text that is accepted.              *)
InvalidIsBlank == result = "invalid" => \A k \in DOMAIN text : text[k] = SPACE

(* Decoding what was encoded gives the text back, its words separated by   *)
(* one blank; a begin mark costs a blank in front.                         *)
RoundTrip ==
  at = "decoded" /\ result = "ok" /\ (\A k \in DOMAIN ids : ids[k] # tok.unk_id) =>
    << SPACE >> \o buf =
      (IF tok.add_bos \/ MarkedText = << >> THEN << SPACE >> ELSE << >>)
      \o [k \in DOMAIN MarkedText |-> IF MarkedText[k] = MARKER THEN SPACE ELSE MarkedText[k]]

(* Encoding and decoding are right at every stage. *)
TokensRight == /\ TypeOK /\ ListSound /\ LookupIsFirstRule /\ TokensSpellText
               /\ NothingLeftToMerge /\ InvalidIsBlank /\ RoundTrip
=============================================================================

------------------------------- MODULE Sampler -------------------------------
(***************************************************************************)
(* model_sample and topk_sort of kernel/llm/model.c.  Probabilities are    *)
(* weights: the code divides them by their sum after every filter, and     *)
(* here sums are compared as fractions of it instead.  Scaling by the      *)
(* temperature and exp keep the order of the logits; rounding shows only   *)
(* where the sum falls short of the random number (draw).                  *)
(***************************************************************************)
EXTENDS Naturals, Sequences, SequencesExt, FiniteSetsExt

CONSTANTS
  n,            \* vocab_size
  MaxWeight,
  LIM,          \* entries of topk_idx (128)
  Unit,         \* top_p and the random number are fractions with this denominator
  TopK, TopP    \* values of top_k and top_p; Unit stands for 1.0

VARIABLES
  greedy, top_k, top_p, u,   \* the arguments, and the random number
  given,                     \* the weights after the softmax
  probs, stage, result

vars == << greedy, top_k, top_p, u, given, probs, stage, result >>

Vocab == 0 .. n - 1
NONE == n
Total(f) == FoldFunctionOnSet(LAMBDA x, y : x + y, 0, f, DOMAIN f)
UpTo(f, v) == FoldFunctionOnSet(LAMBDA x, y : x + y, 0, f, 0 .. v)

(* topk_sort keeps a list of the best k so far; a score that does not beat *)
(* the last of a full list is passed over, another one moves the ones it   *)
(* beats down.                                                             *)
stays(scores, out, j, v) == out[j] # NONE /\ scores[out[j]] >= scores[v]
inserted(scores, out, v) ==
  LET k == Len(out)
      above == {j \in 1 .. k - 1 : stays(scores, out, j, v)}
      ins == IF above = {} THEN 1 ELSE Max(above) + 1
  IN  IF out[k] # NONE /\ scores[v] <= scores[out[k]] THEN out
      ELSE SubSeq(out, 1, ins - 1) \o << v >> \o SubSeq(out, ins, k - 1)
topk_sort(scores, k) ==
  FoldLeft(LAMBDA out, v : inserted(scores, out, v),
           [j \in 1 .. k |-> NONE], [j \in 1 .. n |-> j - 1])

-----------------------------------------------------------------------------
(* The softmax gives the largest logit a weight above 0. *)
Init ==
  /\ given \in [Vocab -> 0 .. MaxWeight] /\ Total(given) > 0
  /\ greedy \in BOOLEAN /\ top_k \in TopK /\ top_p \in TopP /\ u \in 0 .. Unit - 1
  /\ probs = given /\ stage = "top_k" /\ result = NONE

args == << greedy, top_k, top_p, u, given >>

(* Temperature 0: the first of the largest. *)
sample_greedy ==
  /\ stage = "top_k" /\ greedy
  /\ result' = Min({v \in Vocab : \A w \in Vocab : given[w] <= given[v]})
  /\ stage' = "done"
  /\ UNCHANGED << args, probs >>

Smaller(a, b) == IF a < b THEN a ELSE b
filter_top_k ==
  /\ stage = "top_k" /\ ~greedy
  /\ probs' = IF top_k > 0 /\ top_k < n
              THEN [v \in Vocab |->
                      IF v \in ToSet(topk_sort(probs, Smaller(top_k, LIM))) THEN probs[v] ELSE 0]
              ELSE probs
  /\ stage' = "top_p"
  /\ UNCHANGED << args, result >>

(* The nucleus: the weight at which the sum over the sorted tokens reaches *)
(* top_p is the least that is kept; if the list is too short to get there  *)
(* all are.                                                                *)
reached(list, j) ==
  FoldLeft(LAMBDA s, v : s + probs[v], 0, SubSeq(list, 1, j)) * Unit >= top_p * Total(probs)
threshold(list) ==
  LET enough == {j \in DOMAIN list : list[j] # NONE /\ reached(list, j)}
  IN  IF enough = {} THEN 0 ELSE probs[list[Min(enough)]]
filter_top_p ==
  /\ stage = "top_p"
  /\ probs' = IF 0 < top_p /\ top_p < Unit
              THEN LET least == threshold(topk_sort(probs, Smaller(n, LIM)))
                   IN  [v \in Vocab |-> IF probs[v] < least THEN 0 ELSE probs[v]]
              ELSE probs
  /\ stage' = "draw"
  /\ UNCHANGED << args, result >>

(* The first token whose cumulated weight reaches the random number.  When *)
(* rounding leaves the sum below a random number close to 1 it is the last *)
(* token that has a weight.                                                *)
unfiltered_bug(v) == u * Total(given) <= UpTo(given, v) * Unit
covers(v) == u * Total(probs) <= UpTo(probs, v) * Unit
draw ==
  /\ stage = "draw"
  /\ \/ result' = Min({v \in Vocab : covers(v)})
     \/ u = Unit - 1 /\ result' = Max({v \in Vocab : probs[v] > 0})
  /\ stage' = "done"
  /\ UNCHANGED << args, probs >>

Next == sample_greedy \/ filter_top_k \/ filter_top_p \/ draw
Spec == Init /\ [][Next]_vars

-----------------------------------------------------------------------------
(* Types; a sampled token exists and there is always one left to sample. *)
TypeOK ==
  /\ stage \in {"top_k", "top_p", "draw", "done"}
  /\ result \in Vocab \cup {NONE} /\ (stage = "done" => result # NONE)
  /\ Total(probs) > 0

(* v comes before w when its weight is larger, or its number among equals. *)
Before(v, w) == given[v] > given[w] \/ (given[v] = given[w] /\ v < w)

(* The first k tokens of a set in that order. *)
First(k, V) == {v \in V : Cardinality({w \in V : Before(w, v)}) < k}

(* The tokens the top-k filter should leave: it knows LIM at most. *)
LeftByTopK == IF 0 < top_k /\ top_k < n THEN First(Smaller(top_k, LIM), Vocab) ELSE Vocab

(* The top-k filter (model.c:344-359) keeps exactly the k first tokens in  *)
(* that order, even with equal weights, and the LIM first when k is larger.*)
KeepsBestK ==
  stage = "top_p" /\ ~greedy =>
    probs = [v \in Vocab |-> IF v \in LeftByTopK THEN given[v] ELSE 0]

(* The nucleus filter (model.c:362-387) sorts the LIM best tokens only.    *)
(* When these reach the share top_p it keeps at least that share of what   *)
(* was left, and no more than that plus the tokens that weigh the same as  *)
(* the lightest one; when they do not, it keeps everything, where the      *)
(* comment at model.c:272 promises the smallest set.                       *)
NucleusIsTight ==
  stage = "draw" /\ ~greedy /\ 0 < top_p /\ top_p < Unit =>
    LET Weight(V) == Total([v \in V |-> given[v]])
        Enough(V) == Weight(V) * Unit >= top_p * Weight(LeftByTopK)
        kept == {v \in Vocab : probs[v] > 0}
        least == Min({given[v] : v \in kept})
    IN  IF Enough(First(LIM, LeftByTopK))
        THEN Enough(kept) /\ ~Enough({v \in kept : given[v] > least})
        ELSE kept = {v \in LeftByTopK : given[v] > 0}

(* A token that was filtered out is never sampled, except that a random    *)
(* number of exactly 0 picks token 0 whatever its weight.                  *)
SampledWasKept == stage = "done" /\ ~greedy => probs[result] > 0 \/ (u = 0 /\ result = 0)

(* Filters keep the right tokens and the draw picks one of them. *)
SampledRight == TypeOK /\ KeepsBestK /\ NucleusIsTight /\ SampledWasKept
=============================================================================

------------------------------ MODULE Sampling ------------------------------
(***************************************************************************)
(* From the logits of a batch to its next tokens: SamplingParameters, the  *)
(* logits processors and their CUDA kernels, Sampler and RejectionSampler. *)
(*                                                                         *)
(* A parameter of the batch is a tensor with one entry per selected row,   *)
(* or Undefined when no request of the batch needs it.  Logits are         *)
(* integers, Filtered stands for minus infinity; softmax is Weights, with  *)
(* powers of two for the exponential, and a probability is a weight over   *)
(* the sum of the weights.                                                 *)
(***************************************************************************)
EXTENDS Integers, Sequences, SequencesExt, FiniteSetsExt

CONSTANTS Vocab   \* the tokens, 0..n

ASSUME VocabAssumption == 0 \in Vocab /\ Vocab \subseteq Nat

Undefined == <<>>

Defined(tensor) == tensor # Undefined

---------------------------------------------------------------------------
(* SamplingParameters.                                                     *)

\* pad_2d_vector.
pad_2d_vector(rows) ==
  LET width == Max({Len(rows[r]) : r \in DOMAIN rows})
  IN  [r \in DOMAIN rows |-> rows[r] \o [k \in 1..(width - Len(rows[r])) |-> 0]]

\* A request with any of these samples at random.
DoSample(p) == p.do_sample \/ p.temperature # 0 \/ p.top_p # 100 \/ p.top_k > 0

\* SamplingParameters::init.  ps[r] is the parameter of the request of row r,
\* tokens[r] its unique tokens with their counts, sample_idxes the rows to
\* sample from.  top_p is a percentage.
SamplingParameters(ps, sample_idxes, ids, counts) ==
  LET column(f) == [r \in DOMAIN ps |-> ps[r][f]]
      needed(f, neutral) == IF \E r \in DOMAIN ps : ps[r][f] \notin neutral THEN column(f) ELSE Undefined
      frequency == needed("frequency_penalty", {0})
      presence == needed("presence_penalty", {0})
      repetition == needed("repetition_penalty", {1})
      need_token_stats == Defined(frequency) \/ Defined(presence) \/ Defined(repetition)
  IN  [frequency_penalties |-> frequency, presence_penalties |-> presence, repetition_penalties |-> repetition,
       temperatures |-> needed("temperature", {0, 1}),
       top_k |-> IF \E r \in DOMAIN ps : ps[r].top_k > 0 THEN column("top_k") ELSE Undefined,
       top_p |-> needed("top_p", {100}),
       unique_token_ids |-> IF need_token_stats THEN pad_2d_vector(ids) ELSE Undefined,
       unique_token_counts |-> IF need_token_stats THEN pad_2d_vector(counts) ELSE Undefined,
       unique_token_ids_lens |-> IF need_token_stats THEN [r \in DOMAIN ids |-> Len(ids[r])] ELSE Undefined,
       sample_idxes |-> sample_idxes,
       do_sample |-> [i \in DOMAIN sample_idxes |-> DoSample(ps[sample_idxes[i]])]]

---------------------------------------------------------------------------
(* Logits processors, on one row r.                                        *)

Filtered == -1000

\* Every entry of the row's unique tokens is one thread's.
Entries(sp, r) == [k \in 1..sp.unique_token_ids_lens[r] |-> <<sp.unique_token_ids[r][k], sp.unique_token_counts[r][k]>>]

apply_frequency_presence_penalty(sp, r, logits) ==
  FoldLeft(LAMBDA l, x : IF x[2] > 0
                         THEN [l EXCEPT ![x[1]] = @ - x[2] * sp.frequency_penalties[r] - sp.presence_penalties[r]]
                         ELSE l,
           logits, Entries(sp, r))

apply_repetition_penalty(sp, r, logits) ==
  LET penalty == sp.repetition_penalties[r]
  IN  FoldLeft(LAMBDA l, x : [l EXCEPT ![x[1]] = IF @ < 0 THEN @ * penalty ELSE @ \div penalty],
               logits, Entries(sp, r))

\* A temperature of 0 counts as 1.
apply_temperature_penalty(sp, r, logits) ==
  LET temperature == IF sp.temperatures[r] = 0 THEN 1 ELSE sp.temperatures[r]
  IN  [t \in Vocab |-> logits[t] \div temperature]

\* softmax, up to the common denominator.
Weights(logits) ==
  LET top == Max({logits[t] : t \in Vocab})
  IN  [t \in Vocab |-> IF logits[t] = Filtered THEN 0 ELSE 2 ^ Max({0, 12 - (top - logits[t])})]

Total(weights) == MapThenSumSet(LAMBDA t : weights[t], Vocab)

\* logits.sort(descending).  Equal logits may come in either order: the lower
\* token first.
Sorted(logits) == SetToSortSeq(Vocab, LAMBDA t, u : logits[t] > logits[u] \/ (logits[t] = logits[u] /\ t < u))

\* TopKTopPLogitsProcessor::forward: top_k first, the probabilities are those
\* of the tokens top_k leaves.
TopKTopP(sp, r, logits) ==
  LET sort == Sorted(logits)
      k == IF Defined(sp.top_k) /\ sp.top_k[r] > 0 THEN sp.top_k[r] ELSE Len(sort)
      top == [t \in Vocab |-> IF \E i \in 1..Min({k, Len(sort)}) : sort[i] = t THEN logits[t] ELSE Filtered]
      w == Weights(top)
      before[i \in 1..Len(sort)] == IF i = 1 THEN 0 ELSE before[i - 1] + w[sort[i - 1]]
  IN  IF ~Defined(sp.top_p) THEN top
      ELSE [t \in Vocab |-> LET i == CHOOSE j \in DOMAIN sort : sort[j] = t
                            IN  IF before[i] * 100 > sp.top_p[r] * Total(w) THEN Filtered ELSE top[t]]

\* LogitsProcessor::create: the processors in the order they are applied.
Processors(sp) ==
  (IF Defined(sp.frequency_penalties) THEN <<"frequency_presence">> ELSE <<>>)
  \o (IF Defined(sp.repetition_penalties) THEN <<"repetition">> ELSE <<>>)
  \o (IF Defined(sp.temperatures) THEN <<"temperature">> ELSE <<>>)
  \o (IF Defined(sp.top_k) \/ Defined(sp.top_p) THEN <<"top_k_top_p">> ELSE <<>>)

\* FrequencyPresencePenaltyLogitsProcessor's constructor wants both tensors.
CreateFails(sp) == Defined(sp.frequency_penalties) /\ ~Defined(sp.presence_penalties)

\* LogitsProcessorList::forward.
Process(sp, r, logits) ==
  FoldLeft(LAMBDA l, name : CASE name = "frequency_presence" -> apply_frequency_presence_penalty(sp, r, l)
                              [] name = "repetition" -> apply_repetition_penalty(sp, r, l)
                              [] name = "temperature" -> apply_temperature_penalty(sp, r, l)
                              [] name = "top_k_top_p" -> TopKTopP(sp, r, l),
           logits, Processors(sp))

---------------------------------------------------------------------------
(* Sampler and RejectionSampler, on the weights of one row.                *)

\* argmax: the first of the greatest.
greedy_sample(w) == CHOOSE t \in Vocab : \A u \in Vocab : w[u] < w[t] \/ (w[u] = w[t] /\ t <= u)

\* probs / q for exponentially distributed q: any token with a probability.
random_sample(w) == {t \in Vocab : w[t] > 0}

\* Sampler::forward: the tokens the row may get.
Samples(do_sample, w) == IF do_sample THEN random_sample(w) ELSE {greedy_sample(w)}

\* build_accepted_mask: everything up to the first rejected token, which the
\* token in its place replaces; the bonus token counts as rejected.
Masked(accepted, ids) ==
  LET first == Min({k \in 1..Len(ids) : k = Len(ids) \/ ~accepted[k]})
  IN  [k \in 1..Len(ids) |-> IF k <= first THEN ids[k] ELSE -1]

\* RejectionSampler::random_sample: a draft token is accepted with the
\* probability the target gives it over the draft's, or replaced by one the
\* target finds more probable than the draft does.
RejectRandom(drafts, w_draft, w_target, bonus) ==
  LET more(k, t) == w_target[k][t] * Total(w_draft[k]) - w_draft[k][t] * Total(w_target[k])
      verdicts(k) == {<<TRUE, d>> : d \in {drafts[k]} \cap random_sample(w_target[k])}
                     \cup {<<FALSE, t>> : t \in {u \in Vocab : more(k, drafts[k]) < 0 /\ more(k, u) > 0}}
      n == Len(drafts)
  IN  {Masked([k \in 1..n |-> v[k][1]], [k \in 1..n |-> v[k][2]] \o <<bonus>>) :
         v \in {f \in [1..n -> UNION {verdicts(k) : k \in 1..n}] : \A k \in 1..n : f[k] \in verdicts(k)}}

\* RejectionSampler::greedy_sample.
RejectGreedy(drafts, w_target, bonus) ==
  LET best == [k \in DOMAIN drafts |-> greedy_sample(w_target[k])]
  IN  {Masked([k \in DOMAIN drafts |-> best[k] = drafts[k]], Append(best, bonus))}

\* RejectionSampler::forward.
Reject(do_sample, drafts, w_draft, w_target, bonus) ==
  IF do_sample THEN RejectRandom(drafts, w_draft, w_target, bonus) ELSE RejectGreedy(drafts, w_target, bonus)

=============================================================================

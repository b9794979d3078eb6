----------------------------- MODULE Execution -----------------------------
(***************************************************************************)
(* One batch through the engine, at the level of the tensors: Batch        *)
(* flattens the sequences into a ModelInput, ModelRunner runs the model    *)
(* eagerly or replays a CUDA graph over its shared buffers, the model      *)
(* writes keys and values to the slots of the batch and attends over the   *)
(* block tables, the driver samples, and Batch hands the tokens back by    *)
(* their order.  With a draft model (num_spec > 0) SpeculativeEngine runs  *)
(* num_spec passes of the draft engine and one of the target's, and lets   *)
(* the rejection sampler decide.                                           *)
(*                                                                         *)
(* The model has one layer.  A slot of the cache holds the key of a token  *)
(* at a position, <<token, position>>, and what a row computes is the      *)
(* sequence of keys it has attended to.  A block table entry is the first  *)
(* slot of a block; block 0 is the padding block.                          *)
(***************************************************************************)
EXTENDS Sampling, FiniteSets

CONSTANTS
  Setups,    \* [num_spec, graphs, params]: the engine, its captured batch sizes, the requests' parameters
  Prompts,   \* the prompts of the sequences
  Tables,    \* the block ids of the sequences, in order
  BlockSize,
  MaxTokens, \* max_tokens of the requests
  Eos,       \* the token that ends a sequence
  GraphLen   \* cuda_graph_max_seq_len

VARIABLES
  setup,
  toks,     \* token_ids_
  counts,   \* token_to_count_map_
  kv,       \* num_kv_cache_tokens_, for each engine
  cache,    \* the kv cache of each engine
  bufs,     \* ModelRunner's shared tensors, for each engine
  batch,    \* [seq, budget, used, blocks] of the batch's sequences
  drafts,   \* the outputs of the draft engine in this step
  target,   \* the output of the target engine
  step,     \* where SpeculativeEngine::execute_model is
  failed    \* a CHECK has failed, or a tensor operation thrown

execVars == <<setup, toks, counts, kv, cache, bufs, batch, drafts, target, step, failed>>

Seqs == DOMAIN Prompts

Engines == {"LLM", "SSM"}

Take(s, n) == SubSeq(s, 1, n)

CeilDiv(a, b) == (a + b - 1) \div b

NumSlots == BlockSize * (1 + Max(UNION {ToSet(Tables[s]) : s \in Seqs}))

ASSUME ExecutionAssumption ==
  /\ \A s \in Seqs : Prompts[s] # <<>> /\ 0 \notin ToSet(Tables[s])
  /\ \A c \in Setups : \A s \in Seqs :
       /\ c.num_spec <= BlockSize
       /\ Len(Tables[s]) * BlockSize >= Len(Prompts[s]) + MaxTokens + c.num_spec

num_spec == setup.num_spec

\* num_decoding_tokens of an engine, its captured batch sizes, as SpeculativeEngine's constructor sets them.
NumDecodingTokens(e) == IF e = "LLM" THEN num_spec + 1 ELSE 1

NoOutput == [tokens |-> <<>>, weights |-> <<>>, rows |-> <<>>, do_sample |-> <<>>]

\* StoppingCriteria::check_finished.
Ends(s, t) == Last(t) = Eos \/ Len(t) - Len(Prompts[s]) >= MaxTokens

\* is_finished.
Done(s) == Ends(s, toks[s])

CountOf(t) == [v \in Vocab |-> Cardinality({i \in DOMAIN t : t[i] = v})]

---------------------------------------------------------------------------
(* Batch::prepare_model_input.                                             *)

\* is_prefill_stage.
Prefill(kv_e, s) == kv_e[s] < Len(Prompts[s])

NoInput == [tokens |-> <<>>, positions |-> <<>>, q_max |-> 0, kv_max |-> 0, q_cu |-> <<0>>, kv_cu |-> <<0>>,
            slots |-> <<>>, tables |-> <<>>, cu_blocks |-> <<0>>, num_sequences |-> 0,
            params |-> <<>>, selected |-> <<>>, sample |-> <<>>, ids |-> <<>>, cnts |-> <<>>]

\* Sequence::kv_cache_slots.
kv_cache_slots(blocks, from, to) ==
  [i \in 1..(to - from) |-> blocks[(from + i - 1) \div BlockSize + 1] * BlockSize + ((from + i - 1) % BlockSize)]

\* Mutant of UniqueTokens: the tokens of the same pass are not taken off.
UniqueTokensAll(s, j, seq_len) ==
  SetToSeq({<<v, counts[s][v]>> : v \in {u \in Vocab : counts[s][u] > 0}})

\* The unique tokens of a sequence and their counts as of token j: the tokens
\* of the same pass that come after it are taken off.
UniqueTokens(s, j, seq_len) ==
  LET after(v) == Cardinality({i \in (j + 1)..(seq_len - 1) : toks[s][i + 1] = v})
      left(v) == counts[s][v] - after(v)
  IN  SetToSeq({<<v, left(v)>> : v \in {u \in Vocab : left(u) > 0}})

\* The tensors of an input with one more sequence, of which the tokens from
\* n_kv to seq_len are processed.
AddSequence(in, s, blocks, n_kv, seq_len) ==
  LET n == Len(in.tokens)
      q == seq_len - n_kv
      first == Max({n_kv, Len(Prompts[s]) - 1})
      rows == [k \in 1..Max({0, seq_len - first}) |-> first + k - 1]
      unique == [k \in DOMAIN rows |-> UniqueTokens(s, rows[k], seq_len)]
  IN  [in EXCEPT
         !.tokens = @ \o SubSeq(toks[s], n_kv + 1, seq_len), !.positions = @ \o [i \in 1..q |-> n_kv + i - 1],
         !.q_max = Max({@, q}), !.kv_max = Max({@, seq_len}),
         !.q_cu = Append(@, Last(@) + q), !.kv_cu = Append(@, Last(@) + seq_len),
         !.slots = @ \o kv_cache_slots(blocks, n_kv, seq_len),
         !.tables = @ \o [b \in DOMAIN blocks |-> blocks[b] * BlockSize],
         !.cu_blocks = Append(@, Last(@) + Len(blocks)),
         !.params = @ \o [k \in DOMAIN rows |-> setup.params[s]],
         !.selected = @ \o [k \in DOMAIN rows |-> n + rows[k] - n_kv + 1],
         !.sample = IF rows = <<>> THEN @ ELSE Append(@, Len(in.selected) + Len(rows)),
         !.ids = @ \o [k \in DOMAIN rows |-> [i \in DOMAIN unique[k] |-> unique[k][i][1]]],
         !.cnts = @ \o [k \in DOMAIN rows |-> [i \in DOMAIN unique[k] |-> unique[k][i][2]]]]

\* The loop over the sequences: the input so far, and the batch and the KV
\* positions as the sequences commit.
PrepareSequence(a, i, e) ==
  LET x == a.batch[i]
      n_kv == kv[e][x.seq]
      q == Min({Len(toks[x.seq]) - n_kv, x.budget - x.used})
  IN  IF x.budget = x.used THEN [a EXCEPT !.failed = @ \/ ~Prefill(kv[e], x.seq)]
      ELSE IF q <= 0 \/ n_kv + q > Len(x.blocks) * BlockSize THEN [a EXCEPT !.failed = TRUE]
      ELSE [a EXCEPT !.in = AddSequence(@, x.seq, x.blocks, n_kv, n_kv + q),
                     !.batch[i].used = @ + q, !.kv[x.seq] = @ + q]

\* Padding to a captured batch size: tokens of the padding block.
Pad(in, n_seqs, num_decoding, min_size) ==
  LET missing == IF /\ n_seqs < min_size /\ in.q_max = num_decoding
                    /\ Len(in.tokens) = n_seqs * num_decoding
                 THEN min_size - n_seqs ELSE 0
      zeros == [k \in 1..(missing * num_decoding) |-> 0]
      more(cu) == cu \o [k \in 1..missing |-> Last(cu) + k * num_decoding]
  IN  [in EXCEPT !.tokens = @ \o zeros, !.positions = @ \o zeros, !.slots = @ \o zeros, !.tables = @ \o zeros,
                 !.q_cu = more(@), !.kv_cu = more(@), !.cu_blocks = more(@), !.num_sequences = n_seqs]

\* LLMEngine::execute_model: the least captured size that holds the batch, 0 if none does.
AdjustedBatchSize == Min({g \in setup.graphs \cup {1000} : g >= Len(batch)}) % 1000

prepare_model_input(e) ==
  LET a == FoldLeft(LAMBDA acc, i : PrepareSequence(acc, i, e),
                    [in |-> NoInput, batch |-> batch, kv |-> kv[e], failed |-> FALSE],
                    [i \in DOMAIN batch |-> i])
  IN  IF a.in.tokens = <<>> THEN a
      ELSE [a EXCEPT !.in = Pad(@, Len(batch), NumDecodingTokens(e), AdjustedBatchSize)]

---------------------------------------------------------------------------
(* ModelRunner and the model.                                              *)

\* AttentionImpl::forward: append_kv_cache, then batch_decode.  Row r of
\* sequence b attends to the slots of its table up to its own position.
SetKvCache(c, in) == FoldLeft(LAMBDA d, i : [d EXCEPT ![in.slots[i]] = <<in.tokens[i], in.positions[i]>>],
                              c, [i \in DOMAIN in.slots |-> i])

BatchDecode(c, in, r) ==
  LET b == Max({d \in 1..(Len(in.q_cu) - 1) : in.q_cu[d] < r})
      q_len == in.q_cu[b + 1] - in.q_cu[b]
      kv_len == in.kv_cu[b + 1] - in.kv_cu[b]
  IN  [i \in 1..(kv_len - q_len + r - in.q_cu[b]) |->
         c[in.tables[in.cu_blocks[b] + (i - 1) \div BlockSize + 1] + ((i - 1) % BlockSize)]]

\* ModelRunner's constructor: the tensors the graphs share.
SharedTensors(e) ==
  LET size == IF setup.graphs = {} THEN 0 ELSE Max(setup.graphs)
      zeros(n) == [k \in 1..n |-> 0]
      lens == [k \in 1..(size + 1) |-> (k - 1) * NumDecodingTokens(e)]
  IN  [tokens |-> zeros(size * NumDecodingTokens(e)), positions |-> zeros(size * NumDecodingTokens(e)),
       slots |-> zeros(size * NumDecodingTokens(e)), q_cu |-> lens, kv_cu |-> lens,
       tables |-> zeros(size * (CeilDiv(GraphLen, BlockSize) + 1)), cu_blocks |-> zeros(size + 1)]

\* copy_ into the first elements of a tensor.
CopyTo(dst, src) == src \o SubSeq(dst, Len(src) + 1, Len(dst))

\* CudaGraph::replay: every input is copied into the shared tensors, which the
\* captured kernels read.
Replayed(buf, in) == [f \in DOMAIN buf |-> CopyTo(buf[f], in[f])]

\* Mutant of CanReplay: the sequence length is not looked at.
CanReplayAnyLength(e, in) ==
  /\ in.num_sequences \in setup.graphs
  /\ in.q_max = NumDecodingTokens(e)
  /\ Len(in.tokens) = in.num_sequences * NumDecodingTokens(e)

\* ModelRunner::forward.
CanReplay(e, in) ==
  /\ in.num_sequences \in setup.graphs /\ in.kv_max <= GraphLen
  /\ in.q_max = NumDecodingTokens(e)
  /\ Len(in.tokens) = in.num_sequences * NumDecodingTokens(e)

\* What the kernels read in a replay: the slices taken when the graph was captured.
GraphInput(e, buf, size) ==
  LET n == size * NumDecodingTokens(e)
  IN  [tokens |-> Take(buf.tokens, n), positions |-> Take(buf.positions, n), slots |-> Take(buf.slots, n),
       q_cu |-> Take(buf.q_cu, size + 1), kv_cu |-> Take(buf.kv_cu, size + 1), tables |-> buf.tables,
       cu_blocks |-> Take(buf.cu_blocks, size + 1)]

Forward(e, in) ==
  LET replay == CanReplay(e, in)
      buf == IF replay THEN Replayed(bufs[e], in) ELSE bufs[e]
      run == IF replay THEN GraphInput(e, buf, in.num_sequences) ELSE in
      c == SetKvCache(cache[e], run)
  IN  [cache |-> c, buf |-> buf, failed |-> replay /\ Len(in.tables) > Len(bufs[e].tables),
       hidden |-> [k \in DOMAIN in.selected |-> BatchDecode(c, run, in.selected[k])]]

\* The logits of an engine's model after the keys it has attended to.
Hash(keys) == FoldLeft(LAMBDA h, x : (3 * h + x[1] + 2 * x[2] + 1) % 7, 0, keys)

Logits(e, keys) ==
  [t \in Vocab |-> IF e = "LLM" THEN 8 * (((Hash(keys) + 2 * t) % 5) - 2)
                                ELSE 8 * (((Hash(keys) + 2 * t + (Hash(keys) % 2)) % 5) - 2)]

---------------------------------------------------------------------------
(* The engines.                                                            *)

\* Any choice of one element of each set.
Selections(sets) == {f \in [DOMAIN sets -> UNION {sets[i] : i \in DOMAIN sets}] : \A i \in DOMAIN sets : f[i] \in sets[i]}

\* Worker::execute_model on the driver: the outputs it may have.
Outputs(sp, logits) ==
  LET w == [k \in DOMAIN logits |-> Weights(Process(sp, k, logits[k]))]
      sets == [i \in DOMAIN sp.sample_idxes |-> Samples(sp.do_sample[i], w[sp.sample_idxes[i]])]
  IN  {[tokens |-> f, weights |-> [i \in DOMAIN sets |-> w[sp.sample_idxes[i]]], rows |-> w,
        do_sample |-> sp.do_sample] : f \in Selections(sets)}

\* The sequences of the batch that have left the prefill stage, in its order.
Sampled(kv_e) == SelectSeq([i \in DOMAIN batch |-> batch[i].seq], LAMBDA s : ~Prefill(kv_e, s))

\* Batch::process_sample_output.
ProcessSampleOutput(kv_e, out) ==
  LET seqs == Sampled(kv_e)
      got == [s \in Seqs |-> IF s \in ToSet(seqs) THEN <<out.tokens[CHOOSE i \in DOMAIN seqs : seqs[i] = s]>> ELSE <<>>]
  IN  IF Len(seqs) # Len(out.tokens) THEN failed' = TRUE /\ UNCHANGED <<toks, counts>>
      ELSE /\ toks' = [s \in Seqs |-> toks[s] \o got[s]]
           /\ counts' = [s \in Seqs |-> [v \in Vocab |-> counts[s][v] + CountOf(got[s])[v]]]
           /\ UNCHANGED failed

\* SpeculativeEngine::execute_model keeps what an engine returns; LLMEngine by
\* itself is done after its only pass.
Returned(e, out) ==
  IF e = "SSM"
  THEN /\ drafts' = Append(drafts, out) /\ UNCHANGED target
       /\ step' = IF Len(drafts) + 1 = num_spec THEN "switch" ELSE "draft"
  ELSE /\ target' = IF num_spec = 0 THEN NoOutput ELSE out
       /\ step' = IF num_spec = 0 THEN "idle" ELSE "validate"
       /\ UNCHANGED drafts

\* LLMEngine::execute_model; the batch is over when it is the last of the step.
ExecuteModel(e) ==
  \E a \in {prepare_model_input(e)} :
    /\ batch' = (IF num_spec = 0 THEN <<>> ELSE a.batch) /\ kv' = [kv EXCEPT ![e] = a.kv] /\ UNCHANGED setup
    /\ IF a.failed THEN failed' = TRUE /\ UNCHANGED <<toks, counts, cache, bufs, drafts, target, step>>
       ELSE IF a.in.tokens = <<>> THEN Returned(e, NoOutput) /\ UNCHANGED <<toks, counts, cache, bufs, failed>>
       ELSE \E m \in {Forward(e, a.in)} :
              /\ cache' = [cache EXCEPT ![e] = m.cache] /\ bufs' = [bufs EXCEPT ![e] = m.buf]
              /\ IF a.in.selected = <<>> /\ ~m.failed THEN Returned(e, NoOutput) /\ UNCHANGED <<toks, counts, failed>>
                 ELSE \E sp \in {SamplingParameters(a.in.params, a.in.sample, a.in.ids, a.in.cnts)} :
                        IF m.failed \/ CreateFails(sp)
                        THEN failed' = TRUE /\ UNCHANGED <<toks, counts, drafts, target, step>>
                        ELSE \E out \in Outputs(sp, [k \in DOMAIN m.hidden |-> Logits(e, m.hidden[k])]) :
                               ProcessSampleOutput(a.kv, out) /\ Returned(e, out)

DraftModel == ~failed /\ step = "draft" /\ ExecuteModel("SSM")

\* Batch::set_engine_type before the target's pass.
SwitchEngine ==
  /\ ~failed /\ step = "switch"
  /\ batch' = [i \in DOMAIN batch |-> [batch[i] EXCEPT !.used = 0]] /\ step' = "target"
  /\ UNCHANGED <<setup, toks, counts, kv, cache, bufs, drafts, target, failed>>

TargetModel == ~failed /\ step = "target" /\ ExecuteModel("LLM")

\* Sequence::validate_tokens: the tokens that stay, up to the first mismatch,
\* the first masked token, or the token that ends the sequence.
ValidTokens(s, ids) ==
  LET start == Len(toks[s]) - Len(ids)
      str == Take(toks[s], start) \o ids
      stops == {i \in 1..Len(ids) : ids[i] # toks[s][start + i] \/ Ends(s, Take(str, start + i))
                                      \/ (i < Len(ids) /\ ids[i + 1] = -1)}
  IN  Take(str, start + Min(stops \cup {Len(ids)}))

\* Mutant of ValidateTokens: the draft engine's KV position is not pulled back.
ValidateTokensTarget(new) ==
  /\ toks' = new
  /\ counts' = [s \in Seqs |-> CountOf(new[s])]
  /\ kv' = [kv EXCEPT !["LLM"] = [s \in Seqs |-> Min({kv["LLM"][s], Len(new[s]) - 1})]]

\* validate_tokens: the counts of replaced and discarded tokens, and the KV
\* positions of both engines.
ValidateTokens(new) ==
  LET change(s) == CountOf(new[s])
      gone(s) == CountOf(toks[s])
  IN  /\ toks' = new
      /\ counts' = [s \in Seqs |-> [v \in Vocab |-> counts[s][v] - gone(s)[v] + change(s)[v]]]
      /\ kv' = [e \in Engines |-> [s \in Seqs |-> Min({kv[e][s], Len(new[s]) - 1})]]

\* SpeculativeEngine::validate and Batch::process_validate_output.
Validate ==
  LET n == Len(target.tokens)
      seqs == Sampled(kv["LLM"])
      rows(i) == [k \in 1..num_spec |-> target.rows[(i - 1) * (num_spec + 1) + k]]
      verdicts(i) == Reject(target.do_sample[i], [k \in 1..num_spec |-> drafts[k].tokens[i]],
                            [k \in 1..num_spec |-> drafts[k].weights[i]], rows(i), target.tokens[i])
      idx(s) == CHOOSE i \in DOMAIN seqs : seqs[i] = s
  IN  /\ ~failed /\ step = "validate"
      /\ step' = "idle" /\ drafts' = <<>> /\ target' = NoOutput /\ batch' = <<>>
      /\ UNCHANGED <<setup, cache, bufs>>
      /\ IF n = 0 THEN UNCHANGED <<toks, counts, kv, failed>>
         ELSE IF Len(target.rows) # n * (num_spec + 1) \/ (\E k \in DOMAIN drafts : Len(drafts[k].tokens) # n) \/ Len(seqs) # n
         THEN failed' = TRUE /\ UNCHANGED <<toks, counts, kv>>
         ELSE \E v \in Selections([i \in 1..n |-> verdicts(i)]) :
                /\ failed' = (\E s \in ToSet(seqs) : Last(v[idx(s)]) \notin {-1, Last(toks[s])})
                /\ ValidateTokens([s \in Seqs |-> IF s \in ToSet(seqs) THEN ValidTokens(s, v[idx(s)]) ELSE toks[s]])

---------------------------------------------------------------------------
(* The scheduler: any batch of unfinished sequences, in any order.  A      *)
(* sequence gets a budget that ends inside its prompt, or one that covers  *)
(* all its tokens and the speculative ones (allocate_blocks_for), and the  *)
(* blocks for it.                                                          *)

Budgets(s) ==
  {b \in 1..Len(Prompts[s]) : kv["LLM"][s] + b < Len(Prompts[s])} \cup {Len(toks[s]) - kv["LLM"][s] + num_spec}

Entry(s, b) ==
  [seq |-> s, budget |-> b, used |-> 0, blocks |-> Take(Tables[s], CeilDiv(kv["LLM"][s] + b, BlockSize))]

NewBatch ==
  /\ ~failed /\ step = "idle"
  /\ \E sel \in (SUBSET {s \in Seqs : ~Done(s)}) \ {{}} : \E order \in SetToSeqs(sel) :
     \E budget \in [sel -> UNION {Budgets(s) : s \in sel}] :
       /\ \A s \in sel : budget[s] \in Budgets(s)
       /\ batch' = [i \in DOMAIN order |-> Entry(order[i], budget[order[i]])]
  /\ step' = IF num_spec = 0 THEN "target" ELSE "draft"
  /\ UNCHANGED <<setup, toks, counts, kv, cache, bufs, drafts, target, failed>>

ExecInit ==
  /\ setup \in Setups /\ toks = Prompts /\ counts = [s \in Seqs |-> CountOf(Prompts[s])]
  /\ kv = [e \in Engines |-> [s \in Seqs |-> 0]]
  /\ cache = [e \in Engines |-> [i \in 0..(NumSlots - 1) |-> <<0, 0>>]]
  /\ bufs = [e \in Engines |-> SharedTensors(e)]
  /\ batch = <<>> /\ drafts = <<>> /\ target = NoOutput /\ step = "idle" /\ failed = FALSE

ExecNext == NewBatch \/ DraftModel \/ SwitchEngine \/ TargetModel \/ Validate

ExecSpec == ExecInit /\ [][ExecNext]_execVars

---------------------------------------------------------------------------
(* Properties.                                                             *)

\* The reference for one request by itself: logits with its own penalties for
\* the tokens before, its temperature, top_k and top_p.
Alone(p, t) ==
  LET c == CountOf(t)
      keys == [i \in DOMAIN t |-> <<t[i], i - 1>>]
      base(v) == Logits("LLM", keys)[v] - c[v] * p.frequency_penalty - (IF c[v] > 0 THEN p.presence_penalty ELSE 0)
      rep(v) == IF c[v] = 0 THEN base(v) ELSE IF base(v) < 0 THEN base(v) * p.repetition_penalty ELSE base(v) \div p.repetition_penalty
      final == [v \in Vocab |-> IF p.temperature = 0 THEN rep(v) ELSE rep(v) \div p.temperature]
      ahead(v) == {u \in Vocab : final[u] > final[v] \/ (final[u] = final[v] /\ u < v)}
      top == {v \in Vocab : p.top_k > 0 => Cardinality(ahead(v)) < p.top_k}
      w == Weights([v \in Vocab |-> IF v \in top THEN final[v] ELSE Filtered])
      nucleus == {v \in top : 100 * MapThenSumSet(LAMBDA u : w[u], ahead(v)) <= p.top_p * Total(w)}
  IN  IF DoSample(p) THEN nucleus ELSE {v \in Vocab : ahead(v) = {}}

\* Whatever the other requests of its batches, their order and their
\* parameters, whether graphs are replayed, batches padded or tokens drafted
\* and rejected: every token a sequence is left with between steps is one its
\* own tokens and its own parameters allow, as if it were served alone.
GeneratedRight ==
  step = "idle" =>
    \A s \in Seqs : \A i \in (Len(Prompts[s]) + 1)..Len(toks[s]) :
      toks[s][i] \in Alone(setup.params[s], Take(toks[s], i - 1))

\* Between steps, the slots of a sequence up to its KV position hold the keys
\* of its own tokens in both engines' caches: rejected draft tokens, padding
\* and the other sequences of a batch leave nothing behind.
CacheExact ==
  step = "idle" =>
    \A s \in Seqs, e \in Engines : \A i \in 0..(kv[e][s] - 1) :
      cache[e][Tables[s][i \div BlockSize + 1] * BlockSize + (i % BlockSize)] = <<toks[s][i + 1], i>>

\* No CHECK of the batch, the graphs, the processors or the validation fails:
\* the tensors of a batch always have the shapes the next stage relies on.
ShapesAgree == ~failed

=============================================================================

--------------------------- MODULE ParallelLayers ---------------------------
(***************************************************************************)
(* The layers the models are built from, on world_size ranks: what each    *)
(* rank loads of a checkpoint tensor, what it computes with it, and where  *)
(* the ranks exchange results.                                             *)
(*                                                                         *)
(* A tensor is the sequence of its dimensions, a dimension the sequence of *)
(* the labels of its rows or columns: sharding, transposing, reshaping and *)
(* concatenating move labels around.  An activation is described by the    *)
(* features of its last dimension, on one GPU (ref) and on every rank (at):*)
(* feature <<tag, i>> is the number one GPU computes at place i of the     *)
(* tensor tag, and Bad any other number.                                   *)
(*                                                                         *)
(* m describes the model: ws (world_size), hidden, n_heads, n_kv, hd       *)
(* (head_dim), inter, vocab, options of single models, quant (the method,  *)
(* or ""), groups (quantization groups per input, 0 for one) and late, the *)
(* checkpoint tensors that are in the second file of two.                  *)
(***************************************************************************)
EXTENDS Integers, Sequences, FiniteSets, SequencesExt

\* Rank r - 1 is at place r.
Ranks(m) == 1..m.ws

\* s, with its elements evaluated once.
Strict(s) == SubSeq(s, 1, Len(s))

Undef == <<>>

\* A CHECK fails or torch throws: what becomes of the tensor.
Aborted == << <<>> >>

Bad == <<<<0, "bad">>, 0>>

Shape(t) == Strict([d \in DOMAIN t |-> Len(t[d])])

Chunk(s, n, i) == SubSeq(s, i * (Len(s) \div n) + 1, (i + 1) * (Len(s) \div n))

Labels(name, n) == Strict([i \in 1..n |-> <<name, i>>])

Concat(ss) == FoldLeft(LAMBDA a, b : a \o b, <<>>, ss)

\* torch::cat along dimension dim.
Cat(ts, dim) ==
  IF \A i \in DOMAIN ts : /\ Len(ts[i]) = Len(ts[1]) /\ ts[i] # Aborted
                          /\ \A d \in DOMAIN ts[i] \ {dim} : Len(ts[i][d]) = Len(ts[1][d])
  THEN [ts[1] EXCEPT ![dim] = Concat([i \in DOMAIN ts |-> ts[i][dim]])]
  ELSE Aborted

Transpose(t) == IF Len(t) = 2 THEN <<t[2], t[1]>> ELSE t

\* view({a, -1, hd}).permute({1, 0, 2}).reshape({-1}): [a, b, hd] => [b, a, hd].
SwapLeading(s, a, hd) ==
  LET b == Len(s) \div (a * hd)
  IN  Strict([n \in 1..Len(s) |-> s[((((n - 1) \div hd) % a) * b + (n - 1) \div (hd * a)) * hd + ((n - 1) % hd) + 1]])

---------------------------------------------------------------------------
(* Loading a parameter from the files of a checkpoint.                     *)

GetShardedTensor(t, dim, rank, ws) ==
  IF Len(t) < dim THEN Aborted
  ELSE IF Len(t[dim]) < ws THEN t
  ELSE IF Len(t[dim]) % ws # 0 THEN Aborted
  ELSE [t EXCEPT ![dim] = Chunk(@, ws, rank)]

\* Whether file f of the checkpoint holds the tensor name.
Present(m, name, f) == (f = 2) <=> (name \in m.late)

\* load_weight, load_sharded_weight: t is this rank's part, when the file has it.
LoadWeight(w, present, t, shape) ==
  IF ~present THEN w
  ELSE IF w # Undef \/ Shape(t) # shape THEN Aborted
  ELSE t

\* Mutant of LoadFusedWeight: what a file did not complete is forgotten.
LoadFusedWeightForget(w, present, parts, dim, shape) ==
  IF w.weight # Undef THEN w
  ELSE LET tensors == [i \in DOMAIN parts |-> IF present[i] THEN parts[i] ELSE Undef]
       IN  IF \A i \in DOMAIN parts : tensors[i] # Undef
           THEN [weight |-> IF Shape(Cat(tensors, dim)) = shape THEN Cat(tensors, dim) ELSE Aborted, list |-> w.list]
           ELSE w

\* load_fused_weight: the parts may come from several files; those that came
\* first are kept until all are there, then merged.
LoadFusedWeight(w, present, parts, dim, shape) ==
  IF w.weight # Undef THEN w
  ELSE LET tensors == [i \in DOMAIN parts |-> IF present[i] THEN parts[i] ELSE w.list[i]]
       IN  IF \A i \in DOMAIN parts : tensors[i] # Undef
           THEN [weight |-> IF Shape(Cat(tensors, dim)) = shape THEN Cat(tensors, dim) ELSE Aborted,
                 list |-> [i \in DOMAIN parts |-> Undef]]
           ELSE [w EXCEPT !.list = [i \in DOMAIN parts |-> IF w.list[i] = Undef THEN tensors[i] ELSE w.list[i]]]

\* LLMEngine::init_model hands the files to the model one after the other.
LoadFiles(m, names, parts, dim, shape) ==
  IF Len(names) = 1
  THEN FoldLeft(LAMBDA w, f : LoadWeight(w, Present(m, names[1], f), parts[1], shape), Undef, <<1, 2>>)
  ELSE FoldLeft(LAMBDA w, f : LoadFusedWeight(w, [i \in DOMAIN names |-> Present(m, names[i], f)], parts, dim, shape),
                [weight |-> Undef, list |-> [i \in DOMAIN names |-> Undef]], <<1, 2>>).weight

---------------------------------------------------------------------------
(* Linear layers.  A column-parallel one is described by names, the          *)
(* checkpoint tensors it holds; outs, their output features; in, its input  *)
(* features; bias; kv, which of its tensors hold kv heads; and how a tensor  *)
(* is transformed before (pre) and after (post) it is sharded.  A           *)
(* row-parallel one holds one tensor.                                       *)

Fused(names, outs, in, bias) ==
  [names |-> names, outs |-> outs, in |-> in, bias |-> bias, kv |-> {}, pre |-> "", post |-> ""]

Column(name, out, in, bias) == Fused(<<name>>, <<out>>, in, bias)

Row(name, in, out, bias) == Fused(<<name>>, <<out>>, in, bias)

QKV(m, names, bias) ==
  [Fused(names, <<m.n_heads * m.hd, m.n_kv * m.hd, m.n_kv * m.hd>>, m.hidden, bias) EXCEPT !.kv = {2, 3}, !.pre = "kv"]

\* QKVColumnParallelLinearImpl: with fewer kv heads than ranks, a kv head goes to several ranks.
KvReplication(m, ws) == IF m.n_kv >= ws THEN 1 ELSE ws \div m.n_kv

\* The output features a layer is built for.
OutFeatures(m, d, ws) ==
  [i \in DOMAIN d.outs |-> IF i \in d.kv THEN d.outs[i] * KvReplication(m, ws) ELSE d.outs[i]]

Total(sizes) == FoldLeft(LAMBDA a, b : a + b, 0, sizes)

\* Mutant of RepeatInterleave: repeat.
RepeatWhole(s, n, hd) == Strict([i \in 1..(Len(s) * n) |-> s[((i - 1) % Len(s)) + 1]])

\* reshape({n_kv_heads, head_dim, -1}).repeat_interleave(n, 0) and back.
RepeatInterleave(s, n, hd) ==
  Strict([i \in 1..(Len(s) * n) |-> s[((i - 1) \div (hd * n)) * hd + ((i - 1) % hd) + 1]])

\* The transform that QKVColumnParallelLinearImpl gives to its state dict.  It
\* returns two dimensions also for a bias, and has no place for a quantized
\* tensor, whose rows are inputs: torch::cat throws for its shape.
KvReplicate(m, t, n) ==
  IF n = 1 THEN t
  ELSE IF m.quant # "" THEN Aborted
  ELSE <<RepeatInterleave(t[1], n, m.hd), IF Len(t) = 2 THEN t[2] ELSE Labels("in", 1)>>

\* The transforms before sharding, given to select_with_transform.
Transform(m, d, i, ws, t) ==
  CASE d.pre = "t" -> Transpose(t)
    [] d.pre = "qkv" -> [t EXCEPT ![1] = SwapLeading(@, 3, m.hd)]
    [] d.pre = "kv" /\ i \in d.kv -> KvReplicate(m, t, KvReplication(m, ws))
    [] OTHER -> t

\* The transform after sharding: [n_local_heads, 3, head_dim] => [3, n_local_heads, head_dim].
Reshape(m, d, t) ==
  IF d.post = "qkv" /\ t # Aborted THEN [t EXCEPT ![1] = SwapLeading(@, Len(@) \div (3 * m.hd), m.hd)] ELSE t

Checkpoint(d, i, param) ==
  CASE param = "bias" -> <<Labels(d.names[i], d.outs[i])>>
    [] d.pre = "t" -> <<Labels("in", d.in), Labels(d.names[i], d.outs[i])>>
    [] OTHER -> <<Labels(d.names[i], d.outs[i]), Labels("in", d.in)>>

\* ColumnParallelLinearImpl::load_state_dict: dimension 0 is sharded.
ColumnLoad(m, d, param, rank, ws) ==
  LoadFiles(m, d.names,
            Strict([i \in DOMAIN d.names |-> Reshape(m, d, GetShardedTensor(Transform(m, d, i, ws, Checkpoint(d, i, param)), 1, rank, ws))]),
            1, IF param = "bias" THEN <<Total(OutFeatures(m, d, ws)) \div ws>> ELSE <<Total(OutFeatures(m, d, ws)) \div ws, d.in>>)

\* RowParallelLinearImpl::load_state_dict: dimension 1 is sharded, the bias is whole.
RowLoad(m, d, param, rank, ws) ==
  IF param = "bias"
  THEN LoadFiles(m, d.names, <<Checkpoint(d, 1, param)>>, 1, <<d.outs[1]>>)
  ELSE LoadFiles(m, d.names, <<GetShardedTensor(Transform(m, d, 1, ws, Checkpoint(d, 1, param)), 2, rank, ws)>>,
                 1, <<d.outs[1], d.in \div ws>>)

---------------------------------------------------------------------------
(* What the layers compute.  ok says that every tensor so far was loaded.  *)

Everywhere(m, Op(_, _)) == [ref |-> Op(0, 1), at |-> Strict([r \in Ranks(m) |-> Op(r - 1, m.ws)])]

Loaded(w) == \A r \in DOMAIN w.at : w.at[r] \notin {Undef, Aborted}

\* The products a row of w sums up for the input x.
Products(x, w) == {<<x[i], w[2][i]>> : i \in DOMAIN x}

Fits(x, w) == Len(w) = 2 /\ Len(x) = Len(w[2])

\* F::linear on one rank: place j is what one GPU computes at place k if the
\* row, its bias and the products are those of k.
LinearOn(tag, xref, x, wref, w, bref, b) ==
  IF ~Fits(x, w) \/ ~Fits(xref, wref) \/ Aborted \in {b, bref} THEN <<Bad>>
  ELSE IF Products(x, w) # Products(xref, wref) THEN Strict([j \in DOMAIN w[1] |-> Bad])
  ELSE Strict([j \in DOMAIN w[1] |->
          IF \E k \in DOMAIN wref[1] : wref[1][k] = w[1][j] /\ (b = Undef \/ b[1][j] = bref[1][k])
          THEN <<tag, CHOOSE k \in DOMAIN wref[1] : wref[1][k] = w[1][j]>> ELSE Bad])

\* out is the number of output features on one GPU.
Linear(tag, out, x, w, b) ==
  [ref |-> Labels(tag, out),
   at |-> Strict([r \in DOMAIN x.at |-> LinearOn(tag, x.ref, x.at[r], w.ref, w.at[r], b.ref, b.at[r])]),
   ok |-> x.ok /\ Loaded(w) /\ (b.ref # Undef => Loaded(b))]

\* gather_from_model_parallel_region: every rank gets the concatenation.
Gather(m, x) == [x EXCEPT !.at = Strict([r \in Ranks(m) |-> Concat(x.at)])]

\* reduce_from_model_parallel_region: the sum over the ranks is what one GPU computes.
Reduces(m, x, w) ==
  /\ Fits(x.ref, w.ref) /\ \A r \in Ranks(m) : Fits(x.at[r], w.at[r]) /\ w.at[r][1] = w.ref[1]
  /\ \A r, s \in Ranks(m) : r # s => Products(x.at[r], w.at[r]) \cap Products(x.at[s], w.at[s]) = {}
  /\ UNION {Products(x.at[r], w.at[r]) : r \in Ranks(m)} = Products(x.ref, w.ref)

\* RowParallelLinearImpl::forward: linear, reduce, then the bias.
ReduceLinear(m, tag, out, x, w, b) ==
  [ref |-> Labels(tag, out),
   at |-> Strict([r \in Ranks(m) |-> Strict([j \in 1..out |->
             IF Reduces(m, x, w) /\ b.at[r] = b.ref THEN <<tag, j>> ELSE Bad])]),
   ok |-> x.ok /\ Loaded(w) /\ (b.ref # Undef => Loaded(b))]

Tag(m, name) == <<m.layer, name>>

Blank == [ref |-> <<>>, at |-> <<>>, ok |-> TRUE]

\* An operation on all features of a vector, and one on those of two vectors at the same place.
Whole(tag, x) ==
  [x EXCEPT !.ref = Labels(tag, Len(@)),
            !.at = Strict([r \in DOMAIN @ |-> IF @[r] = x.ref THEN Labels(tag, Len(x.ref)) ELSE Strict([j \in DOMAIN @[r] |-> Bad])])]

Pairwise(tag, x, y) ==
  [ref |-> Labels(tag, Len(x.ref)),
   at |-> Strict([r \in DOMAIN x.at |-> Strict([j \in DOMAIN x.at[r] |->
             IF \E k \in DOMAIN x.ref : j \in DOMAIN y.at[r] /\ x.at[r][j] = x.ref[k] /\ y.at[r][j] = y.ref[k]
             THEN <<tag, CHOOSE k \in DOMAIN x.ref : x.at[r][j] = x.ref[k]>> ELSE Bad])]),
   ok |-> x.ok /\ y.ok]

\* LayerNorm, RMSNorm and GemmaRMSNorm normalize over all features.
Norm(m, name, x) == Whole(Tag(m, name), x)

Add(m, name, x, y) == Pairwise(Tag(m, name), x, y)

\* split(sizes, 1) and chunk(n, 1).
SplitPart(s, sizes, i) == SubSeq(s, Total(SubSeq(sizes, 1, i - 1)) + 1, Total(SubSeq(sizes, 1, i)))

Split(x, refsizes, sizes) ==
  Strict([i \in DOMAIN sizes |->
     [x EXCEPT !.ref = SplitPart(@, refsizes, i),
               !.at = Strict([r \in DOMAIN @ |-> IF Len(@[r]) = Total(sizes) THEN SplitPart(@[r], sizes, i) ELSE <<Bad>>])]])

Chunks(x, n) ==
  Strict([i \in 1..n |-> [x EXCEPT !.ref = Chunk(@, n, i - 1), !.at = Strict([r \in DOMAIN @ |-> Chunk(@[r], n, i - 1)])]])

---------------------------------------------------------------------------
(* Embeddings and attention.                                               *)

\* EmbeddingImpl: every rank has the whole table.
Embedding(m, name) ==
  [ref |-> Labels(Tag(m, name), m.hidden), at |-> Strict([r \in Ranks(m) |-> Labels(Tag(m, name), m.hidden)]), ok |-> TRUE]

EmbeddingLoad(m, name, rank, ws) ==
  LoadFiles(m, <<name>>, <<GetShardedTensor(<<Labels("vocab", m.vocab), Labels(name, m.hidden)>>, 2, rank, ws)>>,
            1, <<m.vocab, m.hidden \div ws>>)

\* ParallelEmbeddingImpl: dimension 1 is sharded, the ranks' features are gathered.
EmbeddingForward(m, tag, w) ==
  Gather(m, [ref |-> Labels(tag, m.hidden),
             at |-> Strict([r \in Ranks(m) |-> IF Len(w.at[r]) = 2 THEN Strict([j \in DOMAIN w.at[r][2] |-> <<tag, w.at[r][2][j][2]>>]) ELSE <<Bad>>]),
             ok |-> Loaded(w)])

ParallelEmbedding(m, name) == EmbeddingForward(m, Tag(m, name), Everywhere(m, LAMBDA r, ws : EmbeddingLoad(m, name, r, ws)))

HeadOf(s, hd, h) == SubSeq(s, h * hd + 1, (h + 1) * hd)

\* What head h attends with: its query, the key and value of its group, and its slope.
Attend(q, k, v, slopes, n_heads, n_kv, hd, h) ==
  <<HeadOf(q, hd, h), HeadOf(k, hd, h \div (n_heads \div n_kv)), HeadOf(v, hd, h \div (n_heads \div n_kv)),
    IF h + 1 \in DOMAIN slopes THEN slopes[h + 1] ELSE 0>>

\* The kv heads LLMEngine::init_model lays the kv cache of a rank out for.
KvCacheHeads(m) == IF m.n_kv \div m.ws < 1 THEN 1 ELSE m.n_kv \div m.ws

\* AttentionImpl::forward on one rank; the views, and the write to the kv
\* cache, fail for any other number of features.
AttentionOn(m, tag, q, k, v, slopes, qr, kr, vr, slopesr, n_heads, n_kv) ==
  IF n_kv # KvCacheHeads(m) \/ Len(q) # n_heads * m.hd \/ Len(k) # n_kv * m.hd \/ Len(v) # n_kv * m.hd THEN <<Bad>>
  ELSE Strict([j \in DOMAIN q |->
          IF \E h \in 0..(m.n_heads - 1) :
               Attend(q, k, v, slopes, n_heads, n_kv, m.hd, (j - 1) \div m.hd) = Attend(qr, kr, vr, slopesr, m.n_heads, m.n_kv, m.hd, h)
          THEN <<tag, (CHOOSE h \in 0..(m.n_heads - 1) : HeadOf(q, m.hd, (j - 1) \div m.hd) = HeadOf(qr, m.hd, h)) * m.hd + ((j - 1) % m.hd) + 1>>
          ELSE Bad])

\* n_kv is the number of kv heads of a rank, slopes the ALiBi slopes of its
\* heads and, as ref, of all heads.
Attention(m, q, k, v, n_kv, slopes) ==
  [ref |-> Labels(Tag(m, "attn"), Len(q.ref)),
   at |-> Strict([r \in Ranks(m) |-> AttentionOn(m, Tag(m, "attn"), q.at[r], k.at[r], v.at[r], slopes.at[r],
                                         q.ref, k.ref, v.ref, slopes.ref, m.n_heads \div m.ws, n_kv)]),
   ok |-> q.ok /\ k.ok /\ v.ok]

=============================================================================

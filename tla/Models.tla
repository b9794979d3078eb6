------------------------------- MODULE Models -------------------------------
(***************************************************************************)
(* The decoder models.  A class is the sequence of operations its forward  *)
(* carries out: which layer, with which checkpoint tensors, reads and      *)
(* writes which variable.  The variables are h (the hidden states), r (the *)
(* residual), x, q, k, v, a and b; an activation function applies to every *)
(* number by itself and is left out.  Apply carries out one operation, for *)
(* one GPU and for every rank (see ParallelLayers).                        *)
(***************************************************************************)
EXTENDS QLinear

Op(op, arg, from, to) == [op |-> op, arg |-> arg, from |-> from, to |-> to, layer |-> 0]

Embed(name, to) == Op("embed", name, <<>>, <<to>>)
Table(name, to) == Op("table", name, <<>>, <<to>>)
Normalize(name, from, to) == Op("norm", name, <<from>>, <<to>>)
NormalizeResidual(name, from, to) == Op("norm_residual", name, <<from, "r">>, <<to, "r">>)
Sum(name, from1, from2, to) == Op("add", name, <<from1, from2>>, <<to>>)
Mul(from1, from2, to) == Op("mul", "act", <<from1, from2>>, <<to>>)
ColumnOf(d, from, to) == Op("column", d, <<from>>, <<to>>)
FusedOf(d, from, to) == Op("fused", d, <<from>>, to)
SplitOf(from, to) == Op("split", "qkv", <<from>>, to)
ChunkOf(from, to) == Op("chunk", "", <<from>>, to)
Attn(kv, slopes, to) == Op("attention", <<kv, slopes>>, <<"q", "k", "v">>, <<to>>)
RowOf(d, from, to) == Op("row", d, <<from>>, <<to>>)
LogitsOf(name, bias) == Op("head", <<name, bias>>, <<"h">>, <<"h">>)

\* The operations of layer l.
At(l, ops) == [i \in DOMAIN ops |-> [ops[i] EXCEPT !.layer = l]]

Layers(m, layer) == FlattenSeq([l \in 1..m.layers |-> At(l, layer)])

---------------------------------------------------------------------------
(* The shapes most classes have; x is input and output of a block's parts. *)

\* down(act(gate) * up).
GatedMLP(d, down) == <<FusedOf(d, "x", <<"a", "b">>), Mul("a", "b", "a"), RowOf(down, "a", "x")>>

GateUp(m) == Fused(<<"gate_proj", "up_proj">>, <<m.inter, m.inter>>, m.hidden, FALSE)

Down(m) == Row("down_proj", m.inter, m.hidden, FALSE)

\* down(act(up)).
PlainMLP(up, down) == <<ColumnOf(up, "x", "a"), RowOf(down, "a", "x")>>

\* Attention after a QKVColumnParallelLinear.
QkvAttention(d, o) == <<FusedOf(d, "x", <<"q", "k", "v">>), Attn("local", "none", "a"), RowOf(o, "a", "x")>>

\* Attention after one column-parallel layer whose output is split into q, k
\* and v, by their sizes or, with a kv head per head, by chunk(3).
SplitAttention(d, o, slopes) ==
  <<ColumnOf(d, "x", "a"), SplitOf("a", <<"q", "k", "v">>), Attn("split", slopes, "a"), RowOf(o, "a", "x")>>

ChunkAttention(d, o, slopes) ==
  <<ColumnOf(d, "x", "a"), ChunkOf("a", <<"q", "k", "v">>), Attn("heads", slopes, "a"), RowOf(o, "a", "x")>>

QkvSizes(m, ws) == <<(m.n_heads \div ws) * m.hd, (m.n_kv \div ws) * m.hd, (m.n_kv \div ws) * m.hd>>

\* h = x + attn(ln(x)); h + mlp(ln(h)).
PreNorm(attn, mlp) ==
  <<Normalize("ln_1", "h", "x")>> \o attn \o <<Sum("attn_out", "h", "x", "h"), Normalize("ln_2", "h", "x")>> \o mlp
    \o <<Sum("mlp_out", "h", "x", "h")>>

\* x + attn(ln(x)) + mlp(ln(x)).
ParallelResidual(ln_1, attn, ln_2, mlp) ==
  <<Normalize(ln_1, "h", "x")>> \o attn \o <<Sum("attn_out", "h", "x", "r"), Normalize(ln_2, "h", "x")>> \o mlp
    \o <<Sum("mlp_out", "r", "x", "h")>>

\* The residual is what was normalized, or what came out of the norm.
PostLn(m, attn, mlp) ==
  <<Normalize("ln_1", "h", "x"), Normalize("ln_1", "h", "r")>> \o attn
    \o <<Sum("attn_out", "x", IF m.residual_post_layernorm THEN "r" ELSE "h", "h"), Normalize("ln_2", "h", "x"), Normalize("ln_2", "h", "r")>>
    \o mlp \o <<Sum("mlp_out", "x", IF m.residual_post_layernorm THEN "r" ELSE "h", "h")>>

\* RMSNormResidual keeps the sum it normalizes as the residual.
ResidualLayer(attn, mlp) ==
  <<NormalizeResidual("ln_1", "h", "x")>> \o attn \o <<NormalizeResidual("ln_2", "x", "x")>> \o mlp \o <<Op("move", "", <<"x">>, <<"h">>)>>

---------------------------------------------------------------------------
(* Llama, Mistral, Aquila, InternLM.                                       *)

LlamaMLP(m) == GatedMLP(GateUp(m), Down(m))

LlamaAttention(m) == QkvAttention(QKV(m, <<"q_proj", "k_proj", "v_proj">>, FALSE), Row("o_proj", m.hidden, m.hidden, FALSE))

LlamaDecoderLayer(m) == PreNorm(LlamaAttention(m), LlamaMLP(m))

LlamaModel(m) == <<Embed("embed_tokens", "h")>> \o Layers(m, LlamaDecoderLayer(m)) \o <<Normalize("norm", "h", "h")>>

LlamaForCausalLM(m) == [forward |-> LlamaModel(m), logits |-> <<LogitsOf("lm_head", FALSE)>>]

MistralMLP(m) == GatedMLP(GateUp(m), Down(m))

MistralAttention(m) == QkvAttention(QKV(m, <<"q_proj", "k_proj", "v_proj">>, FALSE), Row("o_proj", m.hidden, m.hidden, FALSE))

MistralDecoderLayer(m) == PreNorm(MistralAttention(m), MistralMLP(m))

MistralModel(m) == <<Embed("embed_tokens", "h")>> \o Layers(m, MistralDecoderLayer(m)) \o <<Normalize("norm", "h", "h")>>

MistralForCausalLM(m) == [forward |-> MistralModel(m), logits |-> <<LogitsOf("lm_head", FALSE)>>]

AquilaMLP(m) == GatedMLP(GateUp(m), Down(m))

AquilaAttention(m) == SplitAttention(Fused(<<"q_proj", "k_proj", "v_proj">>, QkvSizes(m, 1), m.hidden, FALSE), Row("o_proj", m.hidden, m.hidden, FALSE), "none")

AquilaDecoderLayer(m) == PreNorm(AquilaAttention(m), AquilaMLP(m))

AquilaModel(m) == <<Embed("embed_tokens", "h")>> \o Layers(m, AquilaDecoderLayer(m)) \o <<Normalize("norm", "h", "h")>>

AquilaForCausalLM(m) == [forward |-> AquilaModel(m), logits |-> <<LogitsOf("lm_head", FALSE)>>]

InternlmMLP(m) == GatedMLP(GateUp(m), Down(m))

InternlmAttention(m) == 
  ChunkAttention(Fused(<<"q_proj", "k_proj", "v_proj">>, <<m.hidden, m.hidden, m.hidden>>, m.hidden, FALSE), Row("o_proj", m.hidden, m.hidden, FALSE), "none")

InternlmDecoderLayer(m) == PreNorm(InternlmAttention(m), InternlmMLP(m))

InternlmModel(m) == <<Embed("embed_tokens", "h")>> \o Layers(m, InternlmDecoderLayer(m)) \o <<Normalize("norm", "h", "h")>>

InternlmForCausalLM(m) == [forward |-> InternlmModel(m), logits |-> <<LogitsOf("lm_head", FALSE)>>]

---------------------------------------------------------------------------
(* Gemma, Gemma2: the head is the embedding; QWen2, QWen; Baichuan.        *)

GemmaMLP(m) == GatedMLP(GateUp(m), Down(m))

GemmaAttention(m) == QkvAttention(QKV(m, <<"q_proj", "k_proj", "v_proj">>, FALSE), Row("o_proj", m.n_heads * m.hd, m.hidden, FALSE))

GemmaDecoderLayer(m) == PreNorm(GemmaAttention(m), GemmaMLP(m))

GemmaModel(m) == <<Embed("embed_tokens", "h")>> \o Layers(m, GemmaDecoderLayer(m)) \o <<Normalize("norm", "h", "h")>>

GemmaForCausalLM(m) == [forward |-> GemmaModel(m), logits |-> <<LogitsOf("embed_tokens", FALSE)>>]

Gemma2MLP(m) == GatedMLP(GateUp(m), Down(m))

Gemma2Attention(m) == QkvAttention(QKV(m, <<"q_proj", "k_proj", "v_proj">>, m.bias), Row("o_proj", m.n_heads * m.hd, m.hidden, m.bias))

Gemma2DecoderLayer(m) == 
  <<Normalize("input", "h", "x")>> \o Gemma2Attention(m)
    \o <<Normalize("post_attention", "x", "x"), Sum("attn_out", "x", "h", "h"), Normalize("pre_feedforward", "h", "x")>>
    \o Gemma2MLP(m) \o <<Normalize("post_feedforward", "x", "x"), Sum("mlp_out", "x", "h", "h")>>

Gemma2Model(m) == <<Embed("embed_tokens", "h")>> \o Layers(m, Gemma2DecoderLayer(m)) \o <<Normalize("norm", "h", "h")>>

Gemma2ForCausalLM(m) == [forward |-> Gemma2Model(m), logits |-> <<LogitsOf("embed_tokens", FALSE)>>]

QWen2MLP(m) == GatedMLP(GateUp(m), Down(m))

QWen2Attention(m) == QkvAttention(QKV(m, <<"q_proj", "k_proj", "v_proj">>, TRUE), Row("o_proj", m.hidden, m.hidden, FALSE))

QWen2DecoderLayer(m) == ResidualLayer(QWen2Attention(m), QWen2MLP(m))

QWen2Model(m) == <<Embed("embed_tokens", "h")>> \o Layers(m, QWen2DecoderLayer(m)) \o <<NormalizeResidual("norm", "h", "h")>>

QWen2ForCausalLM(m) == [forward |-> QWen2Model(m), logits |-> <<LogitsOf("lm_head", FALSE)>>]

QWenMLP(m) == 
  <<ColumnOf(Fused(<<"w1", "w2">>, <<m.inter, m.inter>>, m.hidden, FALSE), "x", "a"), ChunkOf("a", <<"a", "b">>), Mul("a", "b", "a"),
    RowOf(Row("mlp.c_proj", m.inter, m.hidden, FALSE), "a", "x")>>

QWenAttention(m) == 
  ChunkAttention(Column("c_attn", 3 * m.hidden, m.hidden, TRUE), Row("attn.c_proj", m.hidden, m.hidden, FALSE), "none")

QWenBlock(m) == PreNorm(QWenAttention(m), QWenMLP(m))

QWenModel(m) == <<Embed("wte", "h")>> \o Layers(m, QWenBlock(m)) \o <<Normalize("ln_f", "h", "h")>>

QWenForCausalLM(m) == [forward |-> QWenModel(m), logits |-> <<LogitsOf("lm_head", FALSE)>>]

BaichuanMLP(m) == GatedMLP(GateUp(m), Down(m))

BaichuanAttention(m) == 
  SplitAttention(Column("W_pack", 3 * m.hidden, m.hidden, FALSE), Row("o_proj", m.hidden, m.hidden, FALSE), IF m.alibi THEN "alibi" ELSE "none")

BaichuanDecoderLayer(m) == ResidualLayer(BaichuanAttention(m), BaichuanMLP(m))

BaichuanModel(m) == <<Embed("embed_tokens", "h")>> \o Layers(m, BaichuanDecoderLayer(m)) \o <<NormalizeResidual("norm", "h", "h")>>

BaichuanForCausalLM(m) == [forward |-> BaichuanModel(m), logits |-> <<LogitsOf("lm_head", FALSE)>>]

---------------------------------------------------------------------------
(* GPT-2, GPT-J, GPT-NeoX, Phi.                                            *)

\* GPT-2 stores the transposed weights of its layers.
Transposed(d) == [d EXCEPT !.pre = "t"]

GPT2MLP(m) == 
  PlainMLP(Transposed(Column("c_fc", m.inter, m.hidden, TRUE)), Transposed(Row("mlp.c_proj", m.inter, m.hidden, TRUE)))

GPT2Attention(m) == 
  ChunkAttention(Transposed(Column("c_attn", 3 * m.hidden, m.hidden, TRUE)), Transposed(Row("attn.c_proj", m.hidden, m.hidden, TRUE)), "none")

GPT2Block(m) == PreNorm(GPT2Attention(m), GPT2MLP(m))

GPT2Model(m) == <<Embed("wte", "h"), Table("wpe", "x"), Sum("embed", "h", "x", "h")>> \o Layers(m, GPT2Block(m)) \o <<Normalize("ln_f", "h", "h")>>

GPT2ForCausalLM(m) == [forward |-> GPT2Model(m), logits |-> <<LogitsOf("wte", FALSE)>>]

GPTJMLP(m) == PlainMLP(Column("fc_in", m.inter, m.hidden, TRUE), Row("fc_out", m.inter, m.hidden, TRUE))

GPTJAttention(m) == 
  ChunkAttention(Fused(<<"q_proj", "k_proj", "v_proj">>, <<m.hidden, m.hidden, m.hidden>>, m.hidden, FALSE),
                 Row("out_proj", m.hidden, m.hidden, FALSE), "none")

GPTJBlock(m) == ParallelResidual("ln_1", GPTJAttention(m), "ln_1", GPTJMLP(m))

GPTJModel(m) == <<Embed("wte", "h")>> \o Layers(m, GPTJBlock(m)) \o <<Normalize("ln_f", "h", "h")>>

GPTJForCausalLM(m) == [forward |-> GPTJModel(m), logits |-> <<LogitsOf("lm_head", TRUE)>>]

GPTNeoXMLP(m) == PlainMLP(Column("dense_h_to_4h", m.inter, m.hidden, TRUE), Row("dense_4h_to_h", m.inter, m.hidden, TRUE))

GPTNeoXAttention(m) == 
  ChunkAttention([Column("query_key_value", 3 * m.hidden, m.hidden, TRUE) EXCEPT !.post = "qkv"], Row("dense", m.hidden, m.hidden, TRUE), "none")

GPTNeoXLayer(m) == 
  IF m.use_parallel_residual THEN ParallelResidual("ln_1", GPTNeoXAttention(m), "ln_2", GPTNeoXMLP(m))
  ELSE PreNorm(GPTNeoXAttention(m), GPTNeoXMLP(m))

GPTNeoXModel(m) == <<Embed("embed_in", "h")>> \o Layers(m, GPTNeoXLayer(m)) \o <<Normalize("final_layer_norm", "h", "h")>>

GPTNeoXForCausalLM(m) == [forward |-> GPTNeoXModel(m), logits |-> <<LogitsOf("embed_out", FALSE)>>]

PhiMLP(m) == PlainMLP(Column("fc1", m.inter, m.hidden, TRUE), Row("fc2", m.inter, m.hidden, TRUE))

PhiAttention(m) ==
  SplitAttention(Column("Wqkv", m.hidden + 2 * m.n_kv * m.hd, m.hidden, TRUE), Row("out_proj", m.hidden, m.hidden, TRUE), "none")

PhiBlock(m) == ParallelResidual("ln", PhiAttention(m), "ln", PhiMLP(m))

PhiModel(m) == <<Embed("wte", "h")>> \o Layers(m, PhiBlock(m))

PhiLMHead == <<Normalize("lm_ln", "h", "h"), LogitsOf("lm_head", TRUE)>>

PhiForCausalLM(m) == [forward |-> PhiModel(m), logits |-> PhiLMHead]

---------------------------------------------------------------------------
(* Bloom, MPT, ChatGLM, and the model of the engine's tests.               *)

BloomMLP(m) == PlainMLP(Column("dense_h_to_4h", m.inter, m.hidden, TRUE), Row("dense_4h_to_h", m.inter, m.hidden, TRUE))

BloomAttention(m) == 
  ChunkAttention([Column("query_key_value", 3 * m.hidden, m.hidden, TRUE) EXCEPT !.post = "qkv"], Row("dense", m.hidden, m.hidden, TRUE), "alibi")

BloomBlock(m) == PostLn(m, BloomAttention(m), BloomMLP(m))

BloomModel(m) == <<Embed("word_embeddings", "h"), Normalize("embeddings_ln", "h", "h")>> \o Layers(m, BloomBlock(m)) \o <<Normalize("ln_f", "h", "h")>>

BloomForCausalLM(m) == [forward |-> BloomModel(m), logits |-> <<LogitsOf("word_embeddings", FALSE)>>]

MPTMLP(m) == PlainMLP(Column("up_proj", m.inter, m.hidden, m.bias), Row("down_proj", m.inter, m.hidden, m.bias))

MPTAttention(m) == 
  <<ColumnOf([Column("Wqkv", 3 * m.hidden, m.hidden, m.bias) EXCEPT !.pre = "qkv", !.post = "qkv"], "x", "a"), ChunkOf("a", <<"q", "k", "v">>)>>
    \o (IF m.attn_qk_ln THEN <<Normalize("q_ln", "q", "q"), Normalize("k_ln", "k", "k")>> ELSE <<>>)
    \o <<Attn("heads", "mpt", "a"), RowOf(Row("out_proj", m.hidden, m.hidden, m.bias), "a", "x")>>

MPTBlock(m) == PreNorm(MPTAttention(m), MPTMLP(m))

MPTModel(m) == <<Embed("wte", "h")>> \o Layers(m, MPTBlock(m)) \o <<Normalize("norm_f", "h", "h")>>

MPTForCausalLM(m) == [forward |-> MPTModel(m), logits |-> <<LogitsOf("wte", m.bias)>>]

ChatGLMMLP(m) ==
  <<ColumnOf(Column("dense_h_to_4h", 2 * m.inter, m.hidden, m.bias), "x", "a"), ChunkOf("a", <<"a", "b">>), Mul("a", "b", "a"),
    RowOf(Row("dense_4h_to_h", m.inter, m.hidden, m.bias), "a", "x")>>

ChatGLMAttention(m) ==
  SplitAttention(Column("query_key_value", m.hidden + 2 * m.n_kv * m.hd, m.hidden, m.bias \/ m.qkv_bias),
                 Row("dense", m.hidden, m.hidden, m.bias), "none")

ChatGLMBlock(m) == PostLn(m, ChatGLMAttention(m), ChatGLMMLP(m))

ChatGLMModel(m) == Layers(m, ChatGLMBlock(m)) \o (IF m.post_layernorm THEN <<Normalize("final_layernorm", "h", "h")>> ELSE <<>>)

ChatGLMForCausalLM(m) ==
  [forward |-> <<Embed("word_embeddings", "h")>> \o ChatGLMModel(m), logits |-> <<LogitsOf("output_layer", FALSE)>>]

SimpleMLP(m) == GatedMLP(GateUp(m), Down(m))

SimpleDecoderLayer(m) == <<Op("move", "", <<"h">>, <<"x">>)>> \o SimpleMLP(m) \o <<Op("move", "", <<"x">>, <<"h">>)>>

SimpleModel(m) == <<Embed("embed_tokens", "h")>> \o Layers(m, SimpleDecoderLayer(m))

SimpleForCausalLM(m) == [forward |-> SimpleModel(m), logits |-> <<>>]

---------------------------------------------------------------------------
(* Carrying out an operation.                                              *)

FloorLog2(n) == CHOOSE e \in 0..n : 2^e <= n /\ n < 2^(e + 1)

\* prepare_alibi_slopes of Bloom and Baichuan; e stands for the slope 2^(-8e/c), c the heads of a power of 2, doubled.
AlibiSlopes(m) ==
  LET c == 2^FloorLog2(m.n_heads) IN [h \in 1..m.n_heads |-> IF h <= c THEN 2 * h ELSE 2 * (h - c) - 1]

\* prepare_alibi_slopes of MPT: not cut to the number of heads.
MPTSlopes(m) ==
  LET n == IF 2^FloorLog2(m.n_heads) = m.n_heads THEN m.n_heads ELSE 2^(FloorLog2(m.n_heads) + 1)
      half == n \div 2
  IN  [h \in 1..n |-> IF n = m.n_heads THEN h ELSE IF h <= half THEN 2 * h ELSE 2 * (h - half) - 1]

\* The slopes of all heads, and of the heads of each rank.
Slopes(m, kind) ==
  LET all == CASE kind = "alibi" -> AlibiSlopes(m) [] kind = "mpt" -> MPTSlopes(m) [] OTHER -> <<>>
  IN  [ref |-> all, at |-> Strict([r \in Ranks(m) |-> Chunk(all, m.ws, r - 1)])]

\* The kv heads of a rank: partitioned, or with fewer than ranks replicated.
LocalKvHeads(m, kind) ==
  CASE kind = "local" -> IF m.n_kv >= m.ws THEN m.n_kv \div m.ws ELSE 1
    [] kind = "split" -> m.n_kv \div m.ws
    [] OTHER -> m.n_heads \div m.ws

\* RMSNormResidualImpl::forward; the residual is undefined before the first layer.
RMSNormResidual(m, name, x, residual) ==
  LET sum == IF residual = Blank THEN x ELSE Add(m, name, x, residual) IN <<Norm(m, name, sum), sum>>

Results(m, o, x) ==
  CASE o.op = "embed" -> <<ParallelEmbedding(m, o.arg)>>
    [] o.op = "table" -> <<Embedding(m, o.arg)>>
    [] o.op = "norm" -> <<Norm(m, o.arg, x[1])>>
    [] o.op = "norm_residual" -> RMSNormResidual(m, o.arg, x[1], x[2])
    [] o.op \in {"add", "mul"} -> <<Add(m, o.arg, x[1], x[2])>>
    [] o.op = "column" -> <<ColumnParallel(m, o.arg, x[1])>>
    [] o.op = "fused" -> FusedColumnParallel(m, o.arg, x[1])
    [] o.op = "split" -> Split(x[1], QkvSizes(m, 1), QkvSizes(m, m.ws))
    [] o.op = "chunk" -> Chunks(x[1], Len(o.to))
    [] o.op = "attention" -> <<Attention(m, x[1], x[2], x[3], LocalKvHeads(m, o.arg[1]), Slopes(m, o.arg[2]))>>
    [] o.op = "row" -> <<RowParallel(m, o.arg, x[1])>>
    [] o.op = "head" -> <<LmHead(m, o.arg[1], o.arg[2], x[1])>>
    [] o.op = "move" -> x

Variables == {"h", "r", "x", "q", "k", "v", "a", "b"}

Undefined == [v \in Variables |-> Blank]

Apply(m, env, o) ==
  LET y == Results([m EXCEPT !.layer = o.layer], o, Strict([i \in DOMAIN o.from |-> env[o.from[i]]]))
  IN  FoldLeft(LAMBDA e, i : [e EXCEPT ![o.to[i]] = y[i]], env, [i \in DOMAIN o.to |-> i])

---------------------------------------------------------------------------
(* The models that can be created.                                         *)

\* The models whose attention is built from a QKVColumnParallelLinear.
QkvModels == {"llama", "mistral", "gemma", "gemma2", "qwen2"}

\* The CHECKs of the constructors: the ranks divide the features of every
\* layer, and divide the kv heads or are divided by them; a rank has a kv head.
Constructible(m) ==
  /\ \A n \in {m.hidden, m.inter, m.vocab, m.n_heads * m.hd} : n % m.ws = 0
  /\ IF m.name \in QkvModels THEN IF m.n_kv >= m.ws THEN m.n_kv % m.ws = 0 ELSE m.ws % m.n_kv = 0
     ELSE ((m.n_heads + 2 * m.n_kv) * m.hd) % m.ws = 0 /\ m.n_kv \div m.ws > 0
  /\ (m.n_heads \div m.ws) % KvCacheHeads(m) = 0

\* CausalLM::create: the model registered under the name.
CausalLM(m) ==
  CASE m.name = "llama" -> LlamaForCausalLM(m)
    [] m.name = "mistral" -> MistralForCausalLM(m)
    [] m.name = "aquila" -> AquilaForCausalLM(m)
    [] m.name = "internlm" -> InternlmForCausalLM(m)
    [] m.name = "gemma" -> GemmaForCausalLM(m)
    [] m.name = "gemma2" -> Gemma2ForCausalLM(m)
    [] m.name = "qwen2" -> QWen2ForCausalLM(m)
    [] m.name = "qwen" -> QWenForCausalLM(m)
    [] m.name = "baichuan" -> BaichuanForCausalLM(m)
    [] m.name = "gpt2" -> GPT2ForCausalLM(m)
    [] m.name = "gptj" -> GPTJForCausalLM(m)
    [] m.name = "gpt_neox" -> GPTNeoXForCausalLM(m)
    [] m.name = "phi" -> PhiForCausalLM(m)
    [] m.name = "bloom" -> BloomForCausalLM(m)
    [] m.name = "mpt" -> MPTForCausalLM(m)
    [] m.name = "chatglm" -> ChatGLMForCausalLM(m)
    [] m.name = "simple" -> SimpleForCausalLM(m)

=============================================================================

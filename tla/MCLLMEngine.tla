---------------------------- MODULE MCLLMEngine ----------------------------
(* The configurations LLMEngine is checked on.                             *)
EXTENDS LLMEngine

\* Two layers; every option of a model is off, or the ones given are on.
Config(name, size, ws, quant, late, on) ==
  [name |-> name, ws |-> ws, n_heads |-> size[1], n_kv |-> size[2], hd |-> 2, hidden |-> 2 * size[1], inter |-> 8, vocab |-> 4,
   layers |-> 2, layer |-> 0, quant |-> quant[1], impl |-> quant[2], group_size |-> quant[3], desc_act |-> quant[4],
   late |-> late,
   bias |-> "bias" \in on, qkv_bias |-> "bias" \in on, alibi |-> on # {}, residual_post_layernorm |-> on # {},
   post_layernorm |-> on # {}, use_parallel_residual |-> on # {}, attn_qk_ln |-> FALSE,
   memory |-> [d \in 1..5 |-> 100 - 15 * d], max_cache_size |-> 0, enable_cuda_graph |-> on # {}, draft |-> {}, draft_slot |-> 3]

\* A draft model on devices of its own, on some of the target's, or on both; and a limit to the cache.
Drafted(c) == {[c EXCEPT !.draft = draft, !.max_cache_size = limit] : draft \in {{1}, {2}, {3}, {2, 3}}, limit \in {0, 30}}

\* Classes with a kv head per head, and those that read one packed tensor for q, k and v.
MHA == {"internlm", "gptj", "gpt_neox", "bloom", "mpt"}

Packed == {"gpt2", "qwen", "baichuan", "phi", "chatglm"}

Plain == <<"", "auto", -1, FALSE>>

\* The quantized classes.
Quantized == {<<"gptq", "auto">>, <<"awq", "auto">>, <<"gptq", "slow">>, <<"gptq", "cuda">>, <<"gptq", "exllamav2">>, <<"gptq", "marlin">>}

Possible(c) == c.n_heads % c.ws = 0 /\ (c.name \in MHA \cup Packed => c.n_kv = c.n_heads)

\* Every class on one, two and four devices, the packed ones on one; grouped heads, one kv head, a
\* number of heads that is no power of 2, tensors split over two files, a draft model.
MCConfigs ==
  Drafted(Config("simple", <<4, 2>>, 2, Plain, {}, {})) \cup
  {c \in {Config(name, size, ws, Plain, {}, {}) :
             name \in QkvModels \cup MHA \cup {"aquila", "simple"}, size \in {<<4, 2>>, <<4, 4>>}, ws \in {1, 2, 4}}
      \cup {Config(name, <<4, 4>>, 1, Plain, {}, {}) : name \in Packed}
      \cup {Config(name, <<4, 1>>, ws, Plain, {}, {"cuda_graph"}) : name \in QkvModels \cup {"aquila"}, ws \in {2, 4}}
      \cup {Config("bloom", <<6, 6>>, 2, Plain, {}, {"cuda_graph"}), Config("gpt_neox", <<6, 6>>, 2, Plain, {"dense"}, {"cuda_graph"}),
            Config("llama", <<6, 6>>, 4, Plain, {}, {}), Config("gemma2", <<4, 2>>, 2, Plain, {}, {"bias"})}
      \cup {Config(name, <<4, 2>>, ws, Plain, late, {}) :
               name \in {"llama", "aquila"}, ws \in {2, 4}, late \in {{"up_proj"}, {"k_proj", "v_proj"}, {"q_proj", "o_proj"}}}
      \cup {Config("llama", <<4, 2>>, 2, <<quant[1], quant[2], size, order>>, {"v_proj"}, {}) :
               quant \in Quantized, size \in {-1, 2, 8}, order \in BOOLEAN} : Possible(c)}

\* The classes with packed tensors.
MCPackedConfigs == {Config(name, <<4, 4>>, 2, Plain, {}, {}) : name \in Packed}

=============================================================================

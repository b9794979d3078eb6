------------------------------ MODULE QLinear ------------------------------
(***************************************************************************)
(* The quantized linear layers, and the choice between them and the plain  *)
(* ones.  A quantized weight is spread over several checkpoint tensors     *)
(* whose rows are inputs: qweight, packed along inputs (gptq) or outputs   *)
(* (awq); scales and qzeros, one row per quantization group; g_idx, the    *)
(* group of each input when the inputs are ordered by activation.  Each is *)
(* sharded on its own, and they must still belong together on every rank.  *)
(*                                                                         *)
(* m.quant is the method of the checkpoint, m.impl the implementation the  *)
(* flag qlinear_gptq_impl asks for, m.group_size is -1 for one group,      *)
(* m.desc_act the order by activation.                                     *)
(***************************************************************************)
EXTENDS ParallelLayers

\* 32 / bits, scaled down.
PackFactor == 2

Pack(s) == Strict([i \in 1..(Len(s) \div PackFactor) |-> SubSeq(s, (i - 1) * PackFactor + 1, i * PackFactor)])

Unpack(s) == Concat(s)

RoundUp(num, multiple) == (num + multiple - 1) \div multiple

\* The groups of a checkpoint tensor, and of a layer with so many inputs.
NumGroups(m, in) == IF m.group_size = -1 THEN 1 ELSE RoundUp(in, m.group_size)

\* The value of g_idx for input i: any fixed assignment stands for the order by activation.
GroupIndex(m, d, i) == ((i - 1) % NumGroups(m, d.in)) + 1

QCheckpoint(m, d, i, param) ==
  LET ins == Labels("in", d.in)
      outs == Labels(d.names[i], d.outs[i])
      groups == Labels("group", NumGroups(m, d.in))
  IN  CASE param = "bias" -> <<outs>>
        [] param = "g_idx" -> <<ins>>
        [] param = "scales" -> <<groups, outs>>
        [] param = "qzeros" -> <<groups, Pack(outs)>>
        [] param = "qweight" /\ m.quant = "awq" -> <<ins, Pack(outs)>>
        [] OTHER -> <<Pack(ins), outs>>

---------------------------------------------------------------------------
(* The classes.  pack is the dimension along which qweight is packed, shard *)
(* the dimension each parameter is sharded along, 0 for none, and group how *)
(* an input finds its group: equal runs of inputs, input / group_size, or   *)
(* g_idx.                                                                   *)

ColumnParallelQLinear(m) ==
  [row |-> FALSE, pack |-> 1, shard |-> [qweight |-> 2, qzeros |-> 2, scales |-> 2, bias |-> 1], group |-> "runs"]

RowParallelQLinear(m) ==
  [row |-> TRUE, pack |-> 1, shard |-> [qweight |-> 1, qzeros |-> 1, scales |-> 1, bias |-> 0], group |-> "runs"]

\* Their own kernel and groups, and the loader of the classes above.
ColumnParallelQLinearGPTQ(m) == [ColumnParallelQLinear(m) EXCEPT !.group = "size"]

RowParallelQLinearGPTQ(m) == [RowParallelQLinear(m) EXCEPT !.group = "size"]

ColumnParallelQLinearExllamav2(m) == [ColumnParallelQLinear(m) EXCEPT !.group = "size"]

RowParallelQLinearExllamav2(m) == [RowParallelQLinear(m) EXCEPT !.group = "size"]

\* Only the Marlin layers for gptq load g_idx, and no zeros.
ColumnParallelQLinearGPTQMarlin(m) ==
  [row |-> FALSE, pack |-> 1,
   shard |-> IF m.desc_act THEN [qweight |-> 2, scales |-> 2, g_idx |-> 0, bias |-> 1]
                           ELSE [qweight |-> 2, scales |-> 2, bias |-> 1],
   group |-> IF m.desc_act THEN "g_idx" ELSE "runs"]

\* All scales on every rank if a rank's inputs may be in any group (load_full_scales_).
RowParallelQLinearGPTQMarlin(m) ==
  [row |-> TRUE, pack |-> 1,
   shard |-> IF m.desc_act THEN [qweight |-> 1, scales |-> 0, g_idx |-> 1, bias |-> 0]
                           ELSE [qweight |-> 1, scales |-> IF m.group_size = -1 THEN 0 ELSE 1, bias |-> 0],
   group |-> IF m.desc_act THEN "g_idx" ELSE "runs"]

ColumnParallelQLinearAWQMarlin(m) ==
  [row |-> FALSE, pack |-> 2, shard |-> [qweight |-> 2, qzeros |-> 2, scales |-> 2, bias |-> 1], group |-> "exact"]

RowParallelQLinearAWQMarlin(m) ==
  [row |-> TRUE, pack |-> 2, shard |-> [qweight |-> 1, qzeros |-> 1, scales |-> 1, bias |-> 0], group |-> "exact"]

ColumnParallelQLinearByImpl(m) ==
  CASE m.impl = "slow" -> ColumnParallelQLinear(m)
    [] m.impl = "cuda" -> ColumnParallelQLinearGPTQ(m)
    [] m.impl = "exllamav2" -> ColumnParallelQLinearExllamav2(m)
    [] m.impl = "marlin" -> ColumnParallelQLinearGPTQMarlin(m)

RowParallelQLinearByImpl(m) ==
  CASE m.impl = "slow" -> RowParallelQLinear(m)
    [] m.impl = "cuda" -> RowParallelQLinearGPTQ(m)
    [] m.impl = "exllamav2" -> RowParallelQLinearExllamav2(m)
    [] m.impl = "marlin" -> RowParallelQLinearGPTQMarlin(m)

ColumnClass(m) ==
  CASE m.impl # "auto" -> ColumnParallelQLinearByImpl(m)
    [] m.quant = "gptq" -> ColumnParallelQLinearGPTQMarlin(m)
    [] m.quant = "awq" -> ColumnParallelQLinearAWQMarlin(m)

RowClass(m) ==
  CASE m.impl # "auto" -> RowParallelQLinearByImpl(m)
    [] m.quant = "gptq" -> RowParallelQLinearGPTQMarlin(m)
    [] m.quant = "awq" -> RowParallelQLinearAWQMarlin(m)

---------------------------------------------------------------------------
(* Loading, and what is computed from the loaded tensors.                  *)

\* The shape registered for a parameter with so many inputs, groups and outputs.
QShape(q, param, in, groups, out) ==
  CASE param = "bias" -> <<out>>
    [] param = "g_idx" -> <<in>>
    [] param = "scales" -> <<groups, out>>
    [] param = "qzeros" -> <<groups, out \div PackFactor>>
    [] param = "qweight" /\ q.pack = 2 -> <<in, out \div PackFactor>>
    [] OTHER -> <<in \div PackFactor, out>>

\* The constructor's CHECK on the groups, a merge with an order by
\* activation, and a transform of a shard, which is not implemented.
QRefuses(m, q, d, in) ==
  \/ q.group = "exact" /\ m.group_size # -1 /\ in % m.group_size # 0
  \/ Len(d.names) > 1 /\ q.group = "g_idx"
  \/ d.post # ""

\* load_state_dict of all classes.
QLoad(m, q, d, param, rank, ws) ==
  LET dim == q.shard[param]
      in == IF q.row THEN d.in \div ws ELSE d.in
      out == Total(OutFeatures(m, d, ws)) \div (IF q.row THEN 1 ELSE ws)
      tensor(i) == Transform(m, d, i, ws, QCheckpoint(m, d, i, param))
  IN  IF QRefuses(m, q, d, in) THEN Aborted
      ELSE LoadFiles(m, d.names,
                     Strict([i \in DOMAIN d.names |-> IF dim = 0 THEN tensor(i) ELSE GetShardedTensor(tensor(i), dim, rank, ws)]),
                     IF param = "bias" THEN 1 ELSE 2,
                     QShape(q, param, in, NumGroups(m, IF q.shard["scales"] = 0 THEN d.in ELSE in), out))

\* The group of input i among the rows of the scales.
GroupOf(m, q, d, ins, groups, i) ==
  CASE q.group = "g_idx" -> GroupIndex(m, d, ins[i][2])
    [] q.group = "size" /\ m.group_size # -1 -> ((i - 1) \div m.group_size) + 1
    [] OTHER -> ((i - 1) \div RoundUp(Len(ins), groups)) + 1

\* construct_weights, and what the gemm kernels compute from the repacked
\* tensors: output j of each tensor must be the same output, and an input
\* comes with the group whose scale and zero it is given.
Dequantize(m, q, d, qweight, scales, qzeros) ==
  LET ins == IF q.pack = 2 THEN qweight[1] ELSE Unpack(qweight[1])
      outs == IF q.pack = 2 THEN Unpack(qweight[2]) ELSE qweight[2]
      zouts == IF qzeros = Undef THEN outs ELSE Unpack(qzeros[2])
      group(rows, i) == LET g == GroupOf(m, q, d, ins, Len(rows), i) IN IF g \in DOMAIN rows THEN rows[g] ELSE <<"none", 0>>
  IN  <<Strict([j \in DOMAIN outs |-> IF scales[2][j] = outs[j] /\ zouts[j] = outs[j] THEN outs[j] ELSE <<"none", 0>>]),
        Strict([i \in DOMAIN ins |-> <<ins[i], group(scales[1], i), group(IF qzeros = Undef THEN scales[1] ELSE qzeros[1], i)>>])>>

\* The weight a rank computes with, once all parameters are there.
QWeight(m, q, d, rank, ws) ==
  LET p == [param \in DOMAIN q.shard \ {"bias"} |-> QLoad(m, q, d, param, rank, ws)]
  IN  IF \E param \in DOMAIN p : p[param] \in {Undef, Aborted} THEN Aborted
      ELSE Dequantize(m, q, d, p["qweight"], p["scales"], IF "qzeros" \in DOMAIN p THEN p["qzeros"] ELSE Undef)

---------------------------------------------------------------------------
(* create_column_parallel_linear and create_row_parallel_linear.           *)

ColumnWeight(m, d) ==
  Everywhere(m, LAMBDA r, ws : IF m.quant = "" THEN ColumnLoad(m, d, "weight", r, ws) ELSE QWeight(m, ColumnClass(m), d, r, ws))

ColumnBias(m, d) ==
  Everywhere(m, LAMBDA r, ws : IF ~d.bias THEN Undef ELSE IF m.quant = "" THEN ColumnLoad(m, d, "bias", r, ws)
                               ELSE QLoad(m, ColumnClass(m), d, "bias", r, ws))

RowWeight(m, d) ==
  Everywhere(m, LAMBDA r, ws : IF m.quant = "" THEN RowLoad(m, d, "weight", r, ws) ELSE QWeight(m, RowClass(m), d, r, ws))

RowBias(m, d) ==
  Everywhere(m, LAMBDA r, ws : IF ~d.bias THEN Undef ELSE IF m.quant = "" THEN RowLoad(m, d, "bias", r, ws)
                               ELSE QLoad(m, RowClass(m), d, "bias", r, ws))

\* ColumnParallelLinear without gather_output, and RowParallelLinear.
ColumnParallel(m, d, x) == Linear(Tag(m, d.names[1]), Total(d.outs), x, ColumnWeight(m, d), ColumnBias(m, d))

RowParallel(m, d, x) == ReduceLinear(m, Tag(m, d.names[1]), d.outs[1], x, RowWeight(m, d), RowBias(m, d))

\* lm_head is not quantized, and gathers its output.
LmHead(m, name, bias, x) == Gather(m, ColumnParallel([m EXCEPT !.quant = "", !.desc_act = FALSE], Column(name, m.vocab, m.hidden, bias), x))

CanBeFused(m) == m.quant = "" \/ ~m.desc_act

\* FusedColumnParallelLinearImpl: one layer and a split of its output, or a
\* layer for each tensor (which drops the transform of its state dict).
FusedColumnParallel(m, d, x) ==
  LET sizes(ws) == Strict([j \in DOMAIN d.outs |-> OutFeatures(m, d, ws)[j] \div ws])
      single(i) == [d EXCEPT !.names = <<@[i]>>, !.outs = <<@[i]>>, !.kv = IF i \in @ THEN {1} ELSE {}, !.pre = ""]
  IN  IF CanBeFused(m) THEN Split(ColumnParallel(m, d, x), sizes(1), sizes(m.ws))
      ELSE Strict([i \in DOMAIN d.names |-> ColumnParallel(m, single(i), x)])

=============================================================================

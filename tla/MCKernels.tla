------------------------------ MODULE MCKernels -----------------------------
(***************************************************************************)
(* Four kernels side by side: the grid of blocks of Marlin on a number of  *)
(* products, one block of MarlinPipe on the stripes such products are cut  *)
(* into, one block of MarlinRepack, and one block of Attention.  A         *)
(* behaviour is one of them, as part says.                                 *)
(***************************************************************************)
EXTENDS Marlin, MarlinPipe, MarlinRepack, Attention

VARIABLE part

vars == <<gridVars, pipeVars, repackVars, attnVars, part>>

\* The shared memory of a block on compute capability 8.6 and 8.9.
Product(kind, m, n, k, groups, bits, sms) ==
  [kind |-> kind, m |-> m, n |-> n, k |-> k, groups |-> groups, act_order |-> FALSE, k_full |-> TRUE,
   bits |-> bits, fp32 |-> kind = "gptq", sms |-> sms, smem |-> 101376]

\* Decoding and prompt batches, with and without groups; a group that spans
\* two tiles; two problems side by side and a padded rest; more blocks than
\* tiles; reordered rows.
MCProducts ==
  LET decode   == {Product(kind, 1, 512, 384, g, 4, s) : kind \in {"gptq", "int4"}, g \in {1, 3}, s \in {3, 4}}
      prompt   == {Product("gptq", m, 512, 384, g, bits, 4) : m \in {17, 80}, g \in {3, 12}, bits \in {4, 8}}
      parallel == {Product(kind, m, 256, 256, 1, 8, 3) : kind \in {"gptq", "fp8"}, m \in {120, 150}}
      ordered  == {[Product("gptq", 33, 256, 256, 4, 4, s) EXCEPT !.act_order = TRUE, !.k_full = full] :
                     full \in BOOLEAN, s \in {2, 5}}
      half     == {[Product("gptq", 130, 512, 128, 2, 4, 4) EXCEPT !.fp32 = FALSE]}
  IN  decode \cup prompt \cup parallel \cup ordered \cup half

\* Stripes that end in the middle of a column and go on in the next one.
MCSlices == {<<[n |-> a, last |-> FALSE], [n |-> b, last |-> TRUE]>> : a \in 1..3, b \in 1..6}

\* One column of six tiles, and no product.
MCColumn == {<<[n |-> 6, last |-> TRUE]>>}

NoProducts == {}

GridAtRest ==
  /\ p = None /\ host = [i |-> 0, ptr |-> 0, returned |-> FALSE] /\ kern = None
  /\ st = <<>> /\ locks = <<>> /\ C_tmp = <<>> /\ C = <<>>

PipeAtRest ==
  /\ slices = <<>> /\ tiles = 0 /\ warp = [w \in Warps |-> [pc |-> "exit", slice |-> 1, t |-> 0, groups |-> <<>>]]
  /\ sh_a = <<>> /\ sh_b = <<>> /\ sh_s = <<>> /\ red = [part |-> {}, sum |-> {}]
  /\ frag = <<>> /\ acc = [w \in Warps |-> {}] /\ out = {}

\* Decoding, prompts and chunks of them; heads alone, in pairs and in threes,
\* which do not divide a tile; windows of one key, of four, and none.
MCProblems ==
  {q \in {[q_len |-> q, kv_len |-> kv, group_size |-> g, sliding_window |-> window, alibi |-> g = 2,
           even_k |-> window # 3, table |-> <<6, 0, 8, 2, 4>>] :
            q \in {1, 2, 5, 10}, kv \in {1, 4, 6, 10}, g \in {1, 2, 3}, window \in {-1, 0, 3}} : q.q_len <= q.kv_len}

NoProblems == {}

AttnAtRest ==
  /\ prob = <<>> /\ m_block = 0 /\ thr = [w \in WarpIds |-> [pc |-> "none", n |-> 0, i |-> 0]]
  /\ sQ = <<>> /\ sK = <<>> /\ sV = <<>> /\ tS = <<>> /\ tO = <<>> /\ gO = <<>>

\* Layers of both formats and widths, with a scale per column or two groups,
\* and with rows in the order of their groups; fewer tiles than stages, and more.
Layer(kind, bits, tiles_n, groups, g_idx) ==
  [kind |-> kind, bits |-> bits, k |-> 64, n |-> 64 * tiles_n, groups |-> groups, g_idx |-> g_idx]

MCLayers ==
  {Layer(kind, bits, 2, groups, <<>>) : kind \in {"gptq", "awq"}, bits \in {4, 8}, groups \in {1, 2}}
  \cup {Layer("gptq", bits, t, 2, [i \in 1..64 |-> ((i * 5) \div 3) % 2]) : bits \in {4, 8}, t \in {2, 4}}

NoLayers == {}

RepackAtRest ==
  /\ layer = NoTile /\ repacked = <<>> /\ blockIdx = 0 /\ sh_perm = NoTile /\ sh_pipe = <<>>
  /\ rwarp = [w \in RWarps |-> [pc |-> "none", k_tile |-> 0, n_tile |-> 0, groups |-> <<>>]]

Init == \/ part = "grid" /\ GridInit /\ PipeAtRest /\ RepackAtRest /\ AttnAtRest
        \/ part = "pipe" /\ PipeInit /\ GridAtRest /\ RepackAtRest /\ AttnAtRest
        \/ part = "repack" /\ RepackInit /\ GridAtRest /\ PipeAtRest /\ AttnAtRest
        \/ part = "attention" /\ AttnInit /\ GridAtRest /\ PipeAtRest /\ RepackAtRest

Next == \/ part = "grid" /\ GridNext /\ UNCHANGED <<pipeVars, repackVars, attnVars, part>>
        \/ part = "pipe" /\ PipeNext /\ UNCHANGED <<gridVars, repackVars, attnVars, part>>
        \/ part = "repack" /\ RepackNext /\ UNCHANGED <<gridVars, pipeVars, attnVars, part>>
        \/ part = "attention" /\ AttnNext /\ UNCHANGED <<gridVars, pipeVars, repackVars, part>>

\* Every block of a launch is resident on its multiprocessor, and the warps of
\* a block are scheduled: while one of them can go on, one does.
Spec == Init /\ [][Next]_vars /\ WF_vars(Next)

\* No block waits for ever for its turn on a column's lock, and no warp at a
\* barrier: the kernels end and marlin_mm's work is done.
KernelsEnd == <>CASE part = "grid" -> host.returned
                  [] part = "pipe" -> \A w \in Warps : warp[w].pc = "exit"
                  [] part = "repack" -> RepackDone
                  [] part = "attention" -> \A w \in WarpIds : thr[w].pc = "done"

=============================================================================

----------------------------- MODULE Attention -----------------------------
(***************************************************************************)
(* mha_kernel_sm80, the attention over a paged kv cache: one thread block  *)
(* for the queries of some rows of a sequence and one kv head.  The heads  *)
(* of a group share the keys and are packed into the rows.  The block goes *)
(* through the keys and values from the last tile down; its warps copy a   *)
(* tile into shared memory together and meet only at __syncthreads.        *)
(*                                                                         *)
(* Shared memory holds the index of a key or value, Zero, or Garbage where *)
(* nothing was written, or where a copy was issued but not waited for.  A  *)
(* score is an integer exponent; what a row has summed is, for every index *)
(* in the sum, the exponent of its weight.                                 *)
(***************************************************************************)
EXTENDS Integers, Sequences, FiniteSetsExt, Functions

CONSTANTS
  Problems,   \* [q_len, kv_len, group_size, sliding_window, alibi, even_k, table]
  Blk,        \* kBlockM and kBlockN, equal in every instantiation
  BlockSize,  \* slots of a block of the kv cache
  AttnGarbage \* the contents of memory nothing may depend on

ASSUME AttentionAssumption ==
  /\ Blk \in {2, 4} /\ BlockSize \in Nat \ {0}
  /\ \A q \in Problems : q.group_size \in Nat \ {0} /\ q.q_len \in 1..q.kv_len /\ Len(q.table) * BlockSize >= q.kv_len

VARIABLES
  prob,    \* the problem
  m_block, \* blockIdx.x
  thr,     \* a warp: where it is, n_block_idx, and the iterations of the masking loop so far
  sQ,      \* sQ[r], and sO in the same memory at the end
  sK,      \* sK[n]: a slot of the cache, and what is in the columns beyond head_dim
  sV,
  tS,      \* a row's scores in the current tile: index -> exponent
  tO,      \* a row's row_max, and what it has summed
  gO       \* the output rows in global memory

attnVars == <<prob, m_block, thr, sQ, sK, sV, tS, tO, gO>>

\* No index of a key, a value or a row.
Zero == -1

\* The least row_max a softmax starts with: below any score.
Lowest == -50

WarpIds == {0, 1}

TileRows == 0..(Blk - 1)

\* The rows a warp copies, and the rows it computes.
CopyRows(w) == {i \in TileRows : i % 2 = w}

MmaRows(w) == {i \in TileRows : i \div (Blk \div 2) = w}

---------------------------------------------------------------------------
(* Coordinates.                                                            *)

q_packed_len(q) == q.q_len * q.group_size

\* idx_to_slot: the table holds the first slot of each block.
idx_to_slot(q, idx) == q.table[idx \div BlockSize + 1] + (idx % BlockSize)

\* launch_mha_kernel's grid, as far as it is not out of bounds.
Grid(q) == {i \in 0..q_packed_len(q) : i * Blk < q_packed_len(q)}

PackedIdx(i) == m_block * Blk + i

\* Mask::apply: the position of the query in row i.
q_idx(i) == PackedIdx(i) \div prob.group_size + prob.kv_len - prob.q_len

Local == prob.sliding_window >= 0

Window == IF Local THEN prob.sliding_window ELSE prob.kv_len

diagonal == (m_block * Blk) \div prob.group_size + prob.kv_len - prob.q_len

n_block_min == IF Local THEN Max({0, diagonal - Window}) \div Blk ELSE 0

n_block_max == (Min({prob.kv_len, diagonal + Blk}) + Blk - 1) \div Blk

\* Q@K.T and the alibi bias of the row's head.
Slope(packed_idx) == packed_idx % prob.group_size

Score(i, kv_idx) == ((PackedIdx(i) + 2 * kv_idx) % 3) + (IF prob.alibi THEN Slope(PackedIdx(i)) * kv_idx ELSE 0)

\* Mask::apply.
out_of_boundary(i, kv_idx, oob_mask) ==
  \/ oob_mask /\ (kv_idx > q_idx(i) \/ kv_idx >= prob.kv_len)
  \/ Local /\ q_idx(i) - kv_idx > Window

---------------------------------------------------------------------------
(* Copies to shared memory.                                                *)

NotWritten == [i \in TileRows |-> [row |-> AttnGarbage, pad |-> IF prob.even_k THEN Zero ELSE AttnGarbage]]

\* safe_copy: what a warp's rows hold when its copy has arrived; rows beyond
\* the bound are filled with zeros or left alone, and so is the head's padding.
Copied(s, w, even_mn, bound, zfill_mn, zfill_k, value) ==
  [i \in TileRows |->
     IF i \notin CopyRows(w) THEN s[i]
     ELSE [row |-> IF even_mn \/ i < bound THEN value[i] ELSE IF zfill_mn THEN Zero ELSE s[i].row,
           pad |-> IF zfill_k THEN Zero ELSE s[i].pad]]

\* The copy is on its way.
Issued(s, w) == [i \in TileRows |-> IF i \in CopyRows(w) THEN [s[i] EXCEPT !.row = AttnGarbage] ELSE s[i]]

Slot(n_block, i) ==
  IF n_block * Blk + i < prob.kv_len THEN idx_to_slot(prob, n_block * Blk + i) ELSE AttnGarbage

InStep(w, pc) == thr[w].pc = pc

GoTo(w, pc) == thr' = [thr EXCEPT ![w].pc = pc]

AttnInit ==
  /\ prob \in Problems /\ m_block \in Grid(prob)
  /\ thr = [w \in WarpIds |-> [pc |-> "prologue", n |-> n_block_max - 1, i |-> 0]]
  /\ sQ = NotWritten /\ sK = NotWritten /\ sV = NotWritten
  /\ tS = [i \in TileRows |-> <<>>] /\ tO = [i \in TileRows |-> [max |-> Lowest, sum |-> <<>>]]
  /\ gO = <<>>

\* produce_query and produce_key of the last tile; with no tile to process the
\* block only writes its zeros.
prologue(w) ==
  /\ InStep(w, "prologue")
  /\ IF n_block_min >= n_block_max THEN GoTo(w, "epilogue") /\ UNCHANGED <<sQ, sK>>
     ELSE GoTo(w, "wait k") /\ sQ' = Issued(sQ, w) /\ sK' = Issued(sK, w)
  /\ UNCHANGED <<prob, m_block, sV, tS, tO, gO>>

\* cp_async_wait<0>: the warp's own copies have arrived.
wait_key(w) ==
  /\ InStep(w, "wait k") /\ GoTo(w, "sync k")
  /\ LET first == thr[w].n = n_block_max - 1
         key   == [i \in TileRows |-> Slot(thr[w].n, i)]
         query == [i \in TileRows |-> PackedIdx(i)]
     IN  /\ sK' = Copied(sK, w, ~first, prob.kv_len - thr[w].n * Blk, FALSE, first, key)
         /\ sQ' = IF first THEN Copied(sQ, w, FALSE, q_packed_len(prob) - m_block * Blk, TRUE, TRUE, query) ELSE sQ
  /\ UNCHANGED <<prob, m_block, sV, tS, tO, gO>>

produce_value(w) ==
  /\ InStep(w, "produce v") /\ GoTo(w, "qk") /\ sV' = Issued(sV, w)
  /\ UNCHANGED <<prob, m_block, sQ, sK, tS, tO, gO>>

wait_value(w) ==
  /\ InStep(w, "wait v") /\ GoTo(w, "sync v")
  /\ LET first == thr[w].i = 0
         val   == [i \in TileRows |-> Slot(thr[w].n, i)]
     IN  sV' = Copied(sV, w, ~first, prob.kv_len - thr[w].n * Blk, first, first, val)
  /\ UNCHANGED <<prob, m_block, sQ, sK, tS, tO, gO>>

produce_key(w) ==
  /\ InStep(w, "produce k") /\ GoTo(w, "sv")
  /\ sK' = IF thr[w].n > n_block_min THEN Issued(sK, w) ELSE sK
  /\ UNCHANGED <<prob, m_block, sQ, sV, tS, tO, gO>>

---------------------------------------------------------------------------
(* The products.                                                           *)

\* Mutant of n_oob_mask: only the last tile is masked.
n_oob_mask_one == 1

\* n_oob_mask: ceil_div(kBlockM, kBlockN) + 1.
n_oob_mask == 2

\* compute_qk and mask: a score is right when the query and the key it was
\* computed from are, and so is the padding of both.
RowScores(i, n, oob_mask) ==
  LET kept == {j \in TileRows : ~out_of_boundary(i, n * Blk + j, oob_mask)}
      right(j) == /\ sQ[i] = [row |-> PackedIdx(i), pad |-> Zero]
                  /\ sK[j] = [row |-> Slot(n, j), pad |-> Zero] /\ sK[j].row # AttnGarbage
  IN  [kv \in {n * Blk + j : j \in kept} |-> IF right(kv - n * Blk) THEN Score(i, kv) ELSE AttnGarbage]

\* OnlineSoftmax::rescale with the scores s: the new maximum, and what was
\* summed before in relation to it.
Rescaled(o, s) ==
  LET m == Max({o.max} \cup ({s[kv] : kv \in DOMAIN s} \ {AttnGarbage}))
  IN  [max |-> m, sum |-> [kv \in DOMAIN o.sum |-> IF o.sum[kv] = AttnGarbage THEN AttnGarbage ELSE o.sum[kv] + o.max - m]]

compute_qk(w) ==
  /\ InStep(w, "qk") /\ GoTo(w, "wait v")
  /\ tS' = [i \in TileRows |-> IF i \in MmaRows(w) THEN RowScores(i, thr[w].n, thr[w].i < n_oob_mask) ELSE tS[i]]
  /\ tO' = [i \in TileRows |-> IF i \in MmaRows(w) THEN Rescaled(tO[i], tS'[i]) ELSE tO[i]]
  /\ UNCHANGED <<prob, m_block, sQ, sK, sV, gO>>

\* compute_sv: weights 0 times anything finite are 0; times garbage they are garbage.
RowSum(i, n) ==
  LET s == tS[i]
      spoilt == \E j \in TileRows : AttnGarbage \in {sV[j].row, sV[j].pad}
      new == [kv \in DOMAIN s |-> IF spoilt \/ s[kv] = AttnGarbage \/ sV[kv - n * Blk].row # Slot(n, kv - n * Blk)
                                  THEN AttnGarbage ELSE s[kv] - tO[i].max]
      old == tO[i].sum
  IN  [kv \in DOMAIN new \cup DOMAIN old |->
         IF kv \in DOMAIN new \cap DOMAIN old \/ spoilt THEN AttnGarbage ELSE IF kv \in DOMAIN new THEN new[kv] ELSE old[kv]]

compute_sv(w) ==
  /\ InStep(w, "sv")
  /\ tO' = [i \in TileRows |-> IF i \in MmaRows(w) THEN [tO[i] EXCEPT !.sum = RowSum(i, thr[w].n)] ELSE tO[i]]
  /\ thr' = [thr EXCEPT ![w].n = @ - 1, ![w].i = @ + 1, ![w].pc = IF thr[w].n - 1 < n_block_min THEN "epilogue" ELSE "wait k"]
  /\ UNCHANGED <<prob, m_block, sQ, sK, sV, tS, gO>>

---------------------------------------------------------------------------
(* The end.                                                                *)

\* epilogue: the rows go through sO, which is sQ.
epilogue(w) ==
  /\ InStep(w, "epilogue") /\ GoTo(w, "sync o")
  /\ sQ' = [i \in TileRows |-> IF i \in MmaRows(w) THEN [row |-> <<i, tO[i]>>, pad |-> Zero] ELSE sQ[i]]
  /\ UNCHANGED <<prob, m_block, sK, sV, tS, tO, gO>>

copy_out(w) ==
  /\ InStep(w, "copy o") /\ GoTo(w, "done")
  /\ gO' = [i \in DOMAIN gO \cup {j \in CopyRows(w) : PackedIdx(j) < q_packed_len(prob)} |->
              IF i \in DOMAIN gO THEN gO[i] ELSE sQ[i].row]
  /\ UNCHANGED <<prob, m_block, sQ, sK, sV, tS, tO>>

SyncThreads(pc, next) ==
  /\ \A w \in WarpIds : InStep(w, pc)
  /\ thr' = [w \in WarpIds |-> [thr[w] EXCEPT !.pc = next]]
  /\ UNCHANGED <<prob, m_block, sQ, sK, sV, tS, tO, gO>>

AttnNext ==
  \/ \E w \in WarpIds :
       \/ prologue(w) \/ wait_key(w) \/ produce_value(w) \/ compute_qk(w) \/ wait_value(w) \/ produce_key(w)
       \/ compute_sv(w) \/ epilogue(w) \/ copy_out(w)
  \/ \E s \in {<<"sync k", "produce v">>, <<"sync v", "produce k">>, <<"sync o", "copy o">>} : SyncThreads(s[1], s[2])

\* Every query attends exactly to the keys up to its own position, as far back
\* as the window reaches, each of them once, from its own slot, and with the
\* weight the softmax over all of them gives it, whatever the order in which
\* warps and copies proceed; and no row beyond the query's end is written.
AttendsExactly ==
  (\A w \in WarpIds : InStep(w, "done")) =>
    /\ DOMAIN gO = {i \in TileRows : PackedIdx(i) < q_packed_len(prob)}
    /\ \A i \in DOMAIN gO :
         LET keys == {kv \in 0..q_idx(i) : q_idx(i) - kv <= Window}
             top  == Max({Score(i, kv) : kv \in keys})
         IN  gO[i] = <<i, [max |-> top, sum |-> [kv \in keys |-> Score(i, kv) - top]]>>

=============================================================================

---------------------------- MODULE MarlinLayout ----------------------------
(***************************************************************************)
(* Where a weight, its zero point and its scale are, from the checkpoint   *)
(* through the repacking of a quantised layer to the registers a thread of *)
(* the Marlin kernel multiplies.  A 32-bit word is a function from its     *)
(* fields, low bits first, to what they hold: <<row, column>> of a weight, *)
(* or <<group, column>> of a scale or a zero point.                        *)
(***************************************************************************)
EXTENDS Integers, Sequences

CONSTANT NoTile

VARIABLES
  layer,     \* [kind, bits, k, n, groups, g_idx], g_idx empty without desc_act
  repacked   \* the tile of the checkpoint that a warp repacked into each tile of the layer's weights

\* a[i] of an array.
Elem(a, i) == a[i + 1]

pack_factor(l) == 32 \div l.bits

Fields(l) == 0..(pack_factor(l) - 1)

\* kInterleavingBits and kUndoInterleavingBits.
Interleaving(l) == IF l.bits = 4 THEN <<0, 2, 4, 6, 1, 3, 5, 7>> ELSE <<0, 2, 1, 3>>

UndoInterleaving(l) == IF l.bits = 4 THEN <<0, 4, 1, 5, 2, 6, 3, 7>> ELSE <<0, 2, 1, 3>>

---------------------------------------------------------------------------
(* Checkpoints.  GPTQ packs weights along k; AWQ packs weights and zero    *)
(* points along n, interleaved.                                            *)

GptqWord(l, r, n) == [f \in Fields(l) |-> <<r * pack_factor(l) + f, n>>]

AwqWord(l, row, c) == [f \in Fields(l) |-> <<row, c * pack_factor(l) + Elem(Interleaving(l), f)>>]

---------------------------------------------------------------------------
(* The layer's first forward, repack_weight: what the two repack kernels   *)
(* do to a tile.  MarlinRepack has the kernels themselves.                 *)

\* argsort(g_idx): rows in the order of their groups.
Perm(l) ==
  LET rows == [i \in 1..l.k |-> i - 1]
      of[g \in 0..l.groups] == IF g = 0 THEN <<>>
                               ELSE of[g - 1] \o SelectSeq(rows, LAMBDA r : Elem(l.g_idx, r) = g - 1)
  IN  IF l.g_idx = <<>> THEN <<>> ELSE of[l.groups]

\* The row of the checkpoint that comes k-th.
SourceRow(l, perm, k) == IF perm = <<>> THEN k ELSE Elem(perm, k)

\* A thread's rows and columns of a 16 x 64 tile, in the tensor core's order.
tc_offsets == <<0, 1, 8, 9>>

TileRow(th, v) == (th % 4) * 2 + Elem(tc_offsets, v % 4)

TileColumn(th, warp, v) == warp * 16 + th \div 4 + 8 * (v \div 4)

\* gptq_marlin_repack_kernel, repack_tile: the eight values of a thread.
GptqVals(l, perm, kt, nt, th, warp) ==
  [v \in 0..7 |-> LET src == SourceRow(l, perm, kt * 16 + TileRow(th, v))
                  IN  GptqWord(l, src \div pack_factor(l), nt * 64 + TileColumn(th, warp, v))[src % pack_factor(l)]]

\* Mutant of AwqField: the interleaving is applied, not undone.
AwqFieldAgain(l, n) == Elem(Interleaving(l), n % pack_factor(l))

\* awq_marlin_repack_kernel: where in a word a column is.
AwqField(l, n) == Elem(UndoInterleaving(l), n % pack_factor(l))

\* Its repack_tile; both halves are at the same place of their words.
AwqVals(l, kt, nt, th, warp) ==
  [v \in 0..7 |-> LET cur_n == TileColumn(th, warp, v % 4)
                      word  == (nt * 64 + cur_n) \div pack_factor(l) + (v \div 4) * (8 \div pack_factor(l))
                  IN  AwqWord(l, kt * 16 + TileRow(th, v), word)[AwqField(l, cur_n)]]

\* b_thread_vecs: the words of a thread for each 16 columns.
Words(l) == IF l.bits = 4 THEN 1 ELSE 2

\* The end of repack_tile: pack_idx has the numbers of kInterleaving.
Repacked(l, vals) == [x \in 0..(Words(l) - 1) |-> [i \in Fields(l) |-> vals[4 * x + Elem(Interleaving(l), i)]]]

\* Word i of a tile of the output.
TileWord(l, perm, kt, nt, i) ==
  LET w    == Words(l)
      th   == i \div (4 * w)
      warp == (i % (4 * w)) \div w
      src  == repacked[<<kt, nt, warp % 2>>]
      vals == IF src = NoTile THEN [v \in 0..7 |-> NoTile]
              ELSE IF l.kind = "awq" THEN AwqVals(l, src[1], src[2], th, warp)
              ELSE GptqVals(l, perm, src[1], src[2], th, warp)
  IN  Repacked(l, vals)[i % w]

\* kScalesPerm and, for a single group, kScalesPermSingle.
ScalesPerm == [c \in 0..63 |-> c \div 8 + 8 * (c % 8)]

ScalesPermSingle == [c \in 0..31 |-> 2 * (c \div 8) + Elem(<<0, 1, 8, 9, 16, 17, 24, 25>>, c % 8)]

\* A row of scales, 64 or 32 columns at a time: the column that comes c-th.
MarlinScale(l, c) ==
  IF l.groups = 1 THEN 32 * (c \div 32) + ScalesPermSingle[c % 32] ELSE 64 * (c \div 64) + ScalesPerm[c % 64]

\* Column c of packed words, and the word of packed columns.
unpack_cols(l, words, c) == words[c \div pack_factor(l)][c % pack_factor(l)]

pack_cols(l, columns, word) == [f \in Fields(l) |-> columns[pack_factor(l) * word + f]]

\* The entry of a row that index_select takes to place c, len entries at a time.
Selected(indices, len, c) == len * (c \div len) + Elem(indices, c % len)

\* repack_qzeros: unpack, undo the interleaving ...
OrderedZero(l, g, c) ==
  LET words == [w \in 0..(l.n \div pack_factor(l) - 1) |-> AwqWord(l, g, w)]
  IN  unpack_cols(l, words, Selected(UndoInterleaving(l), pack_factor(l), c))

\* ... permute as scales, interleave, pack.
MarlinZero(l, g, word) ==
  LET permuted(c) == OrderedZero(l, g, 64 * (c \div 64) + ScalesPerm[c % 64])
      columns     == [c \in 0..(l.n - 1) |-> permuted(Selected(Interleaving(l), pack_factor(l), c))]
  IN  pack_cols(l, columns, word)

---------------------------------------------------------------------------
(* The kernel: what thread th of a warp on columns 64 nt.. multiplies for  *)
(* tile kt.  It makes four pairs (j, h) of tensor-core operands, each of   *)
(* two registers r with two halves e.                                      *)

\* fetch_to_registers: the thread's own vectors.
frag_b_quant(l, perm, kt, nt, th) == [z \in 0..(4 * Words(l) - 1) |-> TileWord(l, perm, kt, nt, 4 * Words(l) * th + z)]

\* q >> 8 on 4-bit fields; the fields above are not used.
ShiftRight8(q) == [f \in 0..5 |-> q[f + 2]]

\* matmul: the two words of subtile j.
b_quant(l, frag, j, h) ==
  IF l.bits = 8 THEN frag[2 * j + h] ELSE IF h = 1 THEN ShiftRight8(frag[j]) ELSE frag[j]

\* The masks of dequant pick the fields 16 bits apart; it subtracts the
\* middle of the range unless there are zero points.
dequant4(q) == <<<<q[0], q[4]>>, <<q[1], q[5]>>>>

dequant8(q) == <<<<q[0], q[2]>>, <<q[1], q[3]>>>>

dequant(l, q) == IF l.bits = 4 THEN dequant4(q) ELSE dequant8(q)

dequant_zero(l) == IF l.kind = "awq" THEN 0 ELSE 2^(l.bits - 1)

\* fetch_zp_to_registers and the start of matmul: frag_zp[j], half h.
frag_zp(l, g, nt, th, j, h) ==
  LET ints == 8 \div pack_factor(l)
      at   == ints * (8 * nt + th \div 4)
      q(i) == IF l.bits = 8 THEN MarlinZero(l, g, at + i)
              ELSE IF i = 1 THEN ShiftRight8(MarlinZero(l, g, at)) ELSE MarlinZero(l, g, at)
  IN  dequant(l, q(j \div 2))[1 + (j % 2)][h + 1]

\* fetch_scales_to_registers: the group of a row, and the column of frag_s[j].
RowGroup(l, k) == k \div (l.k \div l.groups)

\* With desc_act, by the sorted g_idx, for each of the thread's rows.
ActGroup(l, perm, kt, th, i) == Elem(l.g_idx, Elem(perm, 16 * kt + 2 * (th % 4) + Elem(tc_offsets, i)))

frag_s(l, nt, th, j, h) == MarlinScale(l, 8 * (8 * nt + th \div 4) + 2 * j + h)

\* scale and scale4.
Scale(l, perm, kt, nt, th, j, h, r, e) ==
  <<IF l.g_idx = <<>> THEN RowGroup(l, 16 * kt) ELSE ActGroup(l, perm, kt, th, 2 * r + e), frag_s(l, nt, th, j, h)>>

Operand(l, perm, kt, nt, th, j, h, r, e) ==
  LET q == b_quant(l, frag_b_quant(l, perm, kt, nt, th), j, h)
  IN  [weight |-> dequant(l, q)[r + 1][e + 1],
       zero   |-> IF l.kind = "awq" THEN frag_zp(l, RowGroup(l, 16 * kt), nt, th, j, h) ELSE dequant_zero(l),
       scale  |-> IF l.groups = 1 THEN <<>> ELSE Scale(l, perm, kt, nt, th, j, h, r, e)]

\* write_result: the column of C that half e of frag_c[.][j][h] goes to, and
\* the scale of a layer with one group it is multiplied with there.
ResultColumn(nt, th, j, h, e) == 2 * (32 * nt + 8 * j + 4 * h + (th % 4)) + e

ColumnScale(l, nt, th, j, h, e) ==
  MarlinScale(l, 8 * (8 * nt + (th % 4) + 4 * (j \div 2)) + 2 * (2 * (j % 2) + h) + e)

---------------------------------------------------------------------------

\* What the tensor core takes as the B operand of register r, half e, in
\* thread th: this row, and this of its eight columns.
MmaRow(th, r, e) == 2 * (th % 4) + e + 8 * r

MmaColumn(th) == th \div 4

\* From checkpoint to product: every operand from tile <<kt, nt>> is the weight
\* of the row of A it is multiplied with and of the column the product is stored
\* in, less that column's zero point, times that column's scale of the row's
\* group; and where one scale serves a column, the result is multiplied with
\* that column's.
TileExact(l, perm, kt, nt) ==
  \A th \in 0..31, j \in 0..3, h \in 0..1, r \in 0..1, e \in 0..1 :
    LET o == Operand(l, perm, kt, nt, th, j, h, r, e)
        k == SourceRow(l, perm, 16 * kt + MmaRow(th, r, e))
        n == 8 * (ResultColumn(nt, 0, j, h, 0) \div 8) + MmaColumn(th)
        g == IF l.g_idx = <<>> THEN k \div (l.k \div l.groups) ELSE Elem(l.g_idx, k)
    IN  /\ o.weight = <<k, n>>
        /\ o.zero = IF l.kind = "awq" THEN <<g, n>> ELSE 2^(l.bits - 1)
        /\ IF l.groups > 1 THEN o.scale = <<g, n>>
           ELSE ColumnScale(l, nt, th, j, h, e) = ResultColumn(nt, th, j, h, e)

=============================================================================

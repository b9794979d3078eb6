------------------------------- MODULE Marlin -------------------------------
(***************************************************************************)
(* The Marlin kernel as the multiprocessors run it: the tiles of B are     *)
(* dealt to the thread blocks in stripes, a stripe may end in the middle   *)
(* of a column, and the blocks that share a column (a slice) add up their  *)
(* partial sums one after the other, in the order a lock per column        *)
(* enforces.  The last of them writes the column to C.                     *)
(*                                                                         *)
(* Values are kept as what they are sums of: a sequence of runs of k       *)
(* tiles, with the rows of A, the place in B and the row of scales each    *)
(* was computed from.  The inside of a block is MarlinPipe.                *)
(***************************************************************************)
EXTENDS MarlinLaunch, FiniteSets

CONSTANTS Products, None

VARIABLES
  p,        \* the product
  host,     \* marlin_mm's loop: i, the A and C pointers (ptr, in 16-row blocks), and whether it returned
  kern,     \* the kernel that runs, None before the first
  st,       \* the thread blocks of it
  locks,    \* the workspace
  C_tmp,    \* the buffer of the full-precision reduction, by problem and column
  C         \* the output, by first 16-row block and column

gridVars == <<p, host, kern, st, locks, C_tmp, C>>

---------------------------------------------------------------------------
(* The kernel's own reading of its arguments.                              *)

\* Mutant of stripe_iters: the stripes are not rounded to whole groups.
stripe_iters_unaligned(k_tiles, n_tiles, parallel, grid, gb, kb) == ceil_div(k_tiles * n_tiles * parallel, grid)

\* Stripes are a multiple of a group, so that none starts inside one.
stripe_iters(k_tiles, n_tiles, parallel, grid, gb, kb) ==
  LET iters == ceil_div(k_tiles * n_tiles * parallel, grid)
  IN  IF gb >= kb THEN (gb \div kb) * ceil_div(iters, gb \div kb) ELSE iters

Kernel(l) ==
  LET x        == exec_config(p)
      kb       == x.cfg.thread_k \div 16
      nb       == x.cfg.thread_n \div 16
      parallel == IF l.rows > 16 * l.m_blocks THEN l.rows \div (16 * l.m_blocks) ELSE 1
      k_tiles  == (p.k \div 16) \div kb
      n_tiles  == (p.n \div 16) \div nb
  IN  [mb |-> l.m_blocks, kb |-> kb, parallel |-> parallel, k_tiles |-> k_tiles, n_tiles |-> n_tiles,
       rows |-> IF l.rows > 16 * l.m_blocks THEN 16 * l.m_blocks ELSE l.rows, first |-> host.ptr,
       iters |-> stripe_iters(k_tiles, n_tiles, parallel, p.sms, group_blocks(p), kb)]

Blocks == 0..(p.sms - 1)

---------------------------------------------------------------------------
(* Slices.                                                                 *)

\* Mutant of SliceIndex: the block that holds the top of the column is not
\* counted when it started in the column before.
SliceIndexFlat(k, b, s) ==
  LET first == k.iters * ceil_div(k.k_tiles * s.col_par, k.iters)
      off   == first - k.k_tiles * s.col_par
      count == ceil_div(k.k_tiles - off, k.iters) + (IF off > 0 THEN 1 ELSE 0)
      delta == k.iters * b - first
  IN  IF first > k.k_tiles * (s.col_par + 1) THEN [count |-> 1, idx |-> 0]
      ELSE [count |-> count, idx |-> IF delta < 0 \/ (off = 0 /\ delta = 0) THEN count - 1
                                     ELSE count - 1 - delta \div k.iters]

\* Which of the blocks of its column this block is, counted bottom to top.
SliceIndex(k, b, s) ==
  LET first == k.iters * ceil_div(k.k_tiles * s.col_par, k.iters)
      off   == first - k.k_tiles * s.col_par
      count == ceil_div(k.k_tiles - off, k.iters) + (IF off > 0 THEN 1 ELSE 0)
      delta == k.iters * b - first
  IN  IF first > k.k_tiles * (s.col_par + 1) THEN [count |-> 1, idx |-> 0]
      ELSE [count |-> count,
            idx   |-> IF delta < 0 \/ (off = 0 /\ delta = 0) THEN count - 1
                      ELSE count - 1 - delta \div k.iters - (IF off > 0 THEN 1 ELSE 0)]

\* Past the last column of a problem the pointers move to the next one.
Wrap(k, s) ==
  IF s.col # k.n_tiles THEN s
  ELSE [s EXCEPT !.a = @ + k.mb, !.c = @ + k.mb, !.lock = @ + k.n_tiles, !.col = 0, !.par_id = @ + 1]

init_slice(k, b, s) ==
  LET left  == k.iters * (b + 1) - (k.k_tiles * s.col_par + s.row)
      iters == IF left < 0 \/ s.col_par >= k.n_tiles * k.parallel THEN 0
               ELSE IF s.row + left > k.k_tiles THEN k.k_tiles - s.row ELSE left
      place == SliceIndex(k, b, s)
  IN  IF iters = 0 THEN [s EXCEPT !.iters = 0, !.pc = "exit"]
      ELSE Wrap(k, [s EXCEPT !.iters = iters, !.count = place.count, !.idx = place.idx, !.pc = "multiply"])

\* The row of scales a tile in row r of B starts with.
ScaleRow(k, r) == IF group_blocks(p) > 0 THEN (k.kb * r) \div group_blocks(p) ELSE 0

\* B is read through one pointer, in tile columns: a row of tiles further is
\* kb rows of blocks further.
BRow(k) == k.kb * k.n_tiles

\* A block's start: its stripe begins at tile iters * b of the column-major order.
Start(k, b) ==
  LET col_par == (k.iters * b) \div k.k_tiles
      row     == (k.iters * b) % k.k_tiles
      par     == col_par \div k.n_tiles
      s       == init_slice(k, b,
                   [pc |-> "exit", row |-> row, col_par |-> col_par, col |-> col_par % k.n_tiles, iters |-> 0,
                    count |-> 0, idx |-> 0, par_id |-> par, a |-> k.first + par * k.mb, c |-> k.first + par * k.mb,
                    lock |-> par * k.n_tiles, b |-> 0, s |-> ScaleRow(k, row), acc |-> <<>>])
  IN  [s EXCEPT !.b = BRow(k) * s.row + s.col]

\* The end of a slice: the next column from its first row, B's pointer moved
\* along from where the slice left it.
NextSlice(k, b, s) ==
  LET n == init_slice(k, b, [s EXCEPT !.row = 0, !.col_par = @ + 1, !.col = @ + 1, !.acc = <<>>])
  IN  [n EXCEPT !.s = 0, !.b = @ + BRow(k) * s.iters + 1 - BRow(k) * k.k_tiles - (IF n.col = 0 THEN k.n_tiles ELSE 0)]

---------------------------------------------------------------------------
(* The host.                                                               *)

GridInit ==
  /\ p \in {q \in Products : Accepted(q)}
  /\ host = [i |-> 0, ptr |-> 0, returned |-> FALSE] /\ kern = None /\ st = <<>>
  /\ locks = [l \in 0..(workspace_size(p) - 1) |-> 0]
  /\ C_tmp = [x \in {} |-> <<>>] /\ C = [x \in {} |-> <<>>]

Idle == kern # None => \A b \in Blocks : st[b].pc = "exit"

\* One round of the loop.  Launches of one stream run one after the other.
marlin_mm ==
  /\ Idle /\ host.i < ceil_div(p.m, 16)
  /\ \E l \in {Launch(p, host.i, exec_config(p).max_m_blocks)} : \E k \in {Kernel(l)} :
       /\ kern' = k /\ st' = [b \in Blocks |-> Start(k, b)]
       /\ host' = [host EXCEPT !.i = l.next, !.ptr = @ + l.m_blocks * l.par]
  /\ UNCHANGED <<p, locks, C_tmp, C>>

Return ==
  /\ Idle /\ host.i >= ceil_div(p.m, 16) /\ ~host.returned
  /\ host' = [host EXCEPT !.returned = TRUE]
  /\ UNCHANGED <<p, kern, st, locks, C_tmp, C>>

\* permute_cols_kernel, launched first where the rows of B were reordered: the
\* rows of A that block b copies with their columns in the same order.
permute_cols_kernel(b) ==
  LET rows == ceil_div(p.m, p.sms) IN {r \in (rows * b)..(rows * b + rows - 1) : r < p.m}

---------------------------------------------------------------------------
(* A thread block.                                                         *)

Move(b, s) == st' = [st EXCEPT ![b] = s]

At(b, pc) == kern # None /\ b \in DOMAIN st /\ st[b].pc = pc

Last(s) == s.idx = s.count - 1

\* Where a product is scaled: with its tile (groups and group indices), before
\* the blocks reduce (8 bits, one scale per column), or at the write-out.
ScaledEarly == group_blocks(p) # -1 \/ p.bits = 8

\* The slice's tiles, multiplied and summed over the warps of the block.
Multiply(b) ==
  /\ At(b, "multiply")
  /\ LET s == st[b]
         run == [a |-> s.a, row |-> s.row, brow |-> (s.b \div kern.n_tiles) \div kern.kb, col |-> s.b % kern.n_tiles,
                 s |-> s.s, n |-> s.iters, scaled |-> IF ScaledEarly THEN 1 ELSE 0]
     IN  Move(b, [s EXCEPT !.acc = <<run>>, !.pc = IF s.count > 1 THEN "acquire" ELSE "write"])
  /\ UNCHANGED <<p, host, kern, locks, C_tmp, C>>

LockOf(s) == s.lock + s.col

\* barrier_acquire: spin until the lock counts up to this block's turn.
barrier_acquire(b) ==
  /\ At(b, "acquire") /\ locks[LockOf(st[b])] = st[b].idx
  /\ Move(b, [st[b] EXCEPT !.pc = IF st[b].idx = 0 THEN "store" ELSE "add"])
  /\ UNCHANGED <<p, host, kern, locks, C_tmp, C>>

\* global_reduce_fp16 or global_reduce_fp32 of a block that is not the first:
\* what the blocks before it left is added to its own.
global_reduce_add(b) ==
  /\ At(b, "add")
  /\ LET s    == st[b]
         left == IF p.fp32 THEN C_tmp[<<s.par_id, s.col>>] ELSE C[<<s.c, s.col>>].sum
     IN  Move(b, [s EXCEPT !.acc = left \o @, !.pc = IF Last(s) THEN "release" ELSE "store"])
  /\ UNCHANGED <<p, host, kern, locks, C_tmp, C>>

Put(f, x, v) == [y \in DOMAIN f \cup {x} |-> IF y = x THEN v ELSE f[y]]

\* Of a block that is not the last: the sum so far is left for the next.
global_reduce_store(b) ==
  /\ At(b, "store")
  /\ LET s == st[b]
     IN  /\ Move(b, [s EXCEPT !.pc = "release"])
         /\ IF p.fp32 THEN C_tmp' = Put(C_tmp, <<s.par_id, s.col>>, s.acc) /\ C' = C
            ELSE C' = Put(C, <<s.c, s.col>>, [sum |-> s.acc, rows |-> kern.rows, times |-> 0]) /\ C_tmp' = C_tmp
  /\ UNCHANGED <<p, host, kern, locks>>

\* Mutant of barrier_release: the last block counts on instead of resetting.
barrier_release_no_reset(b) ==
  /\ At(b, "release")
  /\ LET s == st[b]
     IN  /\ locks' = [locks EXCEPT ![LockOf(s)] = @ + 1]
         /\ Move(b, IF Last(s) THEN [s EXCEPT !.pc = "write"] ELSE NextSlice(kern, b, s))
  /\ UNCHANGED <<p, host, kern, C_tmp, C>>

\* barrier_release: the next block's turn, or the lock reset by the last.
barrier_release(b) ==
  /\ At(b, "release")
  /\ LET s == st[b]
     IN  /\ locks' = [locks EXCEPT ![LockOf(s)] = IF Last(s) THEN 0 ELSE @ + 1]
         /\ Move(b, IF Last(s) THEN [s EXCEPT !.pc = "write"] ELSE NextSlice(kern, b, s))
  /\ UNCHANGED <<p, host, kern, C_tmp, C>>

\* write_result: a scale per column of 4-bit weights is applied here.
write_result(b) ==
  /\ At(b, "write")
  /\ LET s    == st[b]
         x    == <<s.c, s.col>>
         sum  == IF ScaledEarly THEN s.acc ELSE [i \in DOMAIN s.acc |-> [s.acc[i] EXCEPT !.scaled = @ + 1]]
         done == IF x \in DOMAIN C THEN C[x].times ELSE 0
     IN  /\ C' = Put(C, x, [sum |-> sum, rows |-> kern.rows, times |-> done + 1])
         /\ Move(b, NextSlice(kern, b, s))
  /\ UNCHANGED <<p, host, kern, locks, C_tmp>>

BlockStep(b) ==
  \/ Multiply(b) \/ barrier_acquire(b) \/ global_reduce_add(b) \/ global_reduce_store(b)
  \/ barrier_release(b) \/ write_result(b)

GridNext == marlin_mm \/ Return \/ \E b \in Blocks : BlockStep(b)

---------------------------------------------------------------------------
(* What the kernel promises.                                               *)

\* A run of k tiles was computed from the right rows of A, the right columns of
\* B, and each tile with the row of scales of its group, scaled once.
RunRight(x, r) ==
  LET g == group_blocks(p) \div kern.kb
  IN  /\ r.a = x[1] /\ r.col = x[2] /\ r.row = r.brow /\ r.scaled = 1
      /\ g > 0 => \A j \in 0..(r.n - 1) : (r.brow + j) \div g = r.s + j \div g
      /\ (g = 0 /\ group_blocks(p) > 0) => r.s = (r.brow * kern.kb) \div group_blocks(p)

RowsOf(x) == (16 * x[1])..(16 * x[1] + C[x].rows - 1)

\* Every block row and column of C is written once, as the sum over every
\* k tile exactly once, whichever stripes the tiles fell in.  When marlin_mm
\* has returned and its kernels are done, every row of every column of C was
\* written, by one launch, and no row behind the last; and where A is permuted
\* first, every row of it was, once.
OutputExact ==
  /\ \A x \in DOMAIN C :
       /\ C[x].times <= 1
       /\ C[x].times = 1 =>
            /\ \A i \in DOMAIN C[x].sum : RunRight(x, C[x].sum[i])
            /\ \A t \in 0..(kern.k_tiles - 1) :
                 Cardinality({i \in DOMAIN C[x].sum : t - C[x].sum[i].brow \in 0..(C[x].sum[i].n - 1)}) = 1
  /\ host.returned =>
       /\ p.act_order => \A r \in 0..(p.m - 1) : Cardinality({b \in Blocks : r \in permute_cols_kernel(b)}) = 1
       /\ \A x \in DOMAIN C : C[x].times = 1 /\ RowsOf(x) \subseteq 0..(p.m - 1)
       /\ \A r \in 0..(p.m - 1), c \in 0..(kern.n_tiles - 1) :
            Cardinality({x \in DOMAIN C : x[2] = c /\ r \in RowsOf(x)}) = 1

\* The workspace is used again by the next launch and the next layer call, and
\* nothing clears it in between: every lock is 0 again when a kernel is done.
\* And a block only touches locks of the workspace and rows of the reduce
\* buffer the host sized before it knew how the kernel would cut the product.
ScratchKept ==
  /\ Idle => \A l \in DOMAIN locks : locks[l] = 0
  /\ kern # None =>
       \A b \in Blocks : st[b].pc # "exit" =>
         /\ st[b].count > 1 => LockOf(st[b]) \in DOMAIN locks
         /\ p.fp32 => 16 * kern.mb * (st[b].par_id + 1) <= determine_reduce_max_m(p)

=============================================================================

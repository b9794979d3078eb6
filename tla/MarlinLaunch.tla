---------------------------- MODULE MarlinLaunch ----------------------------
(***************************************************************************)
(* The host side of the Marlin matrix products (gptq_gemm, fp8_gemm and    *)
(* fp16_int4_gemm): which thread configuration a product runs with, and    *)
(* into which kernel launches its rows are cut.                            *)
(*                                                                         *)
(* A product is a record: kind ("gptq", "fp8" or "int4"), the sizes m, n   *)
(* and k, the rows of scales (groups), act_order, k_full, bits, fp32 (the  *)
(* global reduction in full precision), the multiprocessors sms and the    *)
(* shared memory of a block in bytes (smem).                               *)
(***************************************************************************)
EXTENDS Integers, Sequences

ceil_div(a, b) == (a + b - 1) \div b

pipe_stages == 4
min_thread_n == 64
min_thread_k == 64
max_par == 16

thread_config(k, n, threads) == [thread_k |-> k, thread_n |-> n, num_threads |-> threads]

small_batch_thread_configs ==
  <<thread_config(128, 128, 256), thread_config(64, 128, 128), thread_config(128, 64, 128)>>

large_batch_thread_configs ==
  <<thread_config(64, 256, 256), thread_config(64, 128, 128), thread_config(128, 64, 128)>>

\* gptq_gemm: the group size, -1 for one scale per column and 0 where only the
\* group indices of the rows tell the groups.
group_size(p) ==
  IF p.act_order /\ ~p.k_full THEN 0
  ELSE IF p.groups > 1 THEN p.k \div p.groups ELSE -1

\* The part of shared memory the scales of a block take.
get_scales_cache_size(c, p) ==
  LET groups == CASE group_size(p) = -1 -> 1
                  [] group_size(p) = 0  -> ceil_div(c.thread_k, 32)
                  [] OTHER              -> ceil_div(c.thread_k, group_size(p))
      chunk == groups * pipe_stages * 2
  IN  IF p.act_order /\ ~p.k_full THEN (IF chunk > 32 THEN chunk ELSE 32) * c.thread_n * 2
      ELSE groups * c.thread_n * 2 * pipe_stages

\* fp8_gemm has one scale per column.
fp8_scales_cache_size(c) == c.thread_n * 2 * pipe_stages

ScalesCache(c, p) == IF p.kind = "fp8" THEN fp8_scales_cache_size(c) ELSE get_scales_cache_size(c, p)

\* The stages of A and B fit: a block never takes more 16-row blocks of A than
\* there are.  0.95f is kept as 19/20.
is_valid_cache_size(c, max_m_blocks, p) ==
  LET blocks == IF ceil_div(p.m, 16) < max_m_blocks THEN ceil_div(p.m, 16) ELSE max_m_blocks
      a_size == 16 * blocks * c.thread_k * 2
      b_size == ((c.thread_k * c.thread_n) \div (32 \div p.bits)) * 4
  IN  20 * (a_size + b_size) * pipe_stages < 19 * (p.smem - ScalesCache(c, p))

is_valid_config(c, max_m_blocks, p) ==
  /\ p.k % c.thread_k = 0 /\ p.n % c.thread_n = 0
  /\ c.thread_n >= min_thread_n /\ c.thread_k >= min_thread_k /\ c.num_threads >= 128
  /\ is_valid_cache_size(c, max_m_blocks, p)

\* The first valid configuration, with as many row blocks per launch as fit.
determine_thread_config(p) ==
  LET configs == IF p.m <= 16 THEN small_batch_thread_configs ELSE large_batch_thread_configs
      tries   == [i \in 1..12 |-> [max_m_blocks |-> 4 - (i - 1) \div 3, cfg |-> configs[((i - 1) % 3) + 1]]]
      valid   == SelectSeq(tries, LAMBDA t : is_valid_config(t.cfg, t.max_m_blocks, p))
  IN  IF valid = <<>> THEN [max_m_blocks |-> 0, cfg |-> thread_config(-1, -1, -1)] ELSE Head(valid)

\* marlin_dense takes its two configurations without a look at shared memory.
dense_thread_config(p) ==
  [max_m_blocks |-> 4, cfg |-> IF p.m <= 16 THEN thread_config(128, 128, 256) ELSE thread_config(64, 256, 256)]

exec_config(p) == IF p.kind = "int4" THEN dense_thread_config(p) ELSE determine_thread_config(p)

\* The rows of the buffer the blocks reduce in.
determine_reduce_max_m(p) ==
  LET par == IF ceil_div(p.m, 64) < max_par THEN ceil_div(p.m, 64) ELSE max_par
  IN  IF p.m <= 64 THEN 16 * ceil_div(p.m, 16) ELSE 64 * par

\* The ints of the workspace gptq_gemm and fp8_gemm ask for, and the ones
\* fp16_int4_gemm does.
gptq_workspace(p) == (p.n \div min_thread_n) * max_par
int4_workspace(p) == (p.n \div 128) * max_par
workspace_size(p) == IF p.kind = "int4" THEN int4_workspace(p) ELSE gptq_workspace(p)

\* The 16-row blocks of B that share a scale: marlin_mm's group_blocks.
group_blocks(p) ==
  IF p.kind = "fp8" \/ group_size(p) = -1 THEN -1
  ELSE IF p.act_order /\ ~p.k_full THEN 0 ELSE group_size(p) \div 16

---------------------------------------------------------------------------
(* What each entry point checks before it launches anything.               *)

gptq_gemm(p) ==
  /\ p.bits \in {4, 8} /\ p.n % min_thread_n = 0
  /\ (p.act_order /\ p.k_full) => p.groups > 1
  /\ (p.groups > 1 /\ (p.act_order => p.k_full)) => p.k % p.groups = 0
  /\ group_blocks(p) \in {-1, 0, 2, 4, 8}

fp8_gemm(p) == p.groups = 1 /\ p.bits = 8 /\ ~p.act_order /\ ~p.fp32 /\ p.n % min_thread_n = 0

\* The kernels CALL_IF names exist for groups of 8 blocks and for none.
fp16_int4_gemm(p) ==
  /\ p.bits = 4 /\ ~p.act_order /\ ~p.fp32
  /\ p.groups > 1 => p.k % p.groups = 0
  /\ p.n % dense_thread_config(p).cfg.thread_n = 0 /\ p.k % dense_thread_config(p).cfg.thread_k = 0
  /\ group_blocks(p) \in {-1, 8}

Accepted(p) ==
  /\ p.m > 0 /\ p.n > 0 /\ p.k > 0 /\ exec_config(p).max_m_blocks > 0
  /\ CASE p.kind = "gptq" -> gptq_gemm(p) [] p.kind = "fp8" -> fp8_gemm(p) [] OTHER -> fp16_int4_gemm(p)

---------------------------------------------------------------------------
(* The main loop: i is the first 16-row block of the next launch.          *)

\* The rows left are one launch, or as many full row groups side by side as
\* there are.  Only the last launch may have a padded block.
Launch(p, i, max_m_blocks) ==
  LET blocks == ceil_div(p.m, 16)
      pad    == 16 * blocks - p.m
      left   == blocks - i
      most   == (16 * left - pad) \div (16 * max_m_blocks)
      par    == IF most > max_par THEN max_par ELSE most
  IN  IF left > max_m_blocks
      THEN [m_blocks |-> max_m_blocks, par |-> par, rows |-> 16 * max_m_blocks * par, next |-> i + max_m_blocks * par]
      ELSE [m_blocks |-> left, par |-> 1, rows |-> p.m - 16 * i, next |-> i + max_m_blocks]

=============================================================================

---------------------------- MODULE MarlinRepack ----------------------------
(***************************************************************************)
(* gptq_marlin_repack_kernel and awq_marlin_repack_kernel: a block takes   *)
(* its share of the rows of 16 x 64 tiles, and for each row runs a ring of *)
(* stages in shared memory: asynchronous copies of the tiles ahead, and    *)
(* the repacking of the current one.  Its warps meet at __syncthreads.     *)
(*                                                                         *)
(* A stage holds the tile a warp copied a part of, or NoTile while a copy  *)
(* is on its way.                                                          *)
(***************************************************************************)
EXTENDS MarlinLayout, FiniteSets

CONSTANTS
  Layers,        \* the layers repacked
  RepackGrid,    \* gridDim.x: a block for each multiprocessor
  RepackStages   \* repack_stages

ASSUME RepackAssumption == RepackStages >= 2 /\ RepackGrid >= 1

VARIABLES
  blockIdx,
  rwarp,         \* a warp: [pc, k_tile, n_tile, groups], groups the copies it has not waited for
  sh_perm,       \* the rows of perm in shared memory, by their tile
  sh_pipe        \* sh_pipe[stage][w]

repackVars == <<layer, repacked, blockIdx, rwarp, sh_perm, sh_pipe>>

\* The four warps that repack a tile, in pairs.  The first copies in every
\* kernel; the second, as the rest of the block, only where rows are permuted.
RWarps == {0, 1}

RStage == 0..(RepackStages - 1)

HasPerm(l) == l.g_idx # <<>>

Copies(w) == w = 0 \/ HasPerm(layer)

k_tiles(l) == l.k \div 16

n_tiles(l) == l.n \div 64

block_k_tiles(l) == (k_tiles(l) + RepackGrid - 1) \div RepackGrid

start_k_tile(l, b) == b * block_k_tiles(l)

finish_k_tile(l, b) ==
  LET end == start_k_tile(l, b) + block_k_tiles(l) IN IF end < k_tiles(l) THEN end ELSE k_tiles(l)

\* The tiles of k a block works through; none if it starts past the last.
KTiles(l, b) == {k \in 0..(k_tiles(l) - 1) : start_k_tile(l, b) <= k /\ k < finish_k_tile(l, b)}

RowStart(l) == IF HasPerm(l) THEN "load_perm" ELSE "start_pipes"

\* What gptq_repack and awq_repack check of a layer.
Repackable(l) == l.bits \in {4, 8} /\ l.k % 16 = 0 /\ l.n % 64 = 0

\* The launch, in one of its blocks.
RepackInit ==
  /\ layer \in {l \in Layers : Repackable(l)} /\ blockIdx \in 0..(RepackGrid - 1)
  /\ repacked = [t \in KTiles(layer, blockIdx) \X (0..(n_tiles(layer) - 1)) \X RWarps |-> NoTile]
  /\ rwarp = [w \in RWarps |-> [pc |-> IF KTiles(layer, blockIdx) = {} THEN "end" ELSE RowStart(layer),
                                k_tile |-> start_k_tile(layer, blockIdx), n_tile |-> 0, groups |-> <<>>]]
  /\ sh_perm = NoTile /\ sh_pipe = [i \in RStage |-> [w \in RWarps |-> NoTile]]

RIs(w, pc) == rwarp[w].pc = pc

\* load_perm_to_shared, before its barrier.
load_perm_to_shared(w) ==
  /\ RIs(w, "load_perm")
  /\ sh_perm' = IF w = 0 THEN rwarp[w].k_tile ELSE sh_perm
  /\ rwarp' = [rwarp EXCEPT ![w].pc = "perm loaded"]
  /\ UNCHANGED <<layer, repacked, blockIdx, sh_pipe>>

\* fetch_to_shared: a group for each tile, empty past the last one.
RIssue(w, tiles, pc) ==
  LET hit == {n % RepackStages : n \in {t \in tiles : t < n_tiles(layer) /\ Copies(w)}}
  IN  /\ sh_pipe' = [i \in RStage |-> IF i \in hit THEN [sh_pipe[i] EXCEPT ![w] = NoTile] ELSE sh_pipe[i]]
      /\ rwarp' = [rwarp EXCEPT ![w].pc = pc,
                                ![w].groups = IF pc = "first wait" THEN [i \in 1..(RepackStages - 1) |-> i - 1]
                                              ELSE @ \o <<rwarp[w].n_tile + RepackStages - 1>>]

start_repack_pipes(w) ==
  /\ RIs(w, "start_pipes") /\ RIssue(w, 0..(RepackStages - 2), "first wait")
  /\ UNCHANGED <<layer, repacked, blockIdx, sh_perm>>

\* The loop's fetch: tile n + stages - 1.
fetch_tile(w) ==
  /\ RIs(w, "fetch") /\ RIssue(w, {rwarp[w].n_tile + RepackStages - 1}, "repack")
  /\ UNCHANGED <<layer, repacked, blockIdx, sh_perm>>

\* What a warp finds in a stage: a tile, if all its parts are of it and, with
\* permuted rows, were copied by the perm that is still there.
Found(stage) ==
  LET parts == {sh_pipe[stage][v] : v \in {u \in RWarps : Copies(u)}}
      tile  == sh_pipe[stage][0]
  IN  IF Cardinality(parts) = 1 /\ tile # NoTile /\ (HasPerm(layer) => sh_perm = tile[1]) THEN tile ELSE NoTile

\* repack_tile; nothing past the last tile.
repack_tile(w) ==
  /\ RIs(w, "repack")
  /\ LET n == rwarp[w].n_tile
     IN  repacked' = IF n >= n_tiles(layer) THEN repacked
                     ELSE [repacked EXCEPT ![<<rwarp[w].k_tile, n, w>>] = Found(n % RepackStages)]
  /\ rwarp' = [rwarp EXCEPT ![w].pc = "wait"]
  /\ UNCHANGED <<layer, blockIdx, sh_perm, sh_pipe>>

\* wait_for_stage: cp_async_wait leaves the newest groups on their way.
RPending == RepackStages - 2

repack_wait(w) ==
  /\ rwarp[w].pc \in {"first wait", "wait"}
  /\ LET g == rwarp[w].groups
         done == Len(g) - RPending
         here == {g[i] : i \in {x \in 1..done : g[x] < n_tiles(layer) /\ Copies(w)}}
     IN  /\ sh_pipe' = [i \in RStage |->
                          IF \E n \in here : n % RepackStages = i
                          THEN [sh_pipe[i] EXCEPT ![w] = <<rwarp[w].k_tile, CHOOSE n \in here : n % RepackStages = i>>]
                          ELSE sh_pipe[i]]
         /\ rwarp' = [rwarp EXCEPT ![w].groups = SubSeq(g, done + 1, Len(g)),
                                   ![w].pc = IF @ = "wait" THEN "sync" ELSE "first sync"]
  /\ UNCHANGED <<layer, repacked, blockIdx, sh_perm>>

\* After __syncthreads: the next pipe of the loop, which goes on to a multiple
\* of the stages past the last tile; the next row of tiles; or the end.
RAfter(w) ==
  LET r    == rwarp[w]
      next == r.n_tile + 1
  IN  CASE r.pc = "perm loaded" -> [r EXCEPT !.pc = "start_pipes"]
        [] r.pc = "first sync"  -> [r EXCEPT !.pc = "fetch"]
        [] r.pc = "sync" -> IF next % RepackStages # 0 \/ next < n_tiles(layer)
                            THEN [r EXCEPT !.pc = "fetch", !.n_tile = next]
                            ELSE IF r.k_tile + 1 < finish_k_tile(layer, blockIdx)
                            THEN [pc |-> RowStart(layer), k_tile |-> r.k_tile + 1, n_tile |-> 0, groups |-> <<>>]
                            ELSE [r EXCEPT !.pc = "end", !.groups = <<>>]

RSync(pc) ==
  /\ \A w \in RWarps : RIs(w, pc)
  /\ rwarp' = [w \in RWarps |-> RAfter(w)]
  /\ UNCHANGED <<layer, repacked, blockIdx, sh_perm, sh_pipe>>

RepackNext ==
  \/ \E w \in RWarps : \/ load_perm_to_shared(w) \/ start_repack_pipes(w) \/ fetch_tile(w)
                        \/ repack_tile(w) \/ repack_wait(w)
  \/ \E pc \in {"perm loaded", "first sync", "sync"} : RSync(pc)

RepackDone == \A w \in RWarps : RIs(w, "end")

---------------------------------------------------------------------------

\* Repacked by whichever block and in whatever order its warps run, the weights
\* are where the GEMM kernel takes them from, with the zero points and scales
\* that are theirs (TileExact); and each tile is repacked by one block.
OperandsExact ==
  layer # NoTile /\ RepackDone =>
    /\ LET perm == Perm(layer) IN
         \A kt \in KTiles(layer, blockIdx), nt \in 0..(n_tiles(layer) - 1) : TileExact(layer, perm, kt, nt)
    /\ \A kt \in 0..(k_tiles(layer) - 1) : Cardinality({b \in 0..(RepackGrid - 1) : kt \in KTiles(layer, b)}) = 1

=============================================================================

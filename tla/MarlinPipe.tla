----------------------------- MODULE MarlinPipe -----------------------------
(***************************************************************************)
(* Inside one thread block of the Marlin kernel.  Its warps copy tiles of  *)
(* A and B, and the scales of a group, into a ring of stages in shared     *)
(* memory with asynchronous copies; read sub-tiles of a stage into two     *)
(* register buffers; and multiply.  They meet only at __syncthreads, so    *)
(* between two of them one warp may be ahead of another.                   *)
(*                                                                         *)
(* Shared memory holds what is in it: a tile or a group of scales of some  *)
(* slice, or Garbage where a copy over it has been issued but not waited   *)
(* for, so that a read may find anything.  The warps stand for the groups  *)
(* of warps that share a part of k; a tile has two sub-tiles per warp,     *)
(* b_sh_wr_iters in every configuration of the kernel.                     *)
(***************************************************************************)
EXTENDS Integers, Sequences, FiniteSets

CONSTANTS
  Slices,    \* the slices a block may be given: sequences of [n, last]
  GroupTiles,\* the numbers of tiles a group of scales may span; 0 for a scale per column
  Stages,    \* pipe_stages
  Garbage    \* a value no read may use

VARIABLES
  slices,    \* the slices this block works through
  tiles,     \* tiles to a group
  warp,      \* a warp: where it is, its slice, its tile, the copies it has not waited for
  sh_a,      \* sh_a[stage][w]: the part of a tile of A that warp w copied
  sh_b,      \* sh_b[stage][w], read by warp w alone
  sh_s,      \* sh_s[stage]: scales
  red,       \* the same memory after the last tile: what is summed in it
  frag,      \* frag[w][k % 2]: a register buffer
  acc,       \* frag_c: the products warp w has summed
  out        \* what the block hands to the reduction over blocks, slice by slice

pipeVars == <<slices, tiles, warp, sh_a, sh_b, sh_s, red, frag, acc, out>>

\* Two groups of warps; the first also copies the scales.
Warps == {0, 1}

Stage == 0..(Stages - 1)

NoOperands == [a |-> Garbage, b |-> Garbage, s |-> Garbage]

PipeInit ==
  /\ slices \in Slices /\ tiles \in GroupTiles
  /\ warp = [w \in Warps |-> [pc |-> "start_pipes", slice |-> 1, t |-> 0, groups |-> <<>>]]
  /\ sh_a = [i \in Stage |-> [w \in Warps |-> Garbage]] /\ sh_b = sh_a /\ sh_s = [i \in Stage |-> Garbage]
  /\ red = [part |-> {}, sum |-> {}]
  /\ frag = [w \in Warps |-> [i \in 0..1 |-> NoOperands]] /\ acc = [w \in Warps |-> {}] /\ out = {}

Is(w, pc) == warp[w].pc = pc

Tiles(w) == slices[warp[w].slice].n

Go(w, pc) == warp' = [warp EXCEPT ![w].pc = pc]

---------------------------------------------------------------------------
(* Copies to shared memory.                                                *)

\* Tile t goes to stage t % Stages; a new row of scales goes with the first
\* tile of a group, to the stage of that tile.
NewGroup(stage) == tiles > 0 /\ stage % tiles = 0

Tile(w, t) == <<warp[w].slice, t>>

Group(w, t) == IF tiles > 0 THEN <<warp[w].slice, t \div tiles>> ELSE <<>>

\* Mutant of InSlice: one tile too few is fetched.
InSliceShort(w, t) == t < Tiles(w) - 1

\* fetch_to_shared's pred: i < slice_iters at the start, and
\* slice_iters >= stages in the loop, where tile t + stages - 1 is fetched.
InSlice(w, t) == t < Tiles(w)

\* The copies of tiles T are issued, one committed group per tile, real or
\* not.  Whatever was to be reduced in this memory may be lost from here on.
Issue(w, T, groups) ==
  LET real  == {t \in T : InSlice(w, t)}
      hit   == {t % Stages : t \in real}
      scale == {i \in hit : w = 0 /\ NewGroup(i)}
  IN  /\ sh_a' = [i \in Stage |-> IF i \in hit THEN [sh_a[i] EXCEPT ![w] = Garbage] ELSE sh_a[i]]
      /\ sh_b' = [i \in Stage |-> IF i \in hit THEN [sh_b[i] EXCEPT ![w] = Garbage] ELSE sh_b[i]]
      /\ sh_s' = [i \in Stage |-> IF i \in scale THEN Garbage ELSE sh_s[i]]
      /\ red' = IF hit = {} THEN red ELSE [part |-> {Garbage}, sum |-> {Garbage}]
      /\ warp' = [warp EXCEPT ![w].groups = groups, ![w].pc = IF @ = "start_pipes" THEN "wait first" ELSE "wait"]

\* start_pipes: all stages but one are filled.
start_pipes(w) ==
  /\ Is(w, "start_pipes")
  /\ Issue(w, 0..(Stages - 2), [i \in 1..(Stages - 1) |-> i - 1])
  /\ acc' = [acc EXCEPT ![w] = {}]
  /\ UNCHANGED <<slices, tiles, frag, out>>

\* The loop's fetch, into the stage of the tile before the current one.
fetch_to_shared(w) ==
  /\ Is(w, "fetch")
  /\ LET t == warp[w].t + Stages - 1 IN Issue(w, {t}, Append(warp[w].groups, t))
  /\ UNCHANGED <<slices, tiles, frag, acc, out>>

\* wait_for_stage: cp_async_wait leaves the newest groups on their way.
Pending == Stages - 2

Arrived(w, T) ==
  LET hit == {t \in T : InSlice(w, t)}
      at(i) == {t \in hit : t % Stages = i}
      tile(i) == CHOOSE t \in at(i) : TRUE
  IN  /\ sh_a' = [i \in Stage |-> IF at(i) # {} THEN [sh_a[i] EXCEPT ![w] = Tile(w, tile(i))] ELSE sh_a[i]]
      /\ sh_b' = [i \in Stage |-> IF at(i) # {} THEN [sh_b[i] EXCEPT ![w] = Tile(w, tile(i))] ELSE sh_b[i]]
      /\ sh_s' = [i \in Stage |-> IF at(i) # {} /\ w = 0 /\ NewGroup(i) THEN Group(w, tile(i)) ELSE sh_s[i]]

wait_for_stage(w) ==
  /\ warp[w].pc \in {"wait first", "wait"}
  /\ LET g == warp[w].groups
         done == Len(g) - Pending
     IN  /\ Arrived(w, {g[i] : i \in 1..done})
         /\ warp' = [warp EXCEPT ![w].groups = SubSeq(g, done + 1, Len(g)), ![w].pc = IF @ = "wait" THEN "sync" ELSE "sync first"]
  /\ UNCHANGED <<slices, tiles, red, frag, acc, out>>

---------------------------------------------------------------------------
(* Registers.                                                              *)

\* fetch_to_registers and fetch_scales_to_registers: A is read whole, B only
\* where this warp copied it, scales at the stage of their group's first tile.
Read(w, t) ==
  LET i == t % Stages
      parts == {sh_a[i][v] : v \in Warps}
  IN  [a |-> IF Cardinality(parts) = 1 THEN sh_a[i][w] ELSE Garbage, b |-> sh_b[i][w],
       s |-> IF tiles > 0 THEN sh_s[tiles * (i \div tiles)] ELSE <<>>]

\* matmul: a product of the wrong operands is garbage.
Multiplied(w, f, t, k) == IF f = [a |-> Tile(w, t), b |-> Tile(w, t), s |-> Group(w, t)] THEN <<t, k, w>> ELSE Garbage

\* The first sub-tile of a slice, after start_pipes's wait.
fetch_first(w) ==
  /\ Is(w, "first") /\ frag' = [frag EXCEPT ![w][0] = Read(w, 0)] /\ Go(w, "loop")
  /\ UNCHANGED <<slices, tiles, sh_a, sh_b, sh_s, red, acc, out>>

\* k = 0: the tile's second sub-tile is read before the next fetch is issued.
fetch_second(w) ==
  /\ Is(w, "loop") /\ frag' = [frag EXCEPT ![w][1] = Read(w, warp[w].t)] /\ Go(w, "fetch")
  /\ UNCHANGED <<slices, tiles, sh_a, sh_b, sh_s, red, acc, out>>

\* After the barrier: multiply the first, read the next tile's first, multiply the second.
matmul(w) ==
  /\ Is(w, "matmul")
  /\ LET t == warp[w].t
     IN  /\ acc' = [acc EXCEPT ![w] = @ \cup {Multiplied(w, frag[w][0], t, 0), Multiplied(w, frag[w][1], t, 1)}]
         /\ frag' = [frag EXCEPT ![w][0] = Read(w, t + 1)]
         /\ warp' = [warp EXCEPT ![w].t = t + 1, ![w].pc = IF t + 1 = Tiles(w) THEN "reduce" ELSE "loop"]
  /\ UNCHANGED <<slices, tiles, sh_a, sh_b, sh_s, red, out>>

---------------------------------------------------------------------------
(* The end of a slice.                                                     *)

\* thread_block_reduce: the upper warps put their sums where the stages were.
reduce_put(w) ==
  /\ Is(w, "reduce") /\ Go(w, "reduced")
  /\ IF w = 0 THEN UNCHANGED <<red, sh_a, sh_b>>
     ELSE /\ red' = [part |-> acc[w], sum |-> {}]
          /\ sh_a' = [i \in Stage |-> [v \in Warps |-> Garbage]] /\ sh_b' = sh_a'
  /\ UNCHANGED <<slices, tiles, sh_s, frag, acc, out>>

\* Warp 0 adds them to its own.
reduce_add(w) ==
  /\ Is(w, "add") /\ Go(w, "added")
  /\ acc' = [acc EXCEPT ![w] = IF w = 0 THEN @ \cup red.part ELSE @]
  /\ UNCHANGED <<slices, tiles, sh_a, sh_b, sh_s, red, frag, out>>

\* write_result, before its barrier: warp 0 lays the sum out in shared memory.
write_stage(w) ==
  /\ Is(w, "stage") /\ Go(w, "staged")
  /\ red' = IF w = 0 THEN [part |-> {}, sum |-> acc[0]] ELSE red
  /\ UNCHANGED <<slices, tiles, sh_a, sh_b, sh_s, frag, acc, out>>

Advance(w) ==
  warp' = [warp EXCEPT ![w].slice = @ + 1, ![w].t = 0, ![w].groups = <<>>,
                       ![w].pc = IF warp[w].slice = Len(slices) THEN "exit" ELSE "start_pipes"]

\* write_result, after it: every warp copies its part to C, and goes on.
write_copy(w) ==
  /\ Is(w, "copy") /\ out' = out \cup {[slice |-> warp[w].slice, sum |-> red.sum]} /\ Advance(w)
  /\ UNCHANGED <<slices, tiles, sh_a, sh_b, sh_s, red, frag, acc>>

\* A block that is not the last of its column leaves its sum to the next one,
\* between the barriers of barrier_acquire and barrier_release.
hand_over(w) ==
  /\ Is(w, "hand over") /\ Go(w, "handed over")
  /\ out' = IF w = 0 THEN out \cup {[slice |-> warp[w].slice, sum |-> acc[0]]} ELSE out
  /\ UNCHANGED <<slices, tiles, sh_a, sh_b, sh_s, red, frag, acc>>

go_on(w) ==
  /\ Is(w, "go on") /\ Advance(w)
  /\ UNCHANGED <<slices, tiles, sh_a, sh_b, sh_s, red, frag, acc, out>>

\* __syncthreads: all warps of the block have come to it.
After(w, pc) ==
  CASE pc = "sync first"  -> "first"
    [] pc = "sync"        -> "matmul"
    [] pc = "reduced"     -> "add"
    [] pc = "added"       -> IF slices[warp[w].slice].last THEN "stage" ELSE "hand over"
    [] pc = "staged"      -> "copy"
    [] pc = "handed over" -> "go on"

Sync(pc) ==
  /\ \A w \in Warps : Is(w, pc)
  /\ warp' = [w \in Warps |-> [warp[w] EXCEPT !.pc = After(w, pc)]]
  /\ UNCHANGED <<slices, tiles, sh_a, sh_b, sh_s, red, frag, acc, out>>

WarpStep(w) ==
  \/ start_pipes(w) \/ fetch_to_shared(w) \/ wait_for_stage(w) \/ fetch_first(w) \/ fetch_second(w) \/ matmul(w)
  \/ reduce_put(w) \/ reduce_add(w) \/ write_stage(w) \/ write_copy(w) \/ hand_over(w) \/ go_on(w)

PipeNext ==
  (\E w \in Warps : WarpStep(w))
  \/ \E pc \in {"sync first", "sync", "reduced", "added", "staged", "handed over"} : Sync(pc)

---------------------------------------------------------------------------

\* Whatever the warps' relative speed: every product is of a tile of A, the same
\* tile of B and its own group's scales, none of them overwritten or still on
\* the way when it was read; and what a slice hands on, or writes to C, is the
\* sum of all its products.
SumsExact ==
  /\ \A w \in Warps : Garbage \notin acc[w]
  /\ \A o \in out : o.sum = {<<t, k, w>> : t \in 0..(slices[o.slice].n - 1), k \in 0..1, w \in Warps}

=============================================================================

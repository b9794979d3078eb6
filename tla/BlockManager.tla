---------------------------- MODULE BlockManager ----------------------------
(***************************************************************************)
(* BlockManager and the memory half of Sequence: how sequences obtain,     *)
(* share, cache and give back the blocks of the KV cache.                  *)
(*                                                                         *)
(* The state is one record m, so that a caller can chain operations within *)
(* a step: the prefix cache, blk[s] (Sequence::blocks_), kv[s] and ssm[s]  *)
(* (Sequence::num_kv_cache_tokens_ of the target and the draft engine) and *)
(* in_use (num_blocks_in_use_).  Which blocks are free and how many        *)
(* references each has follow from who holds them, as BlockPoolProofs      *)
(* shows of the allocator; which of the free ids the allocator hands out   *)
(* makes no difference here.                                               *)
(***************************************************************************)
EXTENDS PrefixCache

CONSTANTS Seqs,               \* the sequences
          NumBlocks,          \* Options::num_blocks, the padding block included
          EnablePrefixCache

ASSUME ManagerAssumption == NumBlocks \in Nat \ {0} /\ EnablePrefixCache \in BOOLEAN

\* Block 0 is allocated by the constructor for padding and never given back.
PaddingBlock == 0

BlockIds == 1 .. NumBlocks - 1

InitMem == [cache  |-> EmptyCache,
            blk    |-> [s \in Seqs |-> <<>>],
            kv     |-> [s \in Seqs |-> 0],
            ssm    |-> [s \in Seqs |-> 0],
            in_use |-> 0]

\* The references the cache and the sequences hold on block b.
RefCount(m, b) ==
  Cardinality({x \in Cells(m.cache) : m.cache.node[x[1]].blocks[x[2]] = b})
  + Cardinality({x \in UNION {{s} \X DOMAIN m.blk[s] : s \in Seqs} : m.blk[x[1]][x[2]] = b})

RefCounts(m) == [b \in BlockIds |-> RefCount(m, b)]

HeldBlocks(m) == UNION {Range(m.blk[s]) : s \in Seqs}

CachedBlocks(m) == UNION {Range(m.cache.node[k].blocks) : k \in DOMAIN m.cache.node}

FreeBlocks(m) == BlockIds \ (HeldBlocks(m) \cup CachedBlocks(m))

\* How many blocks of "blocks" have at most n references.
CountRefsUpTo(m, blocks, n) == Cardinality({i \in DOMAIN blocks : RefCount(m, blocks[i]) <= n})

-----------------------------------------------------------------------------
\* Mutant of SharedPosition: an exact match leaves nothing to compute.
SharedPositionFull(shared, num_tokens) == shared * BlockSize

\* The KV position after sharing; when the whole sequence is cached its last
\* token is computed again, so that there is something to sample from.
SharedPosition(shared, num_tokens) ==
  IF shared * BlockSize = num_tokens THEN num_tokens - 1 ELSE shared * BlockSize

\* A block with at most two references (the cache's and the new one) was not in
\* use before.
CountShared(m, blocks) == [m EXCEPT !.in_use = @ + CountRefsUpTo(m, blocks, 2)]

\* Sequence::set_shared_blocks with the outcome w of a match, pos the position
\* that follows from it
SetShared(m, s, w, pos) ==
  IF w.got = <<>> THEN [m EXCEPT !.cache = w.c]
  ELSE CountShared([m EXCEPT !.cache = w.c, !.blk[s] = w.got, !.kv[s] = pos, !.ssm[s] = pos], w.got)

Share(m, s, w, num_tokens) == SetShared(m, s, w, SharedPosition(Len(w.got), num_tokens))

\* allocate_shared_blocks_for
AllocateShared(m, s, tokens, now) ==
  IF EnablePrefixCache THEN Share(m, s, Match(m.cache, tokens, now), Len(tokens)) ELSE m

Missing(m, n) == n - Cardinality(FreeBlocks(m))

\* has_enough_blocks(n) after the eviction e; its last branch, "Potential block
\* leak", is enough evicted and too little free.
Evicted(m, e, n) ==
  [ok |-> e.evicted >= Missing(m, n) /\ Cardinality(FreeBlocks([m EXCEPT !.cache = e.c])) >= n,
   m  |-> [m EXCEPT !.cache = e.c]]

\* has_enough_blocks: evict what is missing.
HasEnoughBlocks(m, n) ==
  IF Missing(m, n) <= 0 THEN [ok |-> TRUE, m |-> m]
  ELSE IF ~EnablePrefixCache THEN [ok |-> FALSE, m |-> m]
  ELSE Evicted(m, Evict(m.cache, Missing(m, n), RefCounts(m)), n)

BlocksFor(num_tokens) == (num_tokens + BlockSize - 1) \div BlockSize

\* BlockAllocator::allocate: n different free blocks
AllocateFree(m, n) == CHOOSE q \in [1 .. n -> FreeBlocks(m)] : IsInjective(q)

\* e is has_enough_blocks's verdict on "more" blocks for s.
AppendBlocks(e, s, more) ==
  IF e.ok THEN [e EXCEPT !.m.blk[s] = @ \o AllocateFree(e.m, more), !.m.in_use = @ + more] ELSE e

\* Blocks until s has n of them.
GrowTo(m, s, n) ==
  IF n <= Len(m.blk[s]) THEN [ok |-> TRUE, m |-> m]
  ELSE AppendBlocks(HasEnoughBlocks(m, n - Len(m.blk[s])), s, n - Len(m.blk[s]))

\* A sequence without blocks starts from what is cached.
EnsureShared(m, s, tokens, now) == IF m.blk[s] = <<>> THEN AllocateShared(m, s, tokens, now) ELSE m

\* allocate_blocks_for: blocks for the first num_tokens positions of s.  What
\* was shared or evicted on the way stays so when the allocation fails.
AllocateBlocksFor(m, s, tokens, num_tokens, now) ==
  GrowTo(EnsureShared(m, s, tokens, now), s, BlocksFor(num_tokens))

\* Sequence::tokens_in_kv_cache: the draft engine's count when it trails the
\* target's by at most one, the target's otherwise (no draft engine ran).
TokensInKV(m, s, tokens) ==
  Take(tokens, IF m.kv[s] - m.ssm[s] <= 1 THEN m.ssm[s] ELSE m.kv[s])

\* Mutant of Uncount: the reference of the cache is forgotten.
UncountExclusive(m, blocks) == [m EXCEPT !.in_use = @ - CountRefsUpTo(m, blocks, 1)]

\* cache_blocks_for; a block with at most two references has the cache's and
\* this sequence's.
Uncount(m, blocks) == [m EXCEPT !.in_use = @ - CountRefsUpTo(m, blocks, 2)]

CacheBlocksFor(m, s, tokens, now) ==
  IF EnablePrefixCache
  THEN Uncount([m EXCEPT !.cache = Insert(m.cache, TokensInKV(m, s, tokens), m.blk[s], now)], m.blk[s])
  ELSE [m EXCEPT !.in_use = @ - Len(m.blk[s])]

\* Mutant of ReleaseBlocksFor: the blocks are dropped before they are cached.
ReleaseUncached(m, s, tokens, now) ==
  [m EXCEPT !.blk[s] = <<>>, !.kv[s] = 0, !.ssm[s] = 0,
            !.in_use = @ - CountRefsUpTo(m, m.blk[s], 1)]

\* release_blocks_for, with Sequence::release_blocks
ReleaseBlocksFor(m, s, tokens, now) ==
  [CacheBlocksFor(m, s, tokens, now) EXCEPT !.blk[s] = <<>>, !.kv[s] = 0, !.ssm[s] = 0]

=============================================================================

------------------------------ MODULE KVMemory ------------------------------
(***************************************************************************)
(* BlockManager at work: sequences that allocate, compute, share, cache    *)
(* and release blocks in any order the scheduler could ask for, and the    *)
(* contents of the KV slots they read and write.  The slot of position p   *)
(* holds the token string up to p it was computed for; that string is all  *)
(* an entry of the KV cache depends on.                                    *)
(***************************************************************************)
EXTENDS BlockManager

CONSTANTS Tokens, Prompts,    \* token ids; the prompts that may arrive
          Budgets,            \* token budgets of one sequence in one step
          MaxTokens,          \* bound: tokens of one sequence
          MaxClock,           \* bound: readings of the clock
          Expands             \* sequences may be cached while they run

\* A sequence's prompt is told from its tokens.
ASSUME PromptsAssumption == \A p, q \in Prompts : p # <<>> /\ (IsPrefix(p, q) => p = q)

ASSUME InputsAssumption == Prompts \subseteq Seq(Tokens) /\ Budgets \subseteq Nat

VARIABLES mem,        \* the block manager's state, see BlockManager
          tok,        \* tok[s]: Sequence::token_ids, <<>> when s is not in use
          reserved,   \* reserved[s]: positions s has blocks for in the coming step, 0 if none
          slot,       \* slot[b][i]: what KV slot i of block b was computed for
          clock       \* absl::Now() in microseconds

vars == <<mem, tok, reserved, slot, clock>>

NoKV == <<>>

TypeOK ==
  /\ \A s \in Seqs : /\ Range(mem.blk[s]) \subseteq BlockIds
                     /\ mem.ssm[s] <= mem.kv[s] /\ mem.kv[s] <= Len(mem.blk[s]) * BlockSize
                     /\ tok[s] # <<>> => mem.kv[s] <= Len(tok[s])
  /\ \A s \in Seqs : tok[s] \in Seq(Tokens) /\ Len(tok[s]) <= MaxTokens
  /\ reserved \in [Seqs -> 0 .. MaxTokens]
  /\ clock \in 0 .. MaxClock

Init ==
  /\ mem = InitMem
  /\ tok = [s \in Seqs |-> <<>>]
  /\ reserved = [s \in Seqs |-> 0]
  /\ slot = [b \in BlockIds |-> [i \in 0 .. BlockSize - 1 |-> NoKV]]
  /\ clock = 0

\* What a freed block holds is never read again: it is forgotten at once.
Scrub(m, sl) ==
  LET free == FreeBlocks(m)
  IN  [b \in BlockIds |-> IF b \in free THEN [i \in 0 .. BlockSize - 1 |-> NoKV] ELSE sl[b]]

\* The slot of position p of sequence s (Sequence::kv_cache_slots).
BlockAt(m, s, p) == m.blk[s][(p \div BlockSize) + 1]

SlotAt(m, sl, s, p) == sl[BlockAt(m, s, p)][p % BlockSize]

PromptOf(s) == CHOOSE p \in Prompts : IsPrefix(p, tok[s])

\* A forward pass writes positions from .. to - 1 of s.
Written(s, from, to) ==
  [b \in BlockIds |-> [i \in 0 .. BlockSize - 1 |->
     LET at == {p \in from .. to - 1 : BlockAt(mem, s, p) = b /\ p % BlockSize = i}
     IN  IF at = {} THEN slot[b][i] ELSE Take(tok[s], (CHOOSE p \in at : TRUE) + 1)]]

-----------------------------------------------------------------------------
\* A request brings a sequence.
Arrive(s) ==
  /\ tok[s] = <<>>
  /\ \E p \in Prompts : tok' = [tok EXCEPT ![s] = p]
  /\ UNCHANGED <<mem, reserved, slot, clock>>

\* ContinuousScheduler::allocate_blocks_for with a budget of q tokens: share
\* what is cached, then ask for blocks for up to q more positions.  On failure
\* the sequence keeps what it has and waits.
Allocate(s, q) ==
  /\ tok[s] # <<>> /\ reserved[s] = 0 /\ mem.kv[s] < Len(tok[s])
  /\ \E m \in {EnsureShared(mem, s, tok[s], clock)} : \E n \in {Min({m.kv[s] + q, Len(tok[s])})} :
       \E r \in {AllocateBlocksFor(m, s, tok[s], n, clock)} :
         /\ mem' = r.m
         /\ reserved' = [reserved EXCEPT ![s] = IF r.ok THEN n ELSE 0]
         /\ slot' = Scrub(r.m, slot)
  /\ UNCHANGED <<tok, clock>>

\* The engine computes the reserved positions; a sequence with its prompt in the
\* KV cache gets a token.
Execute(s) ==
  /\ reserved[s] > 0
  /\ mem' = [mem EXCEPT !.kv[s] = reserved[s]]
  /\ slot' = Written(s, mem.kv[s], reserved[s])
  /\ reserved' = [reserved EXCEPT ![s] = 0]
  /\ IF reserved[s] >= Len(PromptOf(s)) /\ Len(tok[s]) < MaxTokens
     THEN \E t \in Tokens : tok' = [tok EXCEPT ![s] = Append(@, t)]
     ELSE UNCHANGED tok
  /\ UNCHANGED clock

\* The scheduler shares a running sequence's blocks with its siblings.
Cache(s) ==
  /\ Expands /\ reserved[s] = 0 /\ mem.kv[s] > 0
  /\ mem' = CacheBlocksFor(mem, s, tok[s], clock)
  /\ UNCHANGED <<tok, reserved, slot, clock>>

\* The sequence is preempted (keeps its tokens) or over (its slot is reused).
Release(s, over) ==
  /\ tok[s] # <<>> /\ reserved[s] = 0
  /\ over \/ mem.blk[s] # <<>>
  /\ mem' = ReleaseBlocksFor(mem, s, tok[s], clock)
  /\ slot' = Scrub(mem', slot)
  /\ tok' = [tok EXCEPT ![s] = IF over THEN <<>> ELSE @]
  /\ UNCHANGED <<reserved, clock>>

\* Time passes; absl::Now() is assumed not to be set back.
Tick ==
  /\ clock < MaxClock
  /\ clock' = clock + 1
  /\ UNCHANGED <<mem, tok, reserved, slot>>

Next ==
  \/ \E s \in Seqs : Arrive(s)
  \/ \E s \in Seqs : \E q \in Budgets : Allocate(s, q)
  \/ \E s \in Seqs : Execute(s)
  \/ \E s \in Seqs : Cache(s)
  \/ \E s \in Seqs : \E over \in BOOLEAN : Release(s, over)
  \/ Tick

Spec == Init /\ [][Next]_vars

-----------------------------------------------------------------------------
\* Every position a sequence counts as computed (num_kv_cache_tokens_) reads
\* KV entries of that sequence's own token string, however its blocks were
\* shared, rewritten, evicted and handed out again.
SequenceReadsOwnKV ==
  \A s \in Seqs : \A p \in 0 .. mem.kv[s] - 1 :
    SlotAt(mem, slot, s, p) = Take(tok[s], p + 1)

\* match finds the longest cached prefix of any token string (the tree never
\* has two children of a node that begin with the same block of tokens).
MatchIsLongest ==
  LET cached == CachedPrefixes(mem.cache)
  IN  \A str \in Range(tok) \cup cached :
        Len(Match(mem.cache, str, clock).got) * BlockSize
          = Max({0} \cup {Len(p) : p \in {q \in cached : IsPrefix(q, str)}})

\* What evict reports is what the allocator gets back, so the branch "Potential
\* block leak" of has_enough_blocks is never taken; and it falls short of what
\* was asked for only when what is left of the cache is in use or below
\* something in use.
EvictionIsExact ==
  \A n \in 1 .. NumBlocks :
    LET e == Evict(mem.cache, n, RefCounts(mem))
    IN  /\ Cardinality(FreeBlocks([mem EXCEPT !.cache = e.c])) = Cardinality(FreeBlocks(mem)) + e.evicted
        /\ e.evicted < n =>
             \A k \in DOMAIN e.c.node : Children(e.c, k) = {} => Last(e.c.node[k].blocks) \in HeldBlocks(mem)

\* num_blocks_ counts the cached blocks, and the LRU list holds each node once,
\* in ascending order of last access (the CHECK of evict_helper).
LruSorted ==
  /\ Range(mem.cache.lru) = DOMAIN mem.cache.node
  /\ Len(mem.cache.lru) = Cardinality(DOMAIN mem.cache.node)
  /\ mem.cache.num_blocks = Cardinality(Cells(mem.cache))
  /\ \A i, j \in DOMAIN mem.cache.lru :
       i < j => mem.cache.node[mem.cache.lru[i]].time <= mem.cache.node[mem.cache.lru[j]].time

\* The radix tree and its LRU list stay in order through every split, insertion
\* and truncation.
CacheInOrder == MatchIsLongest /\ LruSorted

\* num_blocks_in_use() is "the effective number of blocks in use": the blocks
\* some sequence holds.
InUseExact == mem.in_use = Cardinality(HeldBlocks(mem))

\* Giving back blocks loses no work: right after a release every whole block of
\* the computed tokens is in the prefix cache.
ReleaseKeepsWork ==
  [][\A s \in Seqs : mem.blk[s] # <<>> /\ mem'.blk[s] = <<>> =>
       LET str == TokensInKV(mem, s, tok[s])
       IN  RoundDown(Len(str)) > 0 /\ EnablePrefixCache
             => Take(str, RoundDown(Len(str))) \in CachedPrefixes(mem'.cache)]_vars

\* The radix tree implements a map from token strings to blocks: splitting a
\* node, touching it or truncating a leaf never rebinds a string or drops one
\* that a longer string or a running sequence still needs.
Map == INSTANCE PrefixMap
         WITH map <- Flatten(mem.cache), held <- HeldBlocks(mem)
PrefixMapSpec == Map!Spec

=============================================================================

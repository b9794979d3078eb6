---------------------------- MODULE PrefixCache -----------------------------
(***************************************************************************)
(* The prefix cache: a radix tree from block-aligned token prefixes to the *)
(* blocks that hold their KV entries, with an LRU list of its nodes.  The  *)
(* operations are functions from a cache to a cache, so that the modules   *)
(* that own one (BlockManager, ContinuousScheduler) can chain them within  *)
(* a step, as the code does.                                               *)
(*                                                                         *)
(* A cache is a record: node maps the live node ids to their contents, lru *)
(* lists them from least to most recently used, num_blocks is the counter  *)
(* kept beside them.  Children are the nodes whose parent is the given     *)
(* one.                                                                    *)
(***************************************************************************)
EXTENDS Lists

CONSTANT BlockSize

ASSUME BlockSizeAssumption == BlockSize \in Nat \ {0}

Root == 0

EmptyCache == [node |-> <<>>, lru |-> <<>>, num_blocks |-> 0]

Children(c, n) == {k \in DOMAIN c.node : c.node[k].parent = n}

RoundDown(n) == (n \div BlockSize) * BlockSize

Drop(s, n) == SubSeq(s, n + 1, Len(s))

Take(s, n) == SubSeq(s, 1, n)

\* common_prefix_length rounded down to whole blocks
BlockPrefix(s, t) ==
  LET n == IF Len(s) < Len(t) THEN Len(s) ELSE Len(t)
  IN  RoundDown(Max({i \in 0 .. n : Take(s, i) = Take(t, i)}))

FreshNode(c) == Min((1 .. Cardinality(DOMAIN c.node) + 1) \ DOMAIN c.node)

\* Mutant of Touch: the node keeps its place in the LRU list.
TouchInPlace(c, k, now) == [c EXCEPT !.node[k].time = now]

\* last_access_time = now; move_node_to_lru_back
Touch(c, k, now) ==
  [c EXCEPT !.node[k].time = now, !.lru = Append(Without(c.lru, {k}), k)]

\* Mutant of Split: the new node does not take over the children.
SplitKeepsChildren(c, k, p) ==
  LET f == FreshNode(c)
      rest == [c.node[k] EXCEPT !.parent = k, !.tokens = Drop(@, p), !.blocks = Drop(@, p \div BlockSize)]
      kept == [c.node[k] EXCEPT !.tokens = Take(@, p), !.blocks = Take(@, p \div BlockSize)]
  IN  [c EXCEPT !.node = [c.node EXCEPT ![k] = kept] @@ (f :> rest), !.lru = Append(c.lru, f)]

\* split_node: a new node takes the tokens past p and the children.
Split(c, k, p) ==
  LET f == FreshNode(c)
      rest == [c.node[k] EXCEPT !.parent = k, !.tokens = Drop(@, p), !.blocks = Drop(@, p \div BlockSize)]
      kept == [c.node[k] EXCEPT !.tokens = Take(@, p), !.blocks = Take(@, p \div BlockSize)]
      below == [j \in DOMAIN c.node |->
                  IF j = k THEN kept
                  ELSE IF c.node[j].parent = k THEN [c.node[j] EXCEPT !.parent = f]
                  ELSE c.node[j]]
  IN  [c EXCEPT !.node = below @@ (f :> rest), !.lru = Append(c.lru, f)]

CreateChild(c, n, tokens, blocks, now) ==
  LET f == FreshNode(c)
  IN  [node |-> c.node @@ (f :> [parent |-> n, tokens |-> tokens, blocks |-> blocks, time |-> now]),
       lru |-> Append(c.lru, f),
       num_blocks |-> c.num_blocks + Len(blocks)]

\* The children of node w.at that share at least one block of tokens with what
\* is left to match.
Fitting(w) == {k \in Children(w.c, w.at) : BlockPrefix(w.rest, w.c.node[k].tokens) > 0}

\* Step into child k, of which the first p tokens fit, splitting it when it has
\* more; c is the cache once k is touched.
Enter(w, k, p, c) ==
  [c    |-> IF p < Len(c.node[k].tokens) THEN Split(c, k, p) ELSE c,
   at   |-> k,
   rest |-> Drop(w.rest, p),
   got  |-> w.got \o Take(c.node[k].blocks, p \div BlockSize)]

StepInto(w, k, now) == Enter(w, k, BlockPrefix(w.rest, w.c.node[k].tokens), Touch(w.c, k, now))

\* One turn of the loop of match and insert.  After a partial match no child
\* fits any more, so that match, which leaves the loop there, and insert, which
\* goes on, agree.
Descend(w, now) == IF Fitting(w) = {} THEN w ELSE StepInto(w, CHOOSE k \in Fitting(w) : TRUE, now)

\* Every turn that goes further takes tokens, so that as many turns as there are
\* tokens are enough.
Walk(c, tokens, now) ==
  FoldLeft(LAMBDA w, t : Descend(w, now),
           [c |-> c, at |-> Root, rest |-> tokens, got |-> <<>>], tokens)

\* PrefixCache::match: the new cache (c) and the blocks matched (got).
Match(c, tokens, now) == Walk(c, Take(tokens, RoundDown(Len(tokens))), now)

\* Mutant of InsertRest: the new child gets the leading blocks, not the ones
\* that follow what is already cached.
InsertRestUnshifted(w, blocks, now) ==
  IF w.rest = <<>> THEN w.c
  ELSE CreateChild(w.c, w.at, w.rest, Take(blocks, Len(w.rest) \div BlockSize), now)

\* What the walk did not find becomes a new child, with the blocks that follow
\* the ones found.
InsertRest(w, blocks, now) ==
  IF w.rest = <<>> THEN w.c
  ELSE CreateChild(w.c, w.at, w.rest, Take(Drop(blocks, Len(w.got)), Len(w.rest) \div BlockSize), now)

\* PrefixCache::insert: whole blocks only; tokens already cached keep the
\* block the cache has for them.
Insert(c, tokens, blocks, now) ==
  InsertRest(Walk(c, Take(tokens, Min({Len(tokens) \div BlockSize, Len(blocks)}) * BlockSize), now),
             blocks, now)

\* How many leading blocks of node k are referred to from outside the node.
SharedLead(c, k, refs) ==
  Max({i \in 0 .. Len(c.node[k].blocks) : \A j \in 1 .. i : refs[c.node[k].blocks[j]] > 1})

\* evict_helper visits leaf k, of "size" blocks, and takes the last "take".
CutLeaf(a, k, size, take) ==
  [total |-> a.total + take,
   gone  |-> IF take = size THEN a.gone \cup {k} ELSE a.gone,
   left  |-> [a.left EXCEPT ![k] = size - take]]

\* The cache after a scan: emptied leaves are released, the others truncated.
AfterScan(c, a) ==
  [evicted |-> a.total,
   c |-> [node |-> [k \in DOMAIN c.node \ a.gone |->
                      [c.node[k] EXCEPT !.tokens = Take(@, a.left[k] * BlockSize),
                                        !.blocks = Take(@, a.left[k])]],
          lru |-> Without(c.lru, a.gone),
          num_blocks |-> c.num_blocks - a.total]]

\* evict_helper: one scan of the LRU list, cutting from the tail of each leaf
\* the blocks nobody else refers to.
EvictRound(c, n, refs) ==
  LET size(k) == Len(c.node[k].blocks)
      visit(a, k) ==
        IF a.total >= n \/ Children(c, k) # {} THEN a
        ELSE CutLeaf(a, k, size(k), Min({n - a.total, size(k) - SharedLead(c, k, refs)}))
  IN  AfterScan(c, FoldLeft(visit, [total |-> 0, gone |-> {}, left |-> [k \in DOMAIN c.node |-> size(k)]], c.lru))

\* Mutant of Evict: a single scan, which leaves the parents of emptied leaves.
EvictOneScan(c, n, refs) == EvictRound(c, n, refs)

\* PrefixCache::evict: scans until n blocks are out or a scan finds nothing,
\* after which further scans find nothing either.
Evict(c, n, refs) ==
  LET plus(x, r) == [evicted |-> x.evicted + r.evicted, c |-> r.c]
      again(x, i) == plus(x, EvictRound(x.c, n - x.evicted, refs))
  IN  FoldLeft(again, [evicted |-> 0, c |-> c], [i \in 1 .. n |-> i])

-----------------------------------------------------------------------------
\* Reference view of the tree: the token string a node stands for, and the
\* block recorded for every cached prefix.
PathTokens(c, k) ==
  LET str[j \in DOMAIN c.node] ==
        (IF c.node[j].parent = Root THEN <<>> ELSE str[c.node[j].parent]) \o c.node[j].tokens
  IN  str[k]

\* The cells of the cache: block i of node k.
Cells(c) == UNION {{k} \X DOMAIN c.node[k].blocks : k \in DOMAIN c.node}

\* The prefix whose last BlockSize tokens' KV entries cell <<k, i>> holds.
CellPrefix(c, cell) ==
  LET str == PathTokens(c, cell[1])
      k == c.node[cell[1]]
  IN  Take(str, Len(str) - Len(k.tokens) + cell[2] * BlockSize)

CachedPrefixes(c) == {CellPrefix(c, x) : x \in Cells(c)}

\* The tree as a map from cached prefixes to blocks.
Flatten(c) ==
  LET prefix == [x \in Cells(c) |-> CellPrefix(c, x)]
  IN  [p \in Range(prefix) |->
         LET x == CHOOSE x \in DOMAIN prefix : prefix[x] = p IN c.node[x[1]].blocks[x[2]]]

=============================================================================

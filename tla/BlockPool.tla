----------------------------- MODULE BlockPool ------------------------------
(***************************************************************************)
(* BlockAllocator (a stack of free block ids) and Block (a reference-      *)
(* counted handle on one id).  Every sequence, prefix-cache node and local *)
(* vector of the program owns KV-cache memory through Block objects, so    *)
(* what is true here is what the rest of the memory code relies on.        *)
(***************************************************************************)
EXTENDS Integers, FiniteSets

CONSTANTS TotalBlocks,   \* BlockAllocator::total_blocks
          Handles        \* the Block objects that may exist at one time

\* CHECK_GT(total_blocks, 0) in the constructor; Block objects are finitely many.
ASSUME PoolAssumption == TotalBlocks \in Nat \ {0} /\ IsFiniteSet(Handles)

VARIABLES
  free_blocks,      \* the array of ids; its first num_free_blocks cells are the free list
  num_free_blocks,
  id,               \* id[h]: Block::id_ of object h, NoBlock for a moved-from or dead object
  ref_count         \* ref_count[b]: the counter the handles on b share, 0 when deleted

vars == <<free_blocks, num_free_blocks, id, ref_count>>

NoBlock == -1

BlockIds == 0 .. TotalBlocks - 1

Holders(b) == {h \in Handles : id[h] = b}

\* One reference when b and c are the same block, none otherwise.
OneIf(b, c) == IF b = c THEN 1 ELSE 0

FreeSlots == 0 .. num_free_blocks - 1

TypeOK ==
  /\ free_blocks \in [BlockIds -> BlockIds]
  /\ num_free_blocks \in 0 .. TotalBlocks
  /\ id \in [Handles -> BlockIds \cup {NoBlock}]
  /\ ref_count \in [BlockIds -> Nat]

-----------------------------------------------------------------------------
\* free_blocks_ is filled in decreasing order so that id 0 comes out first.
Init ==
  /\ free_blocks = [i \in BlockIds |-> TotalBlocks - i - 1]
  /\ num_free_blocks = TotalBlocks
  /\ id = [h \in Handles |-> NoBlock]
  /\ ref_count = [b \in BlockIds |-> 0]

\* Mutant of Free: the id overwrites the top of the free list.
FreeOverwrites(b) ==
  /\ num_free_blocks < TotalBlocks
  /\ free_blocks' = [free_blocks EXCEPT ![IF num_free_blocks = 0 THEN 0 ELSE num_free_blocks - 1] = b]
  /\ num_free_blocks' = num_free_blocks + 1

\* BlockAllocator::free, with its CHECK as a guard.
Free(b) ==
  /\ num_free_blocks < TotalBlocks
  /\ free_blocks' = [free_blocks EXCEPT ![num_free_blocks] = b]
  /\ num_free_blocks' = num_free_blocks + 1

\* Mutant of DecRef: every owner, not only the last, returns the id.
DecRefAlwaysFrees(b) ==
  IF b # NoBlock THEN Free(b) ELSE UNCHANGED <<free_blocks, num_free_blocks>>

\* Block::dec_ref_count on an object that refers to b: the last owner returns
\* the id to the allocator.
DecRef(b) ==
  IF b # NoBlock /\ ref_count[b] = 1
  THEN Free(b)
  ELSE UNCHANGED <<free_blocks, num_free_blocks>>

\* The counters once one reference to "old" is dropped and one to "new" taken.
Recount(old, new) ==
  [b \in BlockIds |-> ref_count[b] - OneIf(b, old) + OneIf(b, new)]

\* BlockAllocator::allocate(n) into the n empty objects of "into"; n = 1 is
\* allocate().  The CHECK on the number of free blocks is the guard.
Allocate(n, into) ==
  /\ n <= num_free_blocks
  /\ \A j \in 0 .. n - 1 : id[into[j]] = NoBlock
  /\ \A i, j \in 0 .. n - 1 : into[i] = into[j] => i = j
  /\ num_free_blocks' = num_free_blocks - n
  /\ id' = [h \in Handles |->
              IF \E j \in 0 .. n - 1 : into[j] = h
              THEN free_blocks[num_free_blocks - 1 - (CHOOSE j \in 0 .. n - 1 : into[j] = h)]
              ELSE id[h]]
  /\ ref_count' = [b \in BlockIds |->
                     IF \E j \in 0 .. n - 1 : free_blocks[num_free_blocks - 1 - j] = b
                     THEN 1 ELSE ref_count[b]]
  /\ UNCHANGED free_blocks

\* Copy constructor (h is empty) and copy assignment (h may hold a block).
\* Self-assignment is a no-op; the old reference goes before the new one is
\* taken, which is safe because g keeps its own.
Copy(h, g) ==
  /\ h # g
  /\ DecRef(id[h])
  /\ ref_count' = Recount(id[h], id[g])
  /\ id' = [id EXCEPT ![h] = id[g]]

\* Move constructor and move assignment: g's reference becomes h's.
Move(h, g) ==
  /\ h # g
  /\ DecRef(id[h])
  /\ ref_count' = Recount(id[h], NoBlock)
  /\ id' = [id EXCEPT ![h] = id[g], ![g] = NoBlock]

\* ~Block
Destroy(h) ==
  /\ id[h] # NoBlock
  /\ DecRef(id[h])
  /\ ref_count' = Recount(id[h], NoBlock)
  /\ id' = [id EXCEPT ![h] = NoBlock]

Next ==
  \/ \E n \in 1 .. TotalBlocks : \E into \in [0 .. n - 1 -> Handles] : Allocate(n, into)
  \/ \E h, g \in Handles : Copy(h, g)
  \/ \E h, g \in Handles : Move(h, g)
  \/ \E h \in Handles : Destroy(h)

Spec == Init /\ [][Next]_vars

-----------------------------------------------------------------------------
\* A block's counter is the number of Block objects that refer to it, so it
\* reaches zero exactly when the last of them goes (Block::dec_ref_count).
RefCountExact == \A b \in BlockIds : ref_count[b] = Cardinality(Holders(b))

\* The live part of the free list holds every block nobody refers to, once:
\* no block is lost, listed twice, or free while a Block object refers to it.
FreeListExact ==
  /\ \A i, j \in FreeSlots : free_blocks[i] = free_blocks[j] => i = j
  /\ {free_blocks[i] : i \in FreeSlots} = {b \in BlockIds : Holders(b) = {}}

\* BlockAllocator::free never finds the list already full: CHECK(num_free_blocks_
\* < free_blocks_.size()) holds whenever some block is still referred to.
FreeHasRoom == (\E b \in BlockIds : ref_count[b] > 0) => num_free_blocks < TotalBlocks

\* The handles behave as leases: an id is handed out only while nobody holds
\* it, and passes on only through copies and moves.
Lease == INSTANCE BlockLease
LeaseSpec == Lease!Spec

=============================================================================

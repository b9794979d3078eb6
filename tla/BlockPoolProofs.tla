-------------------------- MODULE BlockPoolProofs ---------------------------
(***************************************************************************)
(* BlockPool for every number of blocks and every finite set of Block      *)
(* objects: the counters and the free list are exact, the allocator's      *)
(* CHECKs hold, and the handles implement BlockLease.                      *)
(***************************************************************************)
EXTENDS BlockPool, FiniteSetTheorems, TLAPS

\* The provers for a leaf that names none, with time for a busy machine.
USE SMTT(60), ZenonT(60), Z3T(60)

\* RefCountExact and FreeListExact need each other: an id may be pushed on the
\* free list only because the counter that reached zero counts every holder.
IInv == TypeOK /\ RefCountExact /\ FreeListExact

\* The objects that refer to b in an arbitrary assignment f of ids to objects.
HoldersIn(f, b) == {h \in Handles : f[h] = b}

-----------------------------------------------------------------------------
\* Rebinding one object changes the number of holders of b by what that
\* object gives up and takes.
LEMMA RebindCount ==
  ASSUME NEW f \in [Handles -> BlockIds \cup {NoBlock}], NEW h \in Handles,
         NEW v \in BlockIds \cup {NoBlock}, NEW b \in BlockIds
  PROVE  Cardinality(HoldersIn([f EXCEPT ![h] = v], b)) =
           Cardinality(HoldersIn(f, b)) - OneIf(f[h], b)
                                        + OneIf(v, b)
<1> DEFINE g == [f EXCEPT ![h] = v]
           F == HoldersIn(f, b)
           G == HoldersIn(g, b)
<1>1. IsFiniteSet(F) /\ Cardinality(F) \in Nat
  BY PoolAssumption, FS_Subset, FS_CardinalityType DEF HoldersIn
<1>2. f[h] = b /\ v = b => G = F
  BY DEF HoldersIn
<1>3. f[h] = b /\ v # b => G = F \ {h} /\ h \in F
  BY DEF HoldersIn
<1>4. f[h] # b /\ v = b => G = F \cup {h} /\ h \notin F
  BY DEF HoldersIn
<1>5. f[h] # b /\ v # b => G = F
  BY DEF HoldersIn
<1> HIDE DEF F, G
<1>6. h \in F => Cardinality(F \ {h}) = Cardinality(F) - 1
  BY <1>1, FS_RemoveElement, Zenon
<1>7. h \notin F => Cardinality(F \cup {h}) = Cardinality(F) + 1
  BY <1>1, FS_AddElement, Zenon
<1> HIDE DEF g
<1>8. Cardinality(G) = Cardinality(F) - OneIf(f[h], b) + OneIf(v, b)
  <2>1. CASE f[h] = b /\ v = b BY <2>1, <1>1, <1>2 DEF OneIf
  <2>2. CASE f[h] = b /\ v # b
    <3>1. Cardinality(G) = Cardinality(F) - 1 BY <2>2, <1>3, <1>6
    <3> QED BY <3>1, <2>2, <1>1 DEF OneIf
  <2>3. CASE f[h] # b /\ v = b
    <3>1. Cardinality(G) = Cardinality(F) + 1 BY <2>3, <1>4, <1>7
    <3> QED BY <3>1, <2>3, <1>1 DEF OneIf
  <2>4. CASE f[h] # b /\ v # b BY <2>4, <1>1, <1>5 DEF OneIf
  <2> QED BY <2>1, <2>2, <2>3, <2>4
<1> QED BY <1>8 DEF F, G, g

\* Counting the holders of b tells whether there are any.
LEMMA CountZero ==
  ASSUME NEW f, NEW b
  PROVE  /\ IsFiniteSet(HoldersIn(f, b))
         /\ Cardinality(HoldersIn(f, b)) \in Nat
         /\ Cardinality(HoldersIn(f, b)) = 0 <=> HoldersIn(f, b) = {}
<1>1. IsFiniteSet(HoldersIn(f, b))
  BY PoolAssumption, FS_Subset DEF HoldersIn
<1> QED BY <1>1, FS_CardinalityType, FS_EmptySet

\* Pigeonhole: a free list of distinct unheld ids is short of the whole pool
\* as soon as one block is held.
LEMMA RoomForHeld ==
  ASSUME IInv, NEW b \in BlockIds, Holders(b) # {}
  PROVE  num_free_blocks < TotalBlocks
<1> DEFINE S == FreeSlots
           T == BlockIds \ {b}
           f == [i \in S |-> free_blocks[i]]
<1>1. S \subseteq BlockIds /\ num_free_blocks \in Nat /\ num_free_blocks <= TotalBlocks
  BY PoolAssumption DEF IInv, TypeOK, FreeSlots, BlockIds
<1>2. \A i \in S : free_blocks[i] \in T
  BY <1>1 DEF IInv, TypeOK, FreeListExact
<1>3. f \in Injection(S, T)
  BY <1>2 DEF IInv, FreeListExact, Injection, IsInjective
<1>4. IsFiniteSet(BlockIds) /\ Cardinality(BlockIds) = TotalBlocks
  BY PoolAssumption, FS_Interval DEF BlockIds
<1>5. IsFiniteSet(T) /\ Cardinality(T) = TotalBlocks - 1
  BY <1>4, FS_RemoveElement
<1>6. Cardinality(S) <= Cardinality(T)
  BY <1>3, <1>5, FS_Injection
<1>7. Cardinality(S) = num_free_blocks
  BY <1>1, PoolAssumption, FS_Interval DEF FreeSlots
<1> QED BY <1>1, <1>5, <1>6, <1>7, PoolAssumption

-----------------------------------------------------------------------------
\* The constructor of BlockAllocator establishes the invariant.
LEMMA InitInv == Init => IInv
<1> SUFFICES ASSUME Init PROVE IInv OBVIOUS
<1>1. TypeOK
  BY PoolAssumption DEF Init, TypeOK, BlockIds, NoBlock
<1>2. \A b \in BlockIds : Holders(b) = {}
  BY DEF Init, Holders, BlockIds, NoBlock
<1>3. RefCountExact
  BY <1>2, FS_EmptySet DEF RefCountExact, Init
<1>4. FreeListExact
  <2>1. FreeSlots = BlockIds
    BY DEF Init, FreeSlots, BlockIds
  <2>2. \A b \in BlockIds : TotalBlocks - b - 1 \in BlockIds /\ free_blocks[TotalBlocks - b - 1] = b
    BY PoolAssumption DEF Init, BlockIds
  <2>3. \A i \in BlockIds : free_blocks[i] \in BlockIds
    BY <1>1 DEF TypeOK
  <2>4. {free_blocks[i] : i \in BlockIds} = BlockIds
    BY <2>2, <2>3
  <2>5. \A i, j \in BlockIds : free_blocks[i] = free_blocks[j] => i = j
    BY PoolAssumption DEF Init, BlockIds
  <2> QED BY <1>2, <2>1, <2>4, <2>5 DEF FreeListExact
<1> QED BY <1>1, <1>3, <1>4 DEF IInv

\* The live part of the free list after one more id is pushed.
LEMMA IntervalSnoc ==
  ASSUME NEW n \in Nat
  PROVE  0 .. (n + 1) - 1 = (0 .. n - 1) \cup {n} /\ n \notin 0 .. n - 1
OBVIOUS

\* Its cells are cells of the array, with room for one more below capacity.
LEMMA IntervalRoom ==
  ASSUME NEW m \in Nat \ {0}, NEW n \in 0 .. m
  PROVE  /\ 0 .. n - 1 \subseteq 0 .. m - 1
         /\ n < m => n \in 0 .. m - 1 /\ n + 1 \in 0 .. m
OBVIOUS

\* One object drops its reference to "old" and takes one to "new", a block
\* somebody else holds (or NoBlock).
Rebind(old, new) ==
  /\ old # NoBlock => ref_count[old] >= 1
  /\ new # NoBlock => ref_count[new] >= 1
  /\ old = new /\ old # NoBlock => ref_count[old] >= 2
  /\ DecRef(old)
  /\ ref_count' = Recount(old, new)

\* Rebinding keeps the invariant, given that the counters stay exact.
LEMMA RebindStep ==
  ASSUME IInv,
         NEW old \in BlockIds \cup {NoBlock}, NEW new \in BlockIds \cup {NoBlock},
         Rebind(old, new),
         id' \in [Handles -> BlockIds \cup {NoBlock}],
         RefCountExact'
  PROVE  IInv'
<1>0. NoBlock \notin BlockIds BY DEF NoBlock, BlockIds
<1>1. /\ free_blocks \in [BlockIds -> BlockIds]
      /\ num_free_blocks \in 0 .. TotalBlocks
      /\ ref_count \in [BlockIds -> Nat]
  BY DEF IInv, TypeOK
<1>2. \A b \in BlockIds : ref_count[b] = Cardinality(Holders(b))
  BY DEF IInv, RefCountExact
<1>3. \A b \in BlockIds : ref_count'[b] =
         ref_count[b] - OneIf(b, old) + OneIf(b, new)
  BY DEF Rebind, Recount
<1>4. ref_count' \in [BlockIds -> Nat]
  <2> SUFFICES ASSUME NEW b \in BlockIds PROVE ref_count'[b] \in Nat
    BY DEF Rebind, Recount
  <2>1. b = old => ref_count[b] >= 1 BY <1>0 DEF Rebind
  <2> QED BY <2>1, <1>1, <1>3 DEF OneIf
<1>6. \A b \in BlockIds : ref_count[b] = 0 <=> Holders(b) = {}
  <2> SUFFICES ASSUME NEW b \in BlockIds PROVE ref_count[b] = 0 <=> Holders(b) = {}
    OBVIOUS
  <2>1. Holders(b) = HoldersIn(id, b) BY DEF Holders, HoldersIn
  <2> QED BY <2>1, <1>2, CountZero
<1>7. \A b \in BlockIds : ref_count'[b] = 0 <=> Holders(b)' = {}
  <2> SUFFICES ASSUME NEW b \in BlockIds PROVE ref_count'[b] = 0 <=> Holders(b)' = {}
    OBVIOUS
  <2>1. Holders(b)' = HoldersIn(id', b) BY DEF Holders, HoldersIn
  <2>2. ref_count'[b] = Cardinality(HoldersIn(id', b)) BY <2>1 DEF RefCountExact
  <2> QED BY <2>1, <2>2, CountZero
<1>8. /\ \A i, j \in FreeSlots : free_blocks[i] = free_blocks[j] => i = j
      /\ {free_blocks[i] : i \in FreeSlots} = {b \in BlockIds : ref_count[b] = 0}
  BY <1>6 DEF IInv, FreeListExact
<1>9. CASE old # NoBlock /\ ref_count[old] = 1
  <2>1. /\ num_free_blocks < TotalBlocks
        /\ free_blocks' = [free_blocks EXCEPT ![num_free_blocks] = old]
        /\ num_free_blocks' = num_free_blocks + 1
    BY <1>9 DEF Rebind, DecRef, Free
  <2>2. free_blocks' \in [BlockIds -> BlockIds] /\ num_free_blocks' \in 0 .. TotalBlocks
    BY <2>1, <1>0, <1>1, <1>9, IntervalRoom, PoolAssumption, Zenon
  <2>3. FreeSlots' = FreeSlots \cup {num_free_blocks} /\ num_free_blocks \notin FreeSlots
    BY <2>1, <1>1, IntervalSnoc DEF FreeSlots
  <2>10. FreeSlots \cup {num_free_blocks} \subseteq BlockIds
    <3>1. num_free_blocks \in BlockIds BY <2>1, <1>1, PoolAssumption DEF BlockIds
    <3>2. FreeSlots \subseteq BlockIds BY <1>1, PoolAssumption, IntervalRoom DEF FreeSlots, BlockIds
    <3> QED BY <3>1, <3>2
  <2>4. free_blocks'[num_free_blocks] = old /\ \A i \in FreeSlots : free_blocks'[i] = free_blocks[i]
    BY <2>1, <2>3, <2>10, <1>1
  <2>5. old \notin {free_blocks[i] : i \in FreeSlots}
    BY <1>8, <1>9
  <2>6. \A i, j \in FreeSlots' : free_blocks'[i] = free_blocks'[j] => i = j
    BY <2>3, <2>4, <2>5, <1>8
  <2>7. {free_blocks'[i] : i \in FreeSlots'} = {free_blocks[i] : i \in FreeSlots} \cup {old}
    BY <2>3, <2>4
  <2>8. \A b \in BlockIds : ref_count'[b] = 0 <=> ref_count[b] = 0 \/ b = old
    <3> SUFFICES ASSUME NEW b \in BlockIds
                 PROVE  ref_count'[b] = 0 <=> ref_count[b] = 0 \/ b = old
      OBVIOUS
    <3>1. new # old /\ (b = new => ref_count[b] >= 1) BY <1>0, <1>9 DEF Rebind
    <3> QED BY <3>1, <1>1, <1>3, <1>9 DEF OneIf
  <2>9. {b \in BlockIds : Holders(b)' = {}} = {b \in BlockIds : ref_count[b] = 0} \cup {old}
    BY <1>7, <2>8, <1>9
  <2> QED BY <1>4, <1>8, <2>2, <2>6, <2>7, <2>9, Zenon DEF IInv, TypeOK, FreeListExact
<1>10. CASE ~(old # NoBlock /\ ref_count[old] = 1)
  <2>1. UNCHANGED <<free_blocks, num_free_blocks>>
    BY <1>10 DEF Rebind, DecRef
  <2>2. \A b \in BlockIds : ref_count'[b] = 0 <=> ref_count[b] = 0
    <3> SUFFICES ASSUME NEW b \in BlockIds PROVE ref_count'[b] = 0 <=> ref_count[b] = 0
      OBVIOUS
    <3>1. b = new => ref_count[b] >= 1 BY <1>0 DEF Rebind
    <3>2. b = old => ref_count[b] >= 1 /\ ref_count[b] # 1 BY <1>0, <1>10 DEF Rebind
    <3> QED BY <3>1, <3>2, <1>1, <1>3 DEF OneIf
  <2>3. {b \in BlockIds : Holders(b)' = {}} = {b \in BlockIds : ref_count[b] = 0}
    BY <1>7, <2>2
  <2>4. FreeSlots' = FreeSlots BY <2>1 DEF FreeSlots
  <2> QED BY <2>4, <1>1, <1>4, <1>8, <2>1, <2>3 DEF IInv, TypeOK, FreeListExact
<1> QED BY <1>9, <1>10

-----------------------------------------------------------------------------
\* What the invariant says of a single object's block.
LEMMA HeldIsCounted ==
  ASSUME IInv, NEW h \in Handles, id[h] # NoBlock
  PROVE  id[h] \in BlockIds /\ ref_count[id[h]] >= 1
<1>1. id[h] \in BlockIds BY DEF IInv, TypeOK
<1>2. ref_count[id[h]] = Cardinality(HoldersIn(id, id[h]))
  BY <1>1 DEF IInv, RefCountExact, Holders, HoldersIn
<1>3. HoldersIn(id, id[h]) # {} BY DEF HoldersIn
<1> QED BY <1>1, <1>2, <1>3, CountZero

\* Counters recomputed for one rebound object are exact again.
LEMMA RecountExact ==
  ASSUME IInv, NEW h \in Handles, NEW v \in BlockIds \cup {NoBlock},
         id' = [id EXCEPT ![h] = v], ref_count' = Recount(id[h], v)
  PROVE  RefCountExact'
<1>1. id \in [Handles -> BlockIds \cup {NoBlock}] BY DEF IInv, TypeOK
<1> SUFFICES ASSUME NEW b \in BlockIds
             PROVE  ref_count'[b] = Cardinality(HoldersIn(id', b))
  BY DEF RefCountExact, Holders, HoldersIn
<1>2. ref_count'[b] = ref_count[b] - OneIf(b, id[h]) + OneIf(b, v)
  BY DEF Recount
<1>3. ref_count[b] = Cardinality(HoldersIn(id, b))
  BY DEF IInv, RefCountExact, Holders, HoldersIn
<1>4. Cardinality(HoldersIn(id', b)) =
        Cardinality(HoldersIn(id, b)) - OneIf(id[h], b) + OneIf(v, b)
  BY <1>1, RebindCount, Zenon
<1>5. OneIf(id[h], b) = OneIf(b, id[h]) /\ OneIf(v, b) = OneIf(b, v)
  BY DEF OneIf
<1> QED BY <1>2, <1>3, <1>4, <1>5

\* Copy constructor and copy assignment.
LEMMA CopyInv ==
  ASSUME IInv, NEW h \in Handles, NEW g \in Handles, Copy(h, g)
  PROVE  IInv'
<1>1. id \in [Handles -> BlockIds \cup {NoBlock}] BY DEF IInv, TypeOK
<1>2. RefCountExact' BY <1>1, RecountExact, Zenon DEF Copy
<1>3. id[h] = id[g] /\ id[h] # NoBlock => ref_count[id[h]] >= 2
  <2> SUFFICES ASSUME id[h] = id[g], id[h] # NoBlock PROVE ref_count[id[h]] >= 2
    OBVIOUS
  <2> DEFINE f == [id EXCEPT ![h] = NoBlock]
             b == id[h]
  <2>1. b \in BlockIds /\ h # g BY HeldIsCounted DEF Copy
  <2>2. Cardinality(HoldersIn(f, b)) =
          Cardinality(HoldersIn(id, b)) - OneIf(id[h], b) + OneIf(NoBlock, b)
    <3>1. b \in BlockIds /\ NoBlock \in BlockIds \cup {NoBlock} BY <2>1
    <3> HIDE DEF b
    <3> QED BY <1>1, <3>1, RebindCount, ZenonT(60)
  <2>3. HoldersIn(f, b) # {} BY <1>1, <2>1 DEF HoldersIn
  <2>4. ref_count[b] = Cardinality(HoldersIn(id, b))
    BY <2>1 DEF IInv, RefCountExact, Holders, HoldersIn
  <2> HIDE DEF f
  <2>5. Cardinality(HoldersIn(f, b)) \in Nat \ {0} /\ Cardinality(HoldersIn(id, b)) \in Nat
    BY <2>3, CountZero
  <2> QED BY <2>2, <2>4, <2>5 DEF OneIf
<1>4. Rebind(id[h], id[g])
  BY <1>3, HeldIsCounted DEF Copy, Rebind
<1>5. id' \in [Handles -> BlockIds \cup {NoBlock}] BY <1>1 DEF Copy
<1> QED BY <1>1, <1>2, <1>4, <1>5, RebindStep

\* Destructor.
LEMMA DestroyInv ==
  ASSUME IInv, NEW h \in Handles, Destroy(h)
  PROVE  IInv'
<1>1. id \in [Handles -> BlockIds \cup {NoBlock}] BY DEF IInv, TypeOK
<1>2. RefCountExact' BY RecountExact, Zenon DEF Destroy
<1>3. Rebind(id[h], NoBlock) BY HeldIsCounted DEF Destroy, Rebind
<1>4. id' \in [Handles -> BlockIds \cup {NoBlock}] BY <1>1 DEF Destroy
<1> QED BY <1>1, <1>2, <1>3, <1>4, RebindStep

\* Move constructor and move assignment: g's reference is not dropped and
\* taken again but changes owner, so the counts of its block do not move.
LEMMA MoveInv ==
  ASSUME IInv, NEW h \in Handles, NEW g \in Handles, Move(h, g)
  PROVE  IInv'
<1> DEFINE f == [id EXCEPT ![h] = id[g]]
           k == [f EXCEPT ![g] = NoBlock]
<1>1. id \in [Handles -> BlockIds \cup {NoBlock}] BY DEF IInv, TypeOK
<1>2. /\ id[g] \in BlockIds \cup {NoBlock} /\ f[g] = id[g] /\ id' = k
      /\ f \in [Handles -> BlockIds \cup {NoBlock}]
  BY <1>1 DEF Move
<1>3. RefCountExact'
  <2> SUFFICES ASSUME NEW b \in BlockIds
               PROVE  ref_count'[b] = Cardinality(HoldersIn(id', b))
    BY DEF RefCountExact, Holders, HoldersIn
  <2>1. ref_count'[b] = ref_count[b] - OneIf(b, id[h]) + OneIf(b, NoBlock)
    BY DEF Move, Recount
  <2>2. ref_count[b] = Cardinality(HoldersIn(id, b))
    BY DEF IInv, RefCountExact, Holders, HoldersIn
  <2>3. Cardinality(HoldersIn(f, b)) =
          Cardinality(HoldersIn(id, b)) - OneIf(id[h], b) + OneIf(id[g], b)
    <3>1. id \in [Handles -> BlockIds \cup {NoBlock}] /\ id[g] \in BlockIds \cup {NoBlock}
      BY <1>1, <1>2
    <3> QED BY <3>1, RebindCount, Zenon
  <2> HIDE DEF f
  <2>4. Cardinality(HoldersIn(k, b)) =
          Cardinality(HoldersIn(f, b)) - OneIf(f[g], b) + OneIf(NoBlock, b)
    <3>1. f \in [Handles -> BlockIds \cup {NoBlock}] /\ NoBlock \in BlockIds \cup {NoBlock}
      BY <1>2
    <3> QED BY <3>1, RebindCount, Zenon
  <2>5. Cardinality(HoldersIn(id, b)) \in Nat /\ Cardinality(HoldersIn(f, b)) \in Nat
    BY CountZero
  <2>6. OneIf(id[h], b) = OneIf(b, id[h]) /\ OneIf(NoBlock, b) = OneIf(b, NoBlock)
    BY DEF OneIf
  <2>7. OneIf(id[g], b) \in Int /\ OneIf(b, id[h]) \in Int /\ OneIf(b, NoBlock) \in Int
    BY DEF OneIf
  <2> HIDE DEF k
  <2> QED BY <2>1, <2>2, <2>3, <2>4, <2>5, <2>6, <2>7, <1>2
<1>4. Rebind(id[h], NoBlock) BY HeldIsCounted DEF Move, Rebind
<1>5. id' \in [Handles -> BlockIds \cup {NoBlock}] BY <1>1 DEF Move
<1> QED BY <1>1, <1>3, <1>4, <1>5, RebindStep

\* BlockAllocator::allocate.  taken(j) is the id the j-th object receives.
LEMMA AllocateInv ==
  ASSUME IInv, NEW n \in 1 .. TotalBlocks, NEW into \in [0 .. n - 1 -> Handles],
         Allocate(n, into)
  PROVE  IInv'
<1> DEFINE J == 0 .. n - 1
           taken(j) == free_blocks[num_free_blocks - 1 - j]
<1>1. /\ free_blocks \in [BlockIds -> BlockIds]
      /\ num_free_blocks \in 0 .. TotalBlocks
      /\ id \in [Handles -> BlockIds \cup {NoBlock}]
      /\ ref_count \in [BlockIds -> Nat]
  BY DEF IInv, TypeOK
<1>2. n <= num_free_blocks /\ num_free_blocks' = num_free_blocks - n /\ free_blocks' = free_blocks
  BY DEF Allocate
<1>3. \A j \in J : num_free_blocks - 1 - j \in FreeSlots
  BY <1>1, <1>2 DEF FreeSlots
<1>4. FreeSlots \subseteq BlockIds
  BY <1>1, PoolAssumption, IntervalRoom DEF FreeSlots, BlockIds
<1>5. \A j \in J : taken(j) \in BlockIds /\ HoldersIn(id, taken(j)) = {}
  BY <1>1, <1>3, <1>4 DEF IInv, FreeListExact, Holders, HoldersIn
<1>6. \A i, j \in J : taken(i) = taken(j) => i = j
  <2> SUFFICES ASSUME NEW i \in J, NEW j \in J, taken(i) = taken(j) PROVE i = j
    OBVIOUS
  <2>1. num_free_blocks - 1 - i = num_free_blocks - 1 - j
    BY <1>3 DEF IInv, FreeListExact
  <2> QED BY <2>1, <1>1
<1>7. \A j \in J : into[j] \in Handles /\ id[into[j]] = NoBlock /\ id'[into[j]] = taken(j)
  BY DEF Allocate
<1>8. \A h \in Handles : (\A j \in J : into[j] # h) => id'[h] = id[h]
  BY DEF Allocate
<1>9. id' \in [Handles -> BlockIds \cup {NoBlock}]
  <2>1. \A h \in Handles : id'[h] \in BlockIds \cup {NoBlock}
    <3> SUFFICES ASSUME NEW h \in Handles PROVE id'[h] \in BlockIds \cup {NoBlock}
      OBVIOUS
    <3> HIDE DEF taken, J
    <3>1. CASE \E j \in J : into[j] = h BY <3>1, <1>5, <1>7
    <3>2. CASE \A j \in J : into[j] # h BY <3>2, <1>1, <1>8
    <3> QED BY <3>1, <3>2
  <2>2. id' = [h \in Handles |-> id'[h]] BY DEF Allocate
  <2> QED BY <2>1, <2>2
<1>10. \A b \in BlockIds : (\E j \in J : taken(j) = b) => ref_count'[b] = 1
  BY DEF Allocate
<1>11. \A b \in BlockIds : (\A j \in J : taken(j) # b) => ref_count'[b] = ref_count[b]
  BY DEF Allocate
<1>12. ref_count' \in [BlockIds -> Nat]
  <2>1. \A b \in BlockIds : ref_count'[b] \in Nat
    <3> SUFFICES ASSUME NEW b \in BlockIds PROVE ref_count'[b] \in Nat
      OBVIOUS
    <3> HIDE DEF taken, J
    <3>1. CASE \E j \in J : taken(j) = b BY <3>1, <1>10
    <3>2. CASE \A j \in J : taken(j) # b BY <3>2, <1>1, <1>11
    <3> QED BY <3>1, <3>2
  <2>2. ref_count' = [b \in BlockIds |-> ref_count'[b]] BY DEF Allocate
  <2> QED BY <2>1, <2>2
<1> HIDE DEF taken
<1>13. \A j \in J : HoldersIn(id', taken(j)) = {into[j]}
  <2> SUFFICES ASSUME NEW j \in J, NEW h \in Handles
               PROVE  id'[h] = taken(j) <=> h = into[j]
    BY <1>7 DEF HoldersIn
  <2>1. CASE \E i \in J : into[i] = h
    BY <2>1, <1>6, <1>7
  <2>2. CASE \A i \in J : into[i] # h
    <3>1. id'[h] = id[h] /\ id[h] # taken(j) BY <2>2, <1>5, <1>8 DEF HoldersIn
    <3> QED BY <3>1, <2>2
  <2> QED BY <2>1, <2>2
<1>14. \A b \in BlockIds : (\A j \in J : taken(j) # b) => HoldersIn(id', b) = HoldersIn(id, b)
  <2> SUFFICES ASSUME NEW b \in BlockIds, \A j \in J : taken(j) # b, NEW h \in Handles
               PROVE  id'[h] = b <=> id[h] = b
    BY DEF HoldersIn
  <2>1. NoBlock # b BY DEF NoBlock, BlockIds
  <2>2. CASE \E i \in J : into[i] = h BY <2>1, <2>2, <1>7
  <2>3. CASE \A i \in J : into[i] # h BY <2>3, <1>8
  <2> QED BY <2>2, <2>3
<1>15. RefCountExact'
  <2> SUFFICES ASSUME NEW b \in BlockIds PROVE ref_count'[b] = Cardinality(HoldersIn(id', b))
    BY DEF RefCountExact, Holders, HoldersIn
  <2>1. CASE \E j \in J : taken(j) = b BY <2>1, <1>10, <1>13, FS_Singleton, ZenonT(60)
  <2>2. CASE \A j \in J : taken(j) # b BY <2>2, <1>11, <1>14, Zenon DEF IInv, RefCountExact, Holders, HoldersIn
  <2> QED BY <2>1, <2>2
<1>16. FreeSlots' \subseteq FreeSlots
  BY <1>1, <1>2 DEF FreeSlots
<1>17. \A i \in FreeSlots : i \notin FreeSlots' => \E j \in J : i = num_free_blocks - 1 - j
  <2> SUFFICES ASSUME NEW i \in FreeSlots, i \notin FreeSlots'
               PROVE  \E j \in J : i = num_free_blocks - 1 - j
    OBVIOUS
  <2>1. num_free_blocks - 1 - i \in J BY <1>1, <1>2 DEF FreeSlots
  <2>2. i = num_free_blocks - 1 - (num_free_blocks - 1 - i) BY <1>1 DEF FreeSlots
  <2> QED BY <2>1, <2>2
<1>18. \A j \in J : num_free_blocks - 1 - j \notin FreeSlots'
  BY <1>1, <1>2 DEF FreeSlots
<1>19. \A i \in FreeSlots' : \A j \in J : free_blocks[i] # taken(j)
  BY <1>3, <1>16, <1>18 DEF IInv, FreeListExact, taken
<1>20. {free_blocks[i] : i \in FreeSlots'} = {b \in BlockIds : HoldersIn(id', b) = {}}
  <2>1. \A i \in FreeSlots' : free_blocks[i] \in BlockIds /\ HoldersIn(id', free_blocks[i]) = {}
    <3>1. \A i \in FreeSlots : free_blocks[i] \in BlockIds /\ HoldersIn(id, free_blocks[i]) = {}
      BY <1>1, <1>4 DEF IInv, FreeListExact, Holders, HoldersIn
    <3> QED BY <3>1, <1>14, <1>16, <1>19, Zenon
  <2>2. ASSUME NEW b \in BlockIds, HoldersIn(id', b) = {}
        PROVE  \E i \in FreeSlots' : free_blocks[i] = b
    <3>1. \A j \in J : taken(j) # b BY <2>2, <1>13
    <3>2. HoldersIn(id, b) = {} BY <3>1, <2>2, <1>14
    <3>3. PICK i \in FreeSlots : free_blocks[i] = b BY <3>2 DEF IInv, FreeListExact, Holders, HoldersIn
    <3>4. i \in FreeSlots' BY <3>1, <3>3, <1>17 DEF taken
    <3> QED BY <3>3, <3>4
  <2> QED BY <2>1, <2>2, Zenon
<1>21. FreeListExact'
  <2>1. \A i, j \in FreeSlots' : free_blocks'[i] = free_blocks'[j] => i = j
    BY <1>2, <1>16 DEF IInv, FreeListExact
  <2>2. {free_blocks'[i] : i \in FreeSlots'} = {b \in BlockIds : Holders(b)' = {}}
    BY <1>2, <1>20, Zenon DEF Holders, HoldersIn
  <2> QED BY <2>1, <2>2 DEF FreeListExact
<1>22. TypeOK'
  BY <1>1, <1>2, <1>9, <1>12, PoolAssumption DEF TypeOK
<1> QED BY <1>15, <1>21, <1>22 DEF IInv

-----------------------------------------------------------------------------
\* Every operation of Block and BlockAllocator keeps the invariant.
LEMMA NextInv == IInv /\ [Next]_vars => IInv'
<1> SUFFICES ASSUME IInv, [Next]_vars PROVE IInv' OBVIOUS
<1>1. CASE \E n \in 1 .. TotalBlocks : \E into \in [0 .. n - 1 -> Handles] : Allocate(n, into)
  BY <1>1, AllocateInv
<1>2. CASE \E h, g \in Handles : Copy(h, g) BY <1>2, CopyInv
<1>3. CASE \E h, g \in Handles : Move(h, g) BY <1>3, MoveInv
<1>4. CASE \E h \in Handles : Destroy(h) BY <1>4, DestroyInv
<1>5. CASE UNCHANGED vars
  <2>1. TypeOK' /\ RefCountExact'
    BY <1>5, SMT DEF vars, IInv, TypeOK, RefCountExact, Holders
  <2>2. FreeListExact'
    <3>1. FreeSlots' = FreeSlots /\ free_blocks' = free_blocks /\ \A b \in BlockIds : Holders(b)' = Holders(b)
      BY <1>5 DEF vars, FreeSlots, Holders
    <3> QED BY <3>1, ZenonT(60) DEF IInv, FreeListExact
  <2> QED BY <2>1, <2>2 DEF IInv
<1> QED BY <1>1, <1>2, <1>3, <1>4, <1>5 DEF Next

\* The state of every pool is well typed, its counters count the Block objects
\* on each block, and its free list is exactly the unreferenced blocks.
THEOREM PoolInvariant == Spec => [](TypeOK /\ RefCountExact /\ FreeListExact)
<1>1. Spec => []IInv BY InitInv, NextInv, PTL DEF Spec
<1> QED BY <1>1, PTL DEF IInv

\* BlockAllocator::free never overruns its array.
THEOREM FreeNeverOverruns == Spec => []FreeHasRoom
<1>1. IInv => FreeHasRoom
  <2> SUFFICES ASSUME IInv, NEW b \in BlockIds, ref_count[b] > 0
               PROVE  num_free_blocks < TotalBlocks
    BY DEF FreeHasRoom
  <2>1. ref_count[b] = Cardinality(HoldersIn(id, b))
    BY DEF IInv, RefCountExact, Holders, HoldersIn
  <2>2. HoldersIn(id, b) # {} BY <2>1, CountZero
  <2> QED BY <2>2, RoomForHeld DEF Holders, HoldersIn
<1>2. Spec => []IInv BY InitInv, NextInv, PTL DEF Spec
<1> QED BY <1>1, <1>2, PTL

-----------------------------------------------------------------------------
\* An allocation hands out blocks nobody leases, each to one object.
LEMMA AllocateLeases ==
  ASSUME IInv, NEW n \in 1 .. TotalBlocks, NEW into \in [0 .. n - 1 -> Handles],
         Allocate(n, into)
  PROVE  Lease!Acquire
<1> DEFINE J == 0 .. n - 1
           taken(j) == free_blocks[num_free_blocks - 1 - j]
           lease == [h \in Handles |-> IF \E j \in J : into[j] = h THEN id'[h] ELSE NoBlock]
<1>1. /\ free_blocks \in [BlockIds -> BlockIds]
      /\ num_free_blocks \in 0 .. TotalBlocks
      /\ n <= num_free_blocks
  BY DEF IInv, TypeOK, Allocate
<1>2. \A j \in J : num_free_blocks - 1 - j \in FreeSlots
  BY <1>1 DEF FreeSlots
<1>3. FreeSlots \subseteq BlockIds
  BY <1>1, PoolAssumption, IntervalRoom DEF FreeSlots, BlockIds
<1>4. \A j \in J : taken(j) \in BlockIds /\ HoldersIn(id, taken(j)) = {}
  BY <1>1, <1>2, <1>3 DEF IInv, FreeListExact, Holders, HoldersIn
<1>5. \A i, j \in J : taken(i) = taken(j) => i = j
  <2> SUFFICES ASSUME NEW i \in J, NEW j \in J, taken(i) = taken(j) PROVE i = j
    OBVIOUS
  <2>1. num_free_blocks - 1 - i = num_free_blocks - 1 - j
    BY <1>2 DEF IInv, FreeListExact
  <2> QED BY <2>1, <1>1
<1>6. \A j \in J : into[j] \in Handles /\ id[into[j]] = NoBlock /\ id'[into[j]] = taken(j)
  BY DEF Allocate
<1>7. \A h \in Handles : (\A j \in J : into[j] # h) => id'[h] = id[h]
  BY DEF Allocate
<1>8. id' = [h \in Handles |-> id'[h]] BY DEF Allocate
<1>9. NoBlock \notin BlockIds BY DEF NoBlock, BlockIds
<1>10. Lease!NoBlock = NoBlock /\ Lease!BlockIds = BlockIds
  BY DEF Lease!NoBlock, NoBlock, Lease!BlockIds, BlockIds
<1> HIDE DEF taken, J
<1>11. \A h \in Handles : lease[h] # NoBlock =>
         \E j \in J : into[j] = h /\ lease[h] = taken(j) /\ id'[h] = taken(j)
  BY <1>6
<1>12. \A h \in Handles : lease[h] = NoBlock => id'[h] = id[h]
  <2> SUFFICES ASSUME NEW h \in Handles, lease[h] = NoBlock PROVE id'[h] = id[h]
    OBVIOUS
  <2>1. \A j \in J : into[j] # h BY <1>4, <1>6, <1>9
  <2> QED BY <2>1, <1>7
<1>13. lease \in [Handles -> BlockIds \cup {NoBlock}]
  <2>1. \A h \in Handles : lease[h] \in BlockIds \cup {NoBlock} BY <1>4, <1>11
  <2> QED BY <2>1
<1> HIDE DEF lease
<1>14. \A h \in Handles : lease[h] # NoBlock => id[h] = NoBlock /\ lease[h] \notin Lease!Leased
  BY <1>4, <1>6, <1>11 DEF Lease!Leased, HoldersIn
<1>15. \A h, g \in Handles : lease[h] = lease[g] /\ h # g => lease[h] = NoBlock
  BY <1>5, <1>11
<1>16. id' = [h \in Handles |-> IF lease[h] # NoBlock THEN lease[h] ELSE id[h]]
  <2>1. \A h \in Handles : id'[h] = IF lease[h] # NoBlock THEN lease[h] ELSE id[h]
    BY <1>11, <1>12
  <2> QED BY <2>1, <1>8
<1> QED BY <1>10, <1>13, <1>14, <1>15, <1>16 DEF Lease!Acquire

\* Block objects implement leases: whatever the free list does, an id reaches
\* an object only while it is free or from another object that holds it.
THEOREM PoolImplementsLease == Spec => LeaseSpec
<1>1. Init => Lease!Init
  BY DEF Init, Lease!Init, NoBlock, Lease!NoBlock
<1>2. IInv /\ [Next]_vars => [Lease!Next]_id
  <2> SUFFICES ASSUME IInv, [Next]_vars PROVE Lease!Next \/ id' = id OBVIOUS
  <2>1. CASE \E n \in 1 .. TotalBlocks : \E into \in [0 .. n - 1 -> Handles] : Allocate(n, into)
    BY <2>1, AllocateLeases DEF Lease!Next
  <2>2. CASE \E h, g \in Handles : Copy(h, g)
    BY <2>2, Zenon DEF Copy, Lease!Next, Lease!Share
  <2>3. CASE \E h, g \in Handles : Move(h, g)
    BY <2>3, Zenon DEF Move, Lease!Next, Lease!Move, NoBlock, Lease!NoBlock
  <2>4. CASE \E h \in Handles : Destroy(h)
    BY <2>4, Zenon DEF Destroy, Lease!Next, Lease!Drop, NoBlock, Lease!NoBlock
  <2>5. CASE UNCHANGED vars BY <2>5 DEF vars
  <2> QED BY <2>1, <2>2, <2>3, <2>4, <2>5 DEF Next
<1>3. Spec => []IInv BY InitInv, NextInv, PTL DEF Spec
<1> QED BY <1>1, <1>2, <1>3, PTL DEF Spec, LeaseSpec, Lease!Spec

=============================================================================

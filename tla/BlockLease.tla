----------------------------- MODULE BlockLease -----------------------------
(***************************************************************************)
(* What BlockAllocator and Block promise together, with no free list and   *)
(* no counters: a Block object is either empty or a lease on one block id, *)
(* ids are handed out only while nobody leases them, and a lease is passed *)
(* on only by copying or moving an existing one.                           *)
(***************************************************************************)
EXTENDS Integers

CONSTANTS TotalBlocks,   \* BlockAllocator::total_blocks
          Handles        \* the Block objects that may exist at one time

VARIABLE id              \* id[h]: Block::id_ of object h, NoBlock when empty

NoBlock == -1

BlockIds == 0 .. TotalBlocks - 1

Leased == {id[h] : h \in Handles} \ {NoBlock}

Init == id = [h \in Handles |-> NoBlock]

\* Empty objects receive distinct blocks nobody leases.
Acquire ==
  \E lease \in [Handles -> BlockIds \cup {NoBlock}] :
    /\ \A h \in Handles : lease[h] # NoBlock => id[h] = NoBlock /\ lease[h] \notin Leased
    /\ \A h, g \in Handles : lease[h] = lease[g] /\ h # g => lease[h] = NoBlock
    /\ id' = [h \in Handles |-> IF lease[h] # NoBlock THEN lease[h] ELSE id[h]]

\* An object gives up what it leases and shares the lease of another one.
Share(h, g) == id' = [id EXCEPT ![h] = id[g]]

\* The same, but the other object is left empty.
Move(h, g) == h # g /\ id' = [id EXCEPT ![h] = id[g], ![g] = NoBlock]

Drop(h) == id' = [id EXCEPT ![h] = NoBlock]

Next ==
  \/ Acquire
  \/ \E h, g \in Handles : Share(h, g) \/ Move(h, g)
  \/ \E h \in Handles : Drop(h)

Spec == Init /\ [][Next]_id

=============================================================================

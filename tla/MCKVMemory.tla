----------------------------- MODULE MCKVMemory -----------------------------
(* Values of the constants of KVMemory for TLC. *)
EXTENDS KVMemory

\* Blocks of two tokens: the prompts share their first block, not their second.
PairPrompts == {<<"a", "a", "a", "a">>, <<"a", "a", "b">>}

\* Blocks of one token: paths of up to three blocks, which split at any of them.
UnitPrompts == {<<"a", "a">>, <<"a", "b">>}

SeqSymmetry == Permutations(Seqs)

\* in_use never influences a step; hiding it keeps the instances with Expands finite.
WithoutInUse == <<[mem EXCEPT !.in_use = 0], tok, reserved, slot, clock>>

=============================================================================

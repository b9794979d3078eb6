------------------------------- MODULE Lists --------------------------------
(***************************************************************************)
(* The operations on sequences of the memory and scheduling modules, most  *)
(* of them the ones SequencesExt has under these names.  SequencesExt      *)
(* brings in Bags, and for the prover with it the whole library of         *)
(* theorems, which every step of a proof would carry along; these do not.  *)
(***************************************************************************)
EXTENDS Integers, Sequences, FiniteSetsExt, Functions, TLC

Last(q) == q[Len(q)]

Front(q) == SubSeq(q, 1, Len(q) - 1)

\* q with x at position i, the rest moved up
InsertAt(q, i, x) == SubSeq(q, 1, i - 1) \o <<x>> \o SubSeq(q, i, Len(q))

IsPrefix(p, q) == Len(p) <= Len(q) /\ p = SubSeq(q, 1, Len(p))

\* The loop "for (x : q) a = op(a, x)", started with a = base
FoldLeft(op(_, _), base, q) ==
  MapThenFoldSet(LAMBDA x, a : op(a, x), base, LAMBDA i : q[i], Max, DOMAIN q)

\* q without the elements of S
Without(q, S) == FoldLeft(LAMBDA a, x : IF x \in S THEN a ELSE Append(a, x), <<>>, q)

=============================================================================

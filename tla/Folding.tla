------------------------------ MODULE Folding -------------------------------
(***************************************************************************)
(* What a loop computes.  The loops of the code over a list are folds      *)
(* (FoldLeft of Lists); the theorem here says that what every turn of a    *)
(* loop keeps holds when it is over.                                       *)
(*                                                                         *)
(* Op is the body of the loop, Inv what it keeps: Inv(c, i, x) of the      *)
(* value x after i turns, where c is whatever the loop is given besides    *)
(* the list; Op(c, x, e) is the turn with element e.                       *)
(* A module that proves something of a loop instantiates this module.      *)
(***************************************************************************)
EXTENDS Integers, Folds

CONSTANTS Op(_, _, _), Inv(_, _, _)

Largest(S) == CHOOSE x \in S : \A y \in S : x >= y

\* FoldLeft(LAMBDA x, e : Op(c, x, e), base, seq)
Fold(c, base, seq) == MapThenFoldSet(LAMBDA x, y : Op(c, y, x), base, LAMBDA i : seq[i], Largest, DOMAIN seq)

\* The function MapThenFoldSet defines a fold by.
IsIter(iter, c, base, seq, S) ==
  iter = [s \in SUBSET S |-> IF s = {} THEN base ELSE Op(c, iter[s \ {Largest(s)}], seq[Largest(s)])]

Iter(c, base, seq) == CHOOSE iter : IsIter(iter, c, base, seq, DOMAIN seq)

\* What every turn keeps holds at the end.  The induction principle is a
\* hypothesis, which SequenceLemmas proves once for all instances.
THEOREM FoldInvariant ==
  ASSUME \A S : 0 \in S /\ (\A k \in Nat : k \in S => k + 1 \in S) => Nat \subseteq S,
         NEW c, NEW base, NEW seq, NEW n \in Nat, DOMAIN seq = 1 .. n, Inv(c, 0, base),
         \A i \in 1 .. n : \A x : Inv(c, i - 1, x) => Inv(c, i, Op(c, x, seq[i]))
  PROVE  Inv(c, n, Fold(c, base, seq))
<1>1. ASSUME NEW k \in Nat, NEW s \in SUBSET (1 .. k + 1), k + 1 \in s PROVE Largest(s) = k + 1
  <2>1. \A y \in s : k + 1 >= y
    OBVIOUS
  <2>2. \A x \in s : (\A y \in s : x >= y) => x = k + 1
    BY <1>1, <2>1
  <2> QED BY <1>1, <2>1, <2>2 DEF Largest
<1> DEFINE Is(g, k) == IsIter(g, c, base, seq, 1 .. k)
           Has == {k \in Nat : \E g : Is(g, k)}
\* The function exists, by induction on the length of the sequence.
<1>2. 0 \in Has
  <2> DEFINE g == [s \in SUBSET (1 .. 0) |-> base]
  <2>1. \A s \in SUBSET (1 .. 0) : s = {}
    OBVIOUS
  <2>2. Is(g, 0)
    BY <2>1 DEF IsIter
  <2> QED BY <2>2
<1>3. ASSUME NEW k \in Nat, k \in Has PROVE k + 1 \in Has
  <2>1. PICK g : Is(g, k)
    BY <1>3
  <2> HIDE DEF Is, IsIter
  <2> DEFINE h == [s \in SUBSET (1 .. k + 1) |->
                     IF k + 1 \in s THEN Op(c, g[s \ {k + 1}], seq[k + 1]) ELSE g[s]]
  <2>2. ASSUME NEW s \in SUBSET (1 .. k + 1), k + 1 \in s
        PROVE  h[s] = Op(c, h[s \ {Largest(s)}], seq[Largest(s)])
    <3>1. Largest(s) = k + 1
      BY <1>1, <2>2
    <3>2. s \ {k + 1} \in SUBSET (1 .. k + 1) /\ k + 1 \notin s \ {k + 1}
      OBVIOUS
    <3>3. h[s \ {k + 1}] = g[s \ {k + 1}]
      BY <3>2
    <3> QED BY <2>2, <3>1, <3>3
  <2>3. ASSUME NEW s \in SUBSET (1 .. k + 1), k + 1 \notin s
        PROVE  h[s] = IF s = {} THEN base ELSE Op(c, h[s \ {Largest(s)}], seq[Largest(s)])
    <3>1. s \in SUBSET (1 .. k) /\ h[s] = g[s]
      BY <2>3
    <3>2. g[s] = IF s = {} THEN base ELSE Op(c, g[s \ {Largest(s)}], seq[Largest(s)])
      BY <2>1, <3>1 DEF Is, IsIter
    <3>3. s \ {Largest(s)} \in SUBSET (1 .. k + 1) /\ k + 1 \notin s \ {Largest(s)}
      BY <2>3
    <3>4. h[s \ {Largest(s)}] = g[s \ {Largest(s)}]
      BY <3>3
    <3> QED BY <3>1, <3>2, <3>4
  <2>4. \A s \in SUBSET (1 .. k + 1) :
          h[s] = IF s = {} THEN base ELSE Op(c, h[s \ {Largest(s)}], seq[Largest(s)])
    BY <2>2, <2>3
  <2>5. h = [s \in SUBSET (1 .. k + 1) |-> h[s]]
    OBVIOUS
  <2>6. Is(h, k + 1)
    <3> HIDE DEF h
    <3> QED BY <2>4, <2>5 DEF Is, IsIter
  <2> QED BY <2>6
<1>4. Nat \subseteq Has
  <2> HIDE DEF Has
  <2> QED BY <1>2, <1>3
<1> DEFINE f == Iter(c, base, seq)
           After(i) == f[1 .. i]
<1>5. f = [s \in SUBSET (1 .. n) |-> IF s = {} THEN base ELSE Op(c, f[s \ {Largest(s)}], seq[Largest(s)])]
  <2>1. \E iter : IsIter(iter, c, base, seq, DOMAIN seq)
    BY <1>4
  <2>2. IsIter(f, c, base, seq, DOMAIN seq)
    BY <2>1 DEF Iter
  <2> QED BY <2>2 DEF IsIter
\* It takes the elements one after the other.
<1>6. Fold(c, base, seq) = After(n)
  BY DEF Fold, MapThenFoldSet, Iter, IsIter
<1> HIDE DEF f
<1>7. After(0) = base
  <2>1. 1 .. 0 = {} /\ {} \in SUBSET (1 .. n)
    OBVIOUS
  <2> QED BY <1>5, <2>1
<1>8. ASSUME NEW i \in 1 .. n PROVE After(i) = Op(c, After(i - 1), seq[i])
  <2>1. i - 1 \in Nat /\ (i - 1) + 1 = i /\ i \in 1 .. i /\ 1 .. i \in SUBSET (1 .. n) /\ 1 .. i # {}
    OBVIOUS
  <2>2. Largest(1 .. i) = i
    BY <1>1, <2>1
  <2>3. (1 .. i) \ {i} = 1 .. i - 1
    OBVIOUS
  <2> QED BY <1>5, <2>1, <2>2, <2>3
<1> DEFINE Kept == {k \in Nat : k <= n => Inv(c, k, After(k))}
<1> HIDE DEF After
<1>9. 0 \in Kept
  BY <1>7
<1>10. ASSUME NEW k \in Nat, k \in Kept PROVE k + 1 \in Kept
  <2> SUFFICES ASSUME k + 1 <= n PROVE Inv(c, k + 1, After(k + 1))
    OBVIOUS
  <2>1. k + 1 \in 1 .. n /\ (k + 1) - 1 = k
    OBVIOUS
  <2>2. Inv(c, k, After(k))
    BY <1>10
  <2>3. After(k + 1) = Op(c, After(k), seq[k + 1])
    BY <1>8, <2>1
  <2> QED BY <2>1, <2>2, <2>3
<1>11. Nat \subseteq Kept
  <2> HIDE DEF Kept
  <2> QED BY <1>9, <1>10
<1> QED BY <1>6, <1>11

=============================================================================

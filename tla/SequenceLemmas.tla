--------------------------- MODULE SequenceLemmas ---------------------------
(***************************************************************************)
(* What the operations of a queue do to the requests in it and to their    *)
(* order: push into a priority queue, pop_front, pop_back, push_back.      *)
(* Front(q), Last(q) and InsertAt(q, i, r) of SequencesExt are written     *)
(* out, so that the lemmas stand on Sequences and Functions alone.  The    *)
(* induction principle is here too, for Folding and its instances.         *)
(***************************************************************************)
EXTENDS Integers, Sequences, Functions, WellFoundedInduction, TLAPS

\* The provers for a leaf that names none, with time for a busy machine.
USE SMTT(60), ZenonT(60), Z3T(60)

\* The elements of q are in the order of their rank.
InOrder(rank, q) == \A k, l \in DOMAIN q : k < l => rank[q[k]] <= rank[q[l]]

\* What is in S has a rank.
Ranks(rank, S) == \A x \in S : rank[x] \in Int

\* At position i an element comes behind what is before it.
FitsAt(rank, q, r, i) ==
  /\ \A k \in 1 .. i - 1 : rank[q[k]] <= rank[r]
  /\ \A k \in i .. Len(q) : rank[r] <= rank[q[k]]

\* p is q with r at position i.
Inserted(p, q, r, i) ==
  /\ Len(p) = Len(q) + 1
  /\ \A k \in 1 .. Len(q) + 1 : p[k] = IF k < i THEN q[k] ELSE IF k = i THEN r ELSE q[k - 1]

---------------------------------------------------------------------------
\* Induction, with a set for the predicate: a set that has 0 and with every
\* number its successor has all of them, or it would miss a least number.
LEMMA SetInduction == \A S : 0 \in S /\ (\A k \in Nat : k \in S => k + 1 \in S) => Nat \subseteq S
<1> SUFFICES ASSUME NEW S, 0 \in S, \A k \in Nat : k \in S => k + 1 \in S, NEW m \in Nat, m \notin S
             PROVE  FALSE
  OBVIOUS
<1> DEFINE T == Nat \ S
           R == OpToRel(<, Nat)
<1>1. T \in SUBSET Nat /\ T # {}
  OBVIOUS
<1>2. PICK x \in T : \A y \in T : ~(<<y, x>> \in R)
  <2>1. IsWellFoundedOn(R, Nat)
    BY NatLessThanWellFounded, Zenon
  <2> HIDE DEF R, T
  <2> QED BY <1>1, <2>1, WFMin, Zenon
<1>3. x \in Nat /\ x # 0
  BY <1>2, Zenon
<1>4. x - 1 \in Nat /\ <<x - 1, x>> \in R
  BY <1>3 DEF OpToRel
<1>5. x - 1 \in S
  <2> HIDE DEF R
  <2> QED BY <1>2, <1>4
<1>6. (x - 1) + 1 = x
  BY <1>3
<1>7. x \in S
  BY <1>4, <1>5, <1>6, Zenon
<1> QED BY <1>2, <1>7, Zenon

---------------------------------------------------------------------------
(* Elements.                                                               *)

\* A sequence that is not empty has a positive length.
LEMMA LenPositive ==
  ASSUME NEW S, NEW q \in Seq(S), q # <<>>
  PROVE  Len(q) \in Nat \ {0}
OBVIOUS

\* The elements of a sequence over S are in S, and it is a sequence over its
\* elements.
LEMMA RangeOfSeq ==
  ASSUME NEW S, NEW q \in Seq(S)
  PROVE  Range(q) \subseteq S /\ \A T : Range(q) \subseteq T => q \in Seq(T)
<1>1. DOMAIN q = 1 .. Len(q) /\ Len(q) \in Nat /\ q = [k \in 1 .. Len(q) |-> q[k]]
  OBVIOUS
<1>2. Range(q) \subseteq S
  BY DEF Range
<1>3. ASSUME NEW T, Range(q) \subseteq T PROVE q \in Seq(T)
  <2>1. \A k \in 1 .. Len(q) : q[k] \in T
    BY <1>1, <1>3 DEF Range
  <2> QED BY <1>1, <2>1
<1> QED BY <1>2, <1>3

\* q is a sequence, of whatever it is a sequence of.
IsList(q) == q \in Seq(Range(q))

LEMMA SeqIsList ==
  ASSUME NEW S, NEW q \in Seq(S)
  PROVE  IsList(q)
BY RangeOfSeq DEF IsList

\* A list without elements is empty.
LEMMA NoElement ==
  ASSUME NEW q, IsList(q), Range(q) = {}
  PROVE  q = <<>>
<1>1. DOMAIN q = 1 .. Len(q) /\ Len(q) \in Nat /\ q \in Seq(Range(q))
  BY DEF IsList
<1>2. \A i \in DOMAIN q : q[i] \in Range(q)
  BY DEF Range
<1>3. Len(q) = 0
  BY <1>1, <1>2
<1> QED BY <1>1, <1>3

\* A list with one more element, and two lists in a row.
LEMMA AppendList ==
  ASSUME NEW q, IsList(q), NEW e
  PROVE  LET p == Append(q, e) IN IsList(p) /\ p # <<>> /\ Range(p) = Range(q) \cup {e}
<1> DEFINE S == Range(q) \cup {e}
           p == Append(q, e)
<1>1. q \in Seq(S) /\ e \in S
  <2>1. q \in Seq(Range(q))
    BY DEF IsList
  <2> HIDE DEF S
  <2> QED BY <2>1, RangeOfSeq DEF S
<1> HIDE DEF S
<1>2. /\ p \in Seq(S) /\ Len(p) = Len(q) + 1 /\ Len(q) \in Nat
      /\ p[Len(q) + 1] = e /\ \A k \in 1 .. Len(q) : p[k] = q[k]
  BY <1>1
<1>3. DOMAIN q = 1 .. Len(q) /\ DOMAIN p = 1 .. Len(q) + 1 /\ p # <<>>
  BY <1>1, <1>2
<1> HIDE DEF p
<1>4. Range(p) = Range(q) \cup {e}
  <2>1. \A k \in 1 .. Len(q) + 1 : k \in 1 .. Len(q) \/ k = Len(q) + 1
    BY <1>2
  <2> QED BY <1>2, <1>3, <2>1 DEF Range
<1>5. IsList(p)
  BY <1>2, SeqIsList
<1> QED BY <1>3, <1>4, <1>5 DEF p

LEMMA ConcatList ==
  ASSUME NEW q, IsList(q), NEW b, IsList(b)
  PROVE  LET p == q \o b IN IsList(p) /\ (p = <<>> => q = <<>> /\ b = <<>>) /\ Range(p) = Range(q) \cup Range(b)
<1> DEFINE S == Range(q) \cup Range(b)
           p == q \o b
<1>1. q \in Seq(S) /\ b \in Seq(S)
  <2>1. q \in Seq(Range(q)) /\ b \in Seq(Range(b))
    BY DEF IsList
  <2>2. Range(q) \subseteq S /\ Range(b) \subseteq S
    OBVIOUS
  <2> HIDE DEF S
  <2> QED BY <2>1, <2>2, RangeOfSeq
<1> HIDE DEF S
<1>2. p \in Seq(S) /\ Len(p) = Len(q) + Len(b) /\ Len(q) \in Nat /\ Len(b) \in Nat
  BY <1>1
<1>3. DOMAIN q = 1 .. Len(q) /\ DOMAIN b = 1 .. Len(b) /\ DOMAIN p = 1 .. Len(q) + Len(b)
  BY <1>1, <1>2
<1>4. p = <<>> => q = <<>> /\ b = <<>>
  <2>1. Len(p) = 0 => Len(q) = 0 /\ Len(b) = 0
    BY <1>2
  <2> QED BY <1>1, <2>1
<1>5. \A j \in 1 .. Len(b) : p[Len(q) + j] = b[j]
  BY <1>1
<1>6. \A k \in 1 .. Len(q) : p[k] = q[k]
  BY <1>1
<1> HIDE DEF p
<1>7. Range(p) = Range(q) \cup Range(b)
  <2>1. ASSUME NEW k \in 1 .. Len(q) + Len(b) PROVE p[k] \in Range(q) \cup Range(b)
    <3>1. CASE k \in 1 .. Len(q)
      BY <1>3, <1>6, <3>1 DEF Range
    <3>2. CASE k \notin 1 .. Len(q)
      <4>1. k - Len(q) \in 1 .. Len(b) /\ Len(q) + (k - Len(q)) = k
        BY <1>2, <3>2
      <4> QED BY <1>3, <1>5, <4>1, Zenon DEF Range
    <3> QED BY <3>1, <3>2
  <2>2. ASSUME NEW k \in 1 .. Len(q) PROVE q[k] \in Range(p)
    BY <1>2, <1>3, <1>6 DEF Range
  <2>3. ASSUME NEW k \in 1 .. Len(b) PROVE b[k] \in Range(p)
    <3>1. Len(q) + k \in DOMAIN p
      BY <1>2, <1>3
    <3> QED BY <1>5, <3>1 DEF Range
  <2> QED BY <1>3, <2>1, <2>2, <2>3, Zenon DEF Range
<1>8. IsList(p)
  BY <1>2, SeqIsList
<1> QED BY <1>4, <1>7, <1>8 DEF p

\* SubSeq, element by element.
LEMMA SubSeqElements ==
  ASSUME NEW S, NEW q \in Seq(S), NEW m \in Int, NEW n \in Int, m >= 1, n <= Len(q), m <= n + 1
  PROVE  /\ SubSeq(q, m, n) \in Seq(S)
         /\ Len(SubSeq(q, m, n)) = n - m + 1
         /\ \A k \in 1 .. n - m + 1 : SubSeq(q, m, n)[k] = q[m + k - 1]
<1>1. SubSeq(q, m, n) \in Seq(S)
  OBVIOUS
<1>2. Len(SubSeq(q, m, n)) = n - m + 1
  OBVIOUS
<1>3. \A k \in 1 .. n - m + 1 : SubSeq(q, m, n)[k] = q[m + k - 1]
  OBVIOUS
<1> QED BY <1>1, <1>2, <1>3

\* All but the last element.
LEMMA FrontElements ==
  ASSUME NEW S, NEW q \in Seq(S), q # <<>>
  PROVE  /\ SubSeq(q, 1, Len(q) - 1) \in Seq(S) /\ Len(SubSeq(q, 1, Len(q) - 1)) = Len(q) - 1
         /\ \A k \in 1 .. Len(q) - 1 : SubSeq(q, 1, Len(q) - 1)[k] = q[k]
<1>1. Len(q) \in Nat \ {0}
  BY LenPositive
<1>2. /\ SubSeq(q, 1, Len(q) - 1) \in Seq(S)
      /\ Len(SubSeq(q, 1, Len(q) - 1)) = Len(q) - 1
      /\ \A k \in 1 .. Len(q) - 1 : SubSeq(q, 1, Len(q) - 1)[k] = q[1 + k - 1]
  <2>1. Len(q) - 1 \in Int /\ Len(q) - 1 <= Len(q) /\ 1 <= (Len(q) - 1) + 1 /\ (Len(q) - 1) - 1 + 1 = Len(q) - 1
    BY <1>1
  <2> DEFINE n == Len(q) - 1
  <2>2. /\ SubSeq(q, 1, n) \in Seq(S) /\ Len(SubSeq(q, 1, n)) = n - 1 + 1
        /\ \A k \in 1 .. n - 1 + 1 : SubSeq(q, 1, n)[k] = q[1 + k - 1]
    <3> HIDE DEF n
    <3> QED BY <2>1, SubSeqElements DEF n
  <2> QED BY <2>1, <2>2
<1>3. \A k \in 1 .. Len(q) - 1 : 1 + k - 1 = k
  BY <1>1
<1> QED BY <1>2, <1>3

\* One more element, at position i.
LEMMA InsertElements ==
  ASSUME NEW S, NEW q \in Seq(S), NEW r \in S, NEW i \in 1 .. Len(q) + 1
  PROVE  LET p == (SubSeq(q, 1, i - 1) \o <<r>>) \o SubSeq(q, i, Len(q))
         IN  p \in Seq(S) /\ Inserted(p, q, r, i)
<1> DEFINE a == SubSeq(q, 1, i - 1)
           b == SubSeq(q, i, Len(q))
           c == a \o <<r>>
           p == c \o b
<1>1. Len(q) \in Nat
  OBVIOUS
<1>2. a \in Seq(S) /\ Len(a) = i - 1 /\ \A k \in 1 .. i - 1 : a[k] = q[1 + k - 1]
  <2>1. (i - 1) - 1 + 1 = i - 1
    OBVIOUS
  <2> QED BY <1>1, <2>1, SubSeqElements
<1>3. b \in Seq(S) /\ Len(b) = Len(q) - i + 1 /\ \A k \in 1 .. Len(q) - i + 1 : b[k] = q[i + k - 1]
  BY <1>1, SubSeqElements
<1> HIDE DEF a, b
<1>4. <<r>> \in Seq(S) /\ Len(<<r>>) = 1 /\ <<r>>[1] = r
  OBVIOUS
<1>5. c \in Seq(S) /\ Len(c) = Len(a) + 1
  BY <1>2, <1>4
<1>6. \A k \in 1 .. i : c[k] = IF k < i THEN q[k] ELSE r
  BY <1>2, <1>4
<1> HIDE DEF c
<1>7. /\ p \in Seq(S) /\ Len(p) = Len(c) + Len(b)
      /\ \A k \in 1 .. Len(c) : p[k] = c[k]
      /\ \A k \in 1 .. Len(b) : p[Len(c) + k] = b[k]
  <2>1. c \in Seq(S) /\ b \in Seq(S)
    BY <1>3, <1>5
  <2> QED BY <2>1
<1> HIDE DEF p
<1>8. Len(p) = Len(q) + 1 /\ Len(c) = i
  BY <1>1, <1>2, <1>3, <1>5, <1>7
<1>9. ASSUME NEW k \in 1 .. Len(q) + 1
      PROVE  p[k] = IF k < i THEN q[k] ELSE IF k = i THEN r ELSE q[k - 1]
  <2>1. CASE k <= i
    <3>1. k \in 1 .. Len(c)
      BY <1>8, <2>1
    <3> QED BY <1>6, <1>7, <1>8, <2>1, <3>1
  <2>2. CASE k > i
    <3>1. k - i \in 1 .. Len(b) /\ k - i \in 1 .. Len(q) - i + 1 /\ Len(c) + (k - i) = k /\ i + (k - i) - 1 = k - 1
      BY <1>1, <1>3, <1>8, <2>2
    <3>2. p[k] = b[k - i] /\ b[k - i] = q[k - 1]
      BY <1>3, <1>7, <3>1
    <3> QED BY <2>2, <3>2
  <2> QED BY <2>1, <2>2
<1>10. p \in Seq(S) /\ Inserted(p, q, r, i)
  BY <1>7, <1>8, <1>9 DEF Inserted
<1> QED BY <1>10 DEF a, b, c, p

---------------------------------------------------------------------------
(* Queues without a repetition, in order.                                  *)

\* A new element: the elements, ...
LEMMA InsertedRange ==
  ASSUME NEW S, NEW q \in Seq(S), NEW r \in S, NEW i \in 1 .. Len(q) + 1,
         NEW p \in Seq(S), Inserted(p, q, r, i)
  PROVE  Range(p) = Range(q) \cup {r}
<1>2. /\ Len(p) = Len(q) + 1
      /\ \A k \in 1 .. Len(q) + 1 : p[k] = IF k < i THEN q[k] ELSE IF k = i THEN r ELSE q[k - 1]
  BY DEF Inserted
<1>3. DOMAIN q = 1 .. Len(q) /\ DOMAIN p = 1 .. Len(q) + 1 /\ Len(q) \in Nat
  BY <1>2
<1>4. Range(p) = Range(q) \cup {r}
  <2>1. ASSUME NEW k \in DOMAIN p PROVE p[k] \in Range(q) \cup {r}
    <3>1. p[k] = IF k < i THEN q[k] ELSE IF k = i THEN r ELSE q[k - 1]
      BY <1>2, <1>3
    <3>2. (k < i => k \in DOMAIN q) /\ (k > i => k - 1 \in DOMAIN q)
      BY <1>3
    <3>3. CASE k < i
      BY <3>1, <3>2, <3>3 DEF Range
    <3>4. CASE k = i
      BY <3>1, <3>4
    <3>5. CASE k > i
      BY <1>3, <3>1, <3>2, <3>5 DEF Range
    <3> QED BY <1>3, <3>3, <3>4, <3>5
  <2>2. r \in Range(p)
    BY <1>2, <1>3 DEF Range
  <2>3. ASSUME NEW k \in DOMAIN q PROVE q[k] \in Range(p)
    <3>1. k < i => p[k] = q[k]
      BY <1>2, <1>3
    <3>2. k >= i => p[k + 1] = q[k]
      BY <1>2, <1>3
    <3> QED BY <1>3, <3>1, <3>2 DEF Range
  <2> QED BY <2>1, <2>2, <2>3 DEF Range
<1> QED BY <1>4

\* ... no repetition if it is new, ...
LEMMA InsertedInjective ==
  ASSUME NEW S, NEW q \in Seq(S), NEW r \in S, r \notin Range(q), IsInjective(q), NEW i \in 1 .. Len(q) + 1,
         NEW p \in Seq(S), Inserted(p, q, r, i)
  PROVE  IsInjective(p)
<1>2. /\ Len(p) = Len(q) + 1
      /\ \A k \in 1 .. Len(q) + 1 : p[k] = IF k < i THEN q[k] ELSE IF k = i THEN r ELSE q[k - 1]
  BY DEF Inserted
<1>3. DOMAIN q = 1 .. Len(q) /\ DOMAIN p = 1 .. Len(q) + 1 /\ Len(q) \in Nat
  BY <1>2
<1>5. IsInjective(p)
  <2> SUFFICES ASSUME NEW k \in 1 .. Len(q) + 1, NEW l \in 1 .. Len(q) + 1, p[k] = p[l], k # l
               PROVE  FALSE
    BY <1>3 DEF IsInjective
  <2>1. \A j \in 1 .. Len(q) : q[j] # r
    BY <1>3 DEF Range
  <2>2. \A j, m \in 1 .. Len(q) : q[j] = q[m] => j = m
    BY <1>3 DEF IsInjective
  <2> QED BY <1>2, <1>3, <2>1, <2>2
<1> QED BY <1>5

\* ... and the order.
LEMMA InsertedInOrder ==
  ASSUME NEW S, NEW q \in Seq(S), NEW r \in S, NEW i \in 1 .. Len(q) + 1,
         NEW p \in Seq(S), Inserted(p, q, r, i),
         NEW rank, Ranks(rank, S), InOrder(rank, q), FitsAt(rank, q, r, i)
  PROVE  InOrder(rank, p)
<1>1. /\ \A k \in 1 .. i - 1 : rank[q[k]] <= rank[r]
      /\ \A k \in i .. Len(q) : rank[r] <= rank[q[k]]
  BY DEF FitsAt
<1>2. /\ Len(p) = Len(q) + 1
      /\ \A k \in 1 .. Len(q) + 1 : p[k] = IF k < i THEN q[k] ELSE IF k = i THEN r ELSE q[k - 1]
  BY DEF Inserted
<1>3. DOMAIN q = 1 .. Len(q) /\ DOMAIN p = 1 .. Len(q) + 1 /\ Len(q) \in Nat
  BY <1>2
<1>6. InOrder(rank, p)
  <2> SUFFICES ASSUME NEW k \in 1 .. Len(q) + 1, NEW l \in 1 .. Len(q) + 1, k < l
               PROVE  rank[p[k]] <= rank[p[l]]
    BY <1>3 DEF InOrder
  <2>1. \A j, m \in 1 .. Len(q) : j < m => rank[q[j]] <= rank[q[m]]
    BY <1>3 DEF InOrder
  <2>2. p[k] = IF k < i THEN q[k] ELSE IF k = i THEN r ELSE q[k - 1]
    BY <1>2
  <2>3. p[l] = IF l < i THEN q[l] ELSE IF l = i THEN r ELSE q[l - 1]
    BY <1>2
  <2>4. k < i => k \in 1 .. i - 1 /\ k \in 1 .. Len(q)
    OBVIOUS
  <2>5. l > i => l - 1 \in i .. Len(q) /\ l - 1 \in 1 .. Len(q)
    OBVIOUS
  <2>6. CASE k < i
    BY <1>1, <2>1, <2>2, <2>3, <2>4, <2>5, <2>6
  <2>7. CASE k = i
    BY <1>1, <2>2, <2>3, <2>5, <2>7
  <2>8. CASE k > i
    <3>1. k - 1 \in 1 .. Len(q) /\ k - 1 < l - 1
      BY <2>8
    <3> QED BY <2>1, <2>2, <2>3, <2>5, <2>8, <3>1
  <2> QED BY <2>6, <2>7, <2>8
<1> QED BY <1>6

\* priority_queue_.push adds the request where its rank belongs.
LEMMA PushedQueue ==
  ASSUME NEW S, NEW q \in Seq(S), NEW r \in S, NEW i \in 1 .. Len(q) + 1, NEW rank, Ranks(rank, S),
         r \notin Range(q), IsInjective(q), InOrder(rank, q), FitsAt(rank, q, r, i)
  PROVE  LET p == (SubSeq(q, 1, i - 1) \o <<r>>) \o SubSeq(q, i, Len(q))
         IN  p \in Seq(S) /\ Range(p) = Range(q) \cup {r} /\ IsInjective(p) /\ InOrder(rank, p)
<1> DEFINE p == (SubSeq(q, 1, i - 1) \o <<r>>) \o SubSeq(q, i, Len(q))
<1>1. p \in Seq(S) /\ Inserted(p, q, r, i)
  BY InsertElements
<1> HIDE DEF p
<1>2. Range(p) = Range(q) \cup {r} /\ IsInjective(p) /\ InOrder(rank, p)
  BY <1>1, InsertedRange, InsertedInjective, InsertedInOrder
<1> QED BY <1>1, <1>2 DEF p

\* push_front of an element that comes before all of them.
LEMMA PrependQueue ==
  ASSUME NEW S, NEW q \in Seq(S), NEW r \in S, NEW rank, Ranks(rank, S),
         r \notin Range(q), IsInjective(q), InOrder(rank, q), \A x \in Range(q) : rank[r] <= rank[x]
  PROVE  LET p == <<r>> \o q
         IN  p \in Seq(S) /\ Range(p) = Range(q) \cup {r} /\ IsInjective(p) /\ InOrder(rank, p)
<1> DEFINE p == <<r>> \o q
<1>1. p \in Seq(S) /\ Inserted(p, q, r, 1)
  BY DEF Inserted
<1>2. FitsAt(rank, q, r, 1)
  <2>1. \A k \in 1 .. Len(q) : q[k] \in Range(q)
    BY DEF Range
  <2> QED BY <2>1 DEF FitsAt
<1> HIDE DEF p
<1>3. 1 \in 1 .. Len(q) + 1
  OBVIOUS
<1>4. Range(p) = Range(q) \cup {r} /\ IsInjective(p) /\ InOrder(rank, p)
  BY <1>1, <1>2, <1>3, InsertedRange, InsertedInjective, InsertedInOrder
<1> QED BY <1>1, <1>4 DEF p

\* What is taken off the front of a queue.
LEMMA TailSet ==
  ASSUME NEW S, NEW q \in Seq(S), q # <<>>, IsInjective(q)
  PROVE  /\ Tail(q) \in Seq(S) /\ Head(q) \in S /\ Head(q) \in Range(q)
         /\ Range(Tail(q)) = Range(q) \ {Head(q)} /\ IsInjective(Tail(q))
<1> DEFINE t == Tail(q)
<1>1. t \in Seq(S) /\ Len(t) = Len(q) - 1 /\ Len(q) \in Nat \ {0} /\ \A k \in 1 .. Len(q) - 1 : t[k] = q[k + 1]
  OBVIOUS
<1>2. DOMAIN q = 1 .. Len(q) /\ DOMAIN t = 1 .. Len(q) - 1 /\ Head(q) = q[1] /\ Head(q) \in S
  BY <1>1
<1> HIDE DEF t
<1>3. \A j, m \in 1 .. Len(q) : q[j] = q[m] => j = m
  BY <1>2 DEF IsInjective
<1>5. Range(t) = Range(q) \ {Head(q)}
  <2>1. \A x \in Range(t) : x \in Range(q) /\ x # Head(q)
    BY <1>1, <1>2, <1>3 DEF Range
  <2>2. ASSUME NEW k \in 1 .. Len(q), q[k] # q[1] PROVE q[k] \in Range(t)
    <3>1. k - 1 \in 1 .. Len(q) - 1 /\ t[k - 1] = q[k]
      BY <1>1, <2>2
    <3> QED BY <1>2, <3>1 DEF Range
  <2> QED BY <1>2, <2>1, <2>2, Zenon DEF Range
<1>6. IsInjective(t)
  <2> SUFFICES ASSUME NEW k \in 1 .. Len(q) - 1, NEW l \in 1 .. Len(q) - 1, t[k] = t[l] PROVE k = l
    BY <1>2 DEF IsInjective
  <2> QED BY <1>1, <1>3
<1>9. Head(q) \in Range(q)
  BY <1>1, <1>2 DEF Range
<1> QED BY <1>1, <1>2, <1>5, <1>6, <1>9 DEF t

\* What is left is in order, and what is gone is at the end of it.
LEMMA TailInOrder ==
  ASSUME NEW S, NEW q \in Seq(S), q # <<>>, NEW rank, Ranks(rank, S), InOrder(rank, q)
  PROVE  InOrder(rank, Tail(q)) /\ \A x \in Range(q) : rank[Head(q)] <= rank[x]
<1> DEFINE t == Tail(q)
<1>1. t \in Seq(S) /\ Len(t) = Len(q) - 1 /\ Len(q) \in Nat \ {0} /\ \A k \in 1 .. Len(q) - 1 : t[k] = q[k + 1]
  OBVIOUS
<1>2. DOMAIN q = 1 .. Len(q) /\ DOMAIN t = 1 .. Len(q) - 1 /\ Head(q) = q[1] /\ Head(q) \in S
  BY <1>1
<1> HIDE DEF t
<1>4. \A j, m \in 1 .. Len(q) : j < m => rank[q[j]] <= rank[q[m]]
  BY <1>2 DEF InOrder
<1>7. InOrder(rank, t)
  <2> SUFFICES ASSUME NEW k \in 1 .. Len(q) - 1, NEW l \in 1 .. Len(q) - 1, k < l PROVE rank[t[k]] <= rank[t[l]]
    BY <1>2 DEF InOrder
  <2>1. t[k] = q[k + 1] /\ t[l] = q[l + 1] /\ k + 1 \in 1 .. Len(q) /\ l + 1 \in 1 .. Len(q) /\ k + 1 < l + 1
    BY <1>1
  <2> QED BY <1>4, <2>1
<1>8. ASSUME NEW x \in Range(q) PROVE rank[Head(q)] <= rank[x]
  <2>1. PICK k \in 1 .. Len(q) : x = q[k]
    BY <1>2 DEF Range
  <2>2. rank[x] \in Int
    BY <1>1, <2>1 DEF Ranks
  <2> QED BY <1>1, <1>2, <1>4, <2>1, <2>2
<1> QED BY <1>7, <1>8 DEF t

\* What is taken off its back.
LEMMA FrontSet ==
  ASSUME NEW S, NEW q \in Seq(S), q # <<>>, IsInjective(q)
  PROVE  /\ SubSeq(q, 1, Len(q) - 1) \in Seq(S) /\ q[Len(q)] \in S /\ q[Len(q)] \in Range(q)
         /\ Range(SubSeq(q, 1, Len(q) - 1)) = Range(q) \ {q[Len(q)]} /\ IsInjective(SubSeq(q, 1, Len(q) - 1))
<1> DEFINE t == SubSeq(q, 1, Len(q) - 1)
<1>1. t \in Seq(S) /\ Len(t) = Len(q) - 1 /\ Len(q) \in Nat \ {0} /\ \A k \in 1 .. Len(q) - 1 : t[k] = q[k]
  BY FrontElements, LenPositive
<1>2. DOMAIN q = 1 .. Len(q) /\ DOMAIN t = 1 .. Len(q) - 1 /\ q[Len(q)] = q[Len(q)] /\ q[Len(q)] \in S
  BY <1>1
<1> HIDE DEF t
<1>3. \A j, m \in 1 .. Len(q) : q[j] = q[m] => j = m
  BY <1>2 DEF IsInjective
<1>5. Range(t) = Range(q) \ {q[Len(q)]}
  <2>1. \A x \in Range(t) : x \in Range(q) /\ x # q[Len(q)]
    BY <1>1, <1>2, <1>3 DEF Range
  <2>2. ASSUME NEW k \in 1 .. Len(q), q[k] # q[Len(q)] PROVE q[k] \in Range(t)
    <3>1. k \in 1 .. Len(q) - 1
      BY <1>1, <2>2
    <3> QED BY <1>1, <1>2, <3>1 DEF Range
  <2> QED BY <1>2, <2>1, <2>2, Zenon DEF Range
<1>6. IsInjective(t)
  <2> SUFFICES ASSUME NEW k \in 1 .. Len(q) - 1, NEW l \in 1 .. Len(q) - 1, t[k] = t[l] PROVE k = l
    BY <1>2 DEF IsInjective
  <2> QED BY <1>1, <1>3
<1>9. q[Len(q)] \in Range(q)
  BY <1>1, <1>2 DEF Range
<1> QED BY <1>1, <1>2, <1>5, <1>6, <1>9 DEF t

\* What is left is in order, and what is gone is at the end of it.
LEMMA FrontInOrder ==
  ASSUME NEW S, NEW q \in Seq(S), q # <<>>, NEW rank, Ranks(rank, S), InOrder(rank, q)
  PROVE  InOrder(rank, SubSeq(q, 1, Len(q) - 1)) /\ \A x \in Range(q) : rank[x] <= rank[q[Len(q)]]
<1> DEFINE t == SubSeq(q, 1, Len(q) - 1)
<1>1. t \in Seq(S) /\ Len(t) = Len(q) - 1 /\ Len(q) \in Nat \ {0} /\ \A k \in 1 .. Len(q) - 1 : t[k] = q[k]
  BY FrontElements, LenPositive
<1>2. DOMAIN q = 1 .. Len(q) /\ DOMAIN t = 1 .. Len(q) - 1 /\ q[Len(q)] = q[Len(q)] /\ q[Len(q)] \in S
  BY <1>1
<1> HIDE DEF t
<1>4. \A j, m \in 1 .. Len(q) : j < m => rank[q[j]] <= rank[q[m]]
  BY <1>2 DEF InOrder
<1>7. InOrder(rank, t)
  <2> SUFFICES ASSUME NEW k \in 1 .. Len(q) - 1, NEW l \in 1 .. Len(q) - 1, k < l PROVE rank[t[k]] <= rank[t[l]]
    BY <1>2 DEF InOrder
  <2> QED BY <1>1, <1>4
<1>8. ASSUME NEW x \in Range(q) PROVE rank[x] <= rank[q[Len(q)]]
  <2>1. PICK k \in 1 .. Len(q) : x = q[k]
    BY <1>2 DEF Range
  <2>2. rank[x] \in Int
    BY <1>1, <2>1 DEF Ranks
  <2> QED BY <1>1, <1>2, <1>4, <2>1, <2>2
<1> QED BY <1>7, <1>8 DEF t

\* What is added at its back.
LEMMA AppendSet ==
  ASSUME NEW S, NEW q \in Seq(S), NEW r \in S, r \notin Range(q), IsInjective(q)
  PROVE  /\ Append(q, r) \in Seq(S) /\ Range(Append(q, r)) = Range(q) \cup {r}
         /\ IsInjective(Append(q, r))
<1> DEFINE t == Append(q, r)
<1>1. /\ t \in Seq(S) /\ Len(t) = Len(q) + 1 /\ Len(q) \in Nat
      /\ t[Len(q) + 1] = r /\ \A k \in 1 .. Len(q) : t[k] = q[k]
  OBVIOUS
<1>2. DOMAIN q = 1 .. Len(q) /\ DOMAIN t = 1 .. Len(q) + 1
  BY <1>1
<1> HIDE DEF t
<1>3. \A j, m \in 1 .. Len(q) : q[j] = q[m] => j = m
  BY <1>2 DEF IsInjective
<1>4. \A j \in 1 .. Len(q) : q[j] # r /\ q[j] \in Range(q)
  BY <1>2 DEF Range
<1>5. Range(t) = Range(q) \cup {r}
  <2>1. \A k \in 1 .. Len(q) + 1 : k \in 1 .. Len(q) \/ k = Len(q) + 1
    BY <1>1
  <2> QED BY <1>1, <1>2, <2>1 DEF Range
<1>6. IsInjective(t)
  <2> SUFFICES ASSUME NEW k \in 1 .. Len(q) + 1, NEW l \in 1 .. Len(q) + 1, t[k] = t[l] PROVE k = l
    BY <1>2 DEF IsInjective
  <2> QED BY <1>1, <1>3, <1>4
<1> QED BY <1>1, <1>5, <1>6 DEF t

\* In order, if it comes behind all of them.
LEMMA AppendInOrder ==
  ASSUME NEW S, NEW q \in Seq(S), NEW r \in S, NEW rank, Ranks(rank, S), InOrder(rank, q),
         \A x \in Range(q) : rank[x] <= rank[r]
  PROVE  InOrder(rank, Append(q, r))
<1> DEFINE t == Append(q, r)
<1>1. /\ t \in Seq(S) /\ Len(t) = Len(q) + 1 /\ Len(q) \in Nat
      /\ t[Len(q) + 1] = r /\ \A k \in 1 .. Len(q) : t[k] = q[k]
  OBVIOUS
<1>2. DOMAIN q = 1 .. Len(q) /\ DOMAIN t = 1 .. Len(q) + 1
  BY <1>1
<1> HIDE DEF t
<1>4. \A j \in 1 .. Len(q) : q[j] \in Range(q)
  BY <1>2 DEF Range
<1>7. InOrder(rank, t)
  <2> SUFFICES ASSUME NEW k \in 1 .. Len(q) + 1, NEW l \in 1 .. Len(q) + 1, k < l PROVE rank[t[k]] <= rank[t[l]]
    BY <1>2 DEF InOrder
  <2>1. \A j, m \in 1 .. Len(q) : j < m => rank[q[j]] <= rank[q[m]]
    BY <1>2 DEF InOrder
  <2>2. k \in 1 .. Len(q) /\ t[k] = q[k]
    BY <1>1
  <2>3. CASE l = Len(q) + 1
    BY <1>1, <1>4, <2>2, <2>3
  <2>4. CASE l # Len(q) + 1
    BY <1>1, <2>1, <2>2, <2>4
  <2> QED BY <2>3, <2>4
<1> QED BY <1>7 DEF t

=============================================================================

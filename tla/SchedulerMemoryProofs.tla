----------------------- MODULE SchedulerMemoryProofs -----------------------
(***************************************************************************)
(* The memory and the preemption of the continuous batching scheduler, for *)
(* any requests, sequences, budgets and amount of memory: a request that   *)
(* is over holds no block, and what may be preempted is what waits.        *)
(*                                                                         *)
(* Of the block manager the proofs use one fact, KeepsEmpty: an operation  *)
(* for some sequences gives no block to any other.  The loops over the     *)
(* sequences of a request and over the batch are instances of Folding.     *)
(***************************************************************************)
EXTENDS SchedulerProofs

\* The provers for a leaf that names none, with time for a busy machine.
USE SMTT(60), ZenonT(60), Z3T(60)

---------------------------------------------------------------------------
(* The block manager: which operation gives blocks to which sequence.      *)

\* The part of the block manager's state that says which blocks a sequence has.
Shape(m) == "blk" \in DOMAIN m /\ DOMAIN m.blk = Seqs

\* Outside S, a sequence without blocks stays without.
KeepsEmpty(m, n, S) == Shape(n) /\ \A t \in Seqs \ S : m.blk[t] = <<>> => n.blk[t] = <<>>

\* cache_blocks_for gives and takes no block of a sequence.
LEMMA CacheKeeps ==
  ASSUME NEW m, Shape(m), NEW s, NEW tokens, NEW now
  PROVE  LET n == CacheBlocksFor(m, s, tokens, now) IN Shape(n) /\ n.blk = m.blk
BY DEF Shape, CacheBlocksFor, Uncount

\* release_blocks_for: the sequence has no block afterwards, no other gets one.
LEMMA ReleaseKeeps ==
  ASSUME NEW m, Shape(m), NEW s \in Seqs, NEW tokens, NEW now
  PROVE  LET n == ReleaseBlocksFor(m, s, tokens, now) IN KeepsEmpty(m, n, {}) /\ n.blk[s] = <<>>
<1> DEFINE c == CacheBlocksFor(m, s, tokens, now)
           n == [c EXCEPT !.blk[s] = <<>>, !.kv[s] = 0, !.ssm[s] = 0]
<1>1. Shape(c) /\ c.blk = m.blk
  BY CacheKeeps
<1> HIDE DEF c
<1>2. DOMAIN n = DOMAIN c /\ n.blk = [c.blk EXCEPT ![s] = <<>>]
  BY <1>1 DEF Shape
<1> HIDE DEF n
<1>3. KeepsEmpty(m, n, {}) /\ n.blk[s] = <<>>
  BY <1>1, <1>2 DEF KeepsEmpty, Shape
<1> QED BY <1>3 DEF n, c, ReleaseBlocksFor

\* A sequence that starts from the prefix cache.
LEMMA EnsureKeeps ==
  ASSUME NEW m, Shape(m), NEW s \in Seqs, NEW tokens, NEW now
  PROVE  KeepsEmpty(m, EnsureShared(m, s, tokens, now), {s})
<1>1. ASSUME NEW w, NEW pos PROVE KeepsEmpty(m, SetShared(m, s, w, pos), {s})
  <2> DEFINE c == [m EXCEPT !.cache = w.c, !.blk[s] = w.got, !.kv[s] = pos, !.ssm[s] = pos]
  <2>1. DOMAIN c = DOMAIN m /\ c.blk = [m.blk EXCEPT ![s] = w.got]
    BY DEF Shape
  <2> HIDE DEF c
  <2>2. KeepsEmpty(m, CountShared(c, w.got), {s})
    BY <2>1 DEF KeepsEmpty, Shape, CountShared
  <2>3. KeepsEmpty(m, [m EXCEPT !.cache = w.c], {s})
    BY DEF KeepsEmpty, Shape
  <2> QED BY <2>2, <2>3 DEF SetShared, c
<1>2. KeepsEmpty(m, m, {s})
  BY DEF KeepsEmpty
<1> QED BY <1>1, <1>2, ZenonT(60) DEF EnsureShared, AllocateShared, Share

\* Blocks until s has n of them, eviction included.
LEMMA GrowKeeps ==
  ASSUME NEW m, Shape(m), NEW s \in Seqs, NEW n
  PROVE  KeepsEmpty(m, GrowTo(m, s, n).m, {s})
<1> DEFINE e == HasEnoughBlocks(m, n - Len(m.blk[s]))
           more == n - Len(m.blk[s])
<1>1. DOMAIN e = {"ok", "m"} /\ Shape(e.m) /\ e.m.blk = m.blk
  BY DEF HasEnoughBlocks, Evicted, Shape
<1> HIDE DEF e
<1>2. KeepsEmpty(m, AppendBlocks(e, s, more).m, {s})
  <2>1. CASE e.ok
    <3> DEFINE f == [e EXCEPT !.m.blk[s] = @ \o AllocateFree(e.m, more), !.m.in_use = @ + more]
    <3>1. DOMAIN f.m = DOMAIN e.m /\ f.m.blk = [e.m.blk EXCEPT ![s] = @ \o AllocateFree(e.m, more)]
      BY <1>1, ZenonT(60) DEF Shape
    <3> HIDE DEF f
    <3>2. KeepsEmpty(m, f.m, {s})
      BY <1>1, <3>1 DEF KeepsEmpty, Shape
    <3> QED BY <2>1, <3>2 DEF AppendBlocks, f
  <2>2. CASE ~e.ok
    BY <1>1, <2>2 DEF AppendBlocks, KeepsEmpty
  <2> QED BY <2>1, <2>2
<1>3. KeepsEmpty(m, m, {s})
  BY DEF KeepsEmpty
<1> QED BY <1>2, <1>3 DEF GrowTo, e, more

\* One operation after another.
LEMMA EmptyTrans ==
  ASSUME NEW m, NEW n, NEW o, NEW S, NEW T, KeepsEmpty(m, n, S), KeepsEmpty(n, o, T), T \subseteq S
  PROVE  KeepsEmpty(m, o, S)
BY DEF KeepsEmpty

\* allocate_blocks_for
LEMMA AllocateKeeps ==
  ASSUME NEW m, Shape(m), NEW s \in Seqs, NEW tokens, NEW num, NEW now
  PROVE  KeepsEmpty(m, AllocateBlocksFor(m, s, tokens, num, now).m, {s})
<1> DEFINE e == EnsureShared(m, s, tokens, now)
<1>1. KeepsEmpty(m, e, {s}) /\ Shape(e)
  BY EnsureKeeps DEF KeepsEmpty
<1> HIDE DEF e
<1>2. KeepsEmpty(e, GrowTo(e, s, BlocksFor(num)).m, {s})
  BY <1>1, GrowKeeps
<1> QED BY <1>1, <1>2, EmptyTrans DEF AllocateBlocksFor, e

---------------------------------------------------------------------------
(* The loops of build_sequence_batch.                                      *)

\* The loop of release_blocks_for(Request*): what it was started with is c[1],
\* the sequences are c[2].
ReleaseOne(c, m, s) == ReleaseBlocksFor(m, s, tok[s], 0)

Released(c, i, m) == KeepsEmpty(c[1], m, {}) /\ \A k \in 1 .. i : m.blk[c[2][k]] = <<>>

Releasing == INSTANCE Folding WITH Op <- ReleaseOne, Inv <- Released

\* When the loop is over every sequence of the list is without blocks.
LEMMA ReleaseAllKeeps ==
  ASSUME NEW m, Shape(m), NEW ss \in Seq(Seqs)
  PROVE  LET n == ReleaseAll(m, ss) IN KeepsEmpty(m, n, {}) /\ \A s \in Range(ss) : n.blk[s] = <<>>
<1> DEFINE c == <<m, ss>>
<1>1. DOMAIN ss = 1 .. Len(ss) /\ Len(ss) \in Nat
  OBVIOUS
<1>2. Released(c, 0, m)
  BY DEF Released, KeepsEmpty
<1>3. ASSUME NEW i \in 1 .. Len(ss), NEW x, Released(c, i - 1, x)
      PROVE  Released(c, i, ReleaseOne(c, x, ss[i]))
  <2> DEFINE n == ReleaseOne(c, x, ss[i])
  <2>1. Shape(x) /\ KeepsEmpty(m, x, {}) /\ ss[i] \in Seqs /\ \A k \in 1 .. i - 1 : x.blk[ss[k]] = <<>>
    BY <1>1, <1>3 DEF Released, KeepsEmpty
  <2>2. KeepsEmpty(x, n, {}) /\ n.blk[ss[i]] = <<>>
    BY <2>1, ReleaseKeeps DEF ReleaseOne
  <2> HIDE DEF n
  <2>3. KeepsEmpty(m, n, {})
    BY <2>1, <2>2, EmptyTrans
  <2>4. ASSUME NEW k \in 1 .. i PROVE n.blk[ss[k]] = <<>>
    <3>1. ss[k] \in Seqs /\ (k # i => k \in 1 .. i - 1)
      BY <1>1
    <3> QED BY <2>1, <2>2, <3>1 DEF KeepsEmpty
  <2> QED BY <2>3, <2>4 DEF Released, n
<1>4. ReleaseAll(m, ss) = Releasing!Fold(c, m, ss)
  BY DEF ReleaseAll, ReleaseOne, FoldLeft, MapThenFoldSet, Max, Releasing!Fold, Releasing!MapThenFoldSet, Releasing!Largest
<1>5. Released(c, Len(ss), ReleaseAll(m, ss))
  <2> HIDE DEF c
  <2> QED BY <1>1, <1>2, <1>3, <1>4, SetInduction, Releasing!FoldInvariant
<1> QED BY <1>1, <1>5 DEF Released, Range

\* The loop over the sequences of request r in build_sequence_batch.
Visit(c, a, s) ==
  Consider(a, s, AllocateFor(a.m, s, Min({AvgSequenceTokenBudget, remaining.tokens - a.tokens})))

Considered(r, i, a) ==
  /\ DOMAIN a = {"m", "tokens", "picked", "stop", "enough", "fatal"}
  /\ KeepsEmpty(mem, a.m, Range(SequencesOf(r)))
  /\ IsList(a.picked) /\ (a.picked = <<>> => a.tokens = 0)
  /\ \A e \in Range(a.picked) : e[1] \in Range(SequencesOf(r))

Picking == INSTANCE Folding WITH Op <- Visit, Inv <- Considered

LEMMA EmptyList == IsList(<<>>) /\ Range(<<>>) = {}
BY DEF IsList, Range

\* The sequences a request has are among the ones it may get.
LEMMA SequencesIn ==
  ASSUME NEW r \in Requests
  PROVE  /\ SequencesOf(r) \in Seq(Seqs) /\ Range(SequencesOf(r)) \subseteq Range(SeqsOf[r])
         /\ Range(SeqsOf[r]) \subseteq Seqs
<1>1. SeqsOf[r] \in Seq(Seqs) /\ SeqsOf[r] # <<>>
  BY SchedulerAssumption
<1>2. Range(SeqsOf[r]) \subseteq Seqs /\ Head(SeqsOf[r]) \in Range(SeqsOf[r])
  BY <1>1 DEF Range
<1>3. Range(<<Head(SeqsOf[r])>>) = {Head(SeqsOf[r])} /\ <<Head(SeqsOf[r])>> \in Seq(Seqs)
  BY <1>2 DEF Range
<1> QED BY <1>1, <1>2, <1>3 DEF SequencesOf

\* ContinuousScheduler::allocate_blocks_for
LEMMA AllocateForKeeps ==
  ASSUME NEW m, Shape(m), NEW s \in Seqs, NEW budget
  PROVE  KeepsEmpty(m, AllocateFor(m, s, budget).res.m, {s})
<1> DEFINE e == EnsureShared(m, s, tok[s], 0)
           to == TargetLen(e.kv[s], Len(tok[s]), PromptLen(s), budget)
<1>1. KeepsEmpty(m, e, {s}) /\ Shape(e)
  BY EnsureKeeps DEF KeepsEmpty
<1>2. AllocateFor(m, s, budget).res = AllocateBlocksFor(e, s, tok[s], to, 0)
  BY DEF AllocateFor, AllocateWithin, AllocateTo
<1> HIDE DEF e, to
<1>3. KeepsEmpty(e, AllocateBlocksFor(e, s, tok[s], to, 0).m, {s})
  BY <1>1, AllocateKeeps
<1> QED BY <1>1, <1>2, <1>3, EmptyTrans

\* The candidates of r are sequences of r, and only they got blocks.
LEMMA CandidatesKeep ==
  ASSUME Shape(mem), NEW r \in Requests
  PROVE  Considered(r, Len(SequencesOf(r)), Candidates(r))
<1> DEFINE ss == SequencesOf(r)
           base == [m |-> mem, tokens |-> 0, picked |-> <<>>, stop |-> FALSE, enough |-> TRUE, fatal |-> FALSE]
<1>1. ss \in Seq(Seqs) /\ DOMAIN ss = 1 .. Len(ss) /\ Len(ss) \in Nat /\ \A i \in 1 .. Len(ss) : ss[i] \in Range(ss)
  BY SequencesIn DEF Range
<1>2. Considered(r, 0, base)
  BY EmptyList DEF Considered, KeepsEmpty
<1>3. ASSUME NEW i \in 1 .. Len(ss), NEW a, Considered(r, i - 1, a)
      PROVE  Considered(r, i, Visit(r, a, ss[i]))
  <2> DEFINE s == ss[i]
             x == AllocateFor(a.m, s, Min({AvgSequenceTokenBudget, remaining.tokens - a.tokens}))
  <2>1. s \in Seqs /\ s \in Range(ss) /\ Shape(a.m)
    BY <1>1, <1>3 DEF Considered, KeepsEmpty
  <2>2. KeepsEmpty(a.m, x.res.m, {s})
    BY <2>1, AllocateForKeeps, ZenonT(60)
  <2> HIDE DEF x, s
  <2>3. KeepsEmpty(mem, x.res.m, Range(SequencesOf(r)))
    BY <1>3, <2>1, <2>2, EmptyTrans DEF Considered
  <2>4. ASSUME NEW b, b = [a EXCEPT !.stop = TRUE] \/ b = [a EXCEPT !.stop = TRUE, !.fatal = TRUE]
                      \/ b = [a EXCEPT !.stop = TRUE, !.enough = FALSE, !.m = x.res.m]
        PROVE  Considered(r, i, b)
    BY <1>3, <2>3, <2>4, ZenonT(60) DEF Considered
  <2>5. ASSUME NEW b, b = [a EXCEPT !.m = x.res.m, !.tokens = @ + x.actual, !.picked = Append(@, <<s, x.actual>>)]
        PROVE  Considered(r, i, b)
    <3> DEFINE e == <<s, x.actual>>
    <3>1. /\ DOMAIN b = DOMAIN a /\ b.m = x.res.m /\ b.picked = Append(a.picked, e)
          /\ IsList(a.picked) /\ \A f \in Range(a.picked) : f[1] \in Range(ss)
          /\ DOMAIN a = {"m", "tokens", "picked", "stop", "enough", "fatal"}
      BY <1>3, <2>5 DEF Considered
    <3>2. e[1] \in Range(ss)
      BY <2>1
    <3> HIDE DEF e
    <3>3. IsList(b.picked) /\ b.picked # <<>> /\ Range(b.picked) = Range(a.picked) \cup {e}
      BY <3>1, AppendList
    <3> QED BY <2>3, <3>1, <3>2, <3>3 DEF Considered
  <2>6. Visit(r, a, s) = Consider(a, s, x)
    BY DEF Visit, x
  <2> QED BY <1>3, <2>4, <2>5, <2>6, Zenon DEF Consider, Considered, s
<1>4. Candidates(r) = Picking!Fold(r, base, ss)
  BY DEF Candidates, Visit, FoldLeft, MapThenFoldSet, Max, Picking!Fold, Picking!MapThenFoldSet, Picking!Largest
<1> HIDE DEF base, ss
<1>5. Considered(r, Len(ss), Picking!Fold(r, base, ss))
  BY <1>1, <1>2, <1>3, SetInduction, Picking!FoldInvariant
<1> QED BY <1>4, <1>5 DEF ss

\* The pass over the batch that spends what is left.
Again(c, a, i) ==
  Extend(a, i, a.left + batch[i][2], AllocateFor(a.m, batch[i][1], a.left + batch[i][2]))

InBatches == {e[1] : e \in Range(batch)}

Adjusted(c, i, a) ==
  /\ DOMAIN a = {"m", "left", "b", "fatal", "stop"}
  /\ KeepsEmpty(mem, a.m, InBatches)
  /\ a.b = [k \in DOMAIN batch |-> a.b[k]]

Adjusting == INSTANCE Folding WITH Op <- Again, Inv <- Adjusted

\* The pass gives blocks to sequences of the batch only and keeps its length.
LEMMA AdjustKeeps ==
  ASSUME Shape(mem), IsList(batch), InBatches \subseteq Seqs, Adjust
  PROVE  KeepsEmpty(mem, mem', InBatches) /\ IsList(batch') /\ (batch' = <<>> => batch = <<>>)
<1> DEFINE base == [m |-> mem, left |-> remaining.tokens, b |-> batch, fatal |-> FALSE,
                    stop |-> remaining.tokens = 0]
           n == Len(batch)
           is == [i \in DOMAIN batch |-> i]
<1>1. n \in Nat /\ DOMAIN batch = 1 .. n /\ batch = [k \in DOMAIN batch |-> batch[k]]
  BY DEF IsList
<1>2. DOMAIN is = 1 .. n /\ \A i \in 1 .. n : is[i] = i
  BY <1>1
<1>3. Adjusted(0, 0, base)
  BY <1>1 DEF Adjusted, KeepsEmpty
<1>4. ASSUME NEW i \in 1 .. n, NEW a, Adjusted(0, i - 1, a)
      PROVE  Adjusted(0, i, Again(0, a, is[i]))
  <2> DEFINE s == batch[i][1]
             all == a.left + batch[i][2]
             x == AllocateFor(a.m, s, all)
  <2>1. s \in Seqs /\ s \in InBatches /\ Shape(a.m)
    BY <1>1, <1>4 DEF Adjusted, KeepsEmpty, InBatches, Range
  <2>2. KeepsEmpty(a.m, x.res.m, {s})
    BY <2>1, AllocateForKeeps, Zenon
  <2> HIDE DEF x, s, all
  <2>3. KeepsEmpty(mem, x.res.m, InBatches)
    BY <1>4, <2>1, <2>2, EmptyTrans DEF Adjusted
  <2>4. Again(0, a, is[i]) = Extend(a, i, all, x)
    BY <1>2 DEF Again, x, s, all
  <2>5. ASSUME NEW b, b = [a EXCEPT !.stop = TRUE, !.fatal = TRUE] \/ b = [a EXCEPT !.stop = TRUE, !.m = x.res.m]
        PROVE  Adjusted(0, i, b)
    BY <1>4, <2>3, <2>5, Zenon DEF Adjusted
  <2>6. ASSUME NEW b, b = [a EXCEPT !.m = x.res.m, !.left = all - x.actual, !.b[i][2] = x.actual, !.stop = (all = x.actual)]
        PROVE  Adjusted(0, i, b)
    <3>1. DOMAIN b = DOMAIN a /\ b.m = x.res.m /\ b.b = [a.b EXCEPT ![i][2] = x.actual]
      BY <1>4, <2>6, ZenonT(60) DEF Adjusted
    <3> QED BY <1>1, <1>4, <2>3, <3>1, ZenonT(60) DEF Adjusted
  <2>7. Adjusted(0, i, a)
    BY <1>4 DEF Adjusted
  <2> DEFINE y == Extend(a, i, all, x)
  <2>8. \/ y = a
        \/ y = [a EXCEPT !.stop = TRUE, !.fatal = TRUE] \/ y = [a EXCEPT !.stop = TRUE, !.m = x.res.m]
        \/ y = [a EXCEPT !.m = x.res.m, !.left = all - x.actual, !.b[i][2] = x.actual, !.stop = (all = x.actual)]
    BY DEF Extend
  <2> HIDE DEF y
  <2>9. Adjusted(0, i, y)
    BY <2>5, <2>6, <2>7, <2>8
  <2> QED BY <2>4, <2>9 DEF y
<1> DEFINE a == Adjusting!Fold(0, base, is)
<1>5. mem' = a.m /\ batch' = a.b
  BY ZenonT(60) DEF Adjust, Again, FoldLeft, MapThenFoldSet, Max, Adjusting!Fold, Adjusting!MapThenFoldSet, Adjusting!Largest
<1>6. Adjusted(0, n, a)
  <2> HIDE DEF base, is, n
  <2> QED BY <1>1, <1>2, <1>3, <1>4, SetInduction, Adjusting!FoldInvariant
<1> HIDE DEF a, base, is
<1>7. batch' = [k \in 1 .. n |-> batch'[k]]
  BY <1>1, <1>5, <1>6 DEF Adjusted
<1>8. batch' \in Seq(Range(batch')) /\ DOMAIN batch' = 1 .. n
  <2>1. \A k \in 1 .. n : batch'[k] \in Range(batch')
    BY <1>7 DEF Range
  <2> QED BY <1>1, <1>7, <2>1
<1>9. batch' = <<>> => batch = <<>>
  <2>1. batch' = <<>> => DOMAIN batch' = {}
    OBVIOUS
  <2> QED BY <1>1, <1>8, <2>1
<1> QED BY <1>5, <1>6, <1>8, <1>9 DEF Adjusted, IsList

\* The same for the finished sequences of a request that goes on.
ReleaseOneFinished(c, m, s) == IF SeqFinished(s) THEN ReleaseBlocksFor(m, s, tok[s], 0) ELSE m

StillEmpty(c, i, m) == KeepsEmpty(c, m, {})

ReleasingFinished == INSTANCE Folding WITH Op <- ReleaseOneFinished, Inv <- StillEmpty

LEMMA ReleaseFinishedKeeps ==
  ASSUME NEW m, Shape(m), NEW ss \in Seq(Seqs)
  PROVE  KeepsEmpty(m, ReleaseFinished(m, ss), {})
<1>1. DOMAIN ss = 1 .. Len(ss) /\ Len(ss) \in Nat
  OBVIOUS
<1>2. StillEmpty(m, 0, m)
  BY DEF StillEmpty, KeepsEmpty
<1>3. ASSUME NEW i \in 1 .. Len(ss), NEW x, StillEmpty(m, i - 1, x)
      PROVE  StillEmpty(m, i, ReleaseOneFinished(m, x, ss[i]))
  <2>1. Shape(x) /\ KeepsEmpty(m, x, {}) /\ ss[i] \in Seqs
    BY <1>1, <1>3 DEF StillEmpty, KeepsEmpty
  <2>2. KeepsEmpty(x, ReleaseBlocksFor(x, ss[i], tok[ss[i]], 0), {})
    BY <2>1, ReleaseKeeps
  <2> QED BY <2>1, <2>2, EmptyTrans DEF StillEmpty, ReleaseOneFinished
<1>4. ReleaseFinished(m, ss) = ReleasingFinished!Fold(m, m, ss)
  BY DEF ReleaseFinished, ReleaseOneFinished, FoldLeft, MapThenFoldSet, Max, ReleasingFinished!Fold,
         ReleasingFinished!MapThenFoldSet, ReleasingFinished!Largest
<1>5. StillEmpty(m, Len(ss), ReleaseFinished(m, ss))
  BY <1>1, <1>2, <1>3, <1>4, SetInduction, ReleasingFinished!FoldInvariant
<1> QED BY <1>5 DEF StillEmpty

---------------------------------------------------------------------------
(* A request that is over holds no block.                                  *)

\* Of a request that is over no sequence has a block, of one that is not
\* expanded no sequence but the first.
Empty ==
  /\ Shape(mem)
  /\ \A r \in Requests : \A s \in Range(SeqsOf[r]) :
       r \in done \/ s \notin Range(SequencesOf(r)) => mem.blk[s] = <<>>

\* While a batch is filled and adjusted, its sequences belong to requests that
\* run.
BatchRuns ==
  /\ IsList(batch)
  /\ pc \in {"fill", "adjust"} =>
       \A e \in Range(batch) : \E r \in Range(running_requests) : e[1] \in Range(SequencesOf(r))

MemoryInv == QueueInv /\ preemptable_requests \in Seq(Requests) /\ Empty /\ BatchRuns

\* Sequences get blocks only of requests that are not over, and a request that
\* is over gives up all it has.
LEMMA EmptyStep ==
  ASSUME Empty, NEW S, KeepsEmpty(mem, mem', S), expanded \subseteq expanded',
         \A r \in Requests : \A s \in S \cap Range(SeqsOf[r]) : r \notin done' /\ s \in Range(SequencesOf(r)),
         \A r \in Requests : r \in done' \ done => \A s \in Range(SequencesOf(r)) : mem'.blk[s] = <<>>
  PROVE  Empty'
<1>1. Shape(mem')
  BY DEF KeepsEmpty
<1>2. ASSUME NEW r \in Requests, NEW s \in Range(SeqsOf[r]),
             r \in done' \/ s \notin Range(SequencesOf(r)')
      PROVE  mem'.blk[s] = <<>>
  <2>1. s \in Range(SequencesOf(r)) => s \in Range(SequencesOf(r)')
    BY <1>2 DEF SequencesOf
  <2>2. s \in Seqs /\ s \notin S
    BY <1>2, <2>1, SequencesIn
  <2>3. CASE r \in done \/ s \notin Range(SequencesOf(r))
    BY <2>2, <2>3 DEF Empty, KeepsEmpty
  <2>4. CASE r \notin done /\ s \in Range(SequencesOf(r))
    BY <1>2, <2>1, <2>4
  <2> QED BY <2>3, <2>4
<1> QED BY <1>1, <1>2 DEF Empty

\* A sequence belongs to one request.
LEMMA OneRequest ==
  ASSUME NEW r \in Requests, NEW q \in Requests, NEW s \in Range(SequencesOf(r)), s \in Range(SeqsOf[q])
  PROVE  q = r
BY SequencesIn, SchedulerAssumption, ZenonT(60)

Kept == Empty' /\ BatchRuns' /\ preemptable_requests' \in Seq(Requests)

\* Steps that leave memory, batch and running requests alone.
LEMMA NothingKept ==
  ASSUME MemoryInv, UNCHANGED <<mem, done, expanded, batch, running_requests, preemptable_requests>>,
         pc' \in {"fill", "adjust"} => pc \in {"fill", "adjust"}
  PROVE  Kept
<1>1. Empty'
  BY DEF MemoryInv, Empty, SequencesOf
<1>2. BatchRuns'
  BY DEF MemoryInv, BatchRuns, SequencesOf
<1> QED BY <1>1, <1>2 DEF Kept, MemoryInv

LEMMA DrainKeeps ==
  ASSUME MemoryInv, Drain
  PROVE  Kept
<1>1. UNCHANGED <<mem, done, batch, preemptable_requests>> /\ expanded \subseteq expanded' /\ pc' \notin {"fill", "adjust"}
  BY DEF Drain, queues
<1>2. KeepsEmpty(mem, mem', {})
  BY <1>1 DEF MemoryInv, Empty, KeepsEmpty
<1>3. Empty'
  BY <1>1, <1>2, EmptyStep DEF MemoryInv
<1>4. BatchRuns'
  BY <1>1 DEF MemoryInv, BatchRuns
<1> QED BY <1>1, <1>3, <1>4 DEF Kept, MemoryInv

LEMMA RecycleKeeps ==
  ASSUME MemoryInv, Recycle
  PROVE  Kept
<1> DEFINE r == Last(running_requests)
<1>1. running_requests # <<>> /\ UNCHANGED <<pc, batch>> /\ pc = "recycle"
  BY DEF Recycle
<1>2. r \in Requests
  BY <1>1, FrontSet DEF MemoryInv, QueueInv, QueueTypes, Apart, Last
<1>3. BatchRuns'
  BY <1>1 DEF MemoryInv, BatchRuns
<1>4. \/ /\ mem' = ReleaseAll(mem, SequencesOf(r)) /\ done' = done \cup {r}
         /\ UNCHANGED <<preemptable_requests, expanded>>
      \/ /\ mem' = ReleaseFinished(Grown(r), SequencesOf(r)) /\ done' = done
         /\ expanded \subseteq expanded' /\ preemptable_requests' = <<r>> \o preemptable_requests
  BY DEF Recycle
<1>5. Shape(mem) /\ SequencesOf(r) \in Seq(Seqs)
  BY <1>2, SequencesIn DEF MemoryInv, Empty
<1> HIDE DEF r
<1>6. CASE /\ mem' = ReleaseAll(mem, SequencesOf(r)) /\ done' = done \cup {r}
           /\ UNCHANGED <<preemptable_requests, expanded>>
  <2>1. KeepsEmpty(mem, mem', {}) /\ \A s \in Range(SequencesOf(r)) : mem'.blk[s] = <<>>
    BY <1>5, <1>6, ReleaseAllKeeps
  <2>2. Empty'
    BY <1>6, <2>1, EmptyStep DEF MemoryInv
  <2> QED BY <1>3, <1>6, <2>2 DEF Kept, MemoryInv
<1>7. CASE /\ mem' = ReleaseFinished(Grown(r), SequencesOf(r)) /\ done' = done
           /\ expanded \subseteq expanded' /\ preemptable_requests' = <<r>> \o preemptable_requests
  <2>1. Shape(Grown(r)) /\ KeepsEmpty(mem, Grown(r), {})
    BY <1>5, CacheKeeps DEF Grown, KeepsEmpty
  <2>2. KeepsEmpty(Grown(r), mem', {})
    BY <1>5, <1>7, <2>1, ReleaseFinishedKeeps
  <2>3. KeepsEmpty(mem, mem', {})
    BY <2>1, <2>2, EmptyTrans
  <2>4. Empty'
    BY <1>7, <2>3, EmptyStep DEF MemoryInv
  <2>5. preemptable_requests' \in Seq(Requests)
    BY <1>2, <1>7 DEF MemoryInv
  <2> QED BY <1>3, <2>4, <2>5 DEF Kept
<1> QED BY <1>4, <1>6, <1>7

LEMMA RecycledKeeps ==
  ASSUME MemoryInv, Recycled
  PROVE  Kept
<1>1. UNCHANGED <<mem, done, expanded, preemptable_requests>> /\ batch' = <<>>
  BY DEF Recycled, queues
<1>2. Empty'
  BY <1>1 DEF MemoryInv, Empty, SequencesOf
<1>3. BatchRuns'
  BY <1>1, EmptyList DEF BatchRuns
<1> QED BY <1>1, <1>2, <1>3 DEF Kept, MemoryInv

LEMMA AdjustKept ==
  ASSUME MemoryInv, Adjust
  PROVE  Kept
<1>1. UNCHANGED <<done, expanded, preemptable_requests>> /\ pc = "adjust" /\ pc' \notin {"fill", "adjust"}
  BY ZenonT(60) DEF Adjust, queues
<1>2. \A s \in InBatches : \E r \in Requests \ done : s \in Range(SequencesOf(r))
  BY <1>1 DEF InBatches, MemoryInv, BatchRuns, QueueInv, QueueTypes
<1>3. InBatches \subseteq Seqs
  BY <1>2, SequencesIn
<1>4. KeepsEmpty(mem, mem', InBatches) /\ IsList(batch')
  BY <1>3, AdjustKeeps DEF MemoryInv, Empty, BatchRuns
<1>5. \A r \in Requests : \A s \in InBatches \cap Range(SeqsOf[r]) : r \notin done' /\ s \in Range(SequencesOf(r))
  BY <1>1, <1>2, OneRequest
<1>6. Empty'
  BY <1>1, <1>4, <1>5, EmptyStep DEF MemoryInv
<1>7. BatchRuns'
  BY <1>1, <1>4 DEF BatchRuns
<1> QED BY <1>1, <1>6, <1>7 DEF Kept, MemoryInv

LEMMA ConcludeKeeps ==
  ASSUME MemoryInv, Conclude
  PROVE  Kept
<1>1. UNCHANGED <<expanded, preemptable_requests, batch, running_requests>> /\ pc' \notin {"fill", "adjust"}
  BY DEF Conclude
<1>2. CASE batch = <<>> /\ priority_queue # <<>>
  <2> DEFINE r == Head(priority_queue)
  <2>1. mem' = ReleaseAll(mem, SequencesOf(r)) /\ done' = done \cup {r}
    BY <1>2 DEF Conclude
  <2>2. r \in Requests
    BY <1>2, TailSet DEF MemoryInv, QueueInv, QueueTypes, Apart
  <2> HIDE DEF r
  <2>3. KeepsEmpty(mem, mem', {}) /\ \A s \in Range(SequencesOf(r)) : mem'.blk[s] = <<>>
    BY <2>1, <2>2, ReleaseAllKeeps, SequencesIn DEF MemoryInv, Empty
  <2>4. Empty'
    BY <1>1, <2>1, <2>3, EmptyStep DEF MemoryInv
  <2>5. BatchRuns'
    BY <1>1 DEF MemoryInv, BatchRuns
  <2> QED BY <1>1, <2>4, <2>5 DEF Kept, MemoryInv
<1>3. CASE ~(batch = <<>> /\ priority_queue # <<>>)
  BY <1>1, <1>3, NothingKept DEF Conclude
<1> QED BY <1>2, <1>3

LEMMA ExecuteKeeps ==
  ASSUME MemoryInv, Execute
  PROVE  Kept
<1>1. UNCHANGED <<done, expanded, preemptable_requests, batch>> /\ pc' \notin {"fill", "adjust"}
  BY DEF Execute, queues
<1>2. \E f, g : mem' = [mem EXCEPT !.kv = f, !.ssm = g]
  BY Zenon DEF Execute
<1>3. KeepsEmpty(mem, mem', {})
  BY <1>2 DEF MemoryInv, Empty, KeepsEmpty, Shape
<1>4. Empty'
  BY <1>1, <1>3, EmptyStep DEF MemoryInv
<1>5. BatchRuns'
  BY <1>1 DEF MemoryInv, BatchRuns
<1> QED BY <1>1, <1>4, <1>5 DEF Kept, MemoryInv

\* The candidates of the request on top of the queue join the batch.
LEMMA AdmittedRun ==
  ASSUME MemoryInv, NEW r \in Requests, NEW a, Considered(r, 0, a), pc = "fill", UNCHANGED expanded,
         batch' = batch \o a.picked, Range(running_requests)' = Range(running_requests) \cup {r}
  PROVE  BatchRuns'
<1>1. IsList(batch) /\ IsList(a.picked) /\ \A e \in Range(a.picked) : e[1] \in Range(SequencesOf(r))
  BY DEF Considered, MemoryInv, BatchRuns
<1>2. IsList(batch') /\ Range(batch') = Range(batch) \cup Range(a.picked)
  BY <1>1, ConcatList
<1>3. \A q \in Requests : SequencesOf(q)' = SequencesOf(q)
  BY DEF SequencesOf
<1>4. \A e \in Range(batch') : \E q \in Range(running_requests)' : e[1] \in Range(SequencesOf(q))
  BY <1>1, <1>2 DEF MemoryInv, BatchRuns
<1>5. Range(running_requests)' \subseteq Requests
  BY DEF MemoryInv, QueueInv, QueueTypes
<1> QED BY <1>2, <1>3, <1>4, <1>5 DEF BatchRuns

\* The blocks the filling hands out go to the request on top of the queue.
LEMMA FillKeeps ==
  ASSUME MemoryInv, Fill
  PROVE  Kept
<1> DEFINE r == Head(priority_queue)
           a == Candidates(r)
           v == Last(preemptable_requests)
<1>1. pc = "fill" /\ priority_queue # <<>> /\ UNCHANGED <<expanded, done>>
  BY DEF Fill, CanFill
<1>2. r \in Requests /\ r \notin done
  BY <1>1, TailSet DEF MemoryInv, QueueInv, QueueTypes, Apart
<1>3. Considered(r, 0, a)
  BY <1>2, CandidatesKeep DEF MemoryInv, Empty, Considered
<1>4. KeepsEmpty(mem, a.m, Range(SequencesOf(r))) /\ KeepsEmpty(mem, mem, Range(SequencesOf(r)))
  BY <1>3 DEF Considered, MemoryInv, Empty, KeepsEmpty
<1>5. /\ mem' = mem \/ mem' = a.m \/ (preemptable_requests # <<>> /\ mem' = Preempted(a.m, v, r))
      /\ \/ preemptable_requests' = preemptable_requests
         \/ preemptable_requests # <<>> /\ preemptable_requests' = Tail(preemptable_requests)
         \/ preemptable_requests # <<>> /\ preemptable_requests' = Front(preemptable_requests)
      /\ \/ UNCHANGED <<batch, running_requests>>
         \/ batch' = batch \o a.picked /\ running_requests' = Append(running_requests, r)
  BY ZenonT(60) DEF Fill, Admit, NotPreemptable
<1> HIDE DEF r, a
<1>6. preemptable_requests' \in Seq(Requests) /\ (preemptable_requests # <<>> => v \in Requests)
  <2>1. preemptable_requests \in Seq(Requests)
    BY DEF MemoryInv
  <2>2. preemptable_requests # <<>> =>
          /\ Tail(preemptable_requests) \in Seq(Requests) /\ Front(preemptable_requests) \in Seq(Requests)
          /\ v \in Requests
    BY <2>1, LenPositive, FrontElements DEF Front, Last
  <2> QED BY <1>5, <2>1, <2>2
<1>7. KeepsEmpty(mem, mem', Range(SequencesOf(r)))
  <2>1. CASE preemptable_requests # <<>> /\ mem' = Preempted(a.m, v, r)
    <3>1. KeepsEmpty(a.m, mem', {})
      BY <1>4, <1>6, <2>1, SequencesIn, ReleaseAllKeeps DEF Preempted, KeepsEmpty
    <3> QED BY <1>4, <3>1, EmptyTrans
  <2> QED BY <1>4, <1>5, <2>1
<1>8. Empty'
  <2>1. \A q \in Requests : \A s \in Range(SequencesOf(r)) \cap Range(SeqsOf[q]) : q \notin done' /\ s \in Range(SequencesOf(q))
    BY <1>1, <1>2, OneRequest
  <2> QED BY <1>1, <1>7, <2>1, EmptyStep DEF MemoryInv
<1>9. BatchRuns'
  <2>1. CASE UNCHANGED <<batch, running_requests>>
    BY <1>1, <2>1 DEF MemoryInv, BatchRuns, SequencesOf
  <2>2. CASE batch' = batch \o a.picked /\ running_requests' = Append(running_requests, r)
    <3>1. Range(running_requests)' = Range(running_requests) \cup {r}
      BY <2>2, AppendList, SeqIsList DEF MemoryInv, QueueInv, QueueTypes
    <3> QED BY <1>1, <1>2, <1>3, <2>2, <3>1, AdmittedRun
  <2> QED BY <1>5, <2>1, <2>2
<1> QED BY <1>6, <1>8, <1>9 DEF Kept

LEMMA InitMemory == Init => MemoryInv
<1> SUFFICES ASSUME Init PROVE MemoryInv
  OBVIOUS
<1>1. mem = InitMem /\ done = {} /\ batch = <<>> /\ preemptable_requests = <<>> /\ pc = "drain"
  BY DEF Init
<1>2. Shape(mem) /\ \A s \in Seqs : mem.blk[s] = <<>>
  BY <1>1 DEF InitMem, Shape
<1>3. Empty
  BY <1>2, SequencesIn DEF Empty
<1>4. BatchRuns
  BY <1>1, EmptyList DEF BatchRuns
<1> QED BY <1>1, <1>3, <1>4, InitQueues DEF MemoryInv

LEMMA NextMemory == MemoryInv /\ [Next]_vars => MemoryInv'
<1> SUFFICES ASSUME MemoryInv, [Next]_vars PROVE Kept
  BY NextQueues DEF Kept, MemoryInv
<1>1. ASSUME NEW r \in Requests, Schedule(r) \/ DecPending(r) \/ Cancel(r) PROVE Kept
  BY <1>1, NothingKept DEF Schedule, DecPending, Cancel, queues
<1>2. CASE Filled \/ Poll \/ Output \/ UNCHANGED vars
  BY <1>2, NothingKept DEF Filled, Poll, Output, vars, queues
<1>3. CASE Drain \/ Recycle \/ Recycled \/ Fill
  BY <1>3, DrainKeeps, RecycleKeeps, RecycledKeeps, FillKeeps
<1>4. CASE Adjust \/ Conclude \/ Execute
  BY <1>4, AdjustKept, ConcludeKeeps, ExecuteKeeps
<1> QED BY <1>1, <1>2, <1>3, <1>4 DEF Next, SchedulerStep

\* A request that is over holds no block (DoneHoldsNothing), for any requests,
\* sequences, budgets and memory, with and without a prefix cache: whether
\* Recycle finds it finished or cancelled or Conclude gives it up, its
\* sequences are released, and no later allocation of the filling or the
\* adjusting pass is for a sequence of it.
THEOREM DoneRequestsHoldNothing == Spec => []DoneHoldsNothing
<1>1. Spec => []MemoryInv
  BY InitMemory, NextMemory, PTL DEF Spec
<1>2. MemoryInv => DoneHoldsNothing
  BY DEF MemoryInv, QueueInv, QueueTypes, Empty, DoneHoldsNothing, HoldsBlocks
<1> QED BY <1>1, <1>2, PTL

---------------------------------------------------------------------------
(* What may be preempted.  preemptable_requests is filled from the back of *)
(* running_requests and trimmed at its ends only; that it holds no request *)
(* twice and none that left the priority queue rests on the order of the   *)
(* requests being strict.                                                  *)

\* No two requests have the same priority and the same time of creation.
DistinctRanks == \A r, q \in Requests : Rank[r] = Rank[q] => r = q

Preemptable ==
  /\ Range(preemptable_requests) \subseteq Range(priority_queue)
  /\ IsInjective(preemptable_requests) /\ InOrder(Rank, preemptable_requests)
  /\ \A x \in Range(running_requests), y \in Range(preemptable_requests) : Rank[x] <= Rank[y]

FullBudget ==
  [tokens |-> Max({MaxTokensPerBatch, MaxSeqsPerBatch * AvgSequenceTokenBudget}), seqs |-> MaxSeqsPerBatch]

\* Without a sequence in the batch nothing of the budgets is spent, and when
\* the filling stops without one although something waits, nothing is left to
\* preempt.
Exhausted ==
  /\ pc = "fill" /\ batch = <<>> => remaining = FullBudget
  /\ pc \in {"adjust", "conclude"} /\ batch = <<>> /\ priority_queue # <<>> => preemptable_requests = <<>>

PreemptInv == MemoryInv /\ Preemptable /\ Exhausted

\* The whole budget has room for a sequence.
LEMMA RoomForOne ==
  /\ FullBudget.tokens \in Int /\ FullBudget.tokens > NumSpec
  /\ FullBudget.seqs \in Int /\ FullBudget.seqs > 0
<1>1. ASSUME NEW a \in Int, NEW b \in Int PROVE Max({a, b}) \in Int /\ Max({a, b}) >= a /\ Max({a, b}) >= b
  <2>1. \E x \in {a, b} : \A y \in {a, b} : x >= y
    <3>1. CASE a >= b
      BY <3>1
    <3>2. CASE b >= a
      BY <3>2
    <3> QED BY <3>1, <3>2
  <2> QED BY <2>1 DEF Max
<1>2. /\ MaxTokensPerBatch \in Nat /\ MaxSeqsPerBatch \in Nat /\ MaxSeqsPerBatch >= 1 /\ NumSpec \in Nat
      /\ MaxTokensPerBatch \div MaxSeqsPerBatch \in Int
  BY SchedulerAssumption, EngineAssumption
<1>3. AvgSequenceTokenBudget \in Int /\ AvgSequenceTokenBudget >= 1 + NumSpec
  <2> DEFINE a == MaxTokensPerBatch \div MaxSeqsPerBatch
             b == 1 + NumSpec
  <2>1. a \in Int /\ b \in Int
    BY <1>2
  <2> HIDE DEF a, b
  <2>2. Max({a, b}) \in Int /\ Max({a, b}) >= b
    BY <1>1, <2>1, ZenonT(60)
  <2> QED BY <2>2 DEF AvgSequenceTokenBudget, a, b
<1>4. /\ MaxSeqsPerBatch * AvgSequenceTokenBudget \in Int
      /\ MaxSeqsPerBatch * AvgSequenceTokenBudget >= AvgSequenceTokenBudget
  <2>1. ASSUME NEW k \in Nat, k >= 1, NEW n \in Nat PROVE k * n \in Int /\ k * n >= n
    BY <2>1
  <2> QED BY <1>2, <1>3, <2>1
<1>5. FullBudget.tokens >= MaxSeqsPerBatch * AvgSequenceTokenBudget /\ FullBudget.tokens \in Int
  <2> DEFINE b == MaxSeqsPerBatch * AvgSequenceTokenBudget
  <2>1. b \in Int /\ MaxTokensPerBatch \in Int
    BY <1>2, <1>4
  <2> HIDE DEF b
  <2>2. Max({MaxTokensPerBatch, b}) \in Int /\ Max({MaxTokensPerBatch, b}) >= b
    BY <1>1, <2>1
  <2> QED BY <2>2 DEF FullBudget, b
<1> QED BY <1>2, <1>3, <1>4, <1>5 DEF FullBudget

\* A step that moves no request.
LEMMA PreemptSame ==
  ASSUME PreemptInv, Exhausted', UNCHANGED <<preemptable_requests, priority_queue, running_requests>>
  PROVE  Preemptable' /\ Exhausted'
BY DEF PreemptInv, Preemptable

LEMMA DrainPreempts ==
  ASSUME PreemptInv, Drain
  PROVE  Preemptable' /\ Exhausted'
<1>1. pc = "drain" /\ pc' \in {"drain", "recycle"} /\ UNCHANGED <<running_requests, preemptable_requests>>
  BY DEF Drain, queues
<1>2. Exhausted'
  BY <1>1 DEF Exhausted
<1>3. CASE request_queue = <<>>
  BY <1>2, <1>3, PreemptSame DEF Drain, queues
<1>4. CASE request_queue # <<>>
  <2> DEFINE r == Head(request_queue)
  <2>1. /\ request_queue \in Seq(Requests) /\ IsInjective(request_queue) /\ priority_queue \in Seq(Requests)
        /\ IsInjective(priority_queue) /\ InOrder(Rank, priority_queue)
        /\ Range(request_queue) \cap Range(priority_queue) = {}
    BY DEF PreemptInv, MemoryInv, QueueInv, QueueTypes, Apart, Ordered
  <2>2. r \in Requests /\ r \notin Range(priority_queue)
    BY <1>4, <2>1, TailSet
  <2>3. priority_queue' \in Pushed(priority_queue, r)
    BY <1>4 DEF Drain
  <2> HIDE DEF r
  <2>4. Range(priority_queue') = Range(priority_queue) \cup {r}
    BY <2>1, <2>2, <2>3, PushedIn
  <2> QED BY <1>1, <1>2, <2>4 DEF PreemptInv, Preemptable
<1> QED BY <1>3, <1>4

LEMMA RecyclePreempts ==
  ASSUME PreemptInv, Recycle
  PROVE  Preemptable' /\ Exhausted'
<1> DEFINE r == Last(running_requests)
<1>1. /\ pc = "recycle" /\ pc' = "recycle" /\ running_requests # <<>>
      /\ running_requests' = Front(running_requests)
      /\ \/ UNCHANGED <<priority_queue, preemptable_requests>>
         \/ /\ preemptable_requests' = <<r>> \o preemptable_requests
            /\ priority_queue' \in Pushed(priority_queue, r)
  BY DEF Recycle
<1>2. Exhausted'
  BY <1>1 DEF Exhausted
<1>3. /\ running_requests \in Seq(Requests) /\ IsInjective(running_requests) /\ InOrder(Rank, running_requests)
      /\ priority_queue \in Seq(Requests) /\ IsInjective(priority_queue) /\ InOrder(Rank, priority_queue)
      /\ Range(running_requests) \cap Range(priority_queue) = {}
      /\ preemptable_requests \in Seq(Requests)
  BY DEF PreemptInv, MemoryInv, QueueInv, QueueTypes, Apart, Ordered
<1>4. /\ Range(running_requests') = Range(running_requests) \ {r}
      /\ r \in Range(running_requests) /\ r \in Requests /\ \A x \in Range(running_requests) : Rank[x] <= Rank[r]
  BY <1>1, <1>3, RankAll, FrontSet, FrontInOrder DEF Front, Last
<1> HIDE DEF r
<1>5. /\ Range(preemptable_requests) \subseteq Range(priority_queue)
      /\ IsInjective(preemptable_requests) /\ InOrder(Rank, preemptable_requests)
      /\ \A x \in Range(running_requests), y \in Range(preemptable_requests) : Rank[x] <= Rank[y]
  BY DEF PreemptInv, Preemptable
<1>6. CASE UNCHANGED <<priority_queue, preemptable_requests>>
  BY <1>2, <1>4, <1>5, <1>6 DEF Preemptable
<1>7. CASE /\ preemptable_requests' = <<r>> \o preemptable_requests
           /\ priority_queue' \in Pushed(priority_queue, r)
  <2>1. r \notin Range(priority_queue) /\ r \notin Range(preemptable_requests)
    BY <1>3, <1>4, <1>5
  <2>2. Range(priority_queue') = Range(priority_queue) \cup {r}
    BY <1>3, <1>4, <1>7, <2>1, PushedIn
  <2>3. /\ Range(preemptable_requests') = Range(preemptable_requests) \cup {r}
        /\ IsInjective(preemptable_requests') /\ InOrder(Rank, preemptable_requests')
    BY <1>3, <1>4, <1>5, <1>7, <2>1, RankAll, PrependQueue, ZenonT(60)
  <2>4. \A x \in Range(running_requests'), y \in Range(preemptable_requests') : Rank[x] <= Rank[y]
    BY <1>4, <1>5, <2>3
  <2> QED BY <1>2, <1>5, <2>2, <2>3, <2>4 DEF Preemptable
<1> QED BY <1>1, <1>6, <1>7

\* The request r on top of the queue is scheduled: if it may be preempted it
\* is the first that may, so that it is not among what is left.
LEMMA ScheduledNotPreemptable ==
  ASSUME DistinctRanks, PreemptInv, priority_queue # <<>>, NEW p, p = NotPreemptable(Head(priority_queue))
  PROVE  /\ Range(p) \subseteq Range(preemptable_requests) \ {Head(priority_queue)}
         /\ IsInjective(p) /\ InOrder(Rank, p)
<1> DEFINE r == Head(priority_queue)
           q == preemptable_requests
<1>1. /\ priority_queue \in Seq(Requests) /\ IsInjective(priority_queue) /\ InOrder(Rank, priority_queue)
      /\ q \in Seq(Requests) /\ IsInjective(q) /\ InOrder(Rank, q) /\ Range(q) \subseteq Range(priority_queue)
  BY DEF PreemptInv, Preemptable, MemoryInv, QueueInv, QueueTypes, Apart, Ordered
<1>2. r \in Requests /\ \A x \in Range(priority_queue) : Rank[r] <= Rank[x]
  BY <1>1, TailSet, TailInOrder, RankAll
<1>3. p = IF q # <<>> /\ Head(q) = r THEN Tail(q) ELSE q
  BY DEF NotPreemptable
<1> HIDE DEF r, q
<1>4. CASE q # <<>> /\ Head(q) = r
  <2>1. Range(Tail(q)) = Range(q) \ {Head(q)} /\ IsInjective(Tail(q)) /\ InOrder(Rank, Tail(q))
    BY <1>1, <1>4, TailSet, TailInOrder, RankAll
  <2> QED BY <1>3, <1>4, <2>1, ZenonT(60) DEF r, q
<1>5. CASE q = <<>>
  <2>1. Range(q) = {}
    BY <1>5 DEF Range
  <2> QED BY <1>1, <1>3, <1>5, <2>1 DEF q
<1>6. CASE q # <<>> /\ Head(q) # r
  <2>1. Head(q) \in Requests /\ Head(q) \in Range(q) /\ \A x \in Range(q) : Rank[Head(q)] <= Rank[x]
    BY <1>1, <1>6, TailSet, TailInOrder, RankAll
  <2>2. Rank[r] <= Rank[Head(q)] /\ Rank[r] \in Int /\ Rank[Head(q)] \in Int
    BY <1>1, <1>2, <2>1, RankAll DEF Ranks
  <2>3. r \notin Range(q)
    BY <1>2, <1>6, <2>1, <2>2 DEF DistinctRanks
  <2> QED BY <1>1, <1>3, <1>6, <2>3 DEF r, q
<1> QED BY <1>4, <1>5, <1>6

\* It joins the running requests.
LEMMA AdmitPreempts ==
  ASSUME DistinctRanks, PreemptInv, pc = "fill", priority_queue # <<>>, NEW a,
         Admit(Head(priority_queue), a), preemptable_requests' = NotPreemptable(Head(priority_queue))
  PROVE  Preemptable'
<1> DEFINE r == Head(priority_queue)
<1>1. /\ priority_queue \in Seq(Requests) /\ IsInjective(priority_queue) /\ InOrder(Rank, priority_queue)
      /\ running_requests \in Seq(Requests) /\ Range(preemptable_requests) \subseteq Range(priority_queue)
      /\ \A x \in Range(running_requests), y \in Range(preemptable_requests) : Rank[x] <= Rank[y]
  BY DEF PreemptInv, Preemptable, MemoryInv, QueueInv, QueueTypes, Apart, Ordered
<1>2. priority_queue' = Tail(priority_queue) /\ running_requests' = Append(running_requests, r)
  BY DEF Admit
<1>3. /\ r \in Requests /\ \A x \in Range(priority_queue) : Rank[r] <= Rank[x]
      /\ Range(priority_queue') = Range(priority_queue) \ {r}
  BY <1>1, <1>2, TailSet, TailInOrder, RankAll
<1>4. Range(running_requests') = Range(running_requests) \cup {r}
  BY <1>1, <1>2, <1>3, AppendList, SeqIsList
<1>5. /\ Range(preemptable_requests') \subseteq Range(preemptable_requests) \ {r}
      /\ IsInjective(preemptable_requests') /\ InOrder(Rank, preemptable_requests')
  BY ScheduledNotPreemptable
<1> HIDE DEF r
<1>6. \A x \in Range(running_requests'), y \in Range(preemptable_requests') : Rank[x] <= Rank[y]
  BY <1>1, <1>3, <1>4, <1>5
<1> QED BY <1>1, <1>3, <1>5, <1>6 DEF Preemptable

\* An empty list of candidates spends nothing.
LEMMA NothingSpent ==
  ASSUME MemoryInv, Exhausted, pc = "fill", NEW r \in Requests, NEW a, Considered(r, 0, a), Admit(r, a), batch' = <<>>
  PROVE  batch = <<>> /\ remaining' = FullBudget
<1>1. IsList(batch) /\ IsList(a.picked) /\ batch' = batch \o a.picked
      /\ remaining' = [tokens |-> remaining.tokens - a.tokens, seqs |-> remaining.seqs - Len(a.picked)]
  BY DEF Admit, Considered, MemoryInv, BatchRuns
<1>2. batch = <<>> /\ a.picked = <<>>
  <2>1. Range(batch') = Range(batch) \cup Range(a.picked) /\ Range(batch') = {}
    BY <1>1, ConcatList, EmptyList
  <2> QED BY <1>1, <2>1, NoElement, Zenon
<1>3. a.tokens = 0 /\ Len(a.picked) = 0
  BY <1>2 DEF Considered
<1>4. remaining = FullBudget
  BY <1>2 DEF Exhausted
<1>5. FullBudget.tokens \in Int /\ FullBudget.seqs \in Int
  BY RoomForOne DEF FullBudget
<1>6. FullBudget.tokens - 0 = FullBudget.tokens /\ FullBudget.seqs - 0 = FullBudget.seqs
  BY <1>5
<1> QED BY <1>1, <1>2, <1>3, <1>4, <1>6 DEF FullBudget

LEMMA FillPreempts ==
  ASSUME DistinctRanks, PreemptInv, Fill
  PROVE  Preemptable' /\ Exhausted'
<1> DEFINE r == Head(priority_queue)
           a == Candidates(r)
<1>1. pc = "fill" /\ priority_queue # <<>>
  BY DEF Fill, CanFill
<1>2. r \in Requests
  BY <1>1, TailSet DEF PreemptInv, MemoryInv, QueueInv, QueueTypes, Apart
<1>3. Considered(r, 0, a)
  BY <1>2, CandidatesKeep DEF PreemptInv, MemoryInv, Empty, Considered
<1>4. \/ pc' = "crashed" /\ UNCHANGED <<priority_queue, running_requests, preemptable_requests>>
      \/ pc' = pc /\ Admit(r, a) /\ preemptable_requests' = NotPreemptable(r)
      \/ /\ preemptable_requests # <<>> /\ preemptable_requests' = Front(preemptable_requests)
         /\ UNCHANGED <<pc, priority_queue, running_requests, batch, remaining>>
      \/ /\ preemptable_requests = <<>> /\ UNCHANGED preemptable_requests /\ pc' = "adjust"
         /\ Admit(r, a) \/ UNCHANGED <<priority_queue, running_requests, batch, remaining>>
  BY DEF Fill
<1> HIDE DEF a
<1>5. CASE pc' = "crashed" /\ UNCHANGED <<priority_queue, running_requests, preemptable_requests>>
  <2>1. Exhausted'
    BY <1>5 DEF Exhausted
  <2> QED BY <1>5, <2>1, PreemptSame
<1>6. CASE pc' = pc /\ Admit(r, a) /\ preemptable_requests' = NotPreemptable(r)
  <2>1. Preemptable'
    BY <1>1, <1>6, AdmitPreempts
  <2>2. batch' = <<>> => remaining' = FullBudget
    BY <1>1, <1>2, <1>3, <1>6, NothingSpent DEF PreemptInv
  <2>3. Exhausted'
    BY <1>1, <1>6, <2>2 DEF Exhausted, FullBudget, AvgSequenceTokenBudget
  <2> QED BY <2>1, <2>3
<1>7. CASE /\ preemptable_requests # <<>> /\ preemptable_requests' = Front(preemptable_requests)
           /\ UNCHANGED <<pc, priority_queue, running_requests, batch, remaining>>
  <2>1. /\ preemptable_requests \in Seq(Requests) /\ IsInjective(preemptable_requests)
        /\ InOrder(Rank, preemptable_requests)
    BY DEF PreemptInv, MemoryInv, Preemptable
  <2>2. /\ Range(preemptable_requests') \subseteq Range(preemptable_requests)
        /\ IsInjective(preemptable_requests') /\ InOrder(Rank, preemptable_requests')
    BY <1>7, <2>1, RankAll, FrontSet, FrontInOrder DEF Front
  <2>3. Preemptable'
    BY <1>7, <2>2 DEF PreemptInv, Preemptable
  <2>4. Exhausted'
    BY <1>1, <1>7 DEF PreemptInv, Exhausted, FullBudget, AvgSequenceTokenBudget
  <2> QED BY <2>3, <2>4
<1>8. CASE /\ preemptable_requests = <<>> /\ UNCHANGED preemptable_requests /\ pc' = "adjust"
           /\ Admit(r, a) \/ UNCHANGED <<priority_queue, running_requests, batch, remaining>>
  <2>1. Exhausted'
    BY <1>8 DEF Exhausted
  <2>2. CASE Admit(r, a)
    <3>1. preemptable_requests' = NotPreemptable(r)
      BY <1>8 DEF NotPreemptable
    <3> QED BY <1>1, <2>1, <2>2, <3>1, AdmitPreempts
  <2> QED BY <1>8, <2>1, <2>2, PreemptSame
<1> QED BY <1>4, <1>5, <1>6, <1>7, <1>8

\* The filling stops for lack of budget only when something is in the batch.
LEMMA FilledPreempts ==
  ASSUME PreemptInv, Filled
  PROVE  Preemptable' /\ Exhausted'
<1>1. /\ pc = "fill" /\ ~CanFill /\ pc' = "adjust" /\ UNCHANGED <<batch, remaining>>
      /\ UNCHANGED <<priority_queue, running_requests, preemptable_requests>>
  BY DEF Filled, queues
<1>2. batch # <<>> \/ priority_queue = <<>>
  BY <1>1, RoomForOne DEF PreemptInv, Exhausted, CanFill
<1>3. Exhausted'
  BY <1>1, <1>2 DEF Exhausted
<1> QED BY <1>1, <1>3, PreemptSame

LEMMA AdjustPreempts ==
  ASSUME PreemptInv, Adjust
  PROVE  Preemptable' /\ Exhausted'
<1>1. /\ pc = "adjust" /\ pc' \in {"conclude", "crashed"}
      /\ UNCHANGED <<priority_queue, running_requests, preemptable_requests>>
  BY ZenonT(60) DEF Adjust, queues
<1>2. InBatches \subseteq Seqs
  <2>1. ASSUME NEW e \in Range(batch) PROVE e[1] \in Seqs
    <3>1. PICK r \in Range(running_requests) : e[1] \in Range(SequencesOf(r))
      BY <1>1, <2>1 DEF PreemptInv, MemoryInv, BatchRuns
    <3>2. r \in Requests
      BY DEF PreemptInv, MemoryInv, QueueInv, QueueTypes
    <3> QED BY <3>1, <3>2, SequencesIn
  <2> QED BY <2>1 DEF InBatches
<1>3. batch' = <<>> => batch = <<>>
  BY <1>2, AdjustKeeps DEF PreemptInv, MemoryInv, Empty, BatchRuns
<1>4. Exhausted'
  BY <1>1, <1>3 DEF PreemptInv, Exhausted
<1> QED BY <1>1, <1>4, PreemptSame

\* A request is given up when nothing may be preempted any more.
LEMMA ConcludePreempts ==
  ASSUME PreemptInv, Conclude
  PROVE  Preemptable' /\ Exhausted'
<1>1. /\ pc = "conclude" /\ pc' \in {"execute", "poll", "drain"}
      /\ UNCHANGED <<running_requests, preemptable_requests>>
  BY DEF Conclude
<1>2. Exhausted'
  BY <1>1 DEF Exhausted
<1>3. CASE batch = <<>> /\ priority_queue # <<>>
  <2>1. preemptable_requests = <<>>
    BY <1>1, <1>3 DEF PreemptInv, Exhausted
  <2>2. Range(preemptable_requests') = {}
    BY <1>1, <2>1 DEF Range
  <2> QED BY <1>1, <1>2, <2>2 DEF PreemptInv, Preemptable
<1>4. CASE ~(batch = <<>> /\ priority_queue # <<>>)
  BY <1>1, <1>2, <1>4, PreemptSame DEF Conclude
<1> QED BY <1>3, <1>4

LEMMA OthersPreempt ==
  ASSUME PreemptInv,
         \/ \E r \in Requests : Schedule(r) \/ DecPending(r) \/ Cancel(r)
         \/ Recycled \/ Poll \/ Execute \/ Output \/ UNCHANGED vars
  PROVE  Preemptable' /\ Exhausted'
<1> USE DEF queues
<1>1. ASSUME UNCHANGED <<pc, priority_queue, running_requests, preemptable_requests, batch, remaining>>
      PROVE  Preemptable' /\ Exhausted'
  BY <1>1, PreemptSame DEF PreemptInv, Exhausted, FullBudget, AvgSequenceTokenBudget
<1>2. CASE \/ \E r \in Requests : Schedule(r) \/ DecPending(r) \/ Cancel(r)
           \/ UNCHANGED vars
  BY <1>1, <1>2 DEF Schedule, DecPending, Cancel, vars
<1>3. CASE Recycled
  <2>1. Exhausted'
    BY <1>3 DEF Recycled, Exhausted, FullBudget, AvgSequenceTokenBudget
  <2> QED BY <1>3, <2>1, PreemptSame DEF Recycled
<1>4. CASE Poll \/ Execute \/ Output
  <2>1. pc' \in {"drain", "returned", "crashed", "output"}
        /\ UNCHANGED <<priority_queue, running_requests, preemptable_requests>>
    BY <1>4, ZenonT(60) DEF Poll, Execute, Output
  <2>2. Exhausted'
    BY <2>1 DEF Exhausted
  <2> QED BY <2>1, <2>2, PreemptSame
<1> QED BY <1>2, <1>3, <1>4

LEMMA InitPreempts == Init => PreemptInv
<1> SUFFICES ASSUME Init PROVE PreemptInv
  OBVIOUS
<1>1. pc = "drain" /\ preemptable_requests = <<>>
  BY DEF Init
<1>2. Range(<<>>) = {} /\ IsInjective(<<>>) /\ InOrder(Rank, <<>>)
  BY DEF Range, IsInjective, InOrder
<1> QED BY <1>1, <1>2, InitMemory DEF PreemptInv, Preemptable, Exhausted

LEMMA NextPreempts == DistinctRanks /\ PreemptInv /\ [Next]_vars => PreemptInv'
<1> SUFFICES ASSUME DistinctRanks, PreemptInv, [Next]_vars PROVE Preemptable' /\ Exhausted'
  BY NextMemory DEF PreemptInv
<1>1. CASE Drain \/ Recycle \/ Fill \/ Filled \/ Adjust \/ Conclude
  BY <1>1, DrainPreempts, RecyclePreempts, FillPreempts, FilledPreempts, AdjustPreempts, ConcludePreempts
<1>2. CASE \/ \E r \in Requests : Schedule(r) \/ DecPending(r) \/ Cancel(r)
           \/ Recycled \/ Poll \/ Execute \/ Output \/ UNCHANGED vars
  BY <1>2, OthersPreempt
<1> QED BY <1>1, <1>2 DEF Next, SchedulerStep

\* A request has one owner (OneOwner) and preemptable_requests_ holds only
\* requests that wait, once and in order, when no two requests have the same
\* priority and created_time: the raw pointers it keeps from round to round
\* are never those of a request that runs or was deleted.  That a request
\* scheduled from the front of the priority queue is found at the front of
\* preemptable_requests_ needs the order to be strict; that none is left in it
\* when a request is given up needs the budgets of an empty batch to be whole.
THEOREM RequestsHaveOneOwner == DistinctRanks /\ Spec => []OneOwner
<1>1. DistinctRanks /\ Spec => []PreemptInv
  <2>1. DistinctRanks => DistinctRanks'
    BY DEF DistinctRanks
  <2> QED BY <2>1, InitPreempts, NextPreempts, PTL DEF Spec
<1>2. PreemptInv => OneOwner
  <2> SUFFICES ASSUME PreemptInv PROVE OneOwner
    OBVIOUS
  <2> USE DEF PreemptInv, MemoryInv, QueueInv, QueueTypes, Apart, Preemptable
  <2>1. queues[1] = request_queue /\ queues[2] = priority_queue /\ queues[3] = running_requests
    BY DEF queues
  <2>2. ASSUME NEW i \in 1 .. 3, NEW j \in 1 .. 3, NEW k \in DOMAIN queues[i], NEW l \in DOMAIN queues[j],
               queues[i][k] = queues[j][l]
        PROVE  i = j /\ k = l
    <3>1. queues[i][k] \in Range(queues[i]) /\ queues[i][k] \in Range(queues[j])
      BY <2>2 DEF Range
    <3>2. i = j
      BY <2>1, <3>1
    <3>3. IsInjective(queues[i])
      BY <2>1
    <3> QED BY <2>2, <3>2, <3>3 DEF IsInjective
  <2>3. \A i \in 1 .. 3 : Range(queues[i]) \cap done = {}
    BY <2>1
  <2>4. ASSUME NEW i \in DOMAIN preemptable_requests, NEW j \in DOMAIN preemptable_requests, i < j
        PROVE  /\ preemptable_requests[i] # preemptable_requests[j]
               /\ Rank[preemptable_requests[i]] <= Rank[preemptable_requests[j]]
    <3>1. i # j
      BY <2>4
    <3> QED BY <2>4, <3>1 DEF IsInjective, InOrder
  <2> QED BY <2>2, <2>3, <2>4, ZenonT(60) DEF OneOwner
<1> QED BY <1>1, <1>2, PTL

=============================================================================

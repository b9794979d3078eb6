------------------------ MODULE ContinuousScheduler -------------------------
(***************************************************************************)
(* The continuous batching scheduler: requests wait in a priority queue,   *)
(* every step builds a batch of their sequences within a token and a       *)
(* sequence budget, preempting requests of low priority when blocks run    *)
(* out, and the engine runs the batch.                                     *)
(*                                                                         *)
(* One thread runs build_sequence_batch, the engine and                    *)
(* process_batch_output; pc says how far it is.  Handler threads schedule  *)
(* requests and the response thread cancels them at any time in between.   *)
(***************************************************************************)
EXTENDS EngineStep

CONSTANTS
  Requests,
  SeqsOf,              \* SeqsOf[r]: the best_of sequences of r, the first exists from the start
  Prompt,              \* Prompt[r]: prompt_tokens
  Rank,                \* Rank[r]: position in the order of RequestPtrGreater
  MaxNew,              \* MaxNew[r]: max_tokens
  Streaming,           \* the requests with stream = true
  MaxTokensPerBatch, MaxSeqsPerBatch,
  QueueSize,           \* kRequestQueueSize
  Offline              \* run_until_complete drives the scheduler, not the step loop

ASSUME SchedulerAssumption ==
  /\ MaxTokensPerBatch \in Nat /\ MaxSeqsPerBatch \in Nat \ {0} /\ QueueSize \in Nat
  /\ \A r \in Requests : /\ SeqsOf[r] # <<>> /\ SeqsOf[r] \in Seq(Seqs) /\ IsInjective(SeqsOf[r])
                        /\ Prompt[r] # <<>> /\ MaxNew[r] > 0
  /\ \A s \in Seqs : \E r \in Requests : s \in Range(SeqsOf[r])
  /\ \A r, q \in Requests : r # q => Range(SeqsOf[r]) \cap Range(SeqsOf[q]) = {}
  /\ Rank \in [Requests -> Int]

VARIABLES
  pc,                  \* what the scheduler thread does next
  pending,             \* the requests counted by pending_requests_, which only run_until_complete reads
  arrived,             \* the requests schedule() was called for
  request_queue,
  priority_queue,      \* the heap, as the list of its elements in the order they come out
  running_requests,
  preemptable_requests,
  batch,               \* running_sequences_ with their budgets: <<sequence, budget>>
  remaining,           \* the token and sequence budgets left in this round
  expanded,            \* the requests that have all their sequences
  streamed, cancelled, \* requests with a stream task posted; with is_cancelled_ set
  done,                \* the requests handed to on_request_finish, which owns them then
  tok,                 \* tok[s]: token_ids of sequence s
  mem                  \* the block manager's state, see BlockManager

queues == <<request_queue, priority_queue, running_requests, preemptable_requests>>
control == <<pending, arrived, streamed, cancelled>>
vars == <<pc, queues, control, batch, remaining, expanded, done, tok, mem>>

Owner(s) == CHOOSE r \in Requests : s \in Range(SeqsOf[r])

SequencesOf(r) == IF r \in expanded THEN SeqsOf[r] ELSE <<Head(SeqsOf[r])>>

PromptLen(s) == Len(Prompt[Owner(s)])

SeqFinished(s) == Finished(tok[s], PromptLen(s), MaxNew[Owner(s)])

\* Mutant of IsFinished: an off-by-one in the count of sequences.
IsFinishedOffByOne(r) ==
  Len(SequencesOf(r)) > Len(SeqsOf[r]) /\ \A s \in Range(SeqsOf[r]) : SeqFinished(s)

\* Request::is_finished
IsFinished(r) ==
  Len(SequencesOf(r)) = Len(SeqsOf[r]) /\ \A s \in Range(SeqsOf[r]) : SeqFinished(s)

\* Request::should_expand_sequences
ShouldExpand(r) ==
  Len(SequencesOf(r)) < Len(SeqsOf[r]) /\ mem.kv[Head(SeqsOf[r])] >= Len(Prompt[r])

\* Mutant of ReleaseAll: only the first sequence gives its blocks back.
ReleaseFirst(m, ss) == IF ss = <<>> THEN m ELSE ReleaseBlocksFor(m, Head(ss), tok[Head(ss)], 0)

\* release_blocks_for, over a list of sequences
ReleaseAll(m, ss) == FoldLeft(LAMBDA a, s : ReleaseBlocksFor(a, s, tok[s], 0), m, ss)

\* The finished sequences of a request that goes on give their blocks back.
ReleaseFinished(m, ss) ==
  FoldLeft(LAMBDA a, s : IF SeqFinished(s) THEN ReleaseBlocksFor(a, s, tok[s], 0) ELSE a, m, ss)

\* Mutant of Pushed: a plain queue.
PushedBack(q, r) == {Append(q, r)}

\* priority_queue_.push: among requests the comparator calls equal, the heap
\* promises no order.
Pushed(q, r) ==
  {InsertAt(q, i, r) : i \in {j \in 1 .. Len(q) + 1 :
     /\ \A k \in 1 .. j - 1 : Rank[q[k]] <= Rank[r]
     /\ \A k \in j .. Len(q) : Rank[r] <= Rank[q[k]]}}

Places == {"drain", "recycle", "fill", "adjust", "conclude", "execute", "output",
           "poll", "returned", "crashed"}

TypeOK ==
  /\ pc \in Places
  /\ pending \subseteq Requests /\ arrived \subseteq Requests
  /\ expanded \subseteq Requests /\ done \subseteq Requests
  /\ cancelled \subseteq streamed /\ streamed \subseteq Streaming
  /\ \A i \in DOMAIN queues : Range(queues[i]) \subseteq arrived
  /\ remaining.tokens >= 0 /\ remaining.seqs >= 0
  /\ \A s \in Seqs : mem.kv[s] <= Len(tok[s]) /\ IsPrefix(Prompt[Owner(s)], tok[s])

Init ==
  /\ pc = "drain"
  /\ pending = (IF Offline THEN Requests ELSE {}) /\ arrived = {} /\ streamed = {} /\ cancelled = {}
  /\ request_queue = <<>> /\ priority_queue = <<>>
  /\ running_requests = <<>> /\ preemptable_requests = <<>>
  /\ batch = <<>> /\ remaining = [tokens |-> 0, seqs |-> 0]
  /\ expanded = {r \in Requests : Len(SeqsOf[r]) = 1}
  /\ done = {}
  /\ tok = [s \in Seqs |-> Prompt[Owner(s)]]
  /\ mem = InitMem

-----------------------------------------------------------------------------
(* The other threads. *)

\* ContinuousScheduler::schedule on a handler thread; a full queue refuses.
Schedule(r) ==
  /\ r \notin arrived
  /\ arrived' = arrived \cup {r}
  /\ request_queue' = IF Len(request_queue) < QueueSize THEN Append(request_queue, r) ELSE request_queue
  /\ UNCHANGED <<pc, priority_queue, running_requests, preemptable_requests, pending, streamed,
                 cancelled, batch, remaining, expanded, done, tok, mem>>

\* dec_pending_requests, when the handler's task leaves its scope
DecPending(r) ==
  /\ r \in arrived \cap pending
  /\ pending' = pending \ {r}
  /\ UNCHANGED <<pc, queues, arrived, streamed, cancelled, batch, remaining, expanded, done, tok,
                 mem>>

\* Request::cancel on the response thread: a stream's callback returned false.
Cancel(r) ==
  /\ r \in streamed \ (cancelled \cup done)
  /\ cancelled' = cancelled \cup {r}
  /\ UNCHANGED <<pc, queues, pending, arrived, streamed, batch, remaining, expanded, done, tok,
                 mem>>

-----------------------------------------------------------------------------
(* build_sequence_batch *)

\* One read of the request queue; without a prefix cache all sequences of the
\* request are made at once.
Drain ==
  /\ pc = "drain"
  /\ IF request_queue = <<>>
     THEN pc' = "recycle" /\ UNCHANGED <<queues, expanded>>
     ELSE /\ request_queue' = Tail(request_queue)
          /\ priority_queue' \in Pushed(priority_queue, Head(request_queue))
          /\ expanded' = IF EnablePrefixCache THEN expanded ELSE expanded \cup {Head(request_queue)}
          /\ UNCHANGED <<pc, running_requests, preemptable_requests>>
  /\ UNCHANGED <<control, batch, remaining, done, tok, mem>>

AvgSequenceTokenBudget == Max({MaxTokensPerBatch \div MaxSeqsPerBatch, 1 + NumSpec})

\* Before a request expands, its first sequence files its blocks for the others.
Grown(r) ==
  IF ShouldExpand(r) THEN CacheBlocksFor(mem, Head(SeqsOf[r]), tok[Head(SeqsOf[r])], 0) ELSE mem

\* The last running request is over, or goes back to the queue as preemptable.
Recycle ==
  /\ pc = "recycle" /\ running_requests # <<>>
  /\ \E r \in {Last(running_requests)} :
       \/ /\ IsFinished(r) \/ r \in cancelled
          /\ mem' = ReleaseAll(mem, SequencesOf(r))
          /\ done' = done \cup {r}
          /\ UNCHANGED <<priority_queue, preemptable_requests, expanded>>
       \/ /\ ~IsFinished(r) /\ r \notin cancelled
          /\ mem' = ReleaseFinished(Grown(r), SequencesOf(r))
          /\ expanded' = IF ShouldExpand(r) THEN expanded \cup {r} ELSE expanded
          /\ preemptable_requests' = <<r>> \o preemptable_requests
          /\ priority_queue' \in Pushed(priority_queue, r)
          /\ UNCHANGED done
  /\ running_requests' = Front(running_requests)
  /\ UNCHANGED <<pc, request_queue, control, batch, remaining, tok>>

\* Nothing runs any more: the previous batch is cleared, the budgets are reset.
Recycled ==
  /\ pc = "recycle" /\ running_requests = <<>>
  /\ pc' = "fill"
  /\ batch' = <<>>
  /\ remaining' = [tokens |-> Max({MaxTokensPerBatch, MaxSeqsPerBatch * AvgSequenceTokenBudget}),
                   seqs |-> MaxSeqsPerBatch]
  /\ UNCHANGED <<queues, control, expanded, done, tok, mem>>

\* Mutant of TargetLen: over budget, the whole prompt is processed.
TargetLenWhole(kv, n, p, budget) ==
  LET to == Min({kv + budget, n})
  IN  IF NumSpec = 0 \/ to < p THEN to
      ELSE IF to + NumSpec > kv + budget THEN p
      ELSE to + NumSpec

\* How many tokens s shall have KV slots for: never in prefill and in decode
\* phase in the same step when there is a draft model.
TargetLen(kv, n, p, budget) ==
  LET to == Min({kv + budget, n})
  IN  IF NumSpec = 0 \/ to < p THEN to
      ELSE IF to + NumSpec > kv + budget THEN p - 1
      ELSE to + NumSpec

\* Blocks for the first "to" tokens of s, with the two CHECKs of
\* ContinuousScheduler::allocate_blocks_for.
AllocateTo(m, s, to, budget) ==
  [res    |-> AllocateBlocksFor(m, s, tok[s], to, 0),
   actual |-> to - m.kv[s],
   fatal  |-> budget <= NumSpec \/ to <= m.kv[s]]

AllocateWithin(m, s, budget) ==
  AllocateTo(m, s, TargetLen(m.kv[s], Len(tok[s]), PromptLen(s), budget), budget)

\* ContinuousScheduler::allocate_blocks_for
AllocateFor(m, s, budget) == AllocateWithin(EnsureShared(m, s, tok[s], 0), s, budget)

\* One turn of the for loop over the sequences of a request, with the outcome x
\* of allocating blocks for s: a.picked are the candidates so far.
Consider(a, s, x) ==
  IF a.stop \/ SeqFinished(s) THEN a
  ELSE IF a.tokens + NumSpec >= remaining.tokens \/ Len(a.picked) >= remaining.seqs
  THEN [a EXCEPT !.stop = TRUE]
  ELSE IF x.fatal THEN [a EXCEPT !.stop = TRUE, !.fatal = TRUE]
  ELSE IF ~x.res.ok THEN [a EXCEPT !.stop = TRUE, !.enough = FALSE, !.m = x.res.m]
  ELSE [a EXCEPT !.m = x.res.m, !.tokens = @ + x.actual, !.picked = Append(@, <<s, x.actual>>)]

Candidates(r) ==
  LET visit(a, s) ==
        Consider(a, s, AllocateFor(a.m, s, Min({AvgSequenceTokenBudget, remaining.tokens - a.tokens})))
  IN  FoldLeft(visit, [m |-> mem, tokens |-> 0, picked |-> <<>>, stop |-> FALSE,
                       enough |-> TRUE, fatal |-> FALSE], SequencesOf(r))

\* The loop's condition
CanFill == priority_queue # <<>> /\ remaining.tokens > NumSpec /\ remaining.seqs > 0

\* Mutant of Admit: the request is not taken off the queue.
AdmitKeepsQueued(r, a) ==
  /\ priority_queue' = Append(Tail(priority_queue), r)
  /\ running_requests' = Append(running_requests, r)
  /\ batch' = batch \o a.picked
  /\ remaining' = [tokens |-> remaining.tokens - a.tokens, seqs |-> remaining.seqs - Len(a.picked)]

\* The candidates of r join the batch.
Admit(r, a) ==
  /\ priority_queue' = Tail(priority_queue)
  /\ running_requests' = Append(running_requests, r)
  /\ batch' = batch \o a.picked
  /\ remaining' = [tokens |-> remaining.tokens - a.tokens, seqs |-> remaining.seqs - Len(a.picked)]

\* Mutant of NotPreemptable: a scheduled request stays preemptable.
StaysPreemptable(r) == preemptable_requests

\* A request that is scheduled cannot be preempted any more.
NotPreemptable(r) ==
  IF preemptable_requests # <<>> /\ Head(preemptable_requests) = r
  THEN Tail(preemptable_requests) ELSE preemptable_requests

\* The victim gives its blocks back, unless it is the candidate itself.
Preempted(m, victim, r) == IF victim = r THEN m ELSE ReleaseAll(m, SequencesOf(victim))

\* One turn of the loop: schedule the top request, or preempt the request of
\* the lowest priority for it, or schedule the part there are blocks for.
Fill ==
  /\ pc = "fill" /\ CanFill
  /\ \E r \in {Head(priority_queue)} : \E a \in {Candidates(r)} :
         \/ /\ a.fatal
            /\ pc' = "crashed"
            /\ UNCHANGED <<mem, priority_queue, running_requests, preemptable_requests, batch, remaining>>
         \/ /\ ~a.fatal /\ a.enough
            /\ Admit(r, a)
            /\ mem' = a.m
            /\ preemptable_requests' = NotPreemptable(r)
            /\ UNCHANGED pc
         \/ /\ ~a.fatal /\ ~a.enough /\ preemptable_requests # <<>>
            /\ mem' = Preempted(a.m, Last(preemptable_requests), r)
            /\ preemptable_requests' = Front(preemptable_requests)
            /\ UNCHANGED <<pc, priority_queue, running_requests, batch, remaining>>
         \/ /\ ~a.fatal /\ ~a.enough /\ preemptable_requests = <<>>
            /\ mem' = a.m
            /\ IF a.picked # <<>> THEN Admit(r, a)
               ELSE UNCHANGED <<priority_queue, running_requests, batch, remaining>>
            /\ pc' = "adjust"
            /\ UNCHANGED preemptable_requests
  /\ UNCHANGED <<request_queue, control, expanded, done, tok>>

Filled ==
  /\ pc = "fill" /\ ~CanFill
  /\ pc' = "adjust"
  /\ UNCHANGED <<queues, control, batch, remaining, expanded, done, tok, mem>>

\* Entry i of the batch, allocated again with the budget "all": outcome x.
Extend(a, i, all, x) ==
  IF a.stop THEN a
  ELSE IF x.fatal THEN [a EXCEPT !.stop = TRUE, !.fatal = TRUE]
  ELSE IF ~x.res.ok THEN [a EXCEPT !.stop = TRUE, !.m = x.res.m]
  ELSE [a EXCEPT !.m = x.res.m, !.left = all - x.actual, !.b[i][2] = x.actual, !.stop = (all = x.actual)]

\* The pass that spends what is left of the token budget: every sequence of the
\* batch is allocated again with its own tokens and all that remains.
Adjust ==
  /\ pc = "adjust"
  /\ LET visit(a, i) == Extend(a, i, a.left + batch[i][2],
                               AllocateFor(a.m, batch[i][1], a.left + batch[i][2]))
     IN  \E a \in {FoldLeft(visit, [m |-> mem, left |-> remaining.tokens, b |-> batch, fatal |-> FALSE,
                                    stop |-> remaining.tokens = 0], [i \in DOMAIN batch |-> i])} :
           mem' = a.m /\ batch' = a.b /\ pc' = IF a.fatal THEN "crashed" ELSE "conclude"
  /\ UNCHANGED <<queues, control, remaining, expanded, done, tok>>

\* Nothing could be scheduled although something waits: the request on top is
\* finished as it is.  An empty batch is polled again, at the end of
\* run_until_complete after a look at pending_requests_.
Conclude ==
  /\ pc = "conclude"
  /\ IF batch = <<>> /\ priority_queue # <<>>
     THEN /\ mem' = ReleaseAll(mem, SequencesOf(Head(priority_queue)))
          /\ done' = done \cup {Head(priority_queue)}
          /\ priority_queue' = Tail(priority_queue)
     ELSE UNCHANGED <<mem, done, priority_queue>>
  /\ pc' = IF batch # <<>> THEN "execute" ELSE IF Offline THEN "poll" ELSE "drain"
  /\ UNCHANGED <<request_queue, running_requests, preemptable_requests, control, batch, remaining,
                 expanded, tok>>

\* run_until_complete after an empty batch
Poll ==
  /\ pc = "poll"
  /\ pc' = IF pending # {} THEN "drain" ELSE "returned"
  /\ UNCHANGED <<queues, control, batch, remaining, expanded, done, tok, mem>>

-----------------------------------------------------------------------------
InBatch(s) == \E i \in DOMAIN batch : batch[i][1] = s

IndexOf(s) == CHOOSE i \in DOMAIN batch : batch[i][1] = s

\* engine_->execute_model(batch)
Execute ==
  /\ pc = "execute"
  /\ LET outcomes(i) ==
           LET s == batch[i][1]
           IN  Outcomes(View(mem, s, tok[s]), PromptLen(s), MaxNew[Owner(s)], batch[i][2],
                        Len(mem.blk[s]) * BlockSize)
     IN  \E x \in {x \in [DOMAIN batch -> UNION {outcomes(i) : i \in DOMAIN batch}] :
                      \A i \in DOMAIN batch : x[i] \in outcomes(i)} :
           /\ tok' = [s \in Seqs |-> IF InBatch(s) THEN x[IndexOf(s)].tok ELSE tok[s]]
           /\ mem' = [mem EXCEPT !.kv = [s \in Seqs |-> IF InBatch(s) THEN x[IndexOf(s)].kv ELSE @[s]],
                                 !.ssm = [s \in Seqs |-> IF InBatch(s) THEN x[IndexOf(s)].ssm ELSE @[s]]]
           /\ pc' = IF \E i \in DOMAIN batch : x[i].fatal THEN "crashed" ELSE "output"
  /\ UNCHANGED <<queues, control, batch, remaining, expanded, done>>

\* process_batch_output: post a stream task for every running stream.
Output ==
  /\ pc = "output"
  /\ streamed' = streamed \cup (Range(running_requests) \cap Streaming)
  /\ pc' = "drain"
  /\ UNCHANGED <<queues, pending, arrived, cancelled, batch, remaining, expanded, done, tok, mem>>

\* The thread is gone: run_until_complete returned, or a CHECK failed.
Stopped == pc \in {"returned", "crashed"}

SchedulerStep ==
  \/ Drain \/ Recycle \/ Recycled \/ Fill \/ Filled \/ Adjust \/ Conclude
  \/ Poll \/ Execute \/ Output

Next ==
  \/ \E r \in Requests : Schedule(r)
  \/ \E r \in Requests : DecPending(r)
  \/ \E r \in Requests : Cancel(r)
  \/ SchedulerStep
  \/ Stopped /\ UNCHANGED vars

\* The scheduler's thread keeps running; nothing is assumed of the others.
FairSpec == Init /\ [][Next]_vars /\ WF_vars(SchedulerStep)

\* The same assumption without ENABLED, which TLC is slow to evaluate here: a
\* step of the thread is enabled in every state in which it has not stopped.
Fairness == []<>Stopped \/ []<><<SchedulerStep>>_vars

Spec == Init /\ [][Next]_vars /\ Fairness

-----------------------------------------------------------------------------
HoldsBlocks(r) == \E s \in Range(SeqsOf[r]) : mem.blk[s] # <<>>

Refused == arrived \ (done \cup Range(request_queue) \cup Range(priority_queue) \cup Range(running_requests))

\* The raw Request pointers of the scheduler: a request it owns is in exactly
\* one of request_queue_, priority_queue_ and running_requests_, once, and in
\* none after on_request_finish took it over (which deletes it).
\* preemptable_requests_ survives from round to round and is only trimmed at
\* its ends, yet it never holds a request twice, a request that is scheduled
\* ("the request has been scheduled and can't be preempted") or one that was
\* deleted, and it is in the order of the priority queue.
OneOwner ==
  /\ \A i, j \in 1 .. 3 : \A k \in DOMAIN queues[i] : \A l \in DOMAIN queues[j] :
       queues[i][k] = queues[j][l] => i = j /\ k = l
  /\ \A i \in 1 .. 3 : Range(queues[i]) \cap done = {}
  /\ Range(preemptable_requests) \subseteq Range(priority_queue)
  /\ \A i, j \in DOMAIN preemptable_requests :
       i < j => /\ preemptable_requests[i] # preemptable_requests[j]
                /\ Rank[preemptable_requests[i]] <= Rank[preemptable_requests[j]]

\* The batch handed to the engine is backed by memory, whatever was preempted,
\* evicted or expanded while it was built: each of its sequences occurs once,
\* belongs to a running request, is unfinished and has the KV slots its budget
\* needs (the CHECKs of Batch::add and prepare_model_input).  It keeps to
\* max_seqs_per_batch and to the token budget, after the pass that hands out
\* what was left as well.
BatchIsBacked ==
  pc = "execute" =>
    /\ \A i \in DOMAIN batch :
         LET s == batch[i][1]
         IN  /\ \A j \in DOMAIN batch : batch[j][1] = s => i = j
             /\ Owner(s) \in Range(running_requests) /\ ~SeqFinished(s)
             /\ batch[i][2] > 0 /\ mem.kv[s] + batch[i][2] <= Len(mem.blk[s]) * BlockSize
    /\ Len(batch) <= MaxSeqsPerBatch
    /\ FoldLeft(LAMBDA n, b : n + b[2], 0, batch)
         <= Max({MaxTokensPerBatch, MaxSeqsPerBatch * AvgSequenceTokenBudget})

\* No CHECK of the scheduler, the batch or the sequence fails.
NoCheckFails == pc # "crashed"

\* s was preempted after its first token and has more than one token to compute
\* again, what the prefix cache still has of it not counted.
Recomputed(s) ==
  LET m == IF pc = "fill" THEN EnsureShared(mem, s, tok[s], 0) ELSE mem
  IN  Len(tok[s]) > PromptLen(s) /\ m.kv[s] < Len(tok[s]) - 1

\* s is in the batch with fewer tokens than a speculative step takes, and the
\* pass that hands out what is left comes to it.
CutShort(s) == pc = "adjust" /\ batch[IndexOf(s)][2] <= NumSpec

\* The sequences the scheduler's thread allocates for or runs in this step.
Handled == {s \in Seqs : IF pc = "fill" THEN Owner(s) = Head(priority_queue) ELSE InBatch(s)}

\* Where prefill ends and speculation begins: chunks of a prompt, a prompt found
\* in the cache in part, a budget too small for the draft tokens
\* (allocate_blocks_for), sequences preempted in their prompt, or later and
\* found in the cache again.  In all of these "the sequence proceeds forward",
\* its slots suffice and the target model validates one row per draft token.
\* The CHECKs fail in two situations only, for a sequence that is computed again
\* past its prompt and for one cut short at the end of its prompt when the rest
\* of the budget is handed out.
ChecksHold ==
  [][pc # "crashed" /\ pc' = "crashed" => \E s \in Handled : Recomputed(s) \/ CutShort(s)]_vars

\* A request that is over gives every block back: on all paths, finished,
\* cancelled or out of memory, and for sequences made half-way.
DoneHoldsNothing == \A r \in done : ~HoldsBlocks(r)

\* A request is given up for lack of memory only when memory is really short:
\* no other request holds a block ("no enough memory to schedule single
\* sequence, just finish the request").
GivenUpAlone ==
  [][pc = "conclude" /\ done' # done =>
       \A r \in Requests \ done' : ~HoldsBlocks(r)]_vars

\* A token is sampled at the end of its sequence ("sample last token in the
\* sequence"): when one is appended, everything before it is in the KV cache.
SampledAtEnd ==
  [][\A s \in Seqs : tok'[s] # tok[s] => mem'.kv[s] = Len(tok'[s]) - 1]_vars

\* The draft model's KV cache trails the target's by at most one position
\* between steps (Sequence::tokens_in_kv_cache relies on it).
DraftInStep == \A s \in Seqs : mem.kv[s] - mem.ssm[s] \in 0 .. 1

\* The scheduler serves requests in order of priority and arrival, loses none
\* and answers none twice.
Server == INSTANCE PriorityServer
            WITH incoming <- Range(request_queue), waiting <- Range(priority_queue),
                 running <- Range(running_requests)
ServerSpec == Server!Spec

\* Every request the queue accepted is answered in the end.
EventuallyDone ==
  \A r \in Requests : (r \in arrived \ Refused) ~> (r \in done)

\* run_until_complete returns when "all pending + scheduled requests are
\* completed".
CompleteOnReturn == pc = "returned" => pending = {} /\ arrived \ Refused \subseteq done

\* run_until_complete returns once no handler thread has a request left to
\* schedule, and holds no block then: it abandons no request half-way.
ReturnsInTheEnd == (pending = {}) ~> (pc = "returned" /\ HeldBlocks(mem) = {})

=============================================================================

------------------------------ MODULE Serving -------------------------------
(***************************************************************************)
(* From the scheduler to the client: requests produce tokens on the        *)
(* scheduler's thread, ResponseHandler turns them into outputs on its one  *)
(* thread, and the handlers pass them on, either through StreamCallData    *)
(* (the C++ server) or through OutputAsyncStream (the Python server).      *)
(*                                                                         *)
(* Which requests run, and which of their sequences get a token, is left   *)
(* open here: ContinuousScheduler and EngineStep model it.                 *)
(***************************************************************************)
EXTENDS CallData, IncrementalDecoder

CONSTANTS
  NumSeqs,      \* the most sequences a request has
  PromptLen,    \* num_prompt_tokens
  Workloads     \* the cases considered: [api, opt, kinds], the server ("grpc" or "python"), the
                \* options of each request that may come and the kinds of tokens they produce

ASSUME ServingAssumption ==
  /\ NumSeqs \in Nat \ {0} /\ PromptLen \in Nat \ {0} /\ Calls = 1 .. Cardinality(Calls)
  /\ \A w \in Workloads : DOMAIN w.opt \subseteq Calls /\ \A c \in DOMAIN w.opt : w.opt[c].n \in 1 .. NumSeqs

Indexes == 1 .. NumSeqs

VARIABLES
  load,         \* the workload
  stage,        \* where c's request is: none, handling, rejecting, active, finishing, freed
  chunks,       \* chunks[c]: prefill steps left before the first token
  num_seqs,     \* num_seqs[c]: request->sequences.size()
  toks,         \* toks[c][s]: the generated tokens
  last_stops,   \* <<c, s>> whose newest token meets the stopping criteria
  reason,       \* <<c, s>> with finish_reason_ set
  closed,       \* <<c, s>> with closed_ set
  offset,       \* offset[c][s]: incremental_decoder_.output_offset()
  cancelled,    \* requests with is_cancelled_ set
  given_up,     \* history: requests finished for lack of memory
  sched,        \* the scheduler thread: [pc, ran, todo], ran = running_requests_, todo those still to visit
  tasks,        \* the queue of response_threadpool_
  job,          \* the task its thread executes, [c |-> 0] if none
  first_sent,   \* <<c, s>> in first_message_sent
  stream,       \* stream[c]: OutputAsyncStream._queue with the puts scheduled on the loop
  py_cancelled  \* streams with _cancelled set

reqVars == <<load, stage, chunks, num_seqs>>
seqVars == <<toks, last_stops, reason, closed>>
outVars == <<offset, first_sent>>
pyVars == <<stream, py_cancelled>>
vars == <<callVars, reqVars, seqVars, outVars, cancelled, given_up, sched, tasks, job, pyVars>>

api == load.api

\* The options of a request: chat, stream, usage, echo, n (= best_of), max_tokens.
opt == load.opt

Requests == DOMAIN load.opt

Idle == [c |-> 0]

Init ==
  /\ CallInit /\ load \in Workloads
  /\ stage = [c \in Calls |-> "none"]
  /\ chunks \in {f \in [Calls -> 0 .. 1] : \A c \in Calls \ Requests : f[c] = 0}
  /\ num_seqs = [c \in Calls |-> 1]
  /\ toks = [c \in Calls |-> [s \in Indexes |-> <<>>]]
  /\ last_stops = {} /\ reason = {} /\ closed = {}
  /\ offset = [c \in Calls |-> [s \in Indexes |-> FirstOffset(PromptLen, c \in Requests /\ opt[c].echo)]]
  /\ cancelled = {} /\ given_up = {} /\ sched = [pc |-> "build", ran |-> {}, todo |-> {}]
  /\ tasks = <<>> /\ job = Idle /\ first_sent = {}
  /\ stream = [c \in Calls |-> <<>>] /\ py_cancelled = {}

---------------------------------------------------------------------------
(* A request comes in.                                                     *)

\* GrpcServer::start: the first object.
Start == /\ api = "grpc" /\ Register(1)
         /\ UNCHANGED <<reqVars, seqVars, outVars, cancelled, given_up, sched, tasks, job, pyVars>>

\* proceed() calls complete_async or chat_async, which reject the request or
\* give it to LLMHandler.
Arrive(c) ==
  /\ ProceedCreate(c, IF c + 1 \in Requests THEN c + 1 ELSE None)
  /\ stage' = IF RpcOk(c) THEN [stage EXCEPT ![c] = "handling"] ELSE stage
  /\ UNCHANGED <<load, chunks, num_seqs, seqVars, outVars, cancelled, given_up, sched, tasks, job, pyVars>>

\* create_completion and create_chat_completion of the Python server.
PyArrive(c) ==
  /\ api = "python" /\ c \in Requests /\ stage[c] = "none"
  /\ stage' = [stage EXCEPT ![c] = "handling"]
  /\ UNCHANGED <<callVars, load, chunks, num_seqs, seqVars, outVars, cancelled, given_up, sched, tasks, job, pyVars>>

\* The task of LLMHandler::schedule: the request is accepted, or an error is
\* to be reported through the callback.
Handle(c) ==
  /\ stage[c] = "handling"
  /\ \E to \in {"active", "rejecting"} : stage' = [stage EXCEPT ![c] = to]
  /\ UNCHANGED <<callVars, load, chunks, num_seqs, seqVars, outVars, cancelled, given_up, sched, tasks, job, pyVars>>

Final(st) == ResponseWithState(None, st)

\* OutputAsyncStream.put: nothing into a cancelled stream.
Put(c, items) == stream' = IF c \in py_cancelled THEN stream ELSE [stream EXCEPT ![c] = @ \o items]

\* The callback with an error status.
Reject(c) ==
  /\ stage[c] = "rejecting" /\ stage' = [stage EXCEPT ![c] = "freed"]
  /\ IF api = "grpc" THEN Store(c, Final("ERROR")) /\ UNCHANGED stream
     ELSE Put(c, <<Final("ERROR")>>) /\ UNCHANGED callVars
  /\ UNCHANGED <<load, chunks, num_seqs, seqVars, outVars, cancelled, given_up, sched, tasks, job, py_cancelled>>

---------------------------------------------------------------------------
(* The scheduler's thread, as far as it concerns the output.               *)

Active == {c \in Calls : stage[c] = "active"}

SeqDone(c, s) == <<c, s>> \in last_stops

\* The sequences is_finished() records a finish reason for.
Finishing(c) == {<<c, s>> : s \in {s \in 1 .. num_seqs[c] : SeqDone(c, s)}}

IsFinished(c) == num_seqs[c] = opt[c].n /\ \A s \in 1 .. num_seqs[c] : SeqDone(c, s)

Finish(c) ==
  /\ tasks' = Append(tasks, [c |-> c, kind |-> "finish", todo |-> <<>>])
  /\ stage' = [stage EXCEPT ![c] = "finishing"]

\* build_sequence_batch: a running request is finished, or expanded.  The
\* finish status of its sequences is up to date afterwards.
Build(c) ==
  /\ sched.pc = "build" /\ c \in sched.todo
  /\ sched' = [sched EXCEPT !.todo = @ \ {c}]
  /\ IF IsFinished(c) \/ c \in cancelled
     THEN Finish(c) /\ UNCHANGED num_seqs
     ELSE /\ num_seqs' = [num_seqs EXCEPT ![c] = IF chunks[c] = 0 THEN opt[c].n ELSE @]
          /\ UNCHANGED <<tasks, stage>>
  /\ reason' = reason \cup Finishing(c)
  /\ UNCHANGED <<callVars, load, chunks, toks, last_stops, closed, outVars, cancelled, given_up, job, pyVars>>

\* The rest of build_sequence_batch: any requests make up the batch, which runs.
RunBatch ==
  /\ sched.pc = "build" /\ sched.todo = {}
  /\ \E running \in SUBSET Active \ {{}} : sched' = [pc |-> "execute", ran |-> running, todo |-> running]
  /\ UNCHANGED <<callVars, reqVars, seqVars, outVars, cancelled, given_up, tasks, job, pyVars>>

\* "just finish the request": the request on top when nothing can be scheduled.
GiveUp(c) ==
  /\ sched.pc = "build" /\ sched.todo = {} /\ c \in Active /\ ~IsFinished(c)
  /\ Finish(c) /\ given_up' = given_up \cup {c}
  /\ UNCHANGED <<callVars, load, chunks, num_seqs, seqVars, outVars, cancelled, sched, job, pyVars>>

\* The sequences of c that are not finished.
Unfinished(c) == {s \in 1 .. num_seqs[c] : ~SeqDone(c, s)}

\* The sequences c is given a token for: none before the prompt is processed.
Sampled(c) == IF chunks[c] > 0 THEN {{}} ELSE {{c} \X ss : ss \in SUBSET Unfinished(c) \ {{}}}

\* engine_->execute_model: a prefill step, or a token for some sequences, of
\* any kind, which may end the sequence.
Execute ==
  /\ sched.pc = "execute" /\ sched' = [sched EXCEPT !.pc = "output"]
  /\ \E given \in {UNION {f[c] : c \in sched.ran} : f \in {g \in [sched.ran -> UNION {Sampled(c) : c \in sched.ran}] :
                                                          \A c \in sched.ran : g[c] \in Sampled(c)}} :
     \E partial \in SUBSET (IF "partial" \in load.kinds THEN given ELSE {}), eos \in SUBSET given :
       /\ toks' = [c \in Calls |-> [s \in Indexes |-> IF <<c, s>> \notin given THEN toks[c][s]
                     ELSE Append(toks[c][s], IF <<c, s>> \in partial THEN "partial" ELSE "text")]]
       /\ last_stops' = last_stops \cup eos \cup {e \in given : Len(toks[e[1]][e[2]]) + 1 = opt[e[1]].max_tokens}
  /\ chunks' = [c \in Calls |-> IF c \in sched.ran /\ chunks[c] > 0 THEN chunks[c] - 1 ELSE chunks[c]]
  /\ UNCHANGED <<callVars, load, stage, num_seqs, reason, closed, outVars, cancelled, given_up, tasks, job, pyVars>>

\* has_pending_tokens
HasPending(c, s) == PromptLen + Len(toks[c][s]) > offset[c][s]

\* Mutant of Snapshot: a finished sequence is closed before it is looked at.
SnapshotUnfinished(c) ==
  LET ss == SelectSeq([i \in 1 .. num_seqs[c] |-> i], LAMBDA s : ~SeqDone(c, s) /\ HasPending(c, s))
  IN  [i \in 1 .. Len(ss) |-> <<ss[i], Len(toks[c][ss[i]])>>]

\* The sequences on_request_stream reports, in order, with the size to report.
Snapshot(c) ==
  LET ss == SelectSeq([i \in 1 .. num_seqs[c] |-> i],
                      LAMBDA s : <<c, s>> \notin closed /\ (HasPending(c, s) \/ SeqDone(c, s)))
  IN  [i \in 1 .. Len(ss) |-> <<ss[i], Len(toks[c][ss[i]])>>]

Visit(c) == sched' = [pc |-> IF sched.todo = {c} THEN "build" ELSE "output", ran |-> sched.ran,
                      todo |-> IF sched.todo = {c} THEN sched.ran ELSE sched.todo \ {c}]

\* process_batch_output, on_request_stream: one request of the batch.
\* is_finished() stores the finish reason the response thread may be reading.
OnRequestStream(c) ==
  /\ sched.pc = "output" /\ c \in sched.todo /\ Visit(c)
  /\ IF opt[c].stream
     THEN /\ reason' = reason \cup Finishing(c) /\ closed' = closed \cup Finishing(c)
          /\ tasks' = Append(tasks, [c |-> c, kind |-> "stream", todo |-> Snapshot(c)])
     ELSE UNCHANGED <<reason, closed, tasks>>
  /\ UNCHANGED <<callVars, reqVars, toks, last_stops, outVars, cancelled, given_up, job, pyVars>>

---------------------------------------------------------------------------
(* The response thread.                                                    *)

TakeTask ==
  /\ job = Idle /\ tasks # <<>>
  /\ job' = [c |-> Head(tasks).c, kind |-> Head(tasks).kind, todo |-> Head(tasks).todo,
             pc |-> "decode", outs |-> <<>>, msgs |-> <<>>, ok |-> TRUE]
  /\ tasks' = Tail(tasks)
  /\ UNCHANGED <<callVars, reqVars, seqVars, outVars, cancelled, given_up, sched, pyVars>>

SequenceOutput(c, s, to) == [seq |-> s, from |-> offset[c][s], to |-> to, why |-> <<c, s>> \in reason]

\* Sequence::build_delta_output_until.  The finish reason is the one stored
\* by now, not the one when the size was taken.
BuildDelta(c, s, size) ==
  LET to == Decode(offset[c][s], SubSeq(toks[c][s], 1, size), PromptLen)
      out == SequenceOutput(c, s, to)
  IN  /\ offset' = [offset EXCEPT ![c][s] = to]
      /\ job' = [job EXCEPT !.todo = Tail(@), !.outs = IF out.from < to \/ out.why THEN Append(@, out) ELSE @]

DecodeNext ==
  /\ job # Idle /\ job.pc = "decode" /\ job.todo # <<>>
  /\ BuildDelta(job.c, Head(job.todo)[1], Head(job.todo)[2])
  /\ UNCHANGED <<callVars, reqVars, seqVars, first_sent, cancelled, given_up, sched, tasks, pyVars>>

\* Request::build_output, without the ranking of best_of > n.
RequestOutput(c) ==
  [outs |-> IF opt[c].stream THEN <<>>
            ELSE [s \in 1 .. num_seqs[c] |-> SequenceOutput(c, s, BuildOutput(offset[c][s], toks[c][s], PromptLen))],
   usage |-> TRUE, finished |-> IsFinished(c)]

Chunk(kind, s, from, to) == [kind |-> kind, seq |-> s, from |-> from, to |-> to]

\* The new text of a sequence, and its finish reason in a chunk of its own.
TextAndReason(out) ==
     (IF out.from < out.to THEN <<Chunk("text", out.seq, out.from, out.to)>> ELSE <<>>)
  \o (IF out.why THEN <<Chunk("reason", out.seq, 0, 0)>> ELSE <<>>)

Usage(c, output) == IF opt[c].usage /\ output.usage THEN <<Chunk("usage", 0, 0, 0)>> ELSE <<>>

\* send_delta_to_client of a completion.
CompletionDelta(c, output) == FlattenSeq([i \in DOMAIN output.outs |-> TextAndReason(output.outs[i])]) \o Usage(c, output)

\* send_delta_to_client of a chat: the role before anything else of a sequence.
ChatDelta(c, output) ==
  LET role(out) == IF <<c, out.seq>> \notin first_sent THEN <<Chunk("role", out.seq, 0, 0)>> ELSE <<>>
  IN  FlattenSeq([i \in DOMAIN output.outs |-> role(output.outs[i]) \o TextAndReason(output.outs[i])]) \o Usage(c, output)

Delta(c, output) ==
  LET chunks_of == IF opt[c].chat THEN ChatDelta(c, output) ELSE CompletionDelta(c, output)
  IN  [i \in DOMAIN chunks_of |-> ResponseWithState(chunks_of[i], None)]

\* send_result_to_client
Result(output) ==
  ResponseWithState([kind |-> "result", to |-> [i \in DOMAIN output.outs |-> output.outs[i].to],
                     why |-> [i \in DOMAIN output.outs |-> output.outs[i].why]], "OK")

\* Mutant of Replies: the usage chunk follows the status.
RepliesUsageLast(c, output) ==
  IF opt[c].stream THEN (IF output.finished THEN <<Final("OK")>> ELSE <<>>) \o Delta(c, output)
  ELSE <<Result(output)>>

\* The callback's calls on the CallData object.
Replies(c, output) ==
  IF opt[c].stream THEN Delta(c, output) \o (IF output.finished THEN <<Final("OK")>> ELSE <<>>)
  ELSE <<Result(output)>>

SentFirst(c, output) ==
  first_sent' = first_sent \cup (IF opt[c].stream /\ opt[c].chat
                                 THEN {<<c, output.outs[i].seq>> : i \in DOMAIN output.outs} ELSE {})

\* Mutant of EndTask: a request whose client is gone is freed at once.
EndTaskFrees(c, kind, ok) ==
  /\ job' = Idle /\ UNCHANGED cancelled
  /\ stage' = IF kind = "finish" \/ ~ok THEN [stage EXCEPT ![c] = "freed"] ELSE stage

\* The end of a task: the request is cancelled on request of the client, or
\* freed with the task that owns it.
EndTask(c, kind, ok) ==
  /\ job' = Idle
  /\ cancelled' = IF kind = "stream" /\ ~ok THEN cancelled \cup {c} ELSE cancelled
  /\ stage' = IF kind = "finish" THEN [stage EXCEPT ![c] = "freed"] ELSE stage

\* request->on_output, as far as the first send_response or through put().
OnOutput(c, output) ==
  \/ /\ api = "grpc" /\ SentFirst(c, output)
     /\ job' = [job EXCEPT !.pc = "reply", !.msgs = Replies(c, output)]
     /\ UNCHANGED <<cancelled, stage, stream>>
  \/ /\ api = "python" /\ UNCHANGED first_sent
     /\ Put(c, <<output>> \o (IF output.finished THEN <<Final("OK")>> ELSE <<>>))
     /\ EndTask(c, job.kind, c \notin py_cancelled)

Output ==
  /\ job # Idle /\ job.pc = "decode" /\ job.todo = <<>>
  /\ OnOutput(job.c, IF job.kind = "finish" THEN RequestOutput(job.c)
                     ELSE [outs |-> job.outs, usage |-> FALSE, finished |-> FALSE])
  /\ offset' = IF job.kind = "finish" /\ ~opt[job.c].stream
               THEN [offset EXCEPT ![job.c] = [s \in Indexes |-> BuildOutput(@[s], toks[job.c][s], PromptLen)]]
               ELSE offset
  /\ UNCHANGED <<callVars, load, chunks, num_seqs, seqVars, given_up, sched, tasks, py_cancelled>>

\* write, write_and_finish, finish: the three steps of send_response.
Write ==
  /\ job # Idle /\ job.pc = "reply" /\ job.msgs # <<>> /\ Store(job.c, Head(job.msgs))
  /\ UNCHANGED <<reqVars, seqVars, outVars, cancelled, given_up, sched, tasks, job, pyVars>>

Notify(c) ==
  /\ SetAlarm(c)
  /\ UNCHANGED <<reqVars, seqVars, outVars, cancelled, given_up, sched, tasks, job, pyVars>>

\* The next chunk follows, unless this one was not accepted.  Nobody looks at
\* what an error report returns.
Return(c) ==
  /\ \E ok \in BOOLEAN :
       /\ Sent(c, ok)
       /\ job' = IF job.c # c THEN job ELSE [job EXCEPT !.msgs = IF ok THEN Tail(@) ELSE <<>>, !.ok = ok]
  /\ UNCHANGED <<reqVars, seqVars, outVars, cancelled, given_up, sched, tasks, pyVars>>

Replied ==
  /\ job # Idle /\ job.pc = "reply" /\ job.msgs = <<>> /\ EndTask(job.c, job.kind, job.ok)
  /\ UNCHANGED <<callVars, load, chunks, num_seqs, seqVars, outVars, given_up, sched, tasks, pyVars>>

---------------------------------------------------------------------------
(* The server thread, gRPC and the client of the C++ server.               *)

rest == <<reqVars, seqVars, outVars, cancelled, given_up, sched, tasks, job, pyVars>>

Proceed(c) == ProceedReply(c) /\ UNCHANGED rest

Deliver(c) == Complete(c) /\ UNCHANGED rest

Leave(c) == Disconnect(c) /\ UNCHANGED rest

---------------------------------------------------------------------------
(* The Python server: the coroutine that reads the stream.                 *)

Ended(c) == \E i \in DOMAIN received[c] : received[c][i].st # None

IsOutput(item) == "outs" \in DOMAIN item

\* __anext__ and the body of the handler's loop: chunks for an output, [DONE]
\* at the end of the iteration, an error chunk for an exception.  Without
\* streaming the first output is the answer.
PyRead(c) ==
  /\ api = "python" /\ stream[c] # <<>> /\ ~Ended(c) /\ c \notin gone
  /\ LET item == Head(stream[c])
     IN  IF IsOutput(item)
         THEN /\ received' = [received EXCEPT ![c] = @ \o IF opt[c].stream THEN Delta(c, item) ELSE <<Result(item)>>]
              /\ SentFirst(c, item)
         ELSE received' = [received EXCEPT ![c] = Append(@, item)] /\ UNCHANGED first_sent
  /\ stream' = [stream EXCEPT ![c] = Tail(@)]
  /\ UNCHANGED <<status, response, rpc_ok, sending, ops, cq, gone, closing, reqVars, seqVars, offset,
                 cancelled, given_up, sched, tasks, job, py_cancelled>>

\* OutputAsyncStream.cancel runs on the event loop: what other threads have
\* scheduled there may come after the end it puts into the queue.
PyCancel(c) ==
  /\ api = "python" /\ stage[c] # "none" /\ opt[c].stream /\ c \notin py_cancelled
  /\ py_cancelled' = py_cancelled \cup {c}
  /\ \E i \in 1 .. Len(stream[c]) + 1 : stream' = [stream EXCEPT ![c] = InsertAt(@, i, Final("OK"))]
  /\ UNCHANGED <<callVars, reqVars, seqVars, outVars, cancelled, given_up, sched, tasks, job>>

\* SafeStreamingResponse.listen_for_disconnect: the coroutine is cancelled,
\* the request goes on.
PyLeave(c) ==
  /\ api = "python" /\ stage[c] # "none" /\ c \notin gone /\ gone' = gone \cup {c}
  /\ UNCHANGED <<status, response, rpc_ok, sending, ops, cq, received, closing, rest>>

---------------------------------------------------------------------------
SchedulerThread == RunBatch \/ Execute \/ \E c \in Calls : Build(c) \/ GiveUp(c) \/ OnRequestStream(c)

ResponseThread == TakeTask \/ DecodeNext \/ Output \/ Write \/ Replied

HandlingThreads == \E c \in Calls : Handle(c) \/ Reject(c)

Sending == \E c \in Calls : Notify(c) \/ Return(c)

ServerThread == \E c \in Calls : Arrive(c) \/ Proceed(c)

PyLoop == \E c \in Calls : PyRead(c)

Next ==
  \/ Start \/ SchedulerThread \/ ResponseThread \/ HandlingThreads \/ Sending \/ ServerThread \/ PyLoop
  \/ \E c \in Calls : Deliver(c) \/ Leave(c) \/ PyArrive(c) \/ PyCancel(c) \/ PyLeave(c)

Spec == Init /\ [][Next]_vars

\* Every thread runs on, gRPC carries out what it was given; a request may
\* never arrive and no client has to leave.
Progress ==
  \/ SchedulerThread \/ ResponseThread \/ HandlingThreads \/ Sending \/ ServerThread \/ PyLoop
  \/ \E c \in Calls : Deliver(c) /\ Head(ops[c]) # "request"

\* A workload takes finitely many steps, so that fairness of the threads
\* together is fairness of each.
FairSpec == Spec /\ WF_vars(Progress)

---------------------------------------------------------------------------
(* Properties.                                                             *)

TypeOK ==
  /\ load \in Workloads /\ stage \in [Calls -> {"none", "handling", "rejecting", "active", "finishing", "freed"}]
  /\ \A c \in Calls, s \in Indexes : offset[c][s] \in 0 .. PromptLen + Len(toks[c][s])
  /\ \A c \in Requests, s \in Indexes : Len(toks[c][s]) <= opt[c].max_tokens
  /\ closed \subseteq reason /\ reason \subseteq last_stops
  /\ sched.ran \subseteq Calls /\ sched.todo \subseteq sched.ran
  /\ \A c \in Calls : received[c] \in Seq(Packed) /\ response[c] \in Packed \cup {None}

\* What the client has of sequence s of c, in order.
ChunksOf(c, s) == SelectSeq(received[c], LAMBDA m : m.resp # None /\ m.resp.kind # "result" /\ m.resp.seq = s)

TextOf(c, s) == SelectSeq(ChunksOf(c, s), LAMBDA m : m.resp.kind = "text")

\* The text of a streamed sequence reaches the client in order, no token
\* twice and none left out, and in a chat exactly one role chunk comes before
\* anything else of the sequence: whatever the scheduler thread appends while
\* the tasks of on_request_stream wait, and however the writes interleave.
StreamInOrder ==
  \A c \in Requests : \A s \in 1 .. opt[c].n :
    LET t == TextOf(c, s)
    IN  /\ \A i \in DOMAIN t : t[i].resp.from = IF i = 1 THEN FirstOffset(PromptLen, opt[c].echo)
                                                ELSE t[i - 1].resp.to
        /\ \A i \in DOMAIN ChunksOf(c, s) : (ChunksOf(c, s)[i].resp.kind = "role") <=> (i = 1 /\ opt[c].chat)

\* The position after the last token that completes a character.
TextEnd(c, s) == PromptLen + Max({0} \cup {i \in DOMAIN toks[c][s] : toks[c][s][i] = "text"})

EndOfText(c, s) == IF TextOf(c, s) = <<>> THEN FirstOffset(PromptLen, opt[c].echo) ELSE Last(TextOf(c, s)).resp.to

\* A client told that its request succeeded has all of it: every complete
\* character of every sequence, a finish reason for each, and the usage it
\* asked for last.  (Not so for a request given up for lack of memory, which
\* is answered with what there is, or a stream the reader itself cancelled.)
CompleteWhenClosed ==
  \A c \in Requests :
    (\E i \in DOMAIN received[c] : received[c][i].st = "OK") /\ c \notin given_up \cup py_cancelled =>
      IF opt[c].stream
      THEN /\ \A s \in 1 .. opt[c].n :
                /\ EndOfText(c, s) >= TextEnd(c, s)
                /\ \E i \in DOMAIN ChunksOf(c, s) : ChunksOf(c, s)[i].resp.kind = "reason"
           /\ opt[c].usage => received[c][Len(received[c]) - 1].resp.kind = "usage"
      ELSE LET r == Last(received[c]).resp
           IN  Len(r.to) = opt[c].n /\ \A s \in 1 .. opt[c].n : r.to[s] >= TextEnd(c, s) /\ r.why[s]

\* What a client gets is right at every moment and whole in the end.
StreamDelivered == StreamInOrder /\ CompleteWhenClosed

\* A task of the response thread never outlives its request: the task that
\* frees it comes after all that hold a pointer to it.
TasksHaveRequest ==
  /\ \A i \in DOMAIN tasks : /\ stage[tasks[i].c] \in {"active", "finishing"}
                             /\ tasks[i].kind = "finish" => \A j \in i + 1 .. Len(tasks) : tasks[j].c # tasks[i].c
  /\ job # Idle => stage[job.c] \in {"active", "finishing"}

\* send_response may read the value it returns for a final status from a deleted
\* object.  No handler acts on that value: it is the last reply of a task that
\* frees its request whatever it is told, or an error report.
LastReadUnused ==
  \A c \in Calls : status[c] = "deleted" /\ sending[c] = "notified" /\ job.c = c =>
    job.kind = "finish" /\ Len(job.msgs) = 1

\* The handlers use StreamCallData the way it asks for: no reply before the
\* request is there, none after a final status, one replying thread at a time,
\* and nothing that depends on what is read from a deleted object.
ContractKept == CallInit /\ [][LastReadUnused /\ (api = "python" \/ CallNext)]_callVars

\* A request that came in is answered to the end, unless its client leaves,
\* its reader cancels the stream, or it is a stream given up for lack of memory.
\* (To have come in and to be answered are both for good, so that a moment with
\* nobody waiting, again and again, is an answer for each.)
Answered ==
  []<>(\A c \in Calls : stage[c] # "none" => Ended(c) \/ c \in gone \cup py_cancelled \cup given_up)

\* The finish reason of a sequence is the last the client hears of it.
NothingAfterReason ==
  \A c \in Requests : \A s \in 1 .. opt[c].n :
    \A i \in DOMAIN ChunksOf(c, s) : ChunksOf(c, s)[i].resp.kind = "reason" => i = Len(ChunksOf(c, s))

\* The object of a call whose request is gone is released.
ReleasedInTheEnd == \A c \in Calls : stage[c] = "freed" /\ api = "grpc" ~> status[c] = "deleted"

=============================================================================

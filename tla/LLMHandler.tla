----------------------------- MODULE LLMHandler -----------------------------
(***************************************************************************)
(* LLMHandler's threads: a caller (main, or the Python thread), the        *)
(* handling threads that take tasks from queue_, the thread that moves the *)
(* scheduler forward, which is loop_thread_ after start() and the caller   *)
(* itself in run_until_complete(), and the response thread.  The batches   *)
(* themselves are ContinuousScheduler's business.                          *)
(***************************************************************************)
EXTENDS Integers, Sequences, FiniteSets

CONSTANTS
  Requests,
  Threads,     \* handling_threads_
  QueueSize,   \* kRequestQueueSize
  Modes        \* a subset of {"loop", "wait", "nowait"}: a server, or generate() with or without wait_for_schedule

ASSUME HandlerAssumption ==
  /\ QueueSize \in Nat \ {0} /\ IsFiniteSet(Requests) /\ IsFiniteSet(Threads) /\ Threads # {}
  /\ "exit" \notin Requests /\ "notify" \notin Requests

VARIABLES
  mode,
  caller,         \* where the caller is
  todo,           \* the requests its schedule_batch_async has not queued yet
  queue,          \* queue_: requests to handle, "exit" for nullptr
  thread,         \* thread[t]: [pc, r]
  pending,        \* scheduler_->pending_requests_
  future,         \* future[r]: none, unset, accepted, refused
  request_queue, running, finished,  \* the scheduler's requests
  sched,          \* where the thread that moves it forward is: off, build, empty, execute, drain
  responses,      \* the queue of the response thread: requests, "notify" and "exit"
  output,         \* output[r]: what the callback was called with last
  stoped,         \* stoped_
  scheduler       \* scheduler_ # nullptr

vars == <<mode, caller, todo, queue, thread, pending, future, request_queue, running, finished, sched,
          responses, output, stoped, scheduler>>

Free == [pc |-> "idle"]

Init ==
  /\ mode \in Modes /\ caller = "idle" /\ todo = {} /\ queue = <<>>
  /\ thread = [t \in Threads |-> Free] /\ pending = 0 /\ future = [r \in Requests |-> "none"]
  /\ request_queue = <<>> /\ running = {} /\ finished = {} /\ sched = "off" /\ responses = <<>>
  /\ output = [r \in Requests |-> "none"] /\ stoped = FALSE /\ scheduler = TRUE

schedVars == <<request_queue, running, finished, sched>>

---------------------------------------------------------------------------
(* The caller.                                                             *)

\* start(): the loop thread.
Start ==
  /\ caller = "idle" /\ mode = "loop" /\ sched = "off" /\ sched' = "build"
  /\ UNCHANGED <<mode, caller, todo, queue, thread, pending, future, request_queue, running, finished,
                 responses, output, stoped, scheduler>>

\* schedule_batch_async counts all its requests first; a single request is a
\* batch of one.
ScheduleBatch(batch) ==
  /\ caller = "idle" /\ batch # {} /\ \A r \in batch : future[r] = "none"
  /\ pending' = pending + Cardinality(batch) /\ todo' = batch /\ caller' = "push"
  /\ UNCHANGED <<mode, queue, thread, future, schedVars, responses, output, stoped, scheduler>>

\* schedule(): a task and its promise.
Push(r) ==
  /\ caller = "push" /\ r \in todo /\ todo' = todo \ {r}
  /\ queue' = Append(queue, r) /\ future' = [future EXCEPT ![r] = "unset"]
  /\ caller' = IF todo # {r} THEN "push" ELSE CASE mode = "loop" -> "idle" [] mode = "wait" -> "wait" [] OTHER -> "run"
  /\ UNCHANGED <<mode, thread, pending, schedVars, responses, output, stoped, scheduler>>

\* BatchFuture::wait
Wait ==
  /\ caller = "wait" /\ caller' = "run" /\ \A r \in Requests : future[r] # "unset"
  /\ UNCHANGED <<mode, todo, queue, thread, pending, future, schedVars, responses, output, stoped, scheduler>>

RunUntilComplete ==
  /\ caller = "run" /\ sched = "off" /\ sched' = "build" /\ caller' = "running"
  /\ UNCHANGED <<mode, todo, queue, thread, pending, future, request_queue, running, finished,
                 responses, output, stoped, scheduler>>

\* reset(): stop() sets the flag and joins the loop thread, ...
Stop ==
  /\ caller = "idle" /\ stoped' = TRUE /\ caller' = "stop"
  /\ UNCHANGED <<mode, todo, queue, thread, pending, future, schedVars, responses, output, scheduler>>

Exits == [i \in 1 .. Cardinality(Threads) |-> "exit"]

\* Mutant of PushExits: one nullptr for all threads.
PushExitsOne ==
  /\ caller = "stop" /\ sched = "off" /\ queue' = Append(queue, "exit") /\ caller' = "join"
  /\ UNCHANGED <<mode, todo, thread, pending, future, schedVars, responses, output, stoped, scheduler>>

\* ... then reset() pushes a nullptr for each handling thread, ...
PushExits ==
  /\ caller = "stop" /\ sched = "off" /\ queue' = queue \o Exits /\ caller' = "join"
  /\ UNCHANGED <<mode, todo, thread, pending, future, schedVars, responses, output, stoped, scheduler>>

\* Mutant of Release: the handling threads are not joined.
ReleaseEarly ==
  /\ caller = "join" /\ scheduler' = FALSE /\ caller' = "drain" /\ request_queue' = <<>> /\ running' = {} /\ finished' = {}
  /\ responses' = Append(responses, "exit")
  /\ UNCHANGED <<mode, todo, queue, thread, pending, future, sched, output, stoped>>

\* ... joins them and releases the scheduler: its requests are freed, and the
\* response pool is told to exit, ...
Release ==
  /\ caller = "join" /\ \A t \in Threads : thread[t].pc = "exited"
  /\ scheduler' = FALSE /\ caller' = "drain" /\ request_queue' = <<>> /\ running' = {} /\ finished' = {}
  /\ responses' = Append(responses, "exit")
  /\ UNCHANGED <<mode, todo, queue, thread, pending, future, sched, output, stoped>>

\* ... and joined.
Released ==
  /\ caller = "drain" /\ responses = <<>> /\ caller' = "released"
  /\ UNCHANGED <<mode, todo, queue, thread, pending, future, schedVars, responses, output, stoped, scheduler>>

---------------------------------------------------------------------------
(* A handling thread.                                                      *)

Pop(t) ==
  /\ thread[t].pc = "idle" /\ queue # <<>> /\ queue' = Tail(queue)
  /\ thread' = [thread EXCEPT ![t] = IF Head(queue) = "exit" THEN [pc |-> "exited"] ELSE [pc |-> "verify", r |-> Head(queue)]]
  /\ UNCHANGED <<mode, caller, todo, pending, future, schedVars, responses, output, stoped, scheduler>>

\* verify_params and create_request: an error goes to the callback.
Verify(t) ==
  /\ thread[t].pc = "verify"
  /\ \/ thread' = [thread EXCEPT ![t].pc = "schedule"] /\ UNCHANGED output
     \/ /\ thread' = [thread EXCEPT ![t].pc = "refused"]
        /\ output' = [output EXCEPT ![thread[t].r] = "error"]
  /\ UNCHANGED <<mode, caller, todo, queue, pending, future, schedVars, responses, stoped, scheduler>>

\* scheduler_->schedule: RESOURCE_EXHAUSTED if the queue is full.
Schedule(t) ==
  /\ thread[t].pc = "schedule"
  /\ IF Len(request_queue) < QueueSize
     THEN /\ request_queue' = Append(request_queue, thread[t].r)
          /\ thread' = [thread EXCEPT ![t].pc = "accepted"] /\ UNCHANGED output
     ELSE /\ output' = [output EXCEPT ![thread[t].r] = "error"]
          /\ thread' = [thread EXCEPT ![t].pc = "refused"] /\ UNCHANGED request_queue
  /\ UNCHANGED <<mode, caller, todo, queue, pending, future, running, finished, sched, responses, stoped, scheduler>>

\* Mutant of SetPromise: the promise is kept on success only.
SetPromiseAccepted(t) ==
  /\ thread[t].pc \in {"accepted", "refused"}
  /\ future' = IF thread[t].pc = "accepted" THEN [future EXCEPT ![thread[t].r] = "accepted"] ELSE future
  /\ thread' = [thread EXCEPT ![t].pc = "guard"]
  /\ UNCHANGED <<mode, caller, todo, queue, pending, schedVars, responses, output, stoped, scheduler>>

SetPromise(t) ==
  /\ thread[t].pc \in {"accepted", "refused"}
  /\ future' = [future EXCEPT ![thread[t].r] = thread[t].pc]
  /\ thread' = [thread EXCEPT ![t].pc = "guard"]
  /\ UNCHANGED <<mode, caller, todo, queue, pending, schedVars, responses, output, stoped, scheduler>>

\* The scope guard runs dec_pending_requests on every way out of the task.
ScopeGuard(t) ==
  /\ thread[t].pc = "guard" /\ pending' = pending - 1 /\ thread' = [thread EXCEPT ![t] = Free]
  /\ UNCHANGED <<mode, caller, todo, queue, future, schedVars, responses, output, stoped, scheduler>>

---------------------------------------------------------------------------
(* The thread that moves the scheduler forward, and the response thread.   *)

\* build_sequence_batch: finished requests are answered, queued ones join.
Build ==
  /\ sched = "build"
  /\ \E order \in [1 .. Cardinality(finished) -> finished] :
       /\ \A r \in finished : \E i \in DOMAIN order : order[i] = r
       /\ responses' = responses \o order
  /\ running' = (running \ finished) \cup {request_queue[i] : i \in DOMAIN request_queue}
  /\ request_queue' = <<>> /\ finished' = {}
  /\ sched' = IF running' = {} THEN "empty" ELSE "execute"
  /\ UNCHANGED <<mode, caller, todo, queue, thread, pending, future, output, stoped, scheduler>>

\* After step(): the loop looks at the flag.
Next_step == IF mode = "loop" /\ stoped THEN "off" ELSE "build"

\* execute_model; some requests finish.
Execute ==
  /\ sched = "execute"
  /\ \E done \in SUBSET running \ {{}} : finished' = done
  /\ sched' = Next_step
  /\ UNCHANGED <<mode, caller, todo, queue, thread, pending, future, request_queue, running, responses, output, stoped, scheduler>>

\* Mutant of Empty: the responses are not waited for.
EmptyNoWait ==
  /\ sched = "empty"
  /\ IF mode = "loop" \/ pending > 0 THEN sched' = Next_step /\ UNCHANGED caller
     ELSE sched' = "off" /\ caller' = "idle"
  /\ UNCHANGED <<mode, todo, queue, thread, pending, future, request_queue, running, finished, responses, output, stoped, scheduler>>

\* Nothing to run: the loop goes on until it is stopped, run_until_complete
\* until no request is pending; then it waits for the responses.
Empty ==
  /\ sched = "empty"
  /\ IF mode = "loop" \/ pending > 0 THEN sched' = Next_step /\ UNCHANGED responses
     ELSE sched' = "drain" /\ responses' = Append(responses, "notify")
  /\ UNCHANGED <<mode, caller, todo, queue, thread, pending, future, request_queue, running, finished, output, stoped, scheduler>>

\* ResponseHandler's thread takes the next task.
Respond ==
  /\ responses # <<>> /\ responses' = Tail(responses)
  /\ output' = IF Head(responses) \in Requests THEN [output EXCEPT ![Head(responses)] = "ok"] ELSE output
  /\ IF Head(responses) = "notify" THEN sched' = "off" /\ caller' = "idle" ELSE UNCHANGED <<sched, caller>>
  /\ UNCHANGED <<mode, todo, queue, thread, pending, future, request_queue, running, finished, stoped, scheduler>>

HandlingThread(t) == Pop(t) \/ Verify(t) \/ Schedule(t) \/ SetPromise(t) \/ ScopeGuard(t)

SchedulerThread == Build \/ Execute \/ Empty

\* The caller's steps once it has decided on a call.
CallerGoesOn == Wait \/ RunUntilComplete \/ PushExits \/ Release \/ Released \/ \E r \in Requests : Push(r)

Next ==
  \/ Start \/ Stop \/ CallerGoesOn \/ SchedulerThread \/ Respond
  \/ \E batch \in SUBSET Requests : ScheduleBatch(batch)
  \/ \E t \in Threads : HandlingThread(t)

Spec ==
  /\ Init /\ [][Next]_vars
  /\ WF_vars(CallerGoesOn) /\ WF_vars(SchedulerThread) /\ WF_vars(Respond)
  /\ \A t \in Threads : WF_vars(HandlingThread(t))

---------------------------------------------------------------------------
TypeOK ==
  /\ caller \in {"idle", "push", "wait", "run", "running", "stop", "join", "drain", "released"}
  /\ sched \in {"off", "build", "empty", "execute", "drain"} /\ pending \in Nat
  /\ future \in [Requests -> {"none", "unset", "accepted", "refused"}]
  /\ output \in [Requests -> {"none", "error", "ok"}]
  /\ Len(request_queue) <= QueueSize /\ finished \subseteq running

Busy == {t \in Threads : thread[t].pc \notin {"idle", "exited"}}

\* No thread is inside a task or the scheduler when reset() releases them, no
\* task is lost, and after generate() no response is left for the thread pool
\* to work on while it is destroyed.
UsedWhileAlive ==
  ~scheduler => /\ Busy = {} /\ sched = "off" /\ todo = {} /\ queue = <<>>
                /\ mode # "loop" => \A i \in DOMAIN responses : responses[i] \notin Requests

\* generate() that waits for its requests to be scheduled has an output for
\* every one when run_until_complete returns.
GenerateComplete ==
  mode = "wait" /\ caller = "idle" => \A r \in Requests : future[r] # "none" => output[r] # "none"

\* A future handed out becomes ready, even when the handler is reset at once.
FutureReady == \A r \in Requests : future[r] = "unset" ~> future[r] \in {"accepted", "refused"}

\* reset() returns: every join ends.
ResetReturns == caller = "stop" ~> caller = "released"

\* run_until_complete ends when "all pending + scheduled requests are completed".
CompleteOnReturn ==
  mode = "nowait" /\ caller = "idle" => \A r \in Requests : future[r] # "none" => output[r] # "none"

=============================================================================

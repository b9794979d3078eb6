--------------------------- MODULE LLMHandlerProofs --------------------------
(***************************************************************************)
(* LLMHandler for any number of requests and handling threads: reset()     *)
(* releases what nobody uses any more, and generate() returns complete.    *)
(***************************************************************************)
EXTENDS LLMHandler, FiniteSetTheorems, TLAPS

\* The provers for a leaf that names none, with time for a busy machine.
USE SMTT(60), ZenonT(60), Z3T(60)

Holding == {"verify", "schedule", "accepted", "refused"}

HandlerType ==
  /\ caller \in {"idle", "push", "wait", "run", "running", "stop", "join", "drain", "released"}
  /\ sched \in {"off", "build", "empty", "execute", "drain"}
  /\ todo \subseteq Requests /\ running \subseteq Requests /\ finished \subseteq running
  /\ queue \in Seq(Requests \cup {"exit"}) /\ request_queue \in Seq(Requests)
  /\ responses \in Seq(Requests \cup {"exit", "notify"})
  /\ thread \in [Threads -> {Free, [pc |-> "exited"]} \cup [pc : Holding \cup {"guard"}, r : Requests]]
  /\ future \in [Requests -> {"none", "unset", "accepted", "refused"}]
  /\ output \in [Requests -> {"none", "error", "ok"}]
  /\ scheduler \in BOOLEAN

Exited == {t \in Threads : thread[t].pc = "exited"}

\* The nullptrs still in queue_.
ExitsLeft == IF caller \in {"join", "drain", "released"} THEN Cardinality(Threads) - Cardinality(Exited) ELSE 0

\* They are behind every task, and a thread has left only when no task is left.
ExitsLast ==
  /\ ExitsLeft <= Len(queue)
  /\ \A i \in DOMAIN queue : queue[i] = "exit" <=> i > Len(queue) - ExitsLeft
  /\ Exited # {} => caller \in {"join", "drain", "released"} /\ ExitsLeft = Len(queue)

\* Who moves the scheduler, and where reset() is.
CallerState ==
  /\ scheduler <=> caller \notin {"drain", "released"}
  /\ caller # "push" => todo = {}
  /\ caller \in {"join", "drain", "released"} => sched = "off"
  /\ caller \in {"drain", "released"} => \A t \in Threads : thread[t].pc = "exited"
  /\ mode # "loop" => (sched # "off" <=> caller = "running")
  /\ mode = "loop" => caller \notin {"wait", "run", "running"}

\* wait_for_complete: its task is the last one, and before it is there the
\* response thread cannot end the wait.
ResponsesState ==
  /\ \A i \in DOMAIN responses : responses[i] = "notify" <=> sched = "drain" /\ i = Len(responses)
  /\ sched = "drain" => responses # <<>> /\ mode # "loop"
  /\ mode # "loop" /\ sched = "off" => \A i \in DOMAIN responses : responses[i] = "exit"
  /\ scheduler => \A i \in DOMAIN responses : responses[i] # "exit"

HandlerInv == HandlerType /\ ExitsLast /\ CallerState /\ ResponsesState

\* A task is in one place, and its promise is not yet kept.
TasksOnce ==
  /\ \A r \in todo : future[r] = "none"
  /\ \A i, j \in DOMAIN queue : queue[i] = queue[j] /\ queue[i] \in Requests => i = j
  /\ \A i \in DOMAIN queue : queue[i] \in Requests => future[queue[i]] = "unset"
  /\ \A t \in Threads : thread[t].pc \in Holding =>
       /\ future[thread[t].r] = "unset"
       /\ \A i \in DOMAIN queue : queue[i] # thread[t].r
       /\ \A u \in Threads : thread[u].pc \in Holding /\ thread[u].r = thread[t].r => u = t

InScheduler(r) ==
  \/ r \in running
  \/ \E i \in DOMAIN request_queue : request_queue[i] = r
  \/ \E i \in DOMAIN responses : responses[i] = r

\* A request that was scheduled is on its way to the response thread.
OnItsWay ==
  scheduler =>
    /\ \A r \in Requests : future[r] \in {"accepted", "refused"} /\ output[r] = "none" => InScheduler(r)
    /\ \A t \in Threads : thread[t].pc = "accepted" /\ output[thread[t].r] = "none" => InScheduler(thread[t].r)
    /\ \A t \in Threads : thread[t].pc = "refused" => output[thread[t].r] # "none"

\* With wait_for_schedule nothing is scheduled while run_until_complete runs.
WaitState ==
  mode = "wait" =>
    /\ caller \in {"run", "running", "idle"} => \A r \in Requests : future[r] # "unset"
    /\ sched \in {"empty", "drain"} => running = {} /\ request_queue = <<>>
    /\ caller = "idle" => running = {} /\ request_queue = <<>> /\ responses = <<>>

GenerateInv == HandlerInv /\ TasksOnce /\ OnItsWay /\ WaitState

-----------------------------------------------------------------------------
(* Helpers: one thread moves on, the queue of tasks stays.                 *)

LEMMA FunctionIsSeq == ASSUME NEW S, NEW n \in Nat, NEW f \in [1 .. n -> S] PROVE f \in Seq(S)
OBVIOUS

\* A thread in a task goes on to its next step.
LEMMA Moves ==
  ASSUME HandlerType, NEW t \in Threads, NEW x \in Holding \cup {"guard"},
         thread[t] \in [pc : Holding \cup {"guard"}, r : Requests], thread' = [thread EXCEPT ![t].pc = x]
  PROVE  /\ thread' \in [Threads -> {Free, [pc |-> "exited"]} \cup [pc : Holding \cup {"guard"}, r : Requests]]
         /\ thread'[t].pc = x /\ thread'[t].r = thread[t].r
         /\ \A u \in Threads : u # t => thread'[u] = thread[u]
<1> DEFINE moved == [thread[t] EXCEPT !.pc = x]
<1>1. moved \in [pc : Holding \cup {"guard"}, r : Requests] /\ moved.pc = x /\ moved.r = thread[t].r OBVIOUS
<1>2. thread' = [thread EXCEPT ![t] = moved] OBVIOUS
<1> HIDE DEF moved
<1> QED BY <1>1, <1>2 DEF HandlerType

LEMMA ExitsKept ==
  ASSUME ExitsLast, queue' = queue, Exited' = Exited,
         caller' \in {"join", "drain", "released"} <=> caller \in {"join", "drain", "released"}
  PROVE  ExitsLast'
<1>1. ExitsLeft' = ExitsLeft BY DEF ExitsLeft
<1> QED BY <1>1 DEF ExitsLast

-----------------------------------------------------------------------------
(* Every step keeps HandlerInv.                                            *)

LEMMA StartInv == ASSUME HandlerInv, Start PROVE HandlerInv'
<1>1. HandlerType' BY DEF HandlerInv, HandlerType, Start, schedVars
<1>2. ExitsLast'
  <2>1. queue' = queue /\ Exited' = Exited /\ (caller' \in {"join", "drain", "released"} <=> caller \in {"join", "drain", "released"})
    BY DEF Start, Exited
  <2> QED BY <2>1, ExitsKept DEF HandlerInv
<1>3. CallerState' BY DEF HandlerInv, HandlerType, CallerState, Start, schedVars
<1>4. ResponsesState' BY DEF HandlerInv, CallerState, ResponsesState, Start, schedVars
<1> QED BY <1>1, <1>2, <1>3, <1>4 DEF HandlerInv

LEMMA ScheduleBatchInv == ASSUME HandlerInv, NEW batch \in SUBSET Requests, ScheduleBatch(batch) PROVE HandlerInv'
<1>1. HandlerType' BY DEF HandlerInv, HandlerType, ScheduleBatch, schedVars
<1>2. ExitsLast'
  <2>1. queue' = queue /\ Exited' = Exited /\ (caller' \in {"join", "drain", "released"} <=> caller \in {"join", "drain", "released"})
    BY DEF ScheduleBatch, Exited
  <2> QED BY <2>1, ExitsKept DEF HandlerInv
<1>3. CallerState' BY DEF HandlerInv, HandlerType, CallerState, ScheduleBatch, schedVars
<1>4. ResponsesState' BY DEF HandlerInv, CallerState, ResponsesState, ScheduleBatch, schedVars
<1> QED BY <1>1, <1>2, <1>3, <1>4 DEF HandlerInv

LEMMA WaitInv == ASSUME HandlerInv, Wait PROVE HandlerInv'
<1>1. HandlerType' BY DEF HandlerInv, HandlerType, Wait, schedVars
<1>2. ExitsLast'
  <2>1. queue' = queue /\ Exited' = Exited /\ (caller' \in {"join", "drain", "released"} <=> caller \in {"join", "drain", "released"})
    BY DEF Wait, Exited
  <2> QED BY <2>1, ExitsKept DEF HandlerInv
<1>3. CallerState' BY DEF HandlerInv, HandlerType, CallerState, Wait, schedVars
<1>4. ResponsesState' BY DEF HandlerInv, CallerState, ResponsesState, Wait, schedVars
<1> QED BY <1>1, <1>2, <1>3, <1>4 DEF HandlerInv

LEMMA RunUntilCompleteInv == ASSUME HandlerInv, RunUntilComplete PROVE HandlerInv'
<1>1. HandlerType' BY DEF HandlerInv, HandlerType, RunUntilComplete, schedVars
<1>2. ExitsLast'
  <2>1. queue' = queue /\ Exited' = Exited /\ (caller' \in {"join", "drain", "released"} <=> caller \in {"join", "drain", "released"})
    BY DEF RunUntilComplete, Exited
  <2> QED BY <2>1, ExitsKept DEF HandlerInv
<1>3. CallerState' BY DEF HandlerInv, HandlerType, CallerState, RunUntilComplete, schedVars
<1>4. ResponsesState' BY DEF HandlerInv, CallerState, ResponsesState, RunUntilComplete, schedVars
<1> QED BY <1>1, <1>2, <1>3, <1>4 DEF HandlerInv

LEMMA StopInv == ASSUME HandlerInv, Stop PROVE HandlerInv'
<1>1. HandlerType' BY DEF HandlerInv, HandlerType, Stop, schedVars
<1>2. ExitsLast'
  <2>1. queue' = queue /\ Exited' = Exited /\ (caller' \in {"join", "drain", "released"} <=> caller \in {"join", "drain", "released"})
    BY DEF Stop, Exited
  <2> QED BY <2>1, ExitsKept DEF HandlerInv
<1>3. CallerState' BY DEF HandlerInv, HandlerType, CallerState, Stop, schedVars
<1>4. ResponsesState' BY DEF HandlerInv, CallerState, ResponsesState, Stop, schedVars
<1> QED BY <1>1, <1>2, <1>3, <1>4 DEF HandlerInv

LEMMA ReleasedInv == ASSUME HandlerInv, Released PROVE HandlerInv'
<1>1. HandlerType' BY DEF HandlerInv, HandlerType, Released, schedVars
<1>2. ExitsLast'
  <2>1. queue' = queue /\ Exited' = Exited /\ (caller' \in {"join", "drain", "released"} <=> caller \in {"join", "drain", "released"})
    BY DEF Released, Exited
  <2> QED BY <2>1, ExitsKept DEF HandlerInv
<1>3. CallerState' BY DEF HandlerInv, HandlerType, CallerState, Released, schedVars
<1>4. ResponsesState' BY DEF HandlerInv, CallerState, ResponsesState, Released, schedVars
<1> QED BY <1>1, <1>2, <1>3, <1>4 DEF HandlerInv

LEMMA ExecuteInv == ASSUME HandlerInv, Execute PROVE HandlerInv'
<1>1. HandlerType' BY DEF HandlerInv, HandlerType, Execute, schedVars, Next_step
<1>2. ExitsLast'
  <2>1. queue' = queue /\ Exited' = Exited /\ (caller' \in {"join", "drain", "released"} <=> caller \in {"join", "drain", "released"})
    BY DEF Execute, Exited
  <2> QED BY <2>1, ExitsKept DEF HandlerInv
<1>3. CallerState' BY DEF HandlerInv, HandlerType, CallerState, Execute, schedVars, Next_step
<1>4. ResponsesState' BY DEF HandlerInv, CallerState, ResponsesState, Execute, schedVars, Next_step
<1> QED BY <1>1, <1>2, <1>3, <1>4 DEF HandlerInv

LEMMA VerifyInv == ASSUME HandlerInv, NEW t \in Threads, Verify(t) PROVE HandlerInv'
<1>1. HandlerType'
  <2>1. thread[t] \in [pc : Holding \cup {"guard"}, r : Requests] BY DEF HandlerInv, HandlerType, Free, Verify
  <2>2. thread' \in [Threads -> {Free, [pc |-> "exited"]} \cup [pc : Holding \cup {"guard"}, r : Requests]]
    BY <2>1, Moves DEF HandlerInv, HandlerType, Holding, Verify
  <2>3. output' \in [Requests -> {"none", "error", "ok"}]
    BY <2>1, Zenon DEF HandlerInv, HandlerType, Verify
  <2>4. future' \in [Requests -> {"none", "unset", "accepted", "refused"}]
    BY <2>1 DEF HandlerInv, HandlerType, Verify
  <2>5. request_queue' \in Seq(Requests)
    <3>1. thread[t].r \in Requests /\ request_queue \in Seq(Requests) BY <2>1 DEF HandlerInv, HandlerType
    <3> QED BY <3>1 DEF Verify, schedVars
  <2> QED BY <2>2, <2>3, <2>4, <2>5 DEF HandlerInv, HandlerType, Verify, schedVars
<1>2. ExitsLast'
  <2>1. \A u \in Threads : thread'[u].pc = "exited" <=> thread[u].pc = "exited"
    BY DEF HandlerInv, HandlerType, Holding, Free, Verify
  <2> QED BY <2>1, ExitsKept DEF HandlerInv, Exited, Verify
<1>3. CallerState' BY DEF HandlerInv, HandlerType, Holding, Free, CallerState, Verify, schedVars
<1>4. ResponsesState' BY DEF HandlerInv, ResponsesState, Verify, schedVars
<1> QED BY <1>1, <1>2, <1>3, <1>4 DEF HandlerInv

LEMMA ScheduleInv == ASSUME HandlerInv, NEW t \in Threads, Schedule(t) PROVE HandlerInv'
<1>1. HandlerType'
  <2>1. thread[t] \in [pc : Holding \cup {"guard"}, r : Requests] BY DEF HandlerInv, HandlerType, Free, Schedule
  <2>2. thread' \in [Threads -> {Free, [pc |-> "exited"]} \cup [pc : Holding \cup {"guard"}, r : Requests]]
    BY <2>1, Moves DEF HandlerInv, HandlerType, Holding, Schedule
  <2>3. output' \in [Requests -> {"none", "error", "ok"}]
    BY <2>1 DEF HandlerInv, HandlerType, Schedule
  <2>4. future' \in [Requests -> {"none", "unset", "accepted", "refused"}]
    BY <2>1 DEF HandlerInv, HandlerType, Schedule
  <2>5. request_queue' \in Seq(Requests)
    <3>1. thread[t].r \in Requests /\ request_queue \in Seq(Requests) BY <2>1 DEF HandlerInv, HandlerType
    <3> QED BY <3>1 DEF Schedule, schedVars
  <2> QED BY <2>2, <2>3, <2>4, <2>5 DEF HandlerInv, HandlerType, Schedule, schedVars
<1>2. ExitsLast'
  <2>1. \A u \in Threads : thread'[u].pc = "exited" <=> thread[u].pc = "exited"
    BY ZenonT(60) DEF HandlerInv, HandlerType, Holding, Free, Schedule
  <2> QED BY <2>1, ExitsKept DEF HandlerInv, Exited, Schedule
<1>3. CallerState' BY DEF HandlerInv, HandlerType, Holding, Free, CallerState, Schedule, schedVars
<1>4. ResponsesState' BY DEF HandlerInv, ResponsesState, Schedule, schedVars
<1> QED BY <1>1, <1>2, <1>3, <1>4 DEF HandlerInv

LEMMA SetPromiseInv == ASSUME HandlerInv, NEW t \in Threads, SetPromise(t) PROVE HandlerInv'
<1>1. HandlerType'
  <2>1. thread[t] \in [pc : Holding \cup {"guard"}, r : Requests] BY DEF HandlerInv, HandlerType, Free, SetPromise
  <2>2. thread' \in [Threads -> {Free, [pc |-> "exited"]} \cup [pc : Holding \cup {"guard"}, r : Requests]]
    BY <2>1, Moves, Zenon DEF HandlerInv, HandlerType, Holding, SetPromise
  <2>3. output' \in [Requests -> {"none", "error", "ok"}]
    BY <2>1 DEF HandlerInv, HandlerType, SetPromise
  <2>4. future' \in [Requests -> {"none", "unset", "accepted", "refused"}]
    BY <2>1 DEF HandlerInv, HandlerType, SetPromise
  <2>5. request_queue' \in Seq(Requests)
    <3>1. thread[t].r \in Requests /\ request_queue \in Seq(Requests) BY <2>1 DEF HandlerInv, HandlerType
    <3> QED BY <3>1 DEF SetPromise, schedVars
  <2> QED BY <2>2, <2>3, <2>4, <2>5 DEF HandlerInv, HandlerType, SetPromise, schedVars
<1>2. ExitsLast'
  <2>1. \A u \in Threads : thread'[u].pc = "exited" <=> thread[u].pc = "exited"
    BY DEF HandlerInv, HandlerType, Holding, Free, SetPromise
  <2> QED BY <2>1, ExitsKept DEF HandlerInv, Exited, SetPromise
<1>3. CallerState' BY DEF HandlerInv, HandlerType, Holding, Free, CallerState, SetPromise, schedVars
<1>4. ResponsesState' BY DEF HandlerInv, ResponsesState, SetPromise, schedVars
<1> QED BY <1>1, <1>2, <1>3, <1>4 DEF HandlerInv

LEMMA ScopeGuardInv == ASSUME HandlerInv, NEW t \in Threads, ScopeGuard(t) PROVE HandlerInv'
<1>1. HandlerType'
  <2>1. thread[t] \in [pc : Holding \cup {"guard"}, r : Requests] BY DEF HandlerInv, HandlerType, Free, ScopeGuard
  <2>2. thread' \in [Threads -> {Free, [pc |-> "exited"]} \cup [pc : Holding \cup {"guard"}, r : Requests]]
    BY <2>1, Moves, Zenon DEF HandlerInv, HandlerType, Holding, ScopeGuard
  <2>3. output' \in [Requests -> {"none", "error", "ok"}]
    BY <2>1 DEF HandlerInv, HandlerType, ScopeGuard
  <2>4. future' \in [Requests -> {"none", "unset", "accepted", "refused"}]
    BY <2>1 DEF HandlerInv, HandlerType, ScopeGuard
  <2>5. request_queue' \in Seq(Requests)
    <3>1. thread[t].r \in Requests /\ request_queue \in Seq(Requests) BY <2>1 DEF HandlerInv, HandlerType
    <3> QED BY <3>1 DEF ScopeGuard, schedVars
  <2> QED BY <2>2, <2>3, <2>4, <2>5 DEF HandlerInv, HandlerType, ScopeGuard, schedVars
<1>2. ExitsLast'
  <2>1. \A u \in Threads : thread'[u].pc = "exited" <=> thread[u].pc = "exited"
    BY DEF HandlerInv, HandlerType, Holding, Free, ScopeGuard
  <2> QED BY <2>1, ExitsKept DEF HandlerInv, Exited, ScopeGuard
<1>3. CallerState' BY DEF HandlerInv, HandlerType, Holding, Free, CallerState, ScopeGuard, schedVars
<1>4. ResponsesState' BY DEF HandlerInv, ResponsesState, ScopeGuard, schedVars
<1> QED BY <1>1, <1>2, <1>3, <1>4 DEF HandlerInv

LEMMA PushInv == ASSUME HandlerInv, NEW r \in Requests, Push(r) PROVE HandlerInv'
<1>1. HandlerType' BY DEF HandlerInv, HandlerType, Push, schedVars
<1>2. ExitsLast'
  <2>1. /\ ExitsLeft = 0 /\ ExitsLeft' = 0 /\ Exited' = Exited /\ Exited = {}
        /\ queue' = Append(queue, r) /\ r # "exit" /\ queue \in Seq(Requests \cup {"exit"})
    BY HandlerAssumption DEF HandlerInv, HandlerType, ExitsLast, ExitsLeft, Push, Exited
  <2>2. \A i \in DOMAIN queue : queue[i] # "exit" BY <2>1 DEF HandlerInv, ExitsLast
  <2> QED BY <2>1, <2>2 DEF ExitsLast
<1>3. CallerState' BY DEF HandlerInv, HandlerType, CallerState, Push, schedVars
<1>4. ResponsesState' BY DEF HandlerInv, CallerState, ResponsesState, Push, schedVars
<1> QED BY <1>1, <1>2, <1>3, <1>4 DEF HandlerInv

LEMMA PushExitsInv == ASSUME HandlerInv, PushExits PROVE HandlerInv'
<1>0. Cardinality(Threads) \in Nat BY HandlerAssumption, FS_CardinalityType
<1>1. HandlerType'
  <2>1. Exits \in Seq(Requests \cup {"exit"}) BY <1>0, FunctionIsSeq DEF Exits
  <2>2. queue' \in Seq(Requests \cup {"exit"}) BY <2>1 DEF HandlerInv, HandlerType, PushExits
  <2> QED BY <2>2 DEF HandlerInv, HandlerType, PushExits, schedVars
<1>2. ExitsLast'
  <2>1. /\ caller = "stop" /\ caller' = "join" /\ Exited' = Exited /\ Exited = {} /\ ExitsLeft = 0
        /\ queue \in Seq(Requests \cup {"exit"})
    BY DEF HandlerInv, HandlerType, ExitsLast, ExitsLeft, PushExits, Exited
  <2>2. ExitsLeft' = Cardinality(Threads) BY <1>0, <2>1, FS_EmptySet DEF ExitsLeft
  <2>3. \A i \in DOMAIN queue : queue[i] # "exit" BY <2>1 DEF HandlerInv, ExitsLast
  <2>4. /\ Len(queue') = Len(queue) + Cardinality(Threads) /\ DOMAIN queue' = 1 .. Len(queue')
        /\ \A i \in DOMAIN queue' : queue'[i] = IF i <= Len(queue) THEN queue[i] ELSE "exit"
    BY <1>0, <2>1 DEF PushExits, Exits
  <2> QED BY <1>0, <2>1, <2>2, <2>3, <2>4 DEF ExitsLast
<1>3. CallerState' BY DEF HandlerInv, HandlerType, CallerState, PushExits, schedVars
<1>4. ResponsesState' BY DEF HandlerInv, ResponsesState, PushExits, schedVars
<1> QED BY <1>1, <1>2, <1>3, <1>4 DEF HandlerInv

LEMMA ReleaseInv == ASSUME HandlerInv, Release PROVE HandlerInv'
<1>1. HandlerType'
  <2>1. responses' \in Seq(Requests \cup {"exit", "notify"}) BY DEF HandlerInv, HandlerType, Release
  <2>2. /\ request_queue' = <<>> /\ running' = {} /\ finished' = {} /\ caller' = "drain" /\ scheduler' = FALSE
        /\ UNCHANGED <<todo, queue, thread, future, sched, output>>
    BY DEF Release
  <2>3. request_queue' \in Seq(Requests) BY <2>2
  <2>4. running' \subseteq Requests /\ finished' \subseteq running' BY <2>2
  <2>5. scheduler' \in BOOLEAN BY <2>2, Zenon
  <2> QED BY <2>1, <2>2, <2>3, <2>4, <2>5, ZenonT(60) DEF HandlerInv, HandlerType
<1>2. ExitsLast' BY ExitsKept DEF HandlerInv, Release, Exited
<1>3. CallerState' BY DEF HandlerInv, HandlerType, CallerState, Release
<1>4. ResponsesState'
  <2>1. responses \in Seq(Requests \cup {"exit", "notify"}) /\ responses' = Append(responses, "exit")
    BY DEF HandlerInv, HandlerType, Release
  <2>2. sched = "off" /\ sched' = "off" /\ ~scheduler' /\ mode' = mode BY DEF HandlerInv, CallerState, Release
  <2> QED BY <2>1, <2>2 DEF HandlerInv, ResponsesState
<1> QED BY <1>1, <1>2, <1>3, <1>4 DEF HandlerInv

LEMMA PopInv == ASSUME HandlerInv, NEW t \in Threads, Pop(t) PROVE HandlerInv'
<1> DEFINE next == IF Head(queue) = "exit" THEN [pc |-> "exited"] ELSE [pc |-> "verify", r |-> Head(queue)]
<1>1. /\ queue \in Seq(Requests \cup {"exit"}) /\ queue # <<>> /\ Head(queue) \in Requests \cup {"exit"}
      /\ Len(queue) \in Nat \ {0} /\ DOMAIN queue = 1 .. Len(queue) /\ Head(queue) = queue[1]
      /\ queue' = Tail(queue) /\ Len(queue') = Len(queue) - 1 /\ DOMAIN queue' = 1 .. Len(queue')
      /\ \A i \in DOMAIN queue' : queue'[i] = queue[i + 1]
  BY DEF HandlerInv, HandlerType, Pop
<1>2. thread' = [thread EXCEPT ![t] = next] /\ thread[t].pc = "idle" BY DEF Pop
<1>3. HandlerType'
  <2>1. thread' \in [Threads -> {Free, [pc |-> "exited"]} \cup [pc : Holding \cup {"guard"}, r : Requests]]
    BY <1>1, <1>2 DEF HandlerInv, HandlerType, Holding
  <2>2. queue' \in Seq(Requests \cup {"exit"}) BY <1>1
  <2> QED BY <2>1, <2>2 DEF HandlerInv, HandlerType, Pop, schedVars
<1>4. CallerState'
  <2>1. caller \notin {"drain", "released"} BY <1>2 DEF HandlerInv, CallerState
  <2> QED BY <2>1 DEF HandlerInv, CallerState, Pop, schedVars
<1>5. ResponsesState' BY DEF HandlerInv, ResponsesState, Pop, schedVars
<1>6. IsFiniteSet(Exited) /\ Cardinality(Exited) \in Nat /\ Cardinality(Threads) \in Nat
  BY HandlerAssumption, FS_Subset, FS_CardinalityType DEF Exited
<1>7. CASE Head(queue) = "exit"
  <2>1. Exited' = Exited \cup {t} /\ t \notin Exited
    BY <1>2, <1>7 DEF HandlerInv, HandlerType, Exited
  <2>2. Cardinality(Exited') = Cardinality(Exited) + 1 BY <1>6, <2>1, FS_AddElement
  <2>3. 1 > Len(queue) - ExitsLeft /\ ExitsLeft <= Len(queue) BY <1>1, <1>7 DEF HandlerInv, ExitsLast
  <2>4. caller \in {"join", "drain", "released"} /\ caller' = caller
    BY <1>1, <2>3 DEF ExitsLeft, Pop
  <2>5. ExitsLeft \in Int /\ ExitsLeft = Len(queue) /\ ExitsLeft' = ExitsLeft - 1
    BY <1>1, <1>6, <2>2, <2>3, <2>4 DEF ExitsLeft
  <2>6. \A i \in DOMAIN queue' : queue'[i] = "exit" BY <1>1, <2>5 DEF HandlerInv, ExitsLast
  <2>7. ExitsLast' BY <1>1, <2>4, <2>5, <2>6 DEF ExitsLast
  <2> QED BY <1>3, <1>4, <1>5, <2>7 DEF HandlerInv
<1>8. CASE Head(queue) # "exit"
  <2>1. Exited' = Exited /\ caller' = caller BY <1>2, <1>8 DEF HandlerInv, HandlerType, Exited, Pop
  <2>2. ExitsLeft' = ExitsLeft /\ ExitsLeft \in Int BY <1>6, <2>1 DEF ExitsLeft
  <2>3. ~(1 > Len(queue) - ExitsLeft) BY <1>1, <1>8 DEF HandlerInv, ExitsLast
  <2>4. Exited = {}
    <3>1. Exited # {} => ExitsLeft = Len(queue) BY DEF HandlerInv, ExitsLast
    <3>2. Len(queue) \in Int BY <1>1
    <3>3. ExitsLeft # Len(queue) BY <2>2, <2>3, <3>2
    <3> QED BY <3>1, <3>3
  <2>5. ExitsLeft' <= Len(queue') BY <1>1, <2>2, <2>3
  <2>6. \A i \in DOMAIN queue' : queue'[i] = "exit" <=> i > Len(queue') - ExitsLeft'
    <3> SUFFICES ASSUME NEW i \in DOMAIN queue' PROVE queue'[i] = "exit" <=> i > Len(queue') - ExitsLeft'
      OBVIOUS
    <3>1. i + 1 \in DOMAIN queue /\ queue'[i] = queue[i + 1] /\ i \in Nat BY <1>1
    <3>2. queue[i + 1] = "exit" <=> i + 1 > Len(queue) - ExitsLeft BY <3>1 DEF HandlerInv, ExitsLast
    <3> QED BY <1>1, <2>2, <3>1, <3>2
  <2>7. ExitsLast' BY <2>1, <2>4, <2>5, <2>6 DEF ExitsLast
  <2> QED BY <1>3, <1>4, <1>5, <2>7 DEF HandlerInv
<1> QED BY <1>7, <1>8

\* The answered requests, in the order build_sequence_batch hands them over.
LEMMA Answers ==
  ASSUME HandlerInv, Build
  PROVE  \E order \in Seq(Requests) :
           /\ responses' = responses \o order
           /\ \A r \in finished : \E i \in DOMAIN order : order[i] = r
<1>1. Cardinality(finished) \in Nat
  BY HandlerAssumption, FS_Subset, FS_CardinalityType DEF HandlerInv, HandlerType
<1>2. PICK order \in [1 .. Cardinality(finished) -> finished] :
        /\ \A r \in finished : \E i \in DOMAIN order : order[i] = r
        /\ responses' = responses \o order
  BY Zenon DEF Build
<1>3. order \in [1 .. Cardinality(finished) -> Requests] BY DEF HandlerInv, HandlerType
<1>4. order \in Seq(Requests) BY <1>1, <1>3, FunctionIsSeq
<1> QED BY <1>2, <1>4, Zenon

LEMMA BuildInv == ASSUME HandlerInv, Build PROVE HandlerInv'
<1>0. PICK order \in Seq(Requests) : responses' = responses \o order BY Answers
<1>1. HandlerType'
  <2>1. responses' \in Seq(Requests \cup {"exit", "notify"}) BY <1>0 DEF HandlerInv, HandlerType
  <2>2. running' \subseteq Requests /\ finished' = {} /\ request_queue' = <<>> BY DEF HandlerInv, HandlerType, Build
  <2>3. sched' \in {"off", "build", "empty", "execute", "drain"} BY DEF Build
  <2> QED BY <2>1, <2>2, <2>3 DEF HandlerInv, HandlerType, Build
<1>2. ExitsLast' BY ExitsKept DEF HandlerInv, Build, Exited
<1>3. CallerState' BY DEF HandlerInv, HandlerType, CallerState, Build
<1>4. ResponsesState'
  <2>1. /\ sched = "build" /\ sched' \in {"empty", "execute"} /\ scheduler' = scheduler BY DEF Build
  <2>2. responses \in Seq(Requests \cup {"exit", "notify"}) BY DEF HandlerInv, HandlerType
  <2>3. \A i \in DOMAIN responses' : (i \in DOMAIN responses /\ responses'[i] = responses[i]) \/ responses'[i] \in Requests
    BY <1>0, <2>2
  <2> QED BY <2>1, <2>3, HandlerAssumption DEF HandlerInv, ResponsesState
<1> QED BY <1>1, <1>2, <1>3, <1>4 DEF HandlerInv

LEMMA EmptyInv == ASSUME HandlerInv, Empty PROVE HandlerInv'
<1>0. responses \in Seq(Requests \cup {"exit", "notify"}) /\ scheduler /\ sched = "empty"
  BY DEF HandlerInv, HandlerType, CallerState, Empty
<1>1. HandlerType'
  <2>1. responses' \in Seq(Requests \cup {"exit", "notify"}) BY <1>0 DEF Empty
  <2>2. sched' \in {"off", "build", "drain"} BY DEF Empty, Next_step
  <2> QED BY <2>1, <2>2 DEF HandlerInv, HandlerType, Empty
<1>2. ExitsLast' BY ExitsKept DEF HandlerInv, Empty, Exited
<1>3. CallerState'
  <2>1. CASE mode = "loop" BY <2>1, <1>0 DEF HandlerInv, HandlerType, CallerState, Empty, Next_step
  <2>2. CASE mode # "loop" BY <2>2, <1>0 DEF HandlerInv, HandlerType, CallerState, Empty, Next_step
  <2> QED BY <2>1, <2>2
<1>4. ResponsesState'
  <2>1. CASE mode = "loop" \/ pending > 0
    BY <1>0, <2>1 DEF HandlerInv, ResponsesState, CallerState, Empty, Next_step
  <2>2. CASE ~(mode = "loop" \/ pending > 0)
    <3>1. /\ responses' = Append(responses, "notify") /\ sched' = "drain" /\ mode' = mode /\ mode # "loop"
          /\ scheduler' = scheduler
      BY <2>2 DEF Empty
    <3>2. /\ Len(responses') = Len(responses) + 1 /\ DOMAIN responses' = 1 .. Len(responses) + 1 /\ Len(responses) \in Nat
          /\ DOMAIN responses = 1 .. Len(responses) /\ responses'[Len(responses) + 1] = "notify"
          /\ \A i \in DOMAIN responses : responses'[i] = responses[i]
      BY <1>0, <3>1
    <3>3. \A i \in DOMAIN responses : responses[i] # "notify" /\ responses[i] # "exit" BY <1>0 DEF HandlerInv, ResponsesState
    <3>4. \A i \in DOMAIN responses' : i \in DOMAIN responses \/ i = Len(responses') BY <3>2
    <3>5. \A i \in DOMAIN responses : i # Len(responses') BY <3>2
    <3> QED BY <3>1, <3>2, <3>3, <3>4, <3>5 DEF ResponsesState
  <2> QED BY <2>1, <2>2
<1> QED BY <1>1, <1>2, <1>3, <1>4 DEF HandlerInv

LEMMA RespondInv == ASSUME HandlerInv, Respond PROVE HandlerInv'
<1>0. /\ responses \in Seq(Requests \cup {"exit", "notify"}) /\ responses # <<>> /\ responses' = Tail(responses)
      /\ Head(responses) = responses[1] /\ 1 \in DOMAIN responses /\ Len(responses) \in Nat
      /\ DOMAIN responses = 1 .. Len(responses) /\ DOMAIN responses' = 1 .. Len(responses) - 1 /\ Len(responses') = Len(responses) - 1
      /\ \A i \in DOMAIN responses' : responses'[i] = responses[i + 1] /\ i + 1 \in DOMAIN responses
  BY DEF HandlerInv, HandlerType, Respond
<1>1. HandlerType'
  <2>1. responses' \in Seq(Requests \cup {"exit", "notify"}) BY <1>0
  <2>2. output' \in [Requests -> {"none", "error", "ok"}] BY DEF HandlerInv, HandlerType, Respond
  <2> QED BY <2>1, <2>2 DEF HandlerInv, HandlerType, Respond
<1>2. CASE Head(responses) = "notify"
  <2>1. sched = "drain" /\ Len(responses) = 1 /\ mode # "loop" /\ caller = "running"
    BY <1>0, <1>2 DEF HandlerInv, ResponsesState, CallerState
  <2>2. DOMAIN responses' = {} BY <1>0, <2>1
  <2>3. ExitsLast' BY <1>2, <2>1, ExitsKept DEF HandlerInv, Respond, Exited
  <2>4. CallerState' BY <1>2, <2>1 DEF HandlerInv, HandlerType, CallerState, Respond
  <2>5. ResponsesState' BY <1>2, <2>1, <2>2 DEF ResponsesState, Respond
  <2> QED BY <1>1, <2>3, <2>4, <2>5 DEF HandlerInv
<1>3. CASE Head(responses) # "notify"
  <2>1. sched' = sched /\ caller' = caller /\ mode' = mode /\ scheduler' = scheduler BY <1>3 DEF Respond
  <2>2. ExitsLast' BY <2>1, ExitsKept DEF HandlerInv, Respond, Exited
  <2>3. CallerState' BY <2>1 DEF HandlerInv, HandlerType, CallerState, Respond
  <2>4. sched = "drain" => Len(responses) # 1 BY <1>0, <1>3 DEF HandlerInv, ResponsesState
  <2>5. ResponsesState'
    <3>1. sched = "drain" => responses' # <<>> /\ mode' # "loop" BY <1>0, <2>1, <2>4 DEF HandlerInv, ResponsesState
    <3>2. \A i \in DOMAIN responses' : responses'[i] = "notify" <=> sched = "drain" /\ i = Len(responses')
      BY <1>0 DEF HandlerInv, ResponsesState
    <3>3. /\ mode # "loop" /\ sched = "off" => \A i \in DOMAIN responses' : responses'[i] = "exit"
          /\ scheduler => \A i \in DOMAIN responses' : responses'[i] # "exit"
      BY <1>0 DEF HandlerInv, ResponsesState
    <3> QED BY <2>1, <3>1, <3>2, <3>3 DEF ResponsesState
  <2> QED BY <1>1, <2>2, <2>3, <2>5 DEF HandlerInv
<1> QED BY <1>2, <1>3

LEMMA InitInv == Init => HandlerInv
<1> SUFFICES ASSUME Init PROVE HandlerInv OBVIOUS
<1>1. HandlerType BY DEF Init, HandlerType, Free
<1>2. ExitsLast BY DEF Init, ExitsLast, ExitsLeft, Exited, Free
<1> QED BY <1>1, <1>2 DEF Init, HandlerInv, CallerState, ResponsesState

LEMMA NextInv == HandlerInv /\ [Next]_vars => HandlerInv'
<1> SUFFICES ASSUME HandlerInv, [Next]_vars PROVE HandlerInv' OBVIOUS
<1>1. CASE Start BY <1>1, StartInv
<1>2. CASE Stop BY <1>2, StopInv
<1>3. CASE CallerGoesOn
  BY <1>3, WaitInv, RunUntilCompleteInv, PushExitsInv, ReleaseInv, ReleasedInv, PushInv DEF CallerGoesOn
<1>4. CASE SchedulerThread BY <1>4, BuildInv, ExecuteInv, EmptyInv DEF SchedulerThread
<1>5. CASE Respond BY <1>5, RespondInv
<1>6. CASE \E batch \in SUBSET Requests : ScheduleBatch(batch) BY <1>6, ScheduleBatchInv
<1>7. CASE \E t \in Threads : HandlingThread(t)
  BY <1>7, PopInv, VerifyInv, ScheduleInv, SetPromiseInv, ScopeGuardInv DEF HandlingThread
<1>8. CASE UNCHANGED vars
  <2>1. HandlerType' /\ CallerState' /\ ResponsesState'
    BY <1>8 DEF vars, HandlerInv, HandlerType, CallerState, ResponsesState
  <2>2. ExitsLast' BY <1>8, ExitsKept DEF vars, HandlerInv, Exited
  <2> QED BY <2>1, <2>2 DEF HandlerInv
<1> QED BY <1>1, <1>2, <1>3, <1>4, <1>5, <1>6, <1>7, <1>8 DEF Next

\* Releasing the scheduler finds no thread inside a task or inside the
\* scheduler, no task left in the queue and, after generate(), no response.
THEOREM NothingUsedAfterRelease == Spec => []UsedWhileAlive
<1>1. HandlerInv => UsedWhileAlive
  <2> SUFFICES ASSUME HandlerInv, ~scheduler PROVE UsedWhileAlive BY DEF UsedWhileAlive
  <2>1. caller \in {"drain", "released"} /\ sched = "off" /\ todo = {} /\ Exited = Threads
    BY DEF HandlerInv, HandlerType, CallerState, Exited
  <2>2. Busy = {} BY <2>1 DEF Busy, Exited
  <2>3. ExitsLeft = 0 BY <2>1, HandlerAssumption, FS_CardinalityType DEF ExitsLeft
  <2>5. queue = <<>> BY <2>1, <2>3, HandlerAssumption DEF HandlerInv, HandlerType, ExitsLast
  <2> QED BY <2>1, <2>2, <2>5, HandlerAssumption DEF HandlerInv, ResponsesState, UsedWhileAlive
<1> QED BY <1>1, InitInv, NextInv, PTL DEF Spec

-----------------------------------------------------------------------------
(* generate(): every request has its output.                               *)

\* A step that touches no task.
LEMMA TasksKept ==
  ASSUME TasksOnce, UNCHANGED <<future, queue, thread>>, \A r \in todo' : future[r] = "none"
  PROVE  TasksOnce'
BY DEF TasksOnce

\* A step that answers nobody and moves no request.
LEMMA WayKept ==
  ASSUME OnItsWay, UNCHANGED <<scheduler, future, output, thread>>,
         \A r \in Requests : InScheduler(r) => InScheduler(r)', HandlerType
  PROVE  OnItsWay'
<1>1. \A t \in Threads : thread[t].pc = "accepted" => thread[t].r \in Requests
  BY DEF HandlerType, Free, Holding
<1> QED BY <1>1 DEF OnItsWay

LEMMA StillInScheduler ==
  ASSUME UNCHANGED <<running, request_queue, responses>> PROVE \A r \in Requests : InScheduler(r) => InScheduler(r)'
BY DEF InScheduler

LEMMA StartGenerate == ASSUME GenerateInv, Start PROVE TasksOnce' /\ OnItsWay' /\ WaitState'
<1>1. TasksOnce' BY TasksKept DEF GenerateInv, HandlerInv, CallerState, TasksOnce, Start, schedVars
<1>2. OnItsWay' BY WayKept, StillInScheduler DEF GenerateInv, HandlerInv, Start, schedVars
<1>3. WaitState' BY DEF GenerateInv, HandlerInv, CallerState, WaitState, Start, schedVars
<1> QED BY <1>1, <1>2, <1>3

LEMMA ScheduleBatchGenerate == ASSUME GenerateInv, NEW batch \in SUBSET Requests, ScheduleBatch(batch) PROVE TasksOnce' /\ OnItsWay' /\ WaitState'
<1>1. TasksOnce' BY TasksKept DEF GenerateInv, HandlerInv, CallerState, TasksOnce, ScheduleBatch, schedVars
<1>2. OnItsWay' BY WayKept, StillInScheduler DEF GenerateInv, HandlerInv, ScheduleBatch, schedVars
<1>3. WaitState' BY DEF GenerateInv, HandlerInv, CallerState, WaitState, ScheduleBatch, schedVars
<1> QED BY <1>1, <1>2, <1>3

LEMMA WaitGenerate == ASSUME GenerateInv, Wait PROVE TasksOnce' /\ OnItsWay' /\ WaitState'
<1>1. TasksOnce' BY TasksKept DEF GenerateInv, HandlerInv, CallerState, TasksOnce, Wait, schedVars
<1>2. OnItsWay' BY WayKept, StillInScheduler DEF GenerateInv, HandlerInv, Wait, schedVars
<1>3. WaitState' BY DEF GenerateInv, HandlerInv, CallerState, WaitState, Wait, schedVars
<1> QED BY <1>1, <1>2, <1>3

LEMMA RunUntilCompleteGenerate == ASSUME GenerateInv, RunUntilComplete PROVE TasksOnce' /\ OnItsWay' /\ WaitState'
<1>1. TasksOnce' BY TasksKept DEF GenerateInv, HandlerInv, CallerState, TasksOnce, RunUntilComplete, schedVars
<1>2. OnItsWay' BY WayKept, StillInScheduler DEF GenerateInv, HandlerInv, RunUntilComplete, schedVars
<1>3. WaitState' BY DEF GenerateInv, HandlerInv, CallerState, WaitState, RunUntilComplete, schedVars
<1> QED BY <1>1, <1>2, <1>3

LEMMA StopGenerate == ASSUME GenerateInv, Stop PROVE TasksOnce' /\ OnItsWay' /\ WaitState'
<1>1. TasksOnce' BY TasksKept DEF GenerateInv, HandlerInv, CallerState, TasksOnce, Stop, schedVars
<1>2. OnItsWay' BY WayKept, StillInScheduler DEF GenerateInv, HandlerInv, Stop, schedVars
<1>3. WaitState' BY DEF GenerateInv, HandlerInv, CallerState, WaitState, Stop, schedVars
<1> QED BY <1>1, <1>2, <1>3

LEMMA ReleasedGenerate == ASSUME GenerateInv, Released PROVE TasksOnce' /\ OnItsWay' /\ WaitState'
<1>1. TasksOnce' BY TasksKept DEF GenerateInv, HandlerInv, CallerState, TasksOnce, Released, schedVars
<1>2. OnItsWay' BY WayKept, StillInScheduler DEF GenerateInv, HandlerInv, Released, schedVars
<1>3. WaitState' BY DEF GenerateInv, HandlerInv, CallerState, WaitState, Released, schedVars
<1> QED BY <1>1, <1>2, <1>3

LEMMA ExecuteGenerate == ASSUME GenerateInv, Execute PROVE TasksOnce' /\ OnItsWay' /\ WaitState'
<1>1. TasksOnce' BY TasksKept DEF GenerateInv, TasksOnce, Execute
<1>2. OnItsWay' BY WayKept, StillInScheduler DEF GenerateInv, HandlerInv, Execute
<1>3. WaitState' BY DEF GenerateInv, WaitState, Execute, Next_step
<1> QED BY <1>1, <1>2, <1>3

LEMMA PushGenerate == ASSUME GenerateInv, NEW r \in Requests, Push(r) PROVE TasksOnce' /\ OnItsWay' /\ WaitState'
<1>0. /\ future[r] = "none" /\ future' = [future EXCEPT ![r] = "unset"]
      /\ future \in [Requests -> {"none", "unset", "accepted", "refused"}]
      /\ todo' = todo \ {r} /\ todo \subseteq Requests /\ thread' = thread
  BY DEF GenerateInv, HandlerInv, HandlerType, TasksOnce, Push
<1>1. \A q \in Requests : q # r => future'[q] = future[q] BY <1>0
<1>2. \A t \in Threads : thread[t].pc \in Holding => thread[t].r \in Requests /\ thread[t].r # r
  BY <1>0 DEF GenerateInv, HandlerInv, HandlerType, TasksOnce, Free, Holding
<1>3. TasksOnce'
  <2>1. queue \in Seq(Requests \cup {"exit"}) BY DEF GenerateInv, HandlerInv, HandlerType
  <2>a. \A i \in DOMAIN queue' : (i \in DOMAIN queue /\ queue'[i] = queue[i]) \/ (i = Len(queue) + 1 /\ queue'[i] = r)
    <3>1. queue' = Append(queue, r) BY DEF Push
    <3>2. Len(queue) \in Nat /\ DOMAIN queue = 1 .. Len(queue) /\ DOMAIN queue' = 1 .. Len(queue) + 1 BY <2>1, <3>1
    <3>3. queue'[Len(queue) + 1] = r /\ \A i \in 1 .. Len(queue) : queue'[i] = queue[i] BY <2>1, <3>1
    <3>4. \A i \in 1 .. Len(queue) + 1 : i \in 1 .. Len(queue) \/ i = Len(queue) + 1 BY <3>2
    <3> QED BY <3>2, <3>3, <3>4
  <2>b. \A i \in DOMAIN queue : queue[i] # r BY <1>0 DEF GenerateInv, TasksOnce
  <2>2. /\ \A i \in DOMAIN queue' : (i \in DOMAIN queue /\ queue'[i] = queue[i]) \/ (i = Len(queue) + 1 /\ queue'[i] = r)
        /\ \A i \in DOMAIN queue : queue[i] \in Requests => queue[i] # r
    BY <2>a, <2>b
  <2>3. \A q \in todo' : future'[q] = "none" BY <1>0, <1>1 DEF GenerateInv, TasksOnce
  <2>4. \A i, j \in DOMAIN queue' : queue'[i] = queue'[j] /\ queue'[i] \in Requests => i = j
    BY <2>2 DEF GenerateInv, TasksOnce
  <2>5. \A i \in DOMAIN queue' : queue'[i] \in Requests => future'[queue'[i]] = "unset"
    BY <1>0, <1>1, <2>2 DEF GenerateInv, TasksOnce
  <2>6. \A t \in Threads : thread'[t].pc \in Holding =>
          /\ future'[thread'[t].r] = "unset"
          /\ \A i \in DOMAIN queue' : queue'[i] # thread'[t].r
          /\ \A u \in Threads : thread'[u].pc \in Holding /\ thread'[u].r = thread'[t].r => u = t
    BY <1>0, <1>1, <1>2, <2>2 DEF GenerateInv, TasksOnce
  <2> QED BY <2>3, <2>4, <2>5, <2>6 DEF TasksOnce
<1>4. OnItsWay'
  <2>1. \A q \in Requests : InScheduler(q) => InScheduler(q)' BY StillInScheduler DEF Push, schedVars
  <2>2. \A t \in Threads : thread[t].pc = "accepted" => thread[t].r \in Requests BY <1>2 DEF Holding
  <2>3. \A q \in Requests : future'[q] \in {"accepted", "refused"} => future[q] \in {"accepted", "refused"} BY <1>0
  <2> QED BY <1>0, <2>1, <2>2, <2>3 DEF GenerateInv, OnItsWay, Push
<1>5. WaitState' BY DEF GenerateInv, HandlerInv, CallerState, WaitState, Push, schedVars
<1> QED BY <1>3, <1>4, <1>5

LEMMA PushExitsGenerate == ASSUME GenerateInv, PushExits PROVE TasksOnce' /\ OnItsWay' /\ WaitState'
<1>1. TasksOnce'
  <2>0. Cardinality(Threads) \in Nat BY HandlerAssumption, FS_CardinalityType
  <2>1. queue \in Seq(Requests \cup {"exit"}) BY DEF GenerateInv, HandlerInv, HandlerType
  <2>2. \A i \in DOMAIN queue' : (i \in DOMAIN queue /\ queue'[i] = queue[i]) \/ queue'[i] = "exit"
    BY <2>0, <2>1 DEF PushExits, Exits
  <2>3. UNCHANGED <<todo, future, thread>> BY DEF PushExits
  <2>4. \A t \in Threads : thread[t].pc \in Holding => thread[t].r \in Requests
    BY DEF GenerateInv, HandlerInv, HandlerType, Free, Holding
  <2> QED BY <2>2, <2>3, <2>4, HandlerAssumption DEF GenerateInv, TasksOnce
<1>2. OnItsWay' BY WayKept, StillInScheduler DEF GenerateInv, HandlerInv, PushExits, schedVars
<1>3. WaitState' BY DEF GenerateInv, WaitState, PushExits, schedVars
<1> QED BY <1>1, <1>2, <1>3

LEMMA ReleaseGenerate == ASSUME GenerateInv, Release PROVE TasksOnce' /\ OnItsWay' /\ WaitState'
<1>1. TasksOnce' BY TasksKept DEF GenerateInv, TasksOnce, Release
<1>2. OnItsWay' BY DEF OnItsWay, Release
<1>3. WaitState' BY DEF GenerateInv, HandlerInv, CallerState, WaitState, Release
<1> QED BY <1>1, <1>2, <1>3

LEMMA PopGenerate == ASSUME GenerateInv, NEW t \in Threads, Pop(t) PROVE TasksOnce' /\ OnItsWay' /\ WaitState'
<1>1. /\ queue \in Seq(Requests \cup {"exit"}) /\ queue # <<>> /\ Head(queue) = queue[1] /\ 1 \in DOMAIN queue
      /\ \A i \in DOMAIN queue' : i + 1 \in DOMAIN queue /\ queue'[i] = queue[i + 1] /\ i + 1 # 1
      /\ \A i, j \in DOMAIN queue' : i + 1 = j + 1 => i = j
  BY DEF GenerateInv, HandlerInv, HandlerType, Pop
<1>2. /\ UNCHANGED <<todo, future>>
      /\ \A u \in Threads : u # t => thread'[u] = thread[u]
      /\ thread'[t] = IF queue[1] = "exit" THEN [pc |-> "exited"] ELSE [pc |-> "verify", r |-> queue[1]]
  BY <1>1 DEF GenerateInv, HandlerInv, HandlerType, Pop
<1>3. thread'[t].pc \in Holding => thread'[t].r = queue[1] /\ queue[1] \in Requests
  BY <1>1, <1>2, HandlerAssumption DEF Holding
<1>4. \A u \in Threads : thread[u].pc \in Holding => thread[u].r # queue[1] BY <1>1 DEF GenerateInv, TasksOnce
<1>5. TasksOnce'
  <2>1. \A r \in todo' : future'[r] = "none" BY <1>2 DEF GenerateInv, TasksOnce
  <2>2. \A i, j \in DOMAIN queue' : queue'[i] = queue'[j] /\ queue'[i] \in Requests => i = j
    BY <1>1 DEF GenerateInv, TasksOnce
  <2>3. \A i \in DOMAIN queue' : queue'[i] \in Requests => future'[queue'[i]] = "unset"
    BY <1>1, <1>2 DEF GenerateInv, TasksOnce
  <2>4. \A u \in Threads : thread'[u].pc \in Holding =>
          /\ future'[thread'[u].r] = "unset"
          /\ \A i \in DOMAIN queue' : queue'[i] # thread'[u].r
          /\ \A v \in Threads : thread'[v].pc \in Holding /\ thread'[v].r = thread'[u].r => v = u
    <3> SUFFICES ASSUME NEW u \in Threads, thread'[u].pc \in Holding
                 PROVE  /\ future'[thread'[u].r] = "unset"
                        /\ \A i \in DOMAIN queue' : queue'[i] # thread'[u].r
                        /\ \A v \in Threads : thread'[v].pc \in Holding /\ thread'[v].r = thread'[u].r => v = u
      OBVIOUS
    <3>1. CASE u = t
      <4>1. thread'[u].r = queue[1] /\ queue[1] \in Requests BY <1>3, <3>1
      <4>2. future'[queue[1]] = "unset" BY <1>1, <1>2, <4>1 DEF GenerateInv, TasksOnce
      <4>3. \A i \in DOMAIN queue' : queue'[i] # queue[1] BY <1>1, <4>1 DEF GenerateInv, TasksOnce
      <4>4. \A v \in Threads : thread'[v].pc \in Holding /\ thread'[v].r = queue[1] => v = t BY <1>2, <1>4
      <4> QED BY <3>1, <4>1, <4>2, <4>3, <4>4
    <3>2. CASE u # t
      <4>1. thread'[u] = thread[u] BY <1>2, <3>2
      <4>2. future'[thread[u].r] = "unset" /\ \A i \in DOMAIN queue' : queue'[i] # thread[u].r
        BY <1>1, <1>2, <4>1 DEF GenerateInv, TasksOnce
      <4>3. \A v \in Threads : thread'[v].pc \in Holding /\ thread'[v].r = thread[u].r => v = u
        BY <1>2, <1>3, <1>4, <4>1 DEF GenerateInv, TasksOnce
      <4> QED BY <4>1, <4>2, <4>3
    <3> QED BY <3>1, <3>2
  <2> QED BY <2>1, <2>2, <2>3, <2>4 DEF TasksOnce
<1>6. OnItsWay'
  <2>1. \A q \in Requests : InScheduler(q) => InScheduler(q)' BY StillInScheduler DEF Pop, schedVars
  <2>2. \A u \in Threads : thread'[u].pc \in {"accepted", "refused"} => thread'[u] = thread[u] BY <1>2
  <2>3. \A u \in Threads : thread[u].pc = "accepted" => thread[u].r \in Requests
    BY DEF GenerateInv, HandlerInv, HandlerType, Free
  <2> QED BY <2>1, <2>2, <2>3, ZenonT(60) DEF GenerateInv, OnItsWay, Pop
<1>7. WaitState' BY DEF GenerateInv, WaitState, Pop, schedVars
<1> QED BY <1>5, <1>6, <1>7

\* What a thread in a task holds.
LEMMA Held ==
  ASSUME HandlerType, NEW t \in Threads, thread[t].pc \in Holding \cup {"guard"}
  PROVE  thread[t] \in [pc : Holding \cup {"guard"}, r : Requests]
BY DEF HandlerType, Free, Holding

\* A step of a thread that leaves every promise and the queue of tasks alone.
LEMMA TaskGoesOn ==
  ASSUME TasksOnce, NEW t \in Threads, UNCHANGED <<todo, queue, future>>,
         \A u \in Threads : u # t => thread'[u] = thread[u],
         thread'[t].pc \in Holding => thread[t].pc \in Holding /\ thread'[t].r = thread[t].r
  PROVE  TasksOnce'
<1>1. \A u \in Threads : thread'[u].pc \in Holding => thread[u].pc \in Holding /\ thread'[u].r = thread[u].r OBVIOUS
<1> QED BY <1>1 DEF TasksOnce

LEMMA VerifyGenerate == ASSUME GenerateInv, NEW t \in Threads, Verify(t) PROVE TasksOnce' /\ OnItsWay' /\ WaitState'
<1>1. thread[t] \in [pc : Holding \cup {"guard"}, r : Requests] /\ thread[t].pc = "verify" /\ thread[t].r \in Requests
  BY Held DEF GenerateInv, HandlerInv, Verify, Holding
<1>2. /\ thread'[t].pc \in {"schedule", "refused"} /\ thread'[t].r = thread[t].r
      /\ \A u \in Threads : u # t => thread'[u] = thread[u]
  BY <1>1, Moves DEF GenerateInv, HandlerInv, Verify, Holding
<1>3. TasksOnce'
  <2>1. UNCHANGED <<todo, queue, future>> BY DEF Verify
  <2>2. thread[t].pc \in Holding BY <1>1 DEF Holding
  <2> QED BY <1>2, <2>1, <2>2, TaskGoesOn DEF GenerateInv
<1>4. OnItsWay'
  <2>1. \A q \in Requests : InScheduler(q) => InScheduler(q)' BY StillInScheduler DEF Verify, schedVars
  <2>2. /\ \A q \in Requests : output'[q] = "none" => output[q] = "none"
        /\ thread'[t].pc = "refused" => output'[thread[t].r] = "error"
    BY <1>1, Moves DEF GenerateInv, HandlerInv, HandlerType, Verify, Holding
  <2>3. \A u \in Threads : thread[u].pc \in {"accepted", "refused"} => thread[u].r \in Requests
    BY DEF GenerateInv, HandlerInv, HandlerType, Free
  <2>4. future' = future /\ scheduler' = scheduler BY DEF Verify
  <2>5. \A r \in Requests : scheduler /\ future'[r] \in {"accepted", "refused"} /\ output'[r] = "none" => InScheduler(r)'
    BY <2>1, <2>2, <2>4 DEF GenerateInv, OnItsWay
  <2>6. \A u \in Threads : scheduler /\ thread'[u].pc = "accepted" /\ output'[thread'[u].r] = "none" => InScheduler(thread[u].r)'
    BY <1>2, <2>1, <2>2, <2>3 DEF GenerateInv, OnItsWay
  <2>7. \A u \in Threads : scheduler /\ thread'[u].pc = "refused" => output'[thread'[u].r] # "none"
    BY <1>1, <1>2, <2>2, <2>3 DEF GenerateInv, OnItsWay
  <2> QED BY <2>4, <2>5, <2>6, <2>7 DEF OnItsWay
<1>5. WaitState' BY DEF GenerateInv, WaitState, Verify, schedVars
<1> QED BY <1>3, <1>4, <1>5

LEMMA ScheduleGenerate == ASSUME GenerateInv, NEW t \in Threads, Schedule(t) PROVE TasksOnce' /\ OnItsWay' /\ WaitState'
<1>1. thread[t] \in [pc : Holding \cup {"guard"}, r : Requests] /\ thread[t].pc = "schedule" /\ thread[t].r \in Requests
  BY Held DEF GenerateInv, HandlerInv, Schedule, Holding
<1>2. /\ thread'[t].pc \in {"accepted", "refused"} /\ thread'[t].r = thread[t].r
      /\ \A u \in Threads : u # t => thread'[u] = thread[u]
  BY <1>1, Moves DEF GenerateInv, HandlerInv, Schedule, Holding
<1>3. TasksOnce'
  <2>1. UNCHANGED <<todo, queue, future>> BY DEF Schedule
  <2>2. thread[t].pc \in Holding BY <1>1 DEF Holding
  <2> QED BY <1>2, <2>1, <2>2, TaskGoesOn DEF GenerateInv
<1>4. OnItsWay'
  <2>0. request_queue \in Seq(Requests) BY DEF GenerateInv, HandlerInv, HandlerType
  <2>a. \A i \in DOMAIN request_queue : i \in DOMAIN request_queue' /\ request_queue'[i] = request_queue[i]
    BY <1>1, <2>0 DEF Schedule
  <2>b. thread'[t].pc = "accepted" => \E i \in DOMAIN request_queue' : request_queue'[i] = thread[t].r
    <3>1. thread'[t].pc = "accepted" => request_queue' = Append(request_queue, thread[t].r)
      BY <1>1, Moves DEF GenerateInv, HandlerInv, Schedule, Holding
    <3>2. ASSUME request_queue' = Append(request_queue, thread[t].r)
          PROVE  Len(request_queue) + 1 \in DOMAIN request_queue' /\ request_queue'[Len(request_queue) + 1] = thread[t].r
      BY <1>1, <2>0, <3>2
    <3> QED BY <3>1, <3>2
  <2>1. \A q \in Requests : InScheduler(q) => InScheduler(q)' BY <2>a DEF Schedule, InScheduler
  <2>2. /\ \A q \in Requests : output'[q] = "none" => output[q] = "none"
        /\ thread'[t].pc = "refused" => output'[thread[t].r] = "error"
    BY <1>1, Moves DEF GenerateInv, HandlerInv, HandlerType, Schedule, Holding
  <2>3. \A u \in Threads : thread[u].pc \in {"accepted", "refused"} => thread[u].r \in Requests
    BY DEF GenerateInv, HandlerInv, HandlerType, Free
  <2>4. future' = future /\ scheduler' = scheduler BY DEF Schedule
  <2>5. \A r \in Requests : scheduler /\ future'[r] \in {"accepted", "refused"} /\ output'[r] = "none" => InScheduler(r)'
    BY <2>1, <2>2, <2>4 DEF GenerateInv, OnItsWay
  <2>c. thread'[t].pc = "accepted" => InScheduler(thread[t].r)' BY <1>2, <2>b DEF InScheduler
  <2>6. \A u \in Threads : scheduler /\ thread'[u].pc = "accepted" /\ output'[thread'[u].r] = "none" => InScheduler(thread[u].r)'
    BY <1>2, <2>1, <2>2, <2>3, <2>c DEF GenerateInv, OnItsWay
  <2>7. \A u \in Threads : scheduler /\ thread'[u].pc = "refused" => output'[thread'[u].r] # "none"
    BY <1>1, <1>2, <2>2, <2>3 DEF GenerateInv, OnItsWay
  <2> QED BY <2>4, <2>5, <2>6, <2>7 DEF OnItsWay
<1>5. WaitState'
  <2>1. future[thread[t].r] = "unset" BY <1>1 DEF GenerateInv, TasksOnce, Holding
  <2>2. mode = "wait" => caller \notin {"run", "running", "idle"} BY <1>1, <2>1 DEF GenerateInv, WaitState
  <2>3. mode = "wait" => sched \notin {"empty", "drain"} BY <2>2 DEF GenerateInv, HandlerInv, CallerState
  <2> QED BY <2>2, <2>3 DEF WaitState, Schedule
<1> QED BY <1>3, <1>4, <1>5

LEMMA SetPromiseGenerate == ASSUME GenerateInv, NEW t \in Threads, SetPromise(t) PROVE TasksOnce' /\ OnItsWay' /\ WaitState'
<1>1. /\ thread[t] \in [pc : Holding \cup {"guard"}, r : Requests] /\ thread[t].r \in Requests
      /\ thread[t].pc \in {"accepted", "refused"} /\ thread[t].pc \in Holding
  BY Held DEF GenerateInv, HandlerInv, SetPromise, Holding
<1>2. thread'[t].pc = "guard" /\ \A u \in Threads : u # t => thread'[u] = thread[u]
  BY <1>1, Moves, ZenonT(60) DEF GenerateInv, HandlerInv, SetPromise
<1>3. /\ future'[thread[t].r] = thread[t].pc
      /\ \A r \in Requests : r # thread[t].r => future'[r] = future[r]
  BY <1>1 DEF GenerateInv, HandlerInv, HandlerType, SetPromise
<1>4. \A u \in Threads : thread'[u].pc \in Holding =>
        u # t /\ thread'[u] = thread[u] /\ thread[u].r # thread[t].r /\ thread[u].r \in Requests
  <2>1. "guard" \notin Holding BY DEF Holding
  <2>2. \A u \in Threads : thread[u].pc \in Holding => thread[u].r \in Requests BY Held DEF GenerateInv, HandlerInv
  <2> QED BY <1>1, <1>2, <2>1, <2>2 DEF GenerateInv, TasksOnce
<1>5. TasksOnce'
  <2>1. UNCHANGED <<todo, queue>> BY DEF SetPromise
  <2>2. future[thread[t].r] = "unset" /\ todo \subseteq Requests
    BY <1>1 DEF GenerateInv, HandlerInv, HandlerType, TasksOnce
  <2>3. \A r \in todo' : future'[r] = "none" BY <1>3, <2>1, <2>2 DEF GenerateInv, TasksOnce
  <2>4. \A i \in DOMAIN queue : queue[i] # thread[t].r BY <1>1 DEF GenerateInv, TasksOnce
  <2>5. \A i \in DOMAIN queue' : queue'[i] \in Requests => future'[queue'[i]] = "unset"
    BY <1>3, <2>1, <2>4 DEF GenerateInv, TasksOnce
  <2>6. \A i, j \in DOMAIN queue' : queue'[i] = queue'[j] /\ queue'[i] \in Requests => i = j
    BY <2>1 DEF GenerateInv, TasksOnce
  <2>7. \A u \in Threads : thread'[u].pc \in Holding =>
          /\ future'[thread'[u].r] = "unset"
          /\ \A i \in DOMAIN queue' : queue'[i] # thread'[u].r
          /\ \A v \in Threads : thread'[v].pc \in Holding /\ thread'[v].r = thread'[u].r => v = u
    BY <1>3, <1>4, <2>1 DEF GenerateInv, TasksOnce
  <2> QED BY <2>3, <2>5, <2>6, <2>7 DEF TasksOnce
<1>6. OnItsWay'
  <2>1. \A q \in Requests : InScheduler(q) => InScheduler(q)' BY StillInScheduler DEF SetPromise, schedVars
  <2>2. output' = output /\ scheduler' = scheduler BY DEF SetPromise
  <2>3. scheduler /\ output[thread[t].r] = "none" => InScheduler(thread[t].r)
    BY <1>1 DEF GenerateInv, OnItsWay
  <2>4. \A r \in Requests : scheduler /\ future'[r] \in {"accepted", "refused"} /\ output'[r] = "none" => InScheduler(r)'
    BY <1>1, <1>3, <2>1, <2>2, <2>3 DEF GenerateInv, OnItsWay
  <2>5. \A u \in Threads : thread'[u].pc \in {"accepted", "refused"} => thread'[u] = thread[u] /\ thread[u].r \in Requests
    BY <1>4 DEF Holding
  <2>6. \A u \in Threads : scheduler /\ thread'[u].pc = "accepted" /\ output'[thread'[u].r] = "none" => InScheduler(thread[u].r)'
    BY <2>1, <2>2, <2>5 DEF GenerateInv, OnItsWay
  <2>7. \A u \in Threads : scheduler /\ thread'[u].pc = "refused" => output'[thread'[u].r] # "none"
    BY <2>2, <2>5 DEF GenerateInv, OnItsWay
  <2> QED BY <2>2, <2>4, <2>6, <2>7 DEF OnItsWay
<1>7. WaitState'
  <2>1. \A r \in Requests : future'[r] = "unset" => future[r] = "unset" BY <1>1, <1>3
  <2> QED BY <2>1 DEF GenerateInv, WaitState, SetPromise, schedVars
<1> QED BY <1>5, <1>6, <1>7

LEMMA ScopeGuardGenerate == ASSUME GenerateInv, NEW t \in Threads, ScopeGuard(t) PROVE TasksOnce' /\ OnItsWay' /\ WaitState'
<1>1. thread'[t] = Free /\ \A u \in Threads : u # t => thread'[u] = thread[u]
  BY DEF GenerateInv, HandlerInv, HandlerType, ScopeGuard
<1>2. thread'[t].pc \notin Holding BY <1>1 DEF Free, Holding
<1>3. TasksOnce'
  <2>1. UNCHANGED <<todo, queue, future>> BY DEF ScopeGuard
  <2> QED BY <1>1, <1>2, <2>1, TaskGoesOn DEF GenerateInv
<1>4. OnItsWay'
  <2>1. \A q \in Requests : InScheduler(q) => InScheduler(q)' BY StillInScheduler DEF ScopeGuard, schedVars
  <2>2. \A u \in Threads : thread'[u].pc \in {"accepted", "refused"} => thread'[u] = thread[u]
    BY <1>1, <1>2 DEF Holding
  <2>3. \A u \in Threads : thread[u].pc = "accepted" => thread[u].r \in Requests
    BY DEF GenerateInv, HandlerInv, HandlerType, Free
  <2> QED BY <2>1, <2>2, <2>3 DEF GenerateInv, OnItsWay, ScopeGuard
<1>5. WaitState' BY DEF GenerateInv, WaitState, ScopeGuard, schedVars
<1> QED BY <1>3, <1>4, <1>5

LEMMA BuildGenerate == ASSUME GenerateInv, Build PROVE TasksOnce' /\ OnItsWay' /\ WaitState'
<1>1. TasksOnce' BY TasksKept DEF GenerateInv, TasksOnce, Build
<1>2. OnItsWay'
  <2>1. PICK order \in Seq(Requests) :
          responses' = responses \o order /\ \A r \in finished : \E i \in DOMAIN order : order[i] = r
    BY Answers DEF GenerateInv
  <2>2. responses \in Seq(Requests \cup {"exit", "notify"}) BY DEF GenerateInv, HandlerInv, HandlerType
  <2>3. \A i \in DOMAIN responses : i \in DOMAIN responses' /\ responses'[i] = responses[i] BY <2>1, <2>2
  <2>4. \A i \in DOMAIN order : Len(responses) + i \in DOMAIN responses' /\ responses'[Len(responses) + i] = order[i]
    BY <2>1, <2>2
  <2>5. \A r \in finished : \E i \in DOMAIN responses' : responses'[i] = r BY <2>1, <2>4, ZenonT(60)
  <2>6. running' = (running \ finished) \cup {request_queue[i] : i \in DOMAIN request_queue} BY DEF Build
  <2>7. \A r \in Requests : InScheduler(r) => InScheduler(r)' BY <2>3, <2>5, <2>6 DEF InScheduler
  <2> QED BY <2>7, WayKept DEF GenerateInv, HandlerInv, Build
<1>3. WaitState' BY ZenonT(60) DEF GenerateInv, HandlerInv, CallerState, WaitState, Build
<1> QED BY <1>1, <1>2, <1>3

LEMMA EmptyGenerate == ASSUME GenerateInv, Empty PROVE TasksOnce' /\ OnItsWay' /\ WaitState'
<1>1. TasksOnce' BY TasksKept, Zenon DEF GenerateInv, TasksOnce, Empty
<1>2. OnItsWay'
  <2>1. responses \in Seq(Requests \cup {"exit", "notify"}) BY DEF GenerateInv, HandlerInv, HandlerType
  <2>2. responses' \in {responses, Append(responses, "notify")} BY DEF Empty
  <2>3. \A i \in DOMAIN responses : i \in DOMAIN responses' /\ responses'[i] = responses[i] BY <2>1, <2>2
  <2>4. \A r \in Requests : InScheduler(r) => InScheduler(r)' BY <2>3 DEF InScheduler, Empty
  <2> QED BY <2>4, WayKept DEF GenerateInv, HandlerInv, Empty
<1>3. WaitState' BY DEF GenerateInv, HandlerInv, CallerState, WaitState, Empty, Next_step
<1> QED BY <1>1, <1>2, <1>3

LEMMA RespondGenerate == ASSUME GenerateInv, Respond PROVE TasksOnce' /\ OnItsWay' /\ WaitState'
<1>0. /\ responses \in Seq(Requests \cup {"exit", "notify"}) /\ responses # <<>> /\ responses' = Tail(responses)
      /\ Head(responses) = responses[1] /\ Len(responses) \in Nat /\ 1 \in DOMAIN responses
      /\ \A i \in DOMAIN responses : i # 1 => i - 1 \in DOMAIN responses' /\ responses'[i - 1] = responses[i]
  BY DEF GenerateInv, HandlerInv, HandlerType, Respond
<1>1. TasksOnce' BY TasksKept, ZenonT(60) DEF GenerateInv, TasksOnce, Respond
<1>2. OnItsWay'
  <2>1. /\ \A r \in Requests : output'[r] = "none" => output[r] = "none" /\ r # responses[1]
        /\ UNCHANGED <<future, thread, scheduler, running, request_queue>>
    BY <1>0 DEF GenerateInv, HandlerInv, HandlerType, Respond
  <2>2. \A r \in Requests : InScheduler(r) /\ r # responses[1] => InScheduler(r)' BY <1>0, <2>1, ZenonT(60) DEF InScheduler
  <2>3. \A u \in Threads : thread[u].pc \in {"accepted", "refused"} => thread[u].r \in Requests
    BY DEF GenerateInv, HandlerInv, HandlerType, Free
  <2>4. \A r \in Requests : scheduler /\ future'[r] \in {"accepted", "refused"} /\ output'[r] = "none" => InScheduler(r)'
    BY <2>1, <2>2 DEF GenerateInv, OnItsWay
  <2>5. \A u \in Threads : scheduler /\ thread'[u].pc = "accepted" /\ output'[thread'[u].r] = "none" => InScheduler(thread[u].r)'
    BY <2>1, <2>2, <2>3 DEF GenerateInv, OnItsWay
  <2>6. \A u \in Threads : scheduler /\ thread'[u].pc = "refused" => output'[thread'[u].r] # "none"
    BY <2>1, <2>3 DEF GenerateInv, OnItsWay
  <2> QED BY <2>1, <2>4, <2>5, <2>6 DEF OnItsWay
<1>3. WaitState'
  <2>1. UNCHANGED <<mode, future, running, request_queue>> BY DEF Respond
  <2>2. CASE responses[1] = "notify"
    <3>1. sched = "drain" /\ Len(responses) = 1 /\ caller' = "idle" /\ sched' = "off"
      BY <1>0, <2>2, ZenonT(60) DEF GenerateInv, HandlerInv, ResponsesState, Respond
    <3>2. responses' = <<>> BY <1>0, <3>1
    <3>3. mode = "wait" => caller = "running" BY <3>1 DEF GenerateInv, HandlerInv, CallerState
    <3> QED BY <2>1, <3>1, <3>2, <3>3 DEF GenerateInv, WaitState
  <2>3. CASE responses[1] # "notify"
    <3>1. UNCHANGED <<sched, caller>> BY <1>0, <2>3 DEF Respond
    <3> QED BY <1>0, <2>1, <3>1 DEF GenerateInv, WaitState
  <2> QED BY <2>2, <2>3
<1> QED BY <1>1, <1>2, <1>3

LEMMA NextGenerate == GenerateInv /\ [Next]_vars => GenerateInv'
<1> SUFFICES ASSUME GenerateInv, [Next]_vars PROVE TasksOnce' /\ OnItsWay' /\ WaitState'
  BY NextInv DEF GenerateInv
<1>1. CASE Start BY <1>1, StartGenerate
<1>2. CASE Stop BY <1>2, StopGenerate
<1>3. CASE CallerGoesOn
  BY <1>3, WaitGenerate, RunUntilCompleteGenerate, PushExitsGenerate, ReleaseGenerate, ReleasedGenerate, PushGenerate
  DEF CallerGoesOn
<1>4. CASE SchedulerThread BY <1>4, BuildGenerate, ExecuteGenerate, EmptyGenerate DEF SchedulerThread
<1>5. CASE Respond BY <1>5, RespondGenerate
<1>6. CASE \E batch \in SUBSET Requests : ScheduleBatch(batch) BY <1>6, ScheduleBatchGenerate
<1>7. CASE \E t \in Threads : HandlingThread(t)
  BY <1>7, PopGenerate, VerifyGenerate, ScheduleGenerate, SetPromiseGenerate, ScopeGuardGenerate DEF HandlingThread
<1>8. CASE UNCHANGED vars
  <2>1. TasksOnce' BY <1>8, TasksKept, ZenonT(60) DEF GenerateInv, TasksOnce, vars
  <2>2. OnItsWay' BY <1>8, WayKept, StillInScheduler DEF GenerateInv, HandlerInv, vars
  <2>3. WaitState' BY <1>8 DEF GenerateInv, WaitState, vars
  <2> QED BY <2>1, <2>2, <2>3
<1> QED BY <1>1, <1>2, <1>3, <1>4, <1>5, <1>6, <1>7, <1>8 DEF Next

\* When generate() with wait_for_schedule is back, run_until_complete has
\* called back for every request handed in, whatever the threads' order.
THEOREM GenerateReturnsComplete == Spec => []GenerateComplete
<1>1. Init => GenerateInv
  <2> SUFFICES ASSUME Init PROVE GenerateInv OBVIOUS
  <2>1. TasksOnce BY DEF Init, TasksOnce, Free, Holding
  <2>2. OnItsWay BY DEF Init, OnItsWay, Free
  <2>3. WaitState BY DEF Init, WaitState
  <2> QED BY <2>1, <2>2, <2>3, InitInv DEF GenerateInv
<1>2. GenerateInv => GenerateComplete
  <2> SUFFICES ASSUME GenerateInv, mode = "wait", caller = "idle", NEW r \in Requests, future[r] # "none"
               PROVE  output[r] # "none"
    BY DEF GenerateComplete
  <2>1. future[r] \in {"accepted", "refused"} BY DEF GenerateInv, HandlerInv, HandlerType, WaitState
  <2>2. scheduler BY DEF GenerateInv, HandlerInv, CallerState
  <2>3. ~InScheduler(r) BY DEF GenerateInv, WaitState, InScheduler
  <2> QED BY <2>1, <2>2, <2>3 DEF GenerateInv, OnItsWay
<1> QED BY <1>1, <1>2, NextGenerate, PTL DEF Spec

==============================================================================

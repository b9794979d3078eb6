--------------------------- MODULE SchedulerProofs ---------------------------
(***************************************************************************)
(* The queues of the continuous batching scheduler, for any requests,      *)
(* sequences, budgets and amount of memory: which of them owns a request,  *)
(* and in which order requests are served.                                 *)
(***************************************************************************)
EXTENDS ContinuousScheduler, SequenceLemmas

\* The provers for a leaf that names none, with time for a busy machine.
USE SMTT(60), ZenonT(60), Z3T(60)

QueueTypes ==
  /\ pc \in Places
  /\ arrived \subseteq Requests /\ done \subseteq arrived
  /\ request_queue \in Seq(Requests) /\ priority_queue \in Seq(Requests)
  /\ running_requests \in Seq(Requests)
  /\ Range(request_queue) \subseteq arrived \ done /\ Range(priority_queue) \subseteq arrived \ done
  /\ Range(running_requests) \subseteq arrived \ done

\* A request is in one place.
Apart ==
  /\ IsInjective(request_queue) /\ IsInjective(priority_queue) /\ IsInjective(running_requests)
  /\ Range(request_queue) \cap Range(priority_queue) = {}
  /\ Range(request_queue) \cap Range(running_requests) = {}
  /\ Range(priority_queue) \cap Range(running_requests) = {}

Filling == {"fill", "adjust", "conclude"}

\* The priority queue and the running requests are in order.  While a batch is
\* filled what runs comes before what waits.
Ordered ==
  /\ InOrder(Rank, priority_queue) /\ InOrder(Rank, running_requests)
  /\ pc \in Filling =>
       \A x \in Range(running_requests), y \in Range(priority_queue) : Rank[x] <= Rank[y]

QueueInv == QueueTypes /\ Apart /\ Ordered

---------------------------------------------------------------------------
(* Ownership and order.  Every step keeps QueueInv and is a step of        *)
(* PriorityServer or leaves its state alone.                               *)

ServerStep == Server!Next \/ UNCHANGED Server!vars

\* Every request has a rank.
LEMMA RankAll == Ranks(Rank, Requests)
BY SchedulerAssumption DEF Ranks

\* priority_queue_.push
LEMMA PushedIn ==
  ASSUME NEW q \in Seq(Requests), NEW r \in Requests, r \notin Range(q), IsInjective(q), InOrder(Rank, q),
         NEW p \in Pushed(q, r)
  PROVE  p \in Seq(Requests) /\ Range(p) = Range(q) \cup {r} /\ IsInjective(p) /\ InOrder(Rank, p)
<1>1. PICK i \in 1 .. Len(q) + 1 : p = InsertAt(q, i, r) /\ FitsAt(Rank, q, r, i)
  BY DEF Pushed, FitsAt
<1>2. p = (SubSeq(q, 1, i - 1) \o <<r>>) \o SubSeq(q, i, Len(q))
  BY <1>1 DEF InsertAt
<1> QED BY <1>1, <1>2, RankAll, PushedQueue

\* A step that moves no request.
LEMMA MovesNothing ==
  ASSUME QueueInv, pc' \in Places, UNCHANGED <<arrived, done, request_queue, priority_queue, running_requests>>,
         pc' \in Filling => pc \in Filling \/ running_requests = <<>>
  PROVE  QueueInv' /\ ServerStep
<1>1. QueueTypes'
  BY DEF QueueInv, QueueTypes
<1>2. Apart'
  BY DEF QueueInv, Apart
<1>3. Ordered'
  <2>1. running_requests = <<>> => Range(running_requests) = {}
    BY DEF Range
  <2> QED BY <2>1 DEF QueueInv, Ordered
<1>4. ServerStep
  BY DEF ServerStep, Server!vars
<1> QED BY <1>1, <1>2, <1>3, <1>4 DEF QueueInv

LEMMA ScheduleMoves ==
  ASSUME QueueInv, NEW r \in Requests, Schedule(r)
  PROVE  QueueInv' /\ ServerStep
<1> USE DEF QueueInv
<1>1. CASE Len(request_queue) < QueueSize
  <2>1. r \notin Range(request_queue) /\ r \notin Range(priority_queue) /\ r \notin Range(running_requests)
        /\ r \notin done
    BY DEF Schedule, QueueTypes
  <2>2. /\ request_queue' \in Seq(Requests) /\ IsInjective(request_queue')
        /\ Range(request_queue') = Range(request_queue) \cup {r}
    BY <1>1, <2>1, AppendSet DEF Schedule, QueueTypes, Apart
  <2>3. /\ UNCHANGED <<pc, priority_queue, running_requests, done>> /\ arrived' = arrived \cup {r}
        /\ Range(priority_queue)' = Range(priority_queue) /\ Range(running_requests)' = Range(running_requests)
    BY DEF Schedule
  <2>4. QueueTypes'
    BY <2>1, <2>2, <2>3 DEF QueueTypes
  <2>5. Apart'
    BY <2>1, <2>2, <2>3 DEF Apart
  <2>6. Ordered'
    BY <2>3 DEF Ordered
  <2>7. Server!Arrive(r)
    BY <2>1, <2>2, <2>3 DEF Server!Arrive
  <2> QED BY <2>4, <2>5, <2>6, <2>7 DEF ServerStep, Server!Next
<1>2. CASE ~(Len(request_queue) < QueueSize)
  <2>1. UNCHANGED <<pc, request_queue, priority_queue, running_requests, done>> /\ arrived' = arrived \cup {r}
    BY <1>2 DEF Schedule
  <2>2. QueueTypes'
    BY <2>1 DEF QueueTypes
  <2>3. Apart' /\ Ordered'
    BY <2>1 DEF Apart, Ordered
  <2> QED BY <2>1, <2>2, <2>3 DEF ServerStep, Server!vars
<1> QED BY <1>1, <1>2

LEMMA DrainMoves ==
  ASSUME QueueInv, Drain
  PROVE  QueueInv' /\ ServerStep
<1> USE DEF QueueInv
<1>1. CASE request_queue = <<>>
  <2>1. /\ UNCHANGED <<arrived, done, request_queue, priority_queue, running_requests>>
        /\ pc' \in Places /\ pc' \notin Filling
    BY <1>1 DEF Drain, queues, control, Places, Filling
  <2> QED BY <2>1, MovesNothing
<1>2. CASE request_queue # <<>>
  <2> DEFINE r == Head(request_queue)
  <2>1. /\ request_queue' \in Seq(Requests) /\ IsInjective(request_queue')
        /\ Range(request_queue') = Range(request_queue) \ {r} /\ r \in Range(request_queue) /\ r \in Requests
    <3>1. request_queue' = Tail(request_queue)
      BY <1>2 DEF Drain
    <3> QED BY <1>2, <3>1, TailSet DEF QueueTypes, Apart
  <2> HIDE DEF r
  <2>2. r \notin Range(priority_queue) /\ r \notin Range(running_requests) /\ r \in arrived \ done
    BY <2>1 DEF QueueTypes, Apart
  <2>3. /\ priority_queue' \in Seq(Requests) /\ IsInjective(priority_queue') /\ InOrder(Rank, priority_queue')
        /\ Range(priority_queue') = Range(priority_queue) \cup {r}
    <3>1. priority_queue' \in Pushed(priority_queue, r)
      BY <1>2 DEF Drain, r
    <3> QED BY <2>1, <2>2, <3>1, PushedIn DEF QueueTypes, Apart, Ordered
  <2>4. UNCHANGED <<pc, running_requests, arrived, done>> /\ pc = "drain"
        /\ Range(running_requests)' = Range(running_requests)
    BY <1>2 DEF Drain, control
  <2>5. QueueTypes'
    BY <2>1, <2>2, <2>3, <2>4 DEF QueueTypes
  <2>6. Apart'
    BY <2>1, <2>2, <2>3, <2>4 DEF Apart
  <2>7. Ordered'
    BY <2>3, <2>4 DEF Ordered, Filling
  <2>8. Server!Admit(r)
    BY <2>1, <2>3, <2>4 DEF Server!Admit
  <2> QED BY <2>1, <2>5, <2>6, <2>7, <2>8 DEF ServerStep, Server!Next
<1> QED BY <1>1, <1>2

LEMMA RecycleMoves ==
  ASSUME QueueInv, Recycle
  PROVE  QueueInv' /\ ServerStep
<1> USE DEF QueueInv
<1> DEFINE r == Last(running_requests)
<1>1. /\ UNCHANGED <<pc, request_queue, arrived>> /\ pc = "recycle"
      /\ running_requests # <<>> /\ running_requests' = Front(running_requests)
      /\ Range(request_queue)' = Range(request_queue)
  BY DEF Recycle, control
<1>2. /\ running_requests' \in Seq(Requests) /\ IsInjective(running_requests')
      /\ Range(running_requests') = Range(running_requests) \ {r}
      /\ r \in Range(running_requests) /\ r \in Requests
  BY <1>1, FrontSet DEF Front, Last, QueueTypes, Apart
<1>3. InOrder(Rank, running_requests') /\ \A x \in Range(running_requests) : Rank[x] <= Rank[r]
  BY <1>1, RankAll, FrontInOrder DEF Front, Last, QueueTypes, Ordered
<1>4. r \notin Range(request_queue) /\ r \notin Range(priority_queue) /\ r \in arrived \ done
  BY <1>2 DEF QueueTypes, Apart
<1>5. \/ done' = done \cup {r} /\ UNCHANGED priority_queue
      \/ done' = done /\ priority_queue' \in Pushed(priority_queue, r)
  BY DEF Recycle
<1> HIDE DEF r
<1>6. CASE done' = done \cup {r} /\ UNCHANGED priority_queue
  <2>1. Range(priority_queue)' = Range(priority_queue)
    BY <1>6
  <2>2. QueueTypes'
    BY <1>1, <1>2, <1>4, <1>6, <2>1 DEF QueueTypes
  <2>3. Apart'
    BY <1>1, <1>2, <1>6, <2>1 DEF Apart
  <2>4. Ordered'
    BY <1>1, <1>3, <1>6 DEF Ordered, Filling
  <2>5. Server!Answer(r)
    BY <1>1, <1>2, <1>6, <2>1 DEF Server!Answer
  <2> QED BY <1>2, <2>2, <2>3, <2>4, <2>5 DEF ServerStep, Server!Next
<1>7. CASE done' = done /\ priority_queue' \in Pushed(priority_queue, r)
  <2>1. /\ priority_queue' \in Seq(Requests) /\ IsInjective(priority_queue') /\ InOrder(Rank, priority_queue')
        /\ Range(priority_queue') = Range(priority_queue) \cup {r}
    BY <1>2, <1>4, <1>7, PushedIn DEF QueueTypes, Apart, Ordered
  <2>2. QueueTypes'
    BY <1>1, <1>2, <1>4, <1>7, <2>1 DEF QueueTypes
  <2>3. Apart'
    BY <1>1, <1>2, <1>4, <2>1 DEF Apart
  <2>4. Ordered'
    BY <1>1, <1>3, <2>1 DEF Ordered, Filling
  <2>5. Server!Yield(r)
    BY <1>1, <1>2, <1>3, <1>7, <2>1 DEF Server!Yield
  <2> QED BY <1>2, <2>2, <2>3, <2>4, <2>5 DEF ServerStep, Server!Next
<1> QED BY <1>5, <1>6, <1>7

\* The request on top of the priority queue starts to run.
LEMMA AdmitMoves ==
  ASSUME QueueInv, pc \in Filling, pc' \in Places, UNCHANGED <<arrived, done, request_queue>>,
         priority_queue # <<>>, priority_queue' = Tail(priority_queue),
         running_requests' = Append(running_requests, Head(priority_queue))
  PROVE  QueueInv' /\ ServerStep
<1> USE DEF QueueInv
<1> DEFINE r == Head(priority_queue)
<1>1. /\ priority_queue' \in Seq(Requests) /\ IsInjective(priority_queue')
      /\ Range(priority_queue') = Range(priority_queue) \ {r} /\ r \in Range(priority_queue) /\ r \in Requests
  BY TailSet DEF QueueTypes, Apart
<1>2. InOrder(Rank, priority_queue') /\ \A x \in Range(priority_queue) : Rank[r] <= Rank[x]
  BY RankAll, TailInOrder DEF QueueTypes, Ordered
<1>3. /\ r \notin Range(request_queue) /\ r \notin Range(running_requests) /\ r \in arrived \ done
      /\ \A x \in Range(running_requests) : Rank[x] <= Rank[r]
  BY <1>1 DEF QueueTypes, Apart, Ordered
<1>4. /\ running_requests' \in Seq(Requests) /\ IsInjective(running_requests')
      /\ Range(running_requests') = Range(running_requests) \cup {r}
  BY <1>1, <1>3, AppendSet DEF QueueTypes, Apart
<1>5. InOrder(Rank, running_requests')
  BY <1>1, <1>3, RankAll, AppendInOrder DEF QueueTypes, Ordered
<1>6. Range(request_queue)' = Range(request_queue)
  OBVIOUS
<1> HIDE DEF r
<1>7. QueueTypes'
  BY <1>1, <1>3, <1>4, <1>6 DEF QueueTypes
<1>8. Apart'
  BY <1>1, <1>3, <1>4, <1>6 DEF Apart
<1>9. Ordered'
  <2>1. \A x \in Range(running_requests'), y \in Range(priority_queue') : Rank[x] <= Rank[y]
    BY <1>1, <1>2, <1>4 DEF Ordered
  <2> QED BY <1>2, <1>5, <2>1 DEF Ordered
<1>10. Server!Start(r)
  BY <1>1, <1>2, <1>3, <1>4, <1>6 DEF Server!Start, Server!IsNext
<1> QED BY <1>1, <1>7, <1>8, <1>9, <1>10 DEF ServerStep, Server!Next

LEMMA FillMoves ==
  ASSUME QueueInv, Fill
  PROVE  QueueInv' /\ ServerStep
<1>1. /\ UNCHANGED <<arrived, done, request_queue>> /\ pc' \in Places /\ pc \in Filling /\ priority_queue # <<>>
  BY DEF Fill, CanFill, control, Places, Filling, QueueInv, QueueTypes
<1>2. \/ UNCHANGED <<priority_queue, running_requests>>
      \/ /\ priority_queue' = Tail(priority_queue)
         /\ running_requests' = Append(running_requests, Head(priority_queue))
  BY DEF Fill, Admit
<1> QED BY <1>1, <1>2, MovesNothing, AdmitMoves

LEMMA ConcludeMoves ==
  ASSUME QueueInv, Conclude
  PROVE  QueueInv' /\ ServerStep
<1> USE DEF QueueInv
<1>1. /\ UNCHANGED <<arrived, request_queue, running_requests>> /\ pc' \in Places /\ pc' \notin Filling
      /\ Range(request_queue)' = Range(request_queue) /\ Range(running_requests)' = Range(running_requests)
  BY DEF Conclude, control, Places, Filling
<1>2. CASE batch = <<>> /\ priority_queue # <<>>
  <2> DEFINE r == Head(priority_queue)
  <2>1. pc = "conclude" /\ done' = done \cup {r} /\ priority_queue' = Tail(priority_queue)
    BY <1>2 DEF Conclude
  <2>2. /\ priority_queue' \in Seq(Requests) /\ IsInjective(priority_queue')
        /\ Range(priority_queue') = Range(priority_queue) \ {r} /\ r \in Range(priority_queue) /\ r \in Requests
    BY <1>2, <2>1, TailSet DEF QueueTypes, Apart
  <2>3. InOrder(Rank, priority_queue') /\ \A x \in Range(priority_queue) : Rank[r] <= Rank[x]
    BY <1>2, <2>1, RankAll, TailInOrder DEF QueueTypes, Ordered
  <2> HIDE DEF r
  <2>4. /\ r \notin Range(request_queue) /\ r \notin Range(running_requests) /\ r \in arrived \ done
        /\ \A x \in Range(running_requests) : Rank[x] <= Rank[r]
    BY <2>1, <2>2 DEF QueueTypes, Apart, Ordered, Filling
  <2>5. QueueTypes'
    BY <1>1, <2>1, <2>2, <2>4 DEF QueueTypes
  <2>6. Apart'
    BY <1>1, <2>2 DEF Apart
  <2>7. Ordered'
    BY <1>1, <2>3 DEF Ordered
  <2>8. Server!GiveUp(r)
    BY <1>1, <2>1, <2>2, <2>3, <2>4 DEF Server!GiveUp, Server!IsNext
  <2> QED BY <2>2, <2>5, <2>6, <2>7, <2>8 DEF ServerStep, Server!Next
<1>3. CASE ~(batch = <<>> /\ priority_queue # <<>>)
  <2>1. UNCHANGED <<done, priority_queue>>
    BY <1>3 DEF Conclude
  <2> QED BY <1>1, <2>1, MovesNothing
<1> QED BY <1>2, <1>3

LEMMA OthersMove ==
  ASSUME QueueInv,
         \/ \E r \in Requests : DecPending(r) \/ Cancel(r)
         \/ Recycled \/ Filled \/ Adjust \/ Poll \/ Execute \/ Output \/ UNCHANGED vars
  PROVE  QueueInv' /\ ServerStep
<1> USE DEF queues, control
<1>1. UNCHANGED <<arrived, done, request_queue, priority_queue, running_requests>>
  <2>1. ASSUME NEW r \in Requests, DecPending(r) \/ Cancel(r)
        PROVE  UNCHANGED <<arrived, done, request_queue, priority_queue, running_requests>>
    BY <2>1 DEF DecPending, Cancel
  <2>2. CASE Recycled \/ Filled \/ Adjust \/ Poll
    BY <2>2, ZenonT(60) DEF Recycled, Filled, Adjust, Poll
  <2>3. CASE Execute \/ Output \/ UNCHANGED vars
    BY <2>3, ZenonT(60) DEF Execute, Output, vars
  <2> QED BY <2>1, <2>2, <2>3
<1>2. pc' \in Places /\ (pc' \in Filling => pc \in Filling \/ running_requests = <<>>)
  <2> USE DEF Places, Filling
  <2>1. ASSUME NEW r \in Requests, DecPending(r) \/ Cancel(r) PROVE pc' = pc
    BY <2>1 DEF DecPending, Cancel
  <2>2. CASE Recycled \/ Filled \/ Poll \/ Output
    BY <2>2 DEF Recycled, Filled, Poll, Output
  <2>3. CASE Adjust
    BY <2>3, ZenonT(60) DEF Adjust
  <2>4. CASE Execute
    BY <2>4, ZenonT(60) DEF Execute
  <2>5. CASE UNCHANGED vars
    BY <2>5 DEF vars, QueueInv, QueueTypes
  <2> QED BY <2>1, <2>2, <2>3, <2>4, <2>5 DEF QueueInv, QueueTypes
<1> QED BY <1>1, <1>2, MovesNothing

LEMMA InitQueues == Init => QueueInv
<1> SUFFICES ASSUME Init PROVE QueueInv
  OBVIOUS
<1>1. /\ pc = "drain" /\ arrived = {} /\ done = {}
      /\ request_queue = <<>> /\ priority_queue = <<>> /\ running_requests = <<>>
  BY DEF Init
<1>2. Range(<<>>) = {} /\ IsInjective(<<>>) /\ InOrder(Rank, <<>>) /\ <<>> \in Seq(Requests)
  BY DEF Range, IsInjective, InOrder
<1> QED BY <1>1, <1>2 DEF QueueInv, QueueTypes, Apart, Ordered, Places, Filling

LEMMA NextQueues == QueueInv /\ [Next]_vars => QueueInv' /\ ServerStep
<1> SUFFICES ASSUME QueueInv, [Next]_vars PROVE QueueInv' /\ ServerStep
  OBVIOUS
<1>1. ASSUME NEW r \in Requests, Schedule(r) PROVE QueueInv' /\ ServerStep
  BY <1>1, ScheduleMoves
<1>2. CASE Drain \/ Recycle \/ Fill \/ Conclude
  BY <1>2, DrainMoves, RecycleMoves, FillMoves, ConcludeMoves
<1>3. CASE \/ \E r \in Requests : DecPending(r) \/ Cancel(r)
           \/ Recycled \/ Filled \/ Adjust \/ Poll \/ Execute \/ Output \/ UNCHANGED vars
  BY <1>3, OthersMove
<1> QED BY <1>1, <1>2, <1>3 DEF Next, SchedulerStep

\* The scheduler's queues behave as PriorityServer says (ServerSpec), whatever
\* the requests, the batches and the memory: schedule(), the drain of the
\* request queue, the recycling of what ran, the filling of a batch with its
\* preemptions, and a request given up lose no request, answer none twice and
\* start the one that comes first.
THEOREM ServesInOrder == Spec => ServerSpec
<1>1. Init => Server!Init
  <2>1. Range(<<>>) = {}
    BY DEF Range
  <2> QED BY <2>1 DEF Init, Server!Init
<1>2. Spec => []QueueInv
  BY InitQueues, NextQueues, PTL DEF Spec
<1>3. QueueInv /\ [Next]_vars => [Server!Next]_(Server!vars)
  BY NextQueues DEF ServerStep
<1> QED BY <1>1, <1>2, <1>3, PTL DEF Spec, ServerSpec, Server!Spec

=============================================================================

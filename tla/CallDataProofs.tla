--------------------------- MODULE CallDataProofs ---------------------------
(***************************************************************************)
(* StreamCallData for any number of calls and any responses: one operation *)
(* at a time, and no use of an object after its deletion but the last read *)
(* of rpc_ok_ by the send_response of the final status.                    *)
(***************************************************************************)
EXTENDS CallData, TLAPS

\* The provers for a leaf that names none, with time for a busy machine.
USE SMTT(60), ZenonT(60), Z3T(60)

CallType ==
  /\ status \in [Calls -> {"unborn", "CREATE", "WRITE", "PENDING", "FINISH", "deleted"}]
  /\ response \in [Calls -> Packed \cup {None}]
  /\ rpc_ok \in [Calls -> BOOLEAN]
  /\ sending \in [Calls -> {"idle", "stored", "notified"}]
  /\ ops \in [Calls -> Seq({"request", "alarm", "write", "finish"})]
  /\ cq \in Seq(Calls \X {"request", "alarm", "write", "finish"} \X BOOLEAN)

\* What the status of an object says about the rest of its state.
CallState(c) ==
  /\ Single(c)
  /\ status[c] \in {"unborn", "deleted"} => Quiet(c)
  /\ status[c] \in {"unborn", "CREATE"} => response[c] = None
  /\ status[c] \in {"PENDING", "FINISH"} => response[c] # None
  /\ status[c] = "WRITE" /\ response[c] = None => Quiet(c)
  /\ sending[c] = "stored" => status[c] = "WRITE" /\ response[c] # None /\ Quiet(c)
  /\ status[c] \in {"unborn", "CREATE"} => sending[c] = "idle"
  /\ response[c] # None /\ response[c].st # None => c \in closing
  /\ status[c] = "FINISH" => c \in closing
  /\ status[c] = "deleted" => sending[c] = "idle" \/ c \in closing

\* The inductive invariant: an operation is only started where none is in
\* flight, because an empty response_ means that none is; and an object that
\* was used is deleted only for a final status somebody sent.
CallInv == CallType /\ \A c \in Calls : CallState(c)

LEMMA CallInitInv == CallInit => CallInv
  BY DEF CallInit, CallInv, CallType, CallState, Single, Quiet, NoEvent

\* The queue without its first event.
LEMMA TailOfQueue ==
  ASSUME CallType, cq # <<>>, cq' = Tail(cq), NEW c \in Calls
  PROVE  /\ cq' \in Seq(Calls \X {"request", "alarm", "write", "finish"} \X BOOLEAN)
         /\ NoEvent(c) => NoEvent(c)'
         /\ (\A i, j \in DOMAIN cq : cq[i][1] = c /\ cq[j][1] = c => i = j)
              => (\A i, j \in DOMAIN cq' : cq'[i][1] = c /\ cq'[j][1] = c => i = j)
         /\ (\A i, j \in DOMAIN cq : cq[i][1] = c /\ cq[j][1] = c => i = j) /\ Head(cq)[1] = c => NoEvent(c)'
  <1>1. /\ DOMAIN cq' = 1 .. Len(cq) - 1 /\ DOMAIN cq = 1 .. Len(cq) /\ Len(cq) \in Nat
        /\ \A i \in DOMAIN cq' : cq'[i] = cq[i + 1] /\ i + 1 \in DOMAIN cq
        /\ Head(cq) = cq[1] /\ 1 \in DOMAIN cq
    BY DEF CallType
  <1>2. cq' \in Seq(Calls \X {"request", "alarm", "write", "finish"} \X BOOLEAN)
    BY DEF CallType
  <1>3. \A i \in DOMAIN cq' : i \in Int /\ i + 1 # 1
    BY <1>1
  <1> QED
    BY <1>1, <1>2, <1>3 DEF NoEvent

\* The queue with one more event, of an object that had none.
LEMMA AppendToQueue ==
  ASSUME CallType, NEW e \in Calls \X {"request", "alarm", "write", "finish"} \X BOOLEAN,
         cq' = Append(cq, e), NEW c \in Calls
  PROVE  /\ cq' \in Seq(Calls \X {"request", "alarm", "write", "finish"} \X BOOLEAN)
         /\ NoEvent(c) /\ e[1] # c => NoEvent(c)'
         /\ (\A i, j \in DOMAIN cq : cq[i][1] = c /\ cq[j][1] = c => i = j) /\ (e[1] # c \/ NoEvent(c))
              => (\A i, j \in DOMAIN cq' : cq'[i][1] = c /\ cq'[j][1] = c => i = j)
  <1>1. /\ DOMAIN cq = 1 .. Len(cq) /\ Len(cq) \in Nat /\ DOMAIN cq' = 1 .. Len(cq) + 1
        /\ \A i \in DOMAIN cq' : (i \in DOMAIN cq /\ cq'[i] = cq[i]) \/ (i = Len(cq) + 1 /\ cq'[i] = e)
    BY DEF CallType
  <1>2. cq' \in Seq(Calls \X {"request", "alarm", "write", "finish"} \X BOOLEAN)
    BY DEF CallType
  <1> QED
    BY <1>1, <1>2 DEF NoEvent

\* An object no step touches keeps its state.
LEMMA Untouched ==
  ASSUME NEW d \in Calls, CallState(d), status'[d] = status[d], response'[d] = response[d],
         sending'[d] = sending[d], ops'[d] = ops[d],
         d \in closing => d \in closing',
         NoEvent(d) => NoEvent(d)',
         (\A i, j \in DOMAIN cq : cq[i][1] = d /\ cq[j][1] = d => i = j)
           => (\A i, j \in DOMAIN cq' : cq'[i][1] = d /\ cq'[j][1] = d => i = j)
  PROVE  CallState(d)'
  BY DEF CallState, Single, Quiet

LEMMA RegisterInv == ASSUME CallInv, NEW c \in Calls, Register(c) PROVE CallInv'
  <1>1. CallType'
    BY DEF CallInv, CallType, Register
  <1>2. CallState(c)'
    <2>1. Len(ops'[c]) = 1 /\ cq' = cq
      BY DEF CallInv, CallType, CallState, Quiet, Register
    <2> QED
      BY <2>1 DEF CallInv, CallType, CallState, Single, Quiet, NoEvent, Register
  <1>3. ASSUME NEW d \in Calls, d # c PROVE CallState(d)'
    BY <1>3, Untouched DEF CallInv, CallType, Register, NoEvent
  <1> QED
    BY <1>1, <1>2, <1>3 DEF CallInv

LEMMA ReplyInv == ASSUME CallInv, NEW c \in Calls, Reply(c) PROVE CallInv'
  <1> PICK m \in Packed : Store(c, m)
    BY DEF Reply
  <1>0. status[c] \in {"WRITE", "PENDING"} /\ response[c] = None
    BY DEF Reply, Store
  <1>1. CallType'
    BY DEF CallInv, CallType, Store
  <1>2. CallState(c)'
    BY <1>0, CallDataAssumption DEF CallInv, CallType, CallState, Single, Quiet, NoEvent, Store
  <1>3. ASSUME NEW d \in Calls, d # c PROVE CallState(d)'
    BY <1>3, Untouched DEF CallInv, CallType, Store, NoEvent
  <1> QED
    BY <1>1, <1>2, <1>3 DEF CallInv

LEMMA SetAlarmInv == ASSUME CallInv, NEW c \in Calls, SetAlarm(c) PROVE CallInv'
  <1>1. CallType'
    BY DEF CallInv, CallType, SetAlarm
  <1>2. CallState(c)'
    <2>1. Len(ops'[c]) = 1 /\ cq' = cq
      BY DEF CallInv, CallType, CallState, Quiet, SetAlarm
    <2> QED
      BY <2>1 DEF CallInv, CallType, CallState, Single, Quiet, NoEvent, SetAlarm
  <1>3. ASSUME NEW d \in Calls, d # c PROVE CallState(d)'
    BY <1>3, Untouched DEF CallInv, CallType, SetAlarm, NoEvent
  <1> QED
    BY <1>1, <1>2, <1>3 DEF CallInv

LEMMA SentInv == ASSUME CallInv, NEW c \in Calls, NEW ok \in BOOLEAN, Sent(c, ok) PROVE CallInv'
  <1>1. CallType'
    BY DEF CallInv, CallType, Sent
  <1>2. CallState(c)'
    BY DEF CallInv, CallType, CallState, Single, Quiet, NoEvent, Sent
  <1>3. ASSUME NEW d \in Calls, d # c PROVE CallState(d)'
    BY <1>3, Untouched DEF CallInv, CallType, Sent, NoEvent
  <1> QED
    BY <1>1, <1>2, <1>3 DEF CallInv

LEMMA CompleteInv == ASSUME CallInv, NEW c \in Calls, Complete(c) PROVE CallInv'
  <1>0. PICK ok \in BOOLEAN : cq' = Append(cq, <<c, Head(ops[c]), ok>>)
    BY DEF Complete
  <1>1. /\ Head(ops[c]) \in {"request", "alarm", "write", "finish"} /\ ops'[c] = <<>>
        /\ ops' \in [Calls -> Seq({"request", "alarm", "write", "finish"})]
    <2>1. ops[c] \in Seq({"request", "alarm", "write", "finish"}) /\ ops[c] # <<>> /\ Len(ops[c]) <= 1
      BY DEF CallInv, CallType, CallState, Single, Complete
    <2>2. Tail(ops[c]) = <<>> /\ Head(ops[c]) \in {"request", "alarm", "write", "finish"}
      BY <2>1
    <2>3. ops' = [ops EXCEPT ![c] = Tail(@)]
      BY DEF Complete
    <2> QED
      BY <2>1, <2>2, <2>3 DEF CallInv, CallType
  <1>2. CallType'
    BY <1>0, <1>1, AppendToQueue DEF CallInv, CallType, Complete
  <1>3. /\ CallState(c) /\ ops[c] # <<>>
        /\ status' = status /\ response' = response /\ sending' = sending /\ closing' = closing
        /\ \A d \in Calls : d # c => ops'[d] = ops[d]
    BY DEF CallInv, CallType, Complete
  <1>4. <<c, Head(ops[c]), ok>>[1] = c
        /\ <<c, Head(ops[c]), ok>> \in Calls \X {"request", "alarm", "write", "finish"} \X BOOLEAN
    BY <1>1
  <1>5. CallState(c)'
    <2>1. \A i, j \in DOMAIN cq' : cq'[i][1] = c /\ cq'[j][1] = c => i = j
      BY <1>0, <1>3, <1>4, AppendToQueue DEF CallInv, CallState, Single
    <2>2. ~Quiet(c)
      BY <1>3 DEF Quiet
    <2> QED
      BY <1>1, <1>3, <2>1, <2>2 DEF CallState, Single
  <1>6. ASSUME NEW d \in Calls, d # c PROVE CallState(d)'
    <2>1. /\ NoEvent(d) => NoEvent(d)'
          /\ (\A i, j \in DOMAIN cq : cq[i][1] = d /\ cq[j][1] = d => i = j)
               => (\A i, j \in DOMAIN cq' : cq'[i][1] = d /\ cq'[j][1] = d => i = j)
      BY <1>0, <1>4, <1>6, AppendToQueue DEF CallInv
    <2> QED
      BY <1>3, <1>6, <2>1, Untouched DEF CallInv
  <1> QED
    BY <1>2, <1>5, <1>6 DEF CallInv

\* What the server thread's step on c leaves of the other objects' events,
\* and of c's own.
LEMMA TakeEvent ==
  ASSUME CallInv, NEW c \in Calls, cq # <<>>, Head(cq)[1] = c, Take(c)
  PROVE  /\ cq' \in Seq(Calls \X {"request", "alarm", "write", "finish"} \X BOOLEAN)
         /\ rpc_ok' \in [Calls -> BOOLEAN] /\ RpcOk(c) \in BOOLEAN
         /\ ops[c] = <<>> /\ NoEvent(c)'
         /\ \A d \in Calls : /\ NoEvent(d) => NoEvent(d)'
                             /\ (\A i, j \in DOMAIN cq : cq[i][1] = d /\ cq[j][1] = d => i = j)
                                  => (\A i, j \in DOMAIN cq' : cq'[i][1] = d /\ cq'[j][1] = d => i = j)
  <1>1. cq' = Tail(cq) /\ rpc_ok' = [rpc_ok EXCEPT ![c] = RpcOk(c)]
    BY DEF Take
  <1>2. Head(cq)[3] \in BOOLEAN
    BY DEF CallInv, CallType
  <1>3. RpcOk(c) \in BOOLEAN /\ rpc_ok' \in [Calls -> BOOLEAN]
    BY <1>1, <1>2 DEF CallInv, CallType, RpcOk
  <1>4. ~NoEvent(c)
    BY DEF CallInv, CallType, NoEvent
  <1>5. ops[c] = <<>> /\ NoEvent(c)'
    BY <1>1, <1>4, TailOfQueue DEF CallInv, CallState, Single
  <1> QED
    BY <1>1, <1>3, <1>5, TailOfQueue DEF CallInv

LEMMA ProceedCreateInv ==
  ASSUME CallInv, NEW c \in Calls, NEW next \in Calls \cup {None}, ProceedCreate(c, next)
  PROVE  CallInv'
  <1>1. /\ cq # <<>> /\ Head(cq)[1] = c /\ Take(c) /\ status[c] = "CREATE"
        /\ response' = response /\ sending' = sending /\ closing' = closing
    BY DEF ProceedCreate, Event
  <1> DEFINE new == IF next \in Calls /\ status[next] = "unborn" THEN {next} ELSE {}
  <1>2. /\ \A d \in new : status[d] = "unborn" /\ d \in Calls
        /\ status' = [d \in Calls |-> IF d = c THEN IF RpcOk(c) THEN "WRITE" ELSE "deleted"
                                      ELSE IF d \in new THEN "CREATE" ELSE status[d]]
        /\ ops' = [d \in Calls |-> IF d \in new THEN Append(ops[d], "request") ELSE ops[d]]
    BY Zenon DEF ProceedCreate, CallInv, CallType
  <1> HIDE DEF new
  <1>3. CallType'
    BY <1>1, <1>2, TakeEvent DEF CallInv, CallType
  <1>4. CallState(c)'
    <2>1. Quiet(c)' /\ response'[c] = None /\ sending'[c] = "idle"
      BY <1>1, <1>2, TakeEvent DEF CallInv, CallType, CallState, Quiet
    <2>2. status'[c] \in {"WRITE", "deleted"}
      BY <1>2
    <2> QED
      BY <2>1, <2>2 DEF CallState, Quiet, Single, NoEvent
  <1>5. ASSUME NEW d \in new PROVE CallState(d)'
    <2>0. d \in Calls /\ status[d] = "unborn"
      BY <1>2, <1>5
    <2>1. Quiet(d) /\ response[d] = None /\ sending[d] = "idle" /\ status[d] = "unborn" /\ d # c
      BY <1>1, <2>0 DEF CallInv, CallState
    <2>2. NoEvent(d)'
      BY <1>1, <2>0, <2>1, TakeEvent DEF Quiet
    <2>3. Len(ops'[d]) = 1 /\ status'[d] = "CREATE"
      BY <1>2, <1>5, <2>0, <2>1 DEF Quiet, CallInv, CallType
    <2> QED
      BY <1>1, <2>1, <2>2, <2>3 DEF CallState, Single, NoEvent
  <1>6. ASSUME NEW d \in Calls, d # c, d \notin new PROVE CallState(d)'
    BY <1>1, <1>2, <1>6, TakeEvent, Untouched DEF CallInv
  <1> QED
    BY <1>3, <1>4, <1>5, <1>6 DEF CallInv

LEMMA ProceedWriteInv == ASSUME CallInv, NEW c \in Calls, ProceedWrite(c) PROVE CallInv'
  <1>1. /\ cq # <<>> /\ Head(cq)[1] = c /\ Take(c) /\ status[c] = "WRITE" /\ response[c] # None
        /\ sending' = sending /\ closing' = closing
    BY DEF ProceedWrite, Event
  <1>2. PICK st \in {"WRITE", "PENDING", "FINISH", "deleted"}, op \in {"write", "finish"} :
          /\ status' = [status EXCEPT ![c] = st]
          /\ ops' = IF RpcOk(c) THEN [ops EXCEPT ![c] = Append(@, op)] ELSE ops
          /\ RpcOk(c) => st \in {"PENDING", "FINISH"}
          /\ ~RpcOk(c) => st \in {"WRITE", "deleted"}
          /\ st \in {"FINISH", "deleted"} => response[c].st # None
          /\ response' = IF RpcOk(c) \/ st = "deleted" THEN response ELSE [response EXCEPT ![c] = None]
    BY Zenon DEF ProceedWrite
  <1>3. CallType'
    BY <1>1, <1>2, TakeEvent DEF CallInv, CallType
  <1>4. ~Quiet(c)
    BY <1>1 DEF CallInv, CallType, Quiet, NoEvent
  <1>5. CallState(c)'
    <2>1. sending'[c] # "stored" /\ NoEvent(c)'
      BY <1>1, <1>4, TakeEvent DEF CallInv, CallState
    <2>2. /\ status'[c] \in {"FINISH", "deleted"} => c \in closing'
          /\ response'[c] # None /\ response'[c].st # None => c \in closing'
      BY <1>1, <1>2 DEF CallInv, CallType, CallState
    <2>3. CASE RpcOk(c)
      <3>1. Len(ops'[c]) = 1 /\ response'[c] # None /\ status'[c] \in {"PENDING", "FINISH"}
        BY <1>1, <1>2, <2>3, TakeEvent DEF CallInv, CallType
      <3> QED
        BY <2>1, <2>2, <3>1 DEF CallState, Single, NoEvent
    <2>4. CASE ~RpcOk(c)
      <3>1. ops'[c] = <<>> /\ status'[c] \in {"WRITE", "deleted"}
        BY <1>1, <1>2, <2>4, TakeEvent DEF CallInv, CallType
      <3> QED
        BY <2>1, <2>2, <3>1 DEF CallState, Single, Quiet, NoEvent
    <2> QED
      BY <2>3, <2>4
  <1>6. ASSUME NEW d \in Calls, d # c PROVE CallState(d)'
    <2>1. status'[d] = status[d] /\ response'[d] = response[d] /\ sending'[d] = sending[d] /\ ops'[d] = ops[d]
      BY <1>1, <1>2, <1>6 DEF CallInv, CallType
    <2> QED
      BY <1>1, <2>1, TakeEvent, Untouched DEF CallInv
  <1> QED
    BY <1>3, <1>5, <1>6 DEF CallInv

LEMMA ProceedDoneInv ==
  ASSUME CallInv, NEW c \in Calls, ProceedPending(c) \/ ProceedFinish(c)
  PROVE  CallInv'
  <1>1. /\ cq # <<>> /\ Head(cq)[1] = c /\ Take(c) /\ status[c] \in {"PENDING", "FINISH"}
        /\ sending' = sending /\ ops' = ops /\ closing' = closing
    BY DEF ProceedPending, ProceedFinish, Event
  <1>2. PICK st \in {"WRITE", "deleted"} :
          /\ status' = [status EXCEPT ![c] = st]
          /\ response' = IF st = "WRITE" THEN [response EXCEPT ![c] = None] ELSE response
          /\ st = "deleted" => status[c] = "FINISH"
    BY DEF ProceedPending, ProceedFinish, Event
  <1>3. CallType'
    BY <1>1, <1>2, TakeEvent DEF CallInv, CallType
  <1>4. CallState(c)'
    <2>1. Quiet(c)' /\ sending'[c] # "stored" /\ status'[c] \in {"WRITE", "deleted"}
      BY <1>1, <1>2, TakeEvent DEF CallInv, CallType, CallState, Quiet
    <2>2. /\ status'[c] = "deleted" => c \in closing'
          /\ response'[c] # None /\ response'[c].st # None => c \in closing'
      BY <1>1, <1>2 DEF CallInv, CallType, CallState
    <2> QED
      BY <2>1, <2>2 DEF CallState, Quiet, Single, NoEvent
  <1>5. ASSUME NEW d \in Calls, d # c PROVE CallState(d)'
    <2>1. status'[d] = status[d] /\ response'[d] = response[d] /\ sending'[d] = sending[d] /\ ops'[d] = ops[d]
      BY <1>1, <1>2, <1>5 DEF CallInv, CallType
    <2> QED
      BY <1>1, <2>1, TakeEvent, Untouched, Zenon DEF CallInv
  <1> QED
    BY <1>3, <1>4, <1>5 DEF CallInv

LEMMA CallStepInv == CallInv /\ [CallNext]_callVars => CallInv'
  <1> SUFFICES ASSUME CallInv, [CallNext]_callVars PROVE CallInv'
    OBVIOUS
  <1>1. CASE CallNext
    <2> PICK c \in Calls :
          \/ Register(c) \/ (\E next \in Calls \cup {None} : ProceedCreate(c, next)) \/ ProceedReply(c)
          \/ Reply(c) \/ SetAlarm(c) \/ (\E ok \in BOOLEAN : Sent(c, ok))
          \/ Complete(c) \/ Disconnect(c)
      BY <1>1 DEF CallNext
    <2>1. CASE Disconnect(c)
      BY <2>1 DEF Disconnect, CallInv, CallType, CallState, Single, Quiet, NoEvent
    <2>2. CASE ProceedReply(c)
      BY <2>2, ProceedWriteInv, ProceedDoneInv DEF ProceedReply
    <2> QED
      BY <2>1, <2>2, RegisterInv, ProceedCreateInv, ReplyInv, SetAlarmInv, SentInv, CompleteInv
  <1>2. CASE UNCHANGED callVars
    BY <1>2 DEF callVars, CallInv, CallType, CallState, Single, Quiet, NoEvent
  <1> QED
    BY <1>1, <1>2

\* An object never has two operations or events in flight, whatever responses
\* the replying thread sends and whenever clients leave.
THEOREM OneOperationAtATime == CallSpec => []OneOutstanding
  <1>1. CallInv => OneOutstanding
    BY DEF CallInv, CallState, OneOutstanding
  <1> QED
    BY <1>1, CallInitInv, CallStepInv, PTL DEF CallSpec

\* handle_rpcs deletes an object only when no operation, no event and no
\* send_response of it is left, but for the last access of the send_response
\* that carries the final status, its read of rpc_ok_ after the alarm is set.
THEOREM DeletedWhenDone == CallSpec => []DeletedLast
  <1>1. CallInv => DeletedLast
    BY DEF CallInv, CallType, CallState, DeletedLast
  <1> QED
    BY <1>1, CallInitInv, CallStepInv, PTL DEF CallSpec

\* Both, for any number of calls and any responses: what the run of Serving
\* checks of the objects together with the threads that use them.
THEOREM CallDataSafe == CallSpec => []CallsSafe
  <1> QED
    BY OneOperationAtATime, DeletedWhenDone, PTL DEF CallsSafe

=============================================================================

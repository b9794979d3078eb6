------------------------------ MODULE CallData ------------------------------
(***************************************************************************)
(* One streaming RPC (StreamCallData) between three actors: the thread     *)
(* that replies through send_response, the gRPC library that carries out   *)
(* operations and posts their completions, and the one server thread that  *)
(* takes completions from the queue and calls proceed().                   *)
(*                                                                         *)
(* The replying thread is any client of the class here: what it may send,  *)
(* and when, is Reply in this module and the handlers' code in Serving.    *)
(***************************************************************************)
EXTENDS Integers, Sequences, FiniteSets

CONSTANTS Calls, Responses, Statuses, None

VARIABLES
  status,     \* status_, and "unborn" before the object is created, "deleted" after delete
  response,   \* response_: None or a ResponseWithState, [resp, st] with either part None
  rpc_ok,     \* rpc_ok_
  sending,    \* how far the replying thread is in send_response
  ops,        \* the operations the gRPC library works on for this object
  cq,         \* the completion queue: <<call, operation, ok>>
  gone,       \* the calls whose client has disconnected or cancelled
  received,   \* what the client has been sent, in order
  closing     \* history: the calls a status was handed to send_response for

callVars == <<status, response, rpc_ok, sending, ops, cq, gone, received, closing>>

ResponseWithState(r, s) == [resp |-> r, st |-> s]

Packed == {ResponseWithState(r, s) : r \in Responses \cup {None}, s \in Statuses \cup {None}}
            \ {ResponseWithState(None, None)}

ASSUME CallDataAssumption == None \notin Responses /\ None \notin Statuses /\ None \notin Packed

Alive(c) == status[c] \notin {"unborn", "deleted"}

CallInit ==
  /\ status = [c \in Calls |-> "unborn"] /\ response = [c \in Calls |-> None]
  /\ rpc_ok = [c \in Calls |-> TRUE] /\ sending = [c \in Calls |-> "idle"]
  /\ ops = [c \in Calls |-> <<>>] /\ cq = <<>>
  /\ gone = {} /\ received = [c \in Calls |-> <<>>] /\ closing = {}

\* The constructor: the object registers itself with the service.
Register(c) ==
  /\ status[c] = "unborn"
  /\ status' = [status EXCEPT ![c] = "CREATE"] /\ ops' = [ops EXCEPT ![c] = Append(@, "request")]
  /\ UNCHANGED <<response, rpc_ok, sending, cq, gone, received, closing>>

---------------------------------------------------------------------------
(* The replying thread.                                                    *)

\* Mutant of Store: the previous response is not waited for.
StoreAnyTime(c, m) ==
  /\ sending[c] = "idle"
  /\ response' = [response EXCEPT ![c] = m] /\ sending' = [sending EXCEPT ![c] = "stored"]
  /\ closing' = IF m.st # None THEN closing \cup {c} ELSE closing
  /\ UNCHANGED <<status, rpc_ok, ops, cq, gone, received>>

\* send_response: the compare-exchange succeeds once the previous response is
\* processed; until then the thread spins.  On a deleted object it may succeed.
Store(c, m) ==
  /\ sending[c] = "idle" /\ (response[c] = None \/ status[c] = "deleted")
  /\ response' = [response EXCEPT ![c] = m] /\ sending' = [sending EXCEPT ![c] = "stored"]
  /\ closing' = IF m.st # None THEN closing \cup {c} ELSE closing
  /\ UNCHANGED <<status, rpc_ok, ops, cq, gone, received>>

\* send_response: notify_alarm_.Set.
SetAlarm(c) ==
  /\ sending[c] = "stored"
  /\ ops' = [ops EXCEPT ![c] = Append(@, "alarm")] /\ sending' = [sending EXCEPT ![c] = "notified"]
  /\ UNCHANGED <<status, response, rpc_ok, cq, gone, received, closing>>

\* send_response: the value returned.  Where the object is already deleted the
\* read of rpc_ok_ yields anything.
Sent(c, ok) ==
  /\ sending[c] = "notified"
  /\ ok \in IF Alive(c) THEN {rpc_ok[c]} ELSE BOOLEAN
  /\ sending' = [sending EXCEPT ![c] = "idle"]
  /\ UNCHANGED <<status, response, rpc_ok, ops, cq, gone, received, closing>>

---------------------------------------------------------------------------
(* The gRPC library and the client.                                        *)

\* A request arrives (ok), or the server shuts down; an alarm goes off; a
\* write or the final status reaches the client unless it is gone.
Complete(c) ==
  /\ ops[c] # <<>>
  /\ LET op == Head(ops[c])
     IN  \E ok \in BOOLEAN :
           /\ op = "alarm" => ok
           /\ op \in {"write", "finish"} => (ok <=> c \notin gone)
           /\ cq' = Append(cq, <<c, op, ok>>)
           /\ received' = IF ok /\ op \in {"write", "finish"}
                          THEN [received EXCEPT ![c] = Append(@, response[c])] ELSE received
  /\ ops' = [ops EXCEPT ![c] = Tail(@)]
  /\ UNCHANGED <<status, response, rpc_ok, sending, gone, closing>>

Disconnect(c) ==
  /\ c \notin gone /\ status[c] \in {"WRITE", "PENDING", "FINISH"}
  /\ gone' = gone \cup {c}
  /\ UNCHANGED <<status, response, rpc_ok, sending, ops, cq, received, closing>>

---------------------------------------------------------------------------
(* The server thread: handle_rpcs takes an event and calls proceed().      *)

Event(c, s) == cq # <<>> /\ Head(cq)[1] = c /\ status[c] = s

\* proceed() records a failed operation for good.
RpcOk(c) == rpc_ok[c] /\ Head(cq)[3]

Take(c) == cq' = Tail(cq) /\ rpc_ok' = [rpc_ok EXCEPT ![c] = RpcOk(c)]

\* proceed(), CREATE: an object for the next client, and this one's request,
\* unless the registration failed.
ProceedCreate(c, next) ==
  /\ Event(c, "CREATE") /\ Take(c)
  /\ status' = [d \in Calls |-> IF d = c THEN IF RpcOk(c) THEN "WRITE" ELSE "deleted"
                                ELSE IF d = next /\ status[d] = "unborn" THEN "CREATE" ELSE status[d]]
  /\ ops' = IF next \in Calls /\ status[next] = "unborn" THEN [ops EXCEPT ![next] = Append(@, "request")] ELSE ops
  /\ UNCHANGED <<response, sending, gone, received, closing>>

\* proceed(), WRITE: hand the stored response to gRPC.  Over a broken
\* connection a response is dropped, and a final status releases the object.
ProceedWrite(c) ==
  /\ Event(c, "WRITE") /\ response[c] # None /\ Take(c)
  /\ LET last == response[c].st # None
     IN  /\ status' = [status EXCEPT ![c] = IF RpcOk(c) THEN IF last THEN "FINISH" ELSE "PENDING"
                                            ELSE IF last THEN "deleted" ELSE "WRITE"]
         /\ ops' = IF RpcOk(c) THEN [ops EXCEPT ![c] = Append(@, IF last THEN "finish" ELSE "write")] ELSE ops
         /\ response' = IF RpcOk(c) \/ last THEN response ELSE [response EXCEPT ![c] = None]
  /\ UNCHANGED <<sending, gone, received, closing>>

\* Mutant of ProceedPending: a written response is not cleared.
ProceedPendingNoClear(c) ==
  /\ Event(c, "PENDING") /\ Take(c)
  /\ status' = [status EXCEPT ![c] = "WRITE"]
  /\ UNCHANGED <<response, sending, ops, gone, received, closing>>

\* proceed(), PENDING: the write is done, the next response may come.
ProceedPending(c) ==
  /\ Event(c, "PENDING") /\ Take(c)
  /\ status' = [status EXCEPT ![c] = "WRITE"] /\ response' = [response EXCEPT ![c] = None]
  /\ UNCHANGED <<sending, ops, gone, received, closing>>

\* proceed(), FINISH: handle_rpcs deletes the object.
ProceedFinish(c) ==
  /\ Event(c, "FINISH") /\ Take(c)
  /\ status' = [status EXCEPT ![c] = "deleted"]
  /\ UNCHANGED <<response, sending, ops, gone, received, closing>>

ProceedReply(c) == ProceedWrite(c) \/ ProceedPending(c) \/ ProceedFinish(c)

---------------------------------------------------------------------------
(* The class by itself, with any replying thread that keeps its contract:  *)
(* it replies once the request is there, and nothing after a status.       *)

Reply(c) == status[c] \in {"WRITE", "PENDING"} /\ c \notin closing /\ \E m \in Packed : Store(c, m)

CallNext ==
  \E c \in Calls :
    \/ Register(c) \/ (\E next \in Calls \cup {None} : ProceedCreate(c, next)) \/ ProceedReply(c)
    \/ Reply(c) \/ SetAlarm(c) \/ (\E ok \in BOOLEAN : Sent(c, ok))
    \/ Complete(c) \/ Disconnect(c)

\* The contract of the class.  Serving shows that the handlers keep it.
CallSpec == CallInit /\ [][CallNext]_callVars

(* What the class promises its users and gRPC.                             *)

\* Nothing of the object c is in flight or waits in the queue.
NoEvent(c) == \A i \in DOMAIN cq : cq[i][1] # c

Quiet(c) == ops[c] = <<>> /\ NoEvent(c)

\* At most one operation or event of c.
Single(c) ==
  /\ Len(ops[c]) <= 1 /\ (ops[c] # <<>> => NoEvent(c))
  /\ \A i, j \in DOMAIN cq : cq[i][1] = c /\ cq[j][1] = c => i = j

\* gRPC allows one operation at a time on a call's writer, and an alarm may
\* not be set again before it went off: whatever the replying thread, gRPC
\* and the server thread do, an object never has two operations in flight.
OneOutstanding == \A c \in Calls : Single(c)

\* When handle_rpcs deletes an object, no event of it is left in the queue, no
\* operation of it is in flight and no send_response of it is under way, with
\* one exception: the send_response of the final status has set its alarm by
\* then, but it may have its last access, the read of rpc_ok_, still to do.
\* That read does come after the delete in some interleavings, see
\* NothingAfterDelete; nothing else does, and no response is stored in a
\* deleted object and no alarm of one is set.
DeletedLast ==
  \A c \in Calls : status[c] = "deleted" =>
    Quiet(c) /\ (sending[c] = "idle" \/ (sending[c] = "notified" /\ c \in closing))

\* What gRPC and the memory of an object rely on: one operation at a time, and
\* no access to a deleted object but the last read of the last send_response.
CallsSafe == OneOutstanding /\ DeletedLast

\* No access to a deleted object at all: the thread whose alarm made the server
\* thread delete the object is out of send_response by then.  The code does not
\* ensure it ("return rpc_ok_.load" follows notify_alarm_.Set).
NothingAfterDelete == \A c \in Calls : status[c] = "deleted" => Quiet(c) /\ sending[c] = "idle"

=============================================================================

--------------------------- MODULE PriorityServer ---------------------------
(***************************************************************************)
(* What the scheduler promises of requests, without batches and memory:    *)
(* none is lost, duplicated or answered twice, and one is started only     *)
(* when no waiting request comes before it ("HIGH priority are processed   *)
(* first ... within each priority level ... First-Come-First-Served").     *)
(***************************************************************************)
EXTENDS Integers

CONSTANTS Requests, Rank

VARIABLES incoming, waiting, running, done

vars == <<incoming, waiting, running, done>>

Init == incoming = {} /\ waiting = {} /\ running = {} /\ done = {}

Arrive(r) ==
  /\ r \notin incoming \cup waiting \cup running \cup done
  /\ incoming' = incoming \cup {r}
  /\ UNCHANGED <<waiting, running, done>>

Admit(r) ==
  /\ r \in incoming
  /\ incoming' = incoming \ {r} /\ waiting' = waiting \cup {r}
  /\ UNCHANGED <<running, done>>

\* r comes next: nobody who waits is before it, nobody who runs is after it.
IsNext(r) == (\A x \in waiting : Rank[r] <= Rank[x]) /\ (\A x \in running : Rank[x] <= Rank[r])

Start(r) ==
  /\ r \in waiting /\ IsNext(r)
  /\ waiting' = waiting \ {r} /\ running' = running \cup {r}
  /\ UNCHANGED <<incoming, done>>

\* The end of a turn: back to the queue, the request that comes last first.
Yield(r) ==
  /\ r \in running /\ \A x \in running : Rank[x] <= Rank[r]
  /\ running' = running \ {r} /\ waiting' = waiting \cup {r}
  /\ UNCHANGED <<incoming, done>>

Answer(r) ==
  /\ r \in running
  /\ running' = running \ {r} /\ done' = done \cup {r}
  /\ UNCHANGED <<incoming, waiting>>

\* Answered without a turn: only the next request.
GiveUp(r) ==
  /\ r \in waiting /\ IsNext(r)
  /\ waiting' = waiting \ {r} /\ done' = done \cup {r}
  /\ UNCHANGED <<incoming, running>>

Next == \E r \in Requests : Arrive(r) \/ Admit(r) \/ Start(r) \/ Yield(r) \/ Answer(r) \/ GiveUp(r)

Spec == Init /\ [][Next]_vars

=============================================================================

----------------------------- MODULE MCServing ------------------------------
(* Instances of Serving for TLC. *)
EXTENDS Serving

MCCalls == {1, 2}

Option(chat, strm, usage, echo, n, max) ==
  [chat |-> chat, stream |-> strm, usage |-> usage, echo |-> echo, n |-> n, max_tokens |-> max]

Load(server, options, kinds) == [api |-> server, opt |-> options, kinds |-> kinds]

Whole == {"text"}
Split == {"text", "partial"}

\* A chat with two sequences and usage; a completion that echoes its prompt
\* and is cut inside characters; an answer in one piece beside a stream.
GrpcLoads ==
  {Load("grpc", <<Option(TRUE, TRUE, TRUE, FALSE, 2, 1)>>, Whole),
   Load("grpc", <<Option(FALSE, TRUE, FALSE, TRUE, 1, 2)>>, Split),
   Load("grpc", <<Option(FALSE, FALSE, FALSE, FALSE, 1, 1), Option(TRUE, TRUE, FALSE, FALSE, 1, 1)>>, Whole)}

PythonLoads ==
  {Load("python", <<Option(TRUE, TRUE, TRUE, FALSE, 1, 2)>>, Whole),
   Load("python", <<Option(FALSE, FALSE, FALSE, TRUE, 2, 2)>>, Split)}

MCWorkloads == GrpcLoads \cup PythonLoads

\* One completion stream of two tokens.
MCOneStream == {Load("grpc", <<Option(FALSE, TRUE, FALSE, FALSE, 1, 2)>>, Whole)}

Ends == 0 .. PromptLen + 2

MCResponses ==
  {Chunk(k, s, 0, 0) : k \in {"role", "reason"}, s \in Indexes} \cup {Chunk("usage", 0, 0, 0)}
  \cup {Chunk("text", s, f, t) : s \in Indexes, f \in Ends, t \in Ends \ {0}}
  \cup UNION {{[kind |-> "result", to |-> t, why |-> w] : t \in [1 .. n -> Ends], w \in [1 .. n -> BOOLEAN]} : n \in Indexes}

MCStatuses == {"OK", "ERROR"}

=============================================================================

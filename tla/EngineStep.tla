----------------------------- MODULE EngineStep -----------------------------
(***************************************************************************)
(* What one step of the engine does to one sequence of a batch:            *)
(* Batch::prepare_model_input, process_sample_output and                   *)
(* process_validate_output with the Sequence methods they call, driven by  *)
(* LLMEngine::execute_model or SpeculativeEngine::execute_model.           *)
(*                                                                         *)
(* x is the engine's view of the sequence: its tokens, the KV positions of *)
(* the target model (kv) and of the draft model (ssm), the part of the     *)
(* token budget spent by the current engine (used), the rows of logits the *)
(* last pass selected, and whether a CHECK failed (fatal).  p is the       *)
(* length of its prompt, budget its token budget in this batch.            *)
(*                                                                         *)
(* The sequences of a batch do not influence one another: a pass samples   *)
(* for exactly the sequences that leave it with their prompt in the KV     *)
(* cache, so the counting CHECKs of process_sample_output hold.            *)
(***************************************************************************)
EXTENDS BlockManager

CONSTANTS Tokens,      \* the tokens a model may sample
          EosTokens,   \* StoppingCriteria: tokens that end a sequence
          NumSpec      \* num_speculative_tokens, 0 without a draft model

ASSUME EngineAssumption == NumSpec \in Nat /\ EosTokens \subseteq Tokens

View(m, s, t) == [tok |-> t, kv |-> m.kv[s], ssm |-> m.ssm[s], used |-> 0, rows |-> 0, fatal |-> FALSE]

\* StoppingCriteria::check_finished: an end token, or max_tokens generated.
Finished(t, p, max_tokens) == Last(t) \in EosTokens \/ Len(t) - p >= max_tokens

\* The tokens engine e ("kv" or "ssm") processes in one pass.
StepLen(x, e, budget) == Min({Len(x.tok) - x[e], budget - x.used})

\* Sequence::append_token of any token the model may sample; room is the
\* capacity of token_ids_.
Sample(y, room) ==
  IF Len(y.tok) >= room THEN {[y EXCEPT !.fatal = TRUE]} ELSE {[y EXCEPT !.tok = Append(@, t)] : t \in Tokens}

\* One pass of engine e: prepare_model_input, the model, process_sample_output.
\* cap is kv_cache_capacity.
Pass(x, e, p, budget, cap, room) ==
  LET q == StepLen(x, e, budget)
      y == [x EXCEPT ![e] = @ + q, !.used = @ + q,
                     !.rows = Max({0, x[e] + q - Max({x[e], p - 1})})]
  IN  IF budget = x.used THEN {[x EXCEPT !.rows = 0, !.fatal = @ \/ x[e] >= p]}
      ELSE IF q <= 0 \/ y[e] > cap THEN {[x EXCEPT !.fatal = TRUE]}
      ELSE IF y[e] < p THEN {y} ELSE Sample(y, room)

\* LLMEngine::execute_model by engine e, from any of the views xs.
ExecuteModel(xs, e, p, budget, cap, room) ==
  UNION {IF y.fatal THEN {y} ELSE Pass(y, e, p, budget, cap, room) : y \in xs}

\* Mutant of Validate: only the position of the current engine is pulled back.
ValidateTargetOnly(x, a, t, p, max_tokens) ==
  LET start == Len(x.tok) - (NumSpec + 1)
      str == Append(Take(x.tok, start + a), t)
      ends == {i \in start + 1 .. Len(str) : Finished(Take(str, i), p, max_tokens)}
      n == Min({Len(str)} \cup ends)
  IN  [x EXCEPT !.tok = Take(str, n), !.kv = Min({@, n - 1})]

\* Sequence::validate_tokens when a of the NumSpec draft tokens are accepted
\* and t follows them: up to the first token that ends the sequence.
Validate(x, a, t, p, max_tokens) ==
  LET start == Len(x.tok) - (NumSpec + 1)
      str == Append(Take(x.tok, start + a), t)
      ends == {i \in start + 1 .. Len(str) : Finished(Take(str, i), p, max_tokens)}
      n == Min({Len(str)} \cup ends)
  IN  [x EXCEPT !.tok = Take(str, n), !.kv = Min({@, n - 1}), !.ssm = Min({@, n - 1})]

\* The rejection sampler's verdicts: the bonus token is the one the target
\* sampled last, a token that replaces a rejected one is another one.
Verdicts(x) ==
  LET start == Len(x.tok) - (NumSpec + 1)
  IN  {<<NumSpec, Last(x.tok)>>}
      \cup UNION {{<<a, t>> : t \in Tokens \ {x.tok[start + a + 1]}} : a \in 0 .. NumSpec - 1}

\* SpeculativeEngine::validate; reshaping the target's logits into NumSpec + 1
\* rows per sequence throws when a sequence has another number of rows.
Validated(x, p, max_tokens) ==
  IF x.kv < p \/ x.fatal THEN {x}
  ELSE IF x.rows # NumSpec + 1 THEN {[x EXCEPT !.fatal = TRUE]}
  ELSE {Validate(x, v[1], v[2], p, max_tokens) : v \in Verdicts(x)}

\* The engine without a draft model; SpeculativeEngine::execute_model with one: NumSpec draft passes, a target pass, validation.
Outcomes(x, p, max_tokens, budget, cap) ==
  LET room == p + max_tokens + NumSpec + 1
      draft[i \in 0 .. NumSpec] ==
        IF i = 0 THEN {x} ELSE ExecuteModel(draft[i - 1], "ssm", p, budget, cap, room)
      target == ExecuteModel({[y EXCEPT !.used = 0] : y \in draft[NumSpec]}, "kv", p, budget, cap, room)
  IN  IF NumSpec = 0 THEN target ELSE UNION {Validated(y, p, max_tokens) : y \in target}

=============================================================================

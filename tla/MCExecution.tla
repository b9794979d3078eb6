---------------------------- MODULE MCExecution ----------------------------
(***************************************************************************)
(* Two sequences over four tokens: a short prompt, and one that may be    *)
(* prefilled in chunks.  Their blocks are interleaved and out of order.    *)
(***************************************************************************)
EXTENDS Execution

MCVocab == 0..3

MCPrompts == <<<<1>>, <<2, 1, 0>>>>

MCTables == <<<<4, 1, 6, 9>>, <<3, 5, 2, 7, 8>>>>

Default == [frequency_penalty |-> 0, presence_penalty |-> 0, repetition_penalty |-> 1,
            temperature |-> 0, top_p |-> 100, top_k |-> -1, do_sample |-> FALSE]

Both == [Default EXCEPT !.frequency_penalty = 8, !.presence_penalty = 4]

Repeat == [Default EXCEPT !.repetition_penalty = 2, !.temperature = 2, !.top_k = 3]

Nucleus == [Default EXCEPT !.top_k = 2, !.top_p = 60]

Setup(n, graphs, ps) == [num_spec |-> n, graphs |-> graphs, params |-> ps]

MCSetups ==
  {Setup(n, graphs, ps) : n \in 0..2, graphs \in {{}, {1}, {2}},
     ps \in {<<Default, Both>>, <<Both, Repeat>>, <<Nucleus, Default>>}}

PresenceOnly == [Default EXCEPT !.presence_penalty = 20]

MCPresence == {Setup(0, {}, <<PresenceOnly, Default>>)}

=============================================================================

----------------------- MODULE MCContinuousScheduler ------------------------
(* Values of the constants of ContinuousScheduler for TLC. *)
EXTENDS ContinuousScheduler

CONSTANTS r1, r2, r3, s1, s2, s3, s4

ThreeSeqsOf == r1 :> <<s1>> @@ r2 :> <<s2, s3>> @@ r3 :> <<s4>>
ThreePrompts == r1 :> <<"a", "a">> @@ r2 :> <<"a", "a", "a">> @@ r3 :> <<"a">>
ThreeRanks == r1 :> 1 @@ r2 :> 2 @@ r3 :> 3
ThreeMaxNew == r1 :> 3 @@ r2 :> 2 @@ r3 :> 2

\* One sequence each, prompts of one token and several tokens to generate.
PairSeqsOf == r1 :> <<s1>> @@ r2 :> <<s2>>
PairPrompts == r1 :> <<"a">> @@ r2 :> <<"a">>
PairRanks == r1 :> 1 @@ r2 :> 2
PairMaxNew == r1 :> 3 @@ r2 :> 3

\* Prompts of more tokens than a sequence's share of the budget, with a common
\* prefix: they are processed in chunks, or found in the cache in part.
ChunkedSeqsOf == r1 :> <<s1>> @@ r2 :> <<s2>> @@ r3 :> <<s3>>
ChunkedPrompts == r1 :> <<"a", "a", "a", "a", "b">> @@ r2 :> <<"a", "a", "a", "a">> @@ r3 :> <<"a">>
LongPrompts == r1 :> <<"a", "a", "a", "a", "b">> @@ r2 :> <<"a", "a", "a", "a", "b">>
ChunkedMaxNew == r1 :> 2 @@ r2 :> 3 @@ r3 :> 2

\* Two sequences per request, for expansion once the prompt is cached.
TwinSeqsOf == r1 :> <<s1, s2>> @@ r2 :> <<s3>>
TwinPrompts == r1 :> <<"a", "b">> @@ r2 :> <<"a", "b">>
TwinMaxNew == r1 :> 1 @@ r2 :> 2

=============================================================================

------------------------- MODULE IncrementalDecoder -------------------------
(***************************************************************************)
(* IncrementalDecoder: which tokens of a sequence have been turned into    *)
(* text.  A generated token is known by what its text does: "text" ends a  *)
(* character, "partial" ends inside a UTF-8 character (the decoded text    *)
(* ends with U+FFFD), "empty" adds no text (a skipped special token).      *)
(* Positions count the p prompt tokens; offset is output_offset_.          *)
(***************************************************************************)
EXTENDS Integers, Sequences, FiniteSetsExt, SequencesExt

TokenKinds == {"text", "partial", "empty"}

\* The constructor: with echo the prompt is output too.
FirstOffset(p, echo) == IF echo THEN 0 ELSE p

\* The positions after o whose tokens add text.
Visible(o, toks, p) == {i \in o + 1 .. p + Len(toks) : toks[i - p] # "empty"}

\* decode(): the new output_offset_; the text of the tokens in between is
\* returned.  Text that ends inside a character is kept for the next call.
Decode(offset, toks, p) ==
  LET o == Max({offset, p})
      new == Visible(o, toks, p)
  IN  IF new # {} /\ toks[Max(new) - p] # "partial" THEN p + Len(toks) ELSE o

\* Sequence::build_output decodes from here on, token by token.
Window == 6

\* Sequence::build_output: the offset the whole output reaches.
BuildOutput(offset, toks, p) ==
  LET size == p + Len(toks)
      start == Max({IF size <= Window THEN 0 ELSE size - Window, p})
  IN  FoldLeft(LAMBDA o, end : Decode(o, SubSeq(toks, 1, end - p), p),
               offset, [i \in 1 .. size - start + 1 |-> start + i - 1])

=============================================================================

\* Blocks of one token, and running sequences that file their blocks while they
\* keep them (Request::expand_sequences).
CONSTANTS
  BlockSize = 1
  NumBlocks = 4
  Seqs = {s1, s2}
  EnablePrefixCache = TRUE
  Tokens = {"a", "b"}
  Budgets = {3}
  MaxTokens = 3
  MaxClock = 0
  Expands = TRUE
  Prompts <- UnitPrompts
SPECIFICATION Spec
INVARIANTS SequenceReadsOwnKV EvictionIsExact
PROPERTY PrefixMapSpec
SYMMETRY SeqSymmetry
VIEW WithoutInUse

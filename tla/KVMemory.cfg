\* Two sequences compete for three blocks of two tokens: too few for both, so
\* that cached blocks are shared, split and evicted.
CONSTANTS
  BlockSize = 2
  NumBlocks = 4
  Seqs = {s1, s2}
  EnablePrefixCache = TRUE
  Tokens = {"a", "b"}
  Budgets = {2, 3}
  MaxTokens = 4
  MaxClock = 1
  Expands = FALSE
  Prompts <- PairPrompts
SPECIFICATION Spec
INVARIANTS SequenceReadsOwnKV CacheInOrder InUseExact
PROPERTY ReleaseKeepsWork
SYMMETRY SeqSymmetry

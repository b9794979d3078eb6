CONSTANTS
  Vocab <- MCVocab
  Setups <- MCSetups
  Prompts <- MCPrompts
  Tables <- MCTables
  BlockSize = 2
  MaxTokens = 4
  Eos = 3
  GraphLen = 4
SPECIFICATION ExecSpec
INVARIANTS GeneratedRight CacheExact ShapesAgree
CHECK_DEADLOCK FALSE

\* run_until_complete while the handler threads still schedule.
CONSTANTS
  r1 = r1  r2 = r2  r3 = r3
  s1 = s1  s2 = s2  s3 = s3  s4 = s4
  Requests = {r1, r2}
  Seqs = {s1, s2}
  SeqsOf <- PairSeqsOf
  Prompt <- PairPrompts
  Rank <- PairRanks
  MaxNew <- PairMaxNew
  Streaming = {}
  Tokens = {"a"}
  EosTokens = {}
  NumSpec = 0
  BlockSize = 1
  NumBlocks = 8
  EnablePrefixCache = FALSE
  MaxTokensPerBatch = 4
  MaxSeqsPerBatch = 2
  QueueSize = 2
  Offline = TRUE
SPECIFICATION Spec
INVARIANT CompleteOnReturn

\* run_until_complete over a prefix cache, with a request that
\* expands and too little memory for all its sequences and the other request's.
CONSTANTS
  r1 = r1  r2 = r2  r3 = r3
  s1 = s1  s2 = s2  s3 = s3  s4 = s4
  Requests = {r1, r2}
  Seqs = {s1, s2, s3}
  SeqsOf <- TwinSeqsOf
  Prompt <- TwinPrompts
  Rank <- PairRanks
  MaxNew <- TwinMaxNew
  Streaming = {r2}
  Tokens = {"a", "b"}
  EosTokens = {}
  NumSpec = 0
  BlockSize = 1
  NumBlocks = 5
  EnablePrefixCache = TRUE
  MaxTokensPerBatch = 4
  MaxSeqsPerBatch = 2
  QueueSize = 2
  Offline = TRUE
SPECIFICATION Spec
INVARIANT BatchIsBacked
PROPERTY ReturnsInTheEnd

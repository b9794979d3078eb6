\* A prefix cache, and a prompt that ends with a stop token.
CONSTANTS
  r1 = r1  r2 = r2  r3 = r3
  s1 = s1  s2 = s2  s3 = s3  s4 = s4
  Requests = {r1, r2}
  Seqs = {s1, s2, s3}
  SeqsOf <- TwinSeqsOf
  Prompt <- TwinPrompts
  Rank <- PairRanks
  MaxNew <- TwinMaxNew
  Streaming = {}
  Tokens = {"a", "b"}
  EosTokens = {"b"}
  NumSpec = 0
  BlockSize = 1
  NumBlocks = 9
  EnablePrefixCache = TRUE
  MaxTokensPerBatch = 4
  MaxSeqsPerBatch = 2
  QueueSize = 2
  Offline = FALSE
SPECIFICATION FairSpec
PROPERTY EventuallyDone

\* Speculative decoding of prompts longer than a sequence's budget, when memory runs short.
CONSTANTS
  r1 = r1  r2 = r2  r3 = r3
  s1 = s1  s2 = s2  s3 = s3  s4 = s4
  Requests = {r1, r2, r3}
  Seqs = {s1, s2, s3}
  SeqsOf <- ChunkedSeqsOf
  Prompt <- ChunkedPrompts
  Rank <- ThreeRanks
  MaxNew <- ChunkedMaxNew
  Streaming = {}
  Tokens = {"a", "b"}
  EosTokens = {}
  NumSpec = 2
  BlockSize = 1
  NumBlocks = 12
  EnablePrefixCache = TRUE
  MaxTokensPerBatch = 6
  MaxSeqsPerBatch = 2
  QueueSize = 2
  Offline = FALSE
SPECIFICATION Spec
INVARIANT DraftInStep
PROPERTY ChecksHold

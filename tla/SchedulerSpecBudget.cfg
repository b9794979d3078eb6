\* Speculative decoding of prompts longer than a sequence's budget, with memory for both requests.
CONSTANTS
  r1 = r1  r2 = r2  r3 = r3
  s1 = s1  s2 = s2  s3 = s3  s4 = s4
  Requests = {r1, r2}
  Seqs = {s1, s2}
  SeqsOf <- PairSeqsOf
  Prompt <- LongPrompts
  Rank <- PairRanks
  MaxNew <- PairMaxNew
  Streaming = {}
  Tokens = {"a", "b"}
  EosTokens = {}
  NumSpec = 2
  BlockSize = 1
  NumBlocks = 22
  EnablePrefixCache = FALSE
  MaxTokensPerBatch = 6
  MaxSeqsPerBatch = 2
  QueueSize = 2
  Offline = FALSE
SPECIFICATION Spec
INVARIANT NoCheckFails

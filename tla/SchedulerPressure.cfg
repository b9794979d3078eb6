\* Three requests, four sequences and memory for six tokens.
CONSTANTS
  r1 = r1  r2 = r2  r3 = r3
  s1 = s1  s2 = s2  s3 = s3  s4 = s4
  Requests = {r1, r2, r3}
  Seqs = {s1, s2, s3, s4}
  SeqsOf <- ThreeSeqsOf
  Prompt <- ThreePrompts
  Rank <- ThreeRanks
  MaxNew <- ThreeMaxNew
  Streaming = {r1}
  Tokens = {"a"}
  EosTokens = {}
  NumSpec = 0
  BlockSize = 2
  NumBlocks = 4
  EnablePrefixCache = FALSE
  MaxTokensPerBatch = 4
  MaxSeqsPerBatch = 2
  QueueSize = 2
  Offline = FALSE
SPECIFICATION Spec
INVARIANTS OneOwner BatchIsBacked DoneHoldsNothing
PROPERTIES EventuallyDone ServerSpec

SPECIFICATION FairSpec
CONSTANTS
  Calls <- MCCalls
  Responses <- MCResponses
  Statuses <- MCStatuses
  None = None
  NumSeqs = 2
  PromptLen = 1
  Workloads <- MCOneStream
INVARIANT NothingAfterDelete
CHECK_DEADLOCK FALSE

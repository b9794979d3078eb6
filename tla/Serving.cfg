SPECIFICATION FairSpec
CONSTANTS
  Calls <- MCCalls
  Responses <- MCResponses
  Statuses <- MCStatuses
  None = None
  NumSeqs = 2
  PromptLen = 1
  Workloads <- MCWorkloads
INVARIANTS CallsSafe StreamDelivered TasksHaveRequest
PROPERTIES ContractKept Answered
CHECK_DEADLOCK FALSE

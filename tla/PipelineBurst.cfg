CONSTANTS
  InboxCap = 2
  Batch = 8
  MaxEvents = 3
SPECIFICATION FairPipelineSpec
PROPERTY SubmitReturns
CHECK_DEADLOCK FALSE

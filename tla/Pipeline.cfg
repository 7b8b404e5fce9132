CONSTANTS
  InboxCap = 4
  Batch = 6
  MaxEvents = 5
SPECIFICATION FairPipelineSpec
INVARIANTS PipelineInv WaitsOnlyAfterBurst
PROPERTIES RoundEnds StopEnds
CHECK_DEADLOCK FALSE

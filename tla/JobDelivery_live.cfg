SPECIFICATION FairSpec
CONSTANTS
  j1 = j1
  j2 = j2
  Job <- Jobs2
  TTL = 2
  MaxConcurrency = 1
  DrainBatch = 1
  MaxFaults = 1
  Faults = {"worker crash", "timeout"}
INVARIANT DrainLeavesNothing
PROPERTIES MessageAnswered DrainClears
CHECK_DEADLOCK FALSE

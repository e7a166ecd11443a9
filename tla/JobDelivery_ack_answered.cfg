SPECIFICATION FairSpec
CONSTANTS
  j1 = j1
  j2 = j2
  Job <- Jobs1
  TTL = 2
  MaxConcurrency = 1
  DrainBatch = 1
  MaxFaults = 1
  Faults = {"disconnect"}
PROPERTIES AckedIsAnswered
CHECK_DEADLOCK FALSE

SPECIFICATION Spec
CONSTANTS
  j1 = j1
  j2 = j2
  Job <- Jobs1
  TTL = 2
  MaxConcurrency = 1
  DrainBatch = 1
  MaxFaults = 4
  Faults = {"worker crash", "api crash", "redis", "timeout", "disconnect", "send", "malformed", "delay"}
INVARIANTS TypeOK AckedWasPublished OneAnswerPerResult AnnouncedIsAnswered DeliveryInv StreamInv
PROPERTIES AnswersSpaced RerunOnlyInDrain
CHECK_DEADLOCK FALSE

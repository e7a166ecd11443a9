SPECIFICATION Spec
CONSTANTS
  p1 = p1
  r1 = r1
  r2 = r2
  Entry = {p1, r1, r2}
  Reminders = {r1, r2}
  Unknown = unknown
  None = none
  TTL = 2
  Slots = 2
  MaxTrouble = 0
INVARIANT EveryoneIsSent
CHECK_DEADLOCK FALSE

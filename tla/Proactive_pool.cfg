SPECIFICATION Spec
CONSTANTS
  Day = 6
  Zone = 3
  QuietHours = {0, 5}
  MaxPerDay = 2
  MaxPerHour = 3
  DeadMan = 2
  Disturbances = {"scheduler", "worker", "backend"}
  MaxDisturbances = 1
  Horizon = 12
  recap = recap
  checkin = checkin
  r1 = r1
  Category <- Both
  Reminder = {}
  WindowStart <- StartOf
  WindowEnd <- EndOf
  Cooldown <- CooldownOf
  MaxCategories = 2
  MinGap = 1
  Shift = 1
  StaleAfter = 1
  BatchSize = 1
  Recurring = {}
  Requeued = {checkin}
  MaxLead = 2
INVARIANTS TypeOK
PROPERTIES OncePerDay PlannedOnce CooldownAtPlan SentWhileFresh CapCloses
CHECK_DEADLOCK FALSE

SPECIFICATION Spec
CONSTANTS
  Day = 6
  Zone = 3
  QuietHours = {0}
  MaxPerDay = 1
  MaxPerHour = 3
  DeadMan = 2
  Disturbances = {}
  MaxDisturbances = 1
  Horizon = 9
  recap = recap
  checkin = checkin
  r1 = r1
  Category <- Recap
  Reminder <- One
  WindowStart <- StartOf
  WindowEnd <- EndOf
  Cooldown <- CooldownOf
  MaxCategories = 1
  MinGap = 1
  Shift = 1
  StaleAfter = 2
  BatchSize = 1
  Recurring <- One
  Requeued = {}
  MaxLead = 1
INVARIANT RemindersIndependent
CHECK_DEADLOCK FALSE

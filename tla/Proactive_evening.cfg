SPECIFICATION Spec
CONSTANTS
  Day = 6
  Zone = 3
  QuietHours = {0, 5}
  MaxPerDay = 2
  MaxPerHour = 3
  DeadMan = 2
  Disturbances = {}
  MaxDisturbances = 1
  Horizon = 12
  recap = recap
  checkin = checkin
  r1 = r1
  Category <- Recap
  Reminder = {}
  WindowStart <- StartOf
  WindowEnd <- EndOf
  Cooldown <- CooldownOf
  MaxCategories = 1
  MinGap = 1
  Shift = 1
  StaleAfter = 2
  BatchSize = 1
  Recurring = {}
  Requeued = {}
  MaxLead = 2
PROPERTY NoEveningInTheMorning
CHECK_DEADLOCK FALSE

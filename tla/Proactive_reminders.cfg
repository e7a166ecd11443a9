SPECIFICATION FairSpec
CONSTANTS
  Day = 2
  Zone = 0
  QuietHours = {0}
  MaxPerDay = 2
  MaxPerHour = 3
  DeadMan = 2
  Disturbances = {"backend", "edit"}
  MaxDisturbances = 1
  Horizon = 3
  recap = recap
  checkin = checkin
  r1 = r1
  Category <- Recap
  Reminder <- One
  WindowStart <- MorningOf
  WindowEnd <- NoonOf
  Cooldown <- CooldownOf
  MaxCategories = 1
  MinGap = 1
  Shift = 1
  StaleAfter = 1
  BatchSize = 1
  Recurring <- One
  Requeued = {}
  MaxLead = 1
INVARIANT ReminderAccounted
PROPERTIES DueIsTaken DueReminderFires OccurrenceKept
CHECK_DEADLOCK FALSE

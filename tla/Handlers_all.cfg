SPECIFICATION Spec
CONSTANTS
  j1 = j1
  j2 = j2
  t1 = t1
  t2 = t2
  None = None
  Job <- Jobs
  Task <- Tasks
  Goal = {g1}
  Feature = {f1}
  FollowUps = 1
  MaxNudges = 1
  LogLimit = 2
  RecapLimit = 1
  MaxSlips = 2
  MaxEdits = 2
SYMMETRY Symmetry
INVARIANTS TypeOK OneAtATime ArchivedWasFollowedUp CoachedInOrder NudgesEnd NudgedOnce
CONSTRAINT Subject
CHECK_DEADLOCK FALSE

SPECIFICATION Spec
CONSTANTS
  r1 = r1
  r2 = r2
  r3 = r3
  o1 = o1
  u1 = u1
  u2 = u2
  p1 = p1
  p2 = p2
  slack = slack
  gmail = gmail
  notion = notion
  gmail2 = gmail2
  None = None
  Req <- Requests
  Old = {o1}
  Uid <- Users
  Person <- Persons
  Slot <- Slots
  Kind <- Kinds
  MaxTrouble = 2
SYMMETRY Symmetry
INVARIANTS TypeOK OneAccount ResetSticks OneConnection SlotKept ReauthIsTrue StaleIsExplained
CONSTRAINT Subject
VIEW Seen
CHECK_DEADLOCK FALSE

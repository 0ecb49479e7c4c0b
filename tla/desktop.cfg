SPECIFICATION Spec
CONSTANTS
  MaxWindows = 3
  Owners <- MCOwners
  Empty = Empty
  Titles = {"Console", "Shut Down", "Restart"}
  Ends = {"Shut Down", "Restart"}
  Starts = {57, 58, 59}
  SleepFor = 2
  Parts = 2
  MaxCreated = 5
  MaxTicks = 3
CHECK_DEADLOCK FALSE
INVARIANTS TypeOK NothingLost Addressed SleepMeasures
PROPERTIES KeyHandled Paints ShutsDown

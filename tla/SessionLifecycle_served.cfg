SPECIFICATION FairSpec
CONSTANTS
  f1 = f1
  f2 = f2
  i1 = i1
  i2 = i2
  None = None
  Folders = {f1}
  Ids = {i1, i2}
  Kinds = {}
  Today = None
  PageFlow = FALSE
  FreshNames = FALSE
  MaxRequests = 3
  MaxOutages = 1
  MaxRestarts = 0
  MaxMidnights = 1
PROPERTIES ServedInTheEnd RequestsAreTaken EndsWithItsDay
INVARIANTS RunningIsServed
CHECK_DEADLOCK FALSE

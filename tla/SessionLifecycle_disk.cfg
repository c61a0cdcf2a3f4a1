SPECIFICATION Spec
CONSTANTS
  f1 = f1
  f2 = f2
  i1 = i1
  i2 = i2
  None = None
  Folders = {f1, f2}
  Ids = {i1, i2}
  Kinds = {"other"}
  Today = None
  PageFlow = TRUE
  FreshNames = TRUE
  MaxRequests = 3
  MaxOutages = 2
  MaxRestarts = 1
  MaxMidnights = 1
INVARIANTS TypeOK RestartKeepsTheSession
PROPERTIES ActivitiesSurvive
SYMMETRY Symmetry
CHECK_DEADLOCK FALSE

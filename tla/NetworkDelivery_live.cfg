SPECIFICATION FairSpec
CONSTANTS
  Handle = {h1}
  Human = human
  Crewfold = crewfold
  Target = {t1}
  NoTarget = noTarget
  Loop = {l1}
  Mention = {{}}
  AckThrough = {0}
  MaxLog = 3
  MaxInFlight = 1
  BatchLimit = 1
  Faults = {"lost", "restart"}
  MaxLate = 1
  MaxRestarts = 1
PROPERTIES EventuallyTold
CHECK_DEADLOCK FALSE

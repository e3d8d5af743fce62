SPECIFICATION Spec
CONSTANTS
  Handle = {h1}
  Human = human
  Crewfold = crewfold
  Target = {t1, t2}
  NoTarget = noTarget
  Mention <- MCMention
  AckThrough = {0, 1, 2, 3}
  MaxLog = 4
  MaxInFlight = 1
  BatchLimit = 2
  Faults = {}
  MaxRestarts = 0
PROPERTIES BoundSessionPrompted
CHECK_DEADLOCK FALSE

SPECIFICATION Spec
CONSTANTS
  Handle = {h1}
  Human = human
  Crewfold = crewfold
  Target = {t1}
  NoTarget = noTarget
  Loop = {l1}
  Mention <- MCMention
  AckThrough = {0}
  MaxLog = 4
  MaxInFlight = 1
  BatchLimit = 3
  Faults = {}
  MaxLate = 1
  MaxRestarts = 0
INVARIANTS MentionWakesPoll
SYMMETRY Symmetry
CHECK_DEADLOCK FALSE

SPECIFICATION Spec
CONSTANTS
  Handle = {h1}
  Human = human
  Crewfold = crewfold
  Target = {t1}
  NoTarget = noTarget
  Loop = {l1}
  Mention <- MCMention
  AckThrough = {0}
  MaxLog = 4
  MaxInFlight = 2
  BatchLimit = 1
  Faults = {}
  MaxLate = 1
  MaxRestarts = 0
INVARIANTS JoinedIsServed
SYMMETRY Symmetry
CHECK_DEADLOCK FALSE

SPECIFICATION Spec
CONSTANTS
  Handle = {h1}
  Human = human
  Crewfold = crewfold
  Target = {t1, t2}
  NoTarget = noTarget
  Loop = {l1, l2}
  Mention = {{}}
  AckThrough = {2}
  MaxLog = 4
  MaxInFlight = 1
  BatchLimit = 1
  Faults = {"lost", "lateError"}
  MaxLate = 1
  MaxRestarts = 0
INVARIANTS TypeOK OneRelay PromptsReceivable
PROPERTIES CursorNeverRewinds KeepsPromise
SYMMETRY Symmetry
CHECK_DEADLOCK FALSE

SPECIFICATION SessionSpec
CONSTANTS
  Handle = {h1}
  Human = human
  Crewfold = crewfold
  Target = {t1, t2}
  NoTarget = noTarget
  Mention <- MCMention
  AckThrough = {0, 1, 2, 3}
  MaxLog = 4
  MaxInFlight = 1
  BatchLimit = 2
  Faults = {"restart", "lateError", "unbind"}
  MaxRestarts = 1
INVARIANTS TypeOK NoSilentSkip PromptsReceivable
PROPERTIES CursorRewindsOnlyOnUnbind KeepsPromise OnlyRebindingMisdelivers
CHECK_DEADLOCK FALSE

SPECIFICATION FairSpec
CONSTANTS
  Handle = {h1}
  Human = human
  Crewfold = crewfold
  Target = {t1}
  NoTarget = noTarget
  Mention <- MCMention
  AckThrough = {0, 2}
  MaxLog = 4
  MaxInFlight = 1
  BatchLimit = 2
  Faults = {"restart", "lateError"}
  MaxRestarts = 1
PROPERTIES MentionBypassesQuiet EventuallyTold
CHECK_DEADLOCK FALSE

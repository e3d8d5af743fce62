SPECIFICATION Spec
CONSTANTS
  Handle = {h1, h2}
  Crewfold = crewfold
  Owner = owner
  Session = {s1}
  Dir = {d1, d2}
  Process = {p1}
  File = {f1}
  None = none
  PageLimit = 2
  MaxLog = 5
  MaxCommands = 1
SYMMETRY Symmetry
INVARIANTS RowHasFile
PROPERTIES ShownBeforeAcked SignedAsFound
CHECK_DEADLOCK FALSE

SPECIFICATION FairSpec
CONSTANTS
  Update = {u1, u2}
  Setup = {s1}
  Loop = {l1, l2}
  MaxVersion = 2
  None = none
INVARIANTS UpdateTypeOK DeliveriesDrained WayBack
PROPERTIES ReportIsTrue UpdatesEnd
CHECK_DEADLOCK FALSE

SPECIFICATION FairConfigSpec
CONSTANTS
  r1 = r1
  r2 = r2
  i1 = i1
  i2 = i2
  alice = alice
  Room = {r1, r2}
  Device = {d1, d2, d3}
  Foreign = {d3}
  Others <- MCOthers
  Invite = {i1, i2}
  Handle = {owner, alice}
  OwnerHandle = owner
  Local = local
  None = none
  MaxPending = 2
  Process = {p1, p2}
  InviteRoom <- MCInviteRoom
  MaxCommands = 2
  MaxElsewhere = 2
  Faults = {"lost", "kill"}
INVARIANTS ConfigTypeOK FileTruthful OneDevice
PROPERTIES NothingOverwritten CommandsEnd
CHECK_DEADLOCK FALSE

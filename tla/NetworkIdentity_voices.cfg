SPECIFICATION Spec
CONSTANTS
  Room = {r1, r2}
  Device = {d1, d2}
  Invite = {i1, i2}
  Handle = {owner, alice}
  OwnerHandle = owner
  Local = local
  None = none
  MaxPending = 2
SYMMETRY Symmetry
INVARIANTS TypeOK OneVoice OneAddressee MembersAreInvited
CHECK_DEADLOCK FALSE

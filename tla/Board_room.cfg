SPECIFICATION Spec
CONSTANTS
  NoOne = NoOne
  Agent = {a1, a2}
  Human = {owner}
  Leaver = {a1}
  Operation = {k1}
  Kind = {"task", "question"}
  MaxItems = 2
  MaxVersion = 3
  Edit <- MCEdit
INVARIANTS
  TypeOK
  OncePerOperation
  ReplayIsFirstAnswer
  NoLostUpdate
  AnswersStand
  HumanRequestStands
  ResolvedIsReadOnly
  PartiesTold
  OneEvent
CHECK_DEADLOCK FALSE

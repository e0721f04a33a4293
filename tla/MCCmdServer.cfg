SPECIFICATION Spec
CONSTANTS
  Clients = {"c1", "c2"}
  Commands <- TwoCommands
  Killed = {"c2"}
  None = "none"
INVARIANTS
  OneSessionUnlessRaced
  RepliesAreOwn
  LeftoverIsUnfinished
  DiesOnlyIfRaced
PROPERTIES
  AnsweredOrCutOff
CHECK_DEADLOCK FALSE

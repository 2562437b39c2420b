\* Every viewer against a network that may fail at any point.
SPECIFICATION Spec
CONSTANTS
  Stamps = {1, 2}
  OtherViewers = TRUE
  Disturbed = TRUE
INVARIANTS
  PongAnswersPing
  HostResultJust
PROPERTIES
  BothEnd
CHECK_DEADLOCK FALSE

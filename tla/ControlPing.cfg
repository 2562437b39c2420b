\* `quicview connect` against `quicview serve`; nothing fails on the way.
SPECIFICATION Spec
CONSTANTS
  Stamps = {1}
  OtherViewers = FALSE
  Disturbed = FALSE
INVARIANTS
  PingAnswered
CHECK_DEADLOCK FALSE

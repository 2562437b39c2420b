\* Two controllers and three signals: a trigger can race a trigger, a
\* subscription, a wait and a drop.
SPECIFICATION Spec
CONSTANTS
  Handles = {h1, h2}
  Signals = {s1, s2, s3}
  Owner = h1
  Initial = {s1}
  MaxVersion = 2
INVARIANTS
  TypeOK
  TriggerInForce
  ReleasedForCause
  NoMissedRequest
PROPERTIES
  ImplementsLatch
CHECK_DEADLOCK FALSE

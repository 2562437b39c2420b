\* ShutdownController::default(): the constructor's only signal is dropped.
SPECIFICATION Spec
CONSTANTS
  Handles = {h1}
  Signals = {s1}
  Owner = h1
  Initial = {}
  MaxVersion = 1
INVARIANTS
  IsShutdownTells
CHECK_DEADLOCK FALSE

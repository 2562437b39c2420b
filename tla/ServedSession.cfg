\* Two clients, one of them followed through its session, which any kind of viewer
\* may begin, over a network that may fail at any point.
SPECIFICATION Spec
CONSTANTS
  Conns = {c1, c2}
  Main = main
  Watched = c1
  Stamps = {1}
  OtherViewers = TRUE
INVARIANTS
  AnswerIsService
PROPERTIES
  SessionsEnd
CHECK_DEADLOCK FALSE

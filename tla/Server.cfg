\* Three clients: one can fail its handshake or hang in it while a second is
\* served and a third waits.
SPECIFICATION Spec
CONSTANTS
  Conns = {c1, c2, c3}
  Main = main
INVARIANTS
  CountersMatchTasks
  FinalReport
  CutForCause
PROPERTIES
  ShutdownCompletes
  EveryArrivalTaken
  ServerUsesLatch
CHECK_DEADLOCK FALSE

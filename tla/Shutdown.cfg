\* Two connections, two jobs and two handlers at a time; any may hang.
CONSTANTS
  Conns = {c1, c2}
  MaxWorkers = 2
  MaxHandlers = 2
SPECIFICATION FairShutdown
INVARIANTS
  ShutdownTypeOK
  PoolClosesLast
PROPERTY ShutdownEnds
CHECK_DEADLOCK FALSE

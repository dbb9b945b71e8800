SPECIFICATION Spec
CONSTANTS
  Processes = {p1, p2}
  Conns = {k1, k2}
  Last <- Migrations
  None = None
INVARIANTS
  TypeOK
  ServesMigrated
  SuccessMeansServed
PROPERTIES
  ExitsAfterSignal
\* Processes exit and are not started again.
CHECK_DEADLOCK FALSE

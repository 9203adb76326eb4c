SPECIFICATION FairSpec
CONSTANTS
  i1 = i1
  i2 = i2
  r1 = r1
  r2 = r2
  c1 = c1
  c2 = c2
  Handler = Handler
  NoConn = NoConn
  Item <- MCItems
  Run <- MCRuns
  Conn = {c1}
  MaxRetries = 2
INVARIANTS
  TypeOK
  PendingIsTracked
  DeliveredWasHandedOver
  FailedSpentBudget
PROPERTIES
  PendingSettles

SPECIFICATION InboxSpec
CONSTANTS
  i1 = i1
  i2 = i2
  r1 = r1
  c1 = c1
  t1 = t1
  t2 = t2
  p1 = p1
  p2 = p2
  s1 = s1
  s2 = s2
  Handler = Handler
  NoConn = NoConn
  Item = {i1, i2}
  Run = {r1}
  Conn = {c1}
  MaxRetries = 1
  Main = main
  Session = {s1, s2, main}
  Thread = {t1, t2}
  asker <- MCAsker
  Peer = {p1, p2}
  Letter <- MCLetters
  NoRef = NoRef
  Expiring <- MCExpiring
SYMMETRY Symmetry
INVARIANTS
  BudgetRespected
  DeliveredWasRouted
  RepliesCountOnce
  RepliesReachTheAsker
PROPERTIES
  ImplementsLifecycle

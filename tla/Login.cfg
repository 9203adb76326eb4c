SPECIFICATION Spec
CONSTANTS
  p1 = p1
  u1 = u1
  u2 = u2
  Page = {p1}
  User = {u1, u2}
  UserOf <- OnePage
  Attempt = {a1, a2}
  Code = {c1}
  NoUser = NoUser
  NoAttempt = NoAttempt
  MaxRequests = 2
INVARIANTS
  OneLiveCode
  SessionsAreEarned
  FailureIsExplained
PROPERTIES
  ImplementsTicket
  NoDeadEnd
CHECK_DEADLOCK FALSE

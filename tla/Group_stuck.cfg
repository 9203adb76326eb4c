SPECIFICATION GroupSpec
CONSTANTS
  i1 = i1
  i2 = i2
  r1 = r1
  r2 = r2
  c1 = c1
  c2 = c2
  alice = alice
  bob = bob
  Handler = Handler
  NoConn = NoConn
  Item = {i1, i2}
  Run = {r1}
  Conn = {c1, c2}
  Member = {alice, bob}
  owner <- TwoMembers
  MaxRetries = 2
INVARIANT QuietParentIsSettled

SPECIFICATION AnySpec
CONSTANTS
  p = p
  c1 = c1
  c2 = c2
  enc = enc
  bad = bad
  Res = {r1, r2}
  Fresh = {f1}
  NoRes = NoRes
  Key = {k1}
  NoKey = NoKey
  Content = {c1, c2}
  Encrypted = {}
  Guarded = {}
  Inbound = {c2}
  Policy = {p}
  NoPolicy = NoPolicy
  Effect <- AllowOnce
  MaxUses <- UseOnce
  Unlimited = Unlimited
  Call = {n1, n2}
  MaxGrant = 2
  Trusted = FALSE
  HoldInbound = FALSE
  TrustedRes = {r3}
  TrustedEffect <- AskOnce
  MixedContent = {c1, bad}
  Blocked = {bad}
  Grant = 2
SYMMETRY Alike
INVARIANTS
  ChargedWithinLimit
  TransportedOnce
  TransportedWasDecided
  LocalDecisionsAreCharged
PROPERTIES
  DecisionStands
  LocalTransportIsAuthorised

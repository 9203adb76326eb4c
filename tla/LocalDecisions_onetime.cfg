SPECIFICATION Spec
CONSTANTS
  p = p
  c1 = c1
  c2 = c2
  enc = enc
  bad = bad
  Res = {r1}
  Fresh = {f1}
  NoRes = NoRes
  Key = {k1}
  NoKey = NoKey
  Content = {c1}
  Encrypted = {}
  Guarded = {}
  Inbound = {}
  Policy = {p}
  NoPolicy = NoPolicy
  Effect <- AllowOnce
  MaxUses <- UseOnce
  Unlimited = Unlimited
  Call = {n1, n2}
  MaxGrant = 1
  Trusted = TRUE
  HoldInbound = FALSE
INVARIANTS
  OneTimeDecidesOnce

SPECIFICATION LockSpec
CONSTANTS
  p = p
  q = q
  Process = {p, q}
  Lock = {lock}
  Awaited = {}
  NoOne = NoOne
  Ghost = Ghost
SYMMETRY Interchangeable
INVARIANT MutualExclusion

CONSTANTS
  u1 = u1
  u2 = u2
  u3 = u3
  Id = {u1, u2, u3}
  Name = {u1, u2, u3}
  Invite = {i1}
  MaxUses <- MCMaxUses
  Call = {c1, c2}
  NoInvite = NoInvite
  NoId = NoId
  Role = {family, gym}
  SystemRole = {family}
  GroupName = {g1}
  h1 = h1
  h2 = h2
  Host = {h1, h2}
  Setup = {s1, s2}
  UrlsOf <- MCUrlsOf
  None = None
  MaxSecrets = 3
  MaxConns = 2
SPECIFICATION MCSpec
SYMMETRY Alike
INVARIANTS
  InvitesPayForAccounts
  KeylessOnlyWithoutInvite
  FriendshipNeedsBoth
  GroupHasItsOwner
  NothingDangles
  NextSetupRepairs
PROPERTIES
  BlockedStays
CHECK_DEADLOCK FALSE

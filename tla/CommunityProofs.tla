--------------------------- MODULE CommunityProofs ---------------------------
(***************************************************************************)
(* What accounts, friendships and groups keep while any of their users     *)
(* register, ask, invite, transfer and are deleted: for any number of      *)
(* users, names, invites, requests that wait, roles and groups.            *)
(***************************************************************************)
EXTENDS Community, Attachment, FiniteSetTheorems, TLAPS

USE AccountsAssumption DEF AccountsAssumption

-----------------------------------------------------------------------------
(* Accounts *)

\* Users that an invite must have paid for.
PaidBy(i) == {u \in users : u.invite = i /\ u.id \notin keyless \cup granted}

\* A request that waits has what its kind needs; a user that rotates has a key.
Sane(c) ==
  /\ c.kind = "register" => c.invite \in Invite
  /\ c.kind = "create" => c.invite = NoInvite
  /\ c.kind \in {"rotate", "reset"} => c.id \in ids
  /\ c.kind = "rotate" => c.id \notin keyless

\* The inductive invariant of the accounts: ids are given out once, so that
\* nothing that was said of an account is said of a later one.
AInv ==
  /\ AccountsTypeOK
  /\ IsFiniteSet(users)
  /\ UserIds \subseteq ids /\ keyless \subseteq ids
  /\ \A c \in calls : Sane(c)
  /\ InvitesPayForAccounts
  /\ KeylessOnlyWithoutInvite

\* No invite is used more often than it may be.
LEMMA UsesAreBounded ==
  ASSUME AInv, NEW i \in Invite
  PROVE  useCount[i] \in Nat /\ MaxUses[i] \in Nat /\ useCount[i] <= MaxUses[i]
<1>1. useCount[i] <= MaxUses[i]
  BY DEF AInv, InvitesPayForAccounts
<1> QED  BY <1>1 DEF AInv, AccountsTypeOK

\* Fewer users to pay for, no use taken back.
LEMMA FewerArePaidFor ==
  ASSUME AInv, NEW i \in Invite, PaidBy(i)' \subseteq PaidBy(i),
         useCount'[i] \in Nat, useCount[i] <= useCount'[i]
  PROVE  Cardinality(PaidBy(i)') <= useCount'[i]
<1>1. IsFiniteSet(PaidBy(i))
  BY FS_Subset DEF AInv, PaidBy
<1>2. Cardinality(PaidBy(i)') <= Cardinality(PaidBy(i))
  BY <1>1, FS_Subset
<1>3. IsFiniteSet(PaidBy(i)')
  BY <1>1, FS_Subset
<1>4. Cardinality(PaidBy(i)) \in Nat /\ Cardinality(PaidBy(i)') \in Nat
  BY <1>1, <1>3, FS_CardinalityType
<1>5. Cardinality(PaidBy(i)) <= useCount[i] /\ useCount[i] \in Nat
  BY DEF AInv, InvitesPayForAccounts, PaidBy, AccountsTypeOK
<1> QED  BY <1>2, <1>4, <1>5

\* An invite that is not open is never open again.
LEMMA ClosedStaysClosed ==
  ASSUME AInv, usable' \subseteq usable, useCount' \in [Invite -> Nat],
         \A i \in Invite : useCount[i] <= useCount'[i],
         NEW i, ~Open(i)
  PROVE  ~Open(i)'
BY DEF Open, AInv, AccountsTypeOK

\* What only shrinks keeps the accounts in order.
LEMMA LessKeepsAInv ==
  ASSUME AInv, users' \subseteq users, calls' \subseteq calls, usable' \subseteq usable,
         UNCHANGED <<ids, useCount, history>>
  PROVE  AInv'
<1>1. AccountsTypeOK' /\ IsFiniteSet(users')
  BY FS_Subset DEF AInv, AccountsTypeOK, history
<1>2. UserIds' \subseteq ids' /\ keyless' \subseteq ids' /\ \A c \in calls' : Sane(c)'
  BY DEF AInv, UserIds, Sane, history
<1>3. ASSUME NEW i \in Invite
      PROVE  useCount'[i] <= MaxUses[i] /\ Cardinality(PaidBy(i)') <= useCount'[i]
  <2>1. useCount'[i] \in Nat /\ useCount[i] <= useCount'[i] /\ useCount'[i] <= MaxUses[i]
    BY UsesAreBounded
  <2>2. PaidBy(i)' \subseteq PaidBy(i)
    BY DEF PaidBy, history
  <2> QED  BY <2>1, <2>2, FewerArePaidFor
<1>4. InvitesPayForAccounts'
  BY <1>3 DEF InvitesPayForAccounts, PaidBy
<1>5. KeylessOnlyWithoutInvite'
  BY DEF AInv, KeylessOnlyWithoutInvite, Open, history
<1> QED  BY <1>1, <1>2, <1>4, <1>5 DEF AInv

\* A request that starts to wait.
LEMMA WaitKeepsAInv ==
  ASSUME AInv, NEW n \in Call, NEW kind \in {"register", "create", "rotate", "reset"},
         NEW name \in Name, NEW i \in Invite \cup {NoInvite}, NEW id \in Id \cup {NoId},
         Wait(n, kind, name, i, id),
         kind = "register" => i \in Invite,
         kind = "create" => i = NoInvite,
         kind \in {"rotate", "reset"} => id \in ids,
         kind = "rotate" => id \notin keyless
  PROVE  AInv'
<1> DEFINE c == [call |-> n, kind |-> kind, name |-> name, invite |-> i, id |-> id]
<1>1. calls' = calls \cup {c} /\ UNCHANGED <<users, ids, useCount, usable, keyless, cut, granted>>
  BY DEF Wait, history
<1>2. c \in Waiting /\ Sane(c)
  BY DEF Waiting, Sane
<1> HIDE DEF c
<1>3. AccountsTypeOK'
  BY <1>1, <1>2 DEF AInv, AccountsTypeOK
<1>4. \A d \in calls' : Sane(d)'
  BY <1>1, <1>2 DEF AInv, Sane
<1>5. InvitesPayForAccounts' /\ KeylessOnlyWithoutInvite'
  BY <1>1 DEF AInv, InvitesPayForAccounts, KeylessOnlyWithoutInvite, Open
<1> QED  BY <1>1, <1>3, <1>4, <1>5 DEF AInv, UserIds

\* A new account, whose id says nothing yet: either a use pays for it, or it is
\* without a key that was answered, or an admin has the key.
LEMMA InsertKeepsAInv ==
  ASSUME AInv, NEW c \in calls, c.kind \in {"register", "create"}, NEW id \in Id,
         Insert(c, id), calls' \subseteq calls, usable' = usable,
         useCount' \in {useCount, Use(c)},
         keyless' \in {keyless, keyless \cup {id}},
         cut' \in {cut, cut \cup {id}}, granted' \in {granted, granted \cup {id}},
         keyless' = keyless => granted' = granted \cup {id} \/ (useCount' = Use(c) /\ Consumes(c.invite)),
         keyless' # keyless => cut' = cut \cup {id} \/ ~Consumes(c.invite)
  PROVE  AInv'
<1> DEFINE new == [id |-> id, name |-> c.name, invite |-> c.invite]
<1>1. id \notin ids /\ users' = users \cup {new} /\ ids' = ids \cup {id}
  BY DEF Insert
<1>2. c \in Waiting /\ Sane(c) /\ new \in UserRow /\ new.id = id /\ new.invite = c.invite
  BY DEF AInv, AccountsTypeOK, Waiting, UserRow
<1> HIDE DEF new
<1>3. \A u \in users : u.id \in ids /\ u.id # id
  BY <1>1 DEF AInv, UserIds
<1>4. useCount' \in [Invite -> Nat] /\ \A i \in Invite : useCount[i] <= useCount'[i]
  BY DEF Use, AInv, AccountsTypeOK
<1>5. AccountsTypeOK' /\ IsFiniteSet(users')
  <2>1. IsFiniteSet(users')
    BY <1>1, FS_AddElement DEF AInv
  <2> QED  BY <1>1, <1>2, <1>4, <2>1 DEF AInv, AccountsTypeOK
<1>6. UserIds' \subseteq ids' /\ keyless' \subseteq ids'
  BY <1>1, <1>2 DEF AInv, UserIds
<1>7. \A d \in calls' : Sane(d)'
  BY <1>1 DEF AInv, Sane
<1>8. ASSUME NEW i \in Invite
      PROVE  useCount'[i] <= MaxUses[i] /\ Cardinality(PaidBy(i)') <= useCount'[i]
  <2>1. useCount'[i] <= MaxUses[i]
    <3>1. useCount'[i] = useCount[i] \/ (useCount'[i] = useCount[i] + 1 /\ useCount[i] < MaxUses[i])
      BY DEF Use, Consumes, Open
    <3> QED  BY <3>1, UsesAreBounded
  <2>2. PaidBy(i)' \subseteq PaidBy(i) \cup {new}
    BY <1>1, <1>3 DEF PaidBy
  <2>3. CASE new \notin PaidBy(i)'
    BY <2>1, <2>2, <2>3, <1>4, FewerArePaidFor
  <2>4. CASE new \in PaidBy(i)'
    <3>1. i = c.invite /\ keyless' = keyless /\ granted' # granted \cup {id}
      BY <2>4, <1>2 DEF PaidBy
    <3>2. useCount'[i] = useCount[i] + 1
      BY <3>1, <1>2 DEF Use
    <3>3. IsFiniteSet(PaidBy(i)) /\ new \notin PaidBy(i)
      BY <1>2, <1>3, FS_Subset DEF AInv, PaidBy
    <3>4. PaidBy(i)' = PaidBy(i) \cup {new}
      BY <2>2, <2>4, <1>1, <1>3, <3>1 DEF PaidBy
    <3>5. Cardinality(PaidBy(i)') = Cardinality(PaidBy(i)) + 1 /\ Cardinality(PaidBy(i)) \in Nat
      BY <3>3, <3>4, FS_AddElement, FS_CardinalityType
    <3>6. Cardinality(PaidBy(i)) <= useCount[i] /\ useCount[i] \in Nat
      BY DEF AInv, InvitesPayForAccounts, PaidBy, AccountsTypeOK
    <3> QED  BY <2>1, <3>2, <3>5, <3>6
  <2> QED  BY <2>3, <2>4
<1>9. InvitesPayForAccounts'
  BY <1>8 DEF InvitesPayForAccounts, PaidBy
<1>10. KeylessOnlyWithoutInvite'
  <2> SUFFICES ASSUME NEW u \in users', u.id \in keyless' \ cut'
               PROVE  ~Open(u.invite)'
    BY DEF KeylessOnlyWithoutInvite, Open
  <2>1. ~Open(u.invite)
    <3>1. CASE u = new
      BY <3>1, <1>1, <1>2 DEF Consumes, AInv
    <3>2. CASE u \in users
      BY <3>2, <1>3 DEF AInv, KeylessOnlyWithoutInvite
    <3> QED  BY <3>1, <3>2, <1>1
  <2> QED  BY <2>1, <1>4, ClosedStaysClosed
<1> QED  BY <1>5, <1>6, <1>7, <1>9, <1>10 DEF AInv

\* An answered key: of a rotation the account had one before, of a reset an
\* admin has it now.
LEMMA KeyReplacedKeepsAInv ==
  ASSUME AInv, NEW c \in calls, KeyReplaced(c)
  PROVE  AInv'
<1>1. /\ calls' = calls \ {c} /\ UNCHANGED <<users, ids, useCount, usable, cut>>
      /\ keyless' = keyless \ {c.id}
      /\ granted' = IF c.kind = "reset" THEN granted \cup {c.id} ELSE granted
      /\ c.kind \in {"rotate", "reset"} /\ Sane(c) /\ c \in Waiting
  BY DEF KeyReplaced, AInv, AccountsTypeOK
<1>2. keyless' \subseteq ids /\ granted' \subseteq Id /\ keyless' \subseteq Id
  BY <1>1 DEF AInv, AccountsTypeOK, Sane
<1>3. AccountsTypeOK' /\ \A d \in calls' : Sane(d)'
  BY <1>1, <1>2 DEF AInv, AccountsTypeOK, Sane
<1>4. ASSUME NEW i \in Invite
      PROVE  useCount'[i] <= MaxUses[i] /\ Cardinality(PaidBy(i)') <= useCount'[i]
  <2>1. useCount'[i] \in Nat /\ useCount[i] <= useCount'[i] /\ useCount'[i] <= MaxUses[i]
    BY <1>1, UsesAreBounded
  <2>2. PaidBy(i)' \subseteq PaidBy(i)
    BY <1>1 DEF PaidBy, Sane
  <2> QED  BY <2>1, <2>2, FewerArePaidFor
<1>5. InvitesPayForAccounts'
  BY <1>4 DEF InvitesPayForAccounts, PaidBy
<1>6. KeylessOnlyWithoutInvite'
  BY <1>1 DEF AInv, KeylessOnlyWithoutInvite, Open
<1> QED  BY <1>1, <1>2, <1>3, <1>5, <1>6 DEF AInv, UserIds

\* Every step of the accounts keeps them in order and takes nobody away.
LEMMA AccountsStep ==
  ASSUME AInv, AccountsNext
  PROVE  AInv' /\ UserIds \subseteq UserIds'
<1>1. ASSUME NEW n \in Call, NEW name \in Name, NEW i \in Invite, RegisterStarts(n, name, i)
      PROVE  AInv' /\ users' = users
  <2>1. Wait(n, "register", name, i, NoId)
    BY <1>1 DEF RegisterStarts
  <2> QED  BY <2>1, WaitKeepsAInv DEF Wait
<1>2. ASSUME NEW n \in Call, NEW name \in Name, CreateStarts(n, name)
      PROVE  AInv' /\ users' = users
  <2>1. Wait(n, "create", name, NoInvite, NoId)
    BY <1>2 DEF CreateStarts
  <2> QED  BY <2>1, WaitKeepsAInv DEF Wait
<1>3. ASSUME NEW c \in calls, NameRefused(c)
      PROVE  AInv' /\ users' = users
  <2>1. calls' \subseteq calls /\ UNCHANGED <<users, ids, useCount, usable, history>>
    BY <1>3 DEF NameRefused
  <2> QED  BY <2>1, LessKeepsAInv
<1>4. ASSUME NEW c \in calls, KeyReplaced(c)
      PROVE  AInv' /\ users' = users
  BY <1>4, KeyReplacedKeepsAInv DEF KeyReplaced
<1>5. ASSUME NEW c \in calls, NEW id \in Id, AccountInserted(c, id)
      PROVE  AInv' /\ users \subseteq users'
  <2>1. /\ c.kind \in {"register", "create"} /\ Insert(c, id) /\ calls' \subseteq calls
        /\ useCount' = Use(c) /\ UNCHANGED <<usable, cut>>
        /\ keyless' = IF c.kind = "create" \/ Consumes(c.invite) THEN keyless ELSE keyless \cup {id}
        /\ granted' = IF c.kind = "create" THEN granted \cup {id} ELSE granted
    BY <1>5 DEF AccountInserted
  <2>2. id \notin keyless /\ users \subseteq users'
    BY <2>1 DEF Insert, AInv
  <2>3. usable' = usable /\ cut' = cut
    BY <2>1
  <2>4. keyless' = keyless => granted' = granted \cup {id} \/ (useCount' = Use(c) /\ Consumes(c.invite))
    BY <2>1, <2>2
  <2>5. keyless' # keyless => ~Consumes(c.invite)
    BY <2>1
  <2>6. keyless' \in {keyless, keyless \cup {id}} /\ granted' \in {granted, granted \cup {id}}
    BY <2>1
  <2> QED  BY <2>1, <2>2, <2>3, <2>4, <2>5, <2>6, InsertKeepsAInv
<1>6. ASSUME NEW c \in calls, NEW id \in Id, NEW writes \in 1 .. 2, AccountCut(c, id, writes)
      PROVE  AInv' /\ users \subseteq users'
  <2>1. /\ c.kind \in {"register", "create"} /\ Insert(c, id) /\ calls' \subseteq calls
        /\ useCount' \in {useCount, Use(c)} /\ UNCHANGED <<usable, granted>>
        /\ keyless' = keyless \cup {id} /\ cut' = cut \cup {id}
    BY <1>6 DEF AccountCut
  <2>2. id \notin keyless
    BY <2>1 DEF Insert, AInv
  <2> QED  BY <2>1, <2>2, InsertKeepsAInv DEF Insert
<1>7. ASSUME NEW n \in Call, NEW u \in users, NEW kind \in {"rotate", "reset"}, KeyStarts(n, u, kind)
      PROVE  AInv' /\ users' = users
  <2>1. Wait(n, kind, u.name, NoInvite, u.id) /\ (kind = "rotate" => u.id \notin keyless)
    BY <1>7 DEF KeyStarts
  <2>2. u.name \in Name /\ u.id \in Id /\ u.id \in ids
    BY DEF AInv, AccountsTypeOK, UserRow, UserIds
  <2> QED  BY <2>1, <2>2, WaitKeepsAInv DEF Wait
<1>8. ASSUME NEW i \in Invite, InviteEnds(i)
      PROVE  AInv' /\ users' = users
  <2>1. usable' \subseteq usable /\ UNCHANGED <<users, ids, useCount, calls, history>>
    BY <1>8 DEF InviteEnds
  <2> QED  BY <2>1, LessKeepsAInv
<1>9. ASSUME RestartForgets
      PROVE  AInv' /\ users' = users
  <2>1. calls' \subseteq calls /\ UNCHANGED <<users, ids, useCount, usable, history>>
    BY <1>9 DEF RestartForgets
  <2> QED  BY <2>1, LessKeepsAInv
<1>10. AInv' /\ users \subseteq users'
  BY <1>1, <1>2, <1>3, <1>4, <1>5, <1>6, <1>7, <1>8, <1>9 DEF AccountsNext
<1> QED  BY <1>10 DEF UserIds

-----------------------------------------------------------------------------
(* Friendships *)

\* A row says yes for the sides that have said it.
Sound(f) ==
  /\ f \in Friendship /\ f.from # f.to
  /\ f.status = "pending" => f.agreed = {f.from}
  /\ f.status = "accepted" => f.agreed = Sides(f)

\* The roles of a friendship are some that one of its sides may use.
Usable(f) == \A r \in f.roles : \E u \in Sides(f) : Valid(u, r)

\* The inductive invariant of the friendships: each pair has one row, which the
\* handlers alone see to.
FInv ==
  /\ customRoles \subseteq UserIds \X Role
  /\ \A f \in friendships : Sound(f) /\ Usable(f) /\ Sides(f) \subseteq UserIds
  /\ \A f, g \in friendships : Sides(f) = Sides(g) => f = g

\* What a step may do to blocked rows.
BlockHolds ==
  \A f \in friendships : f.status = "blocked" =>
    \A g \in friendships' : Sides(g) = Sides(f) => g.status = "blocked"

\* A row is replaced by one between the same two.
LEMMA ReplaceKeepsFInv ==
  ASSUME FInv, NEW f \in friendships, NEW g, Replace(f, g),
         Sound(g), Usable(g), Sides(g) = Sides(f),
         f.status = "blocked" => g.status = "blocked"
  PROVE  FInv' /\ BlockHolds
<1>1. /\ friendships' = (friendships \ {f}) \cup {g} /\ customRoles' = customRoles
      /\ users' = users
  BY DEF Replace, accountVars
<1>2. customRoles' \subseteq UserIds' \X Role /\ UserIds' = UserIds
  BY <1>1 DEF FInv, UserIds
<1>3. \A h \in friendships' : Sound(h) /\ Usable(h)' /\ Sides(h) \subseteq UserIds'
  BY <1>1, <1>2 DEF FInv, Usable, Valid
<1>4. \A h, k \in friendships' : Sides(h) = Sides(k) => h = k
  BY <1>1 DEF FInv
<1>5. BlockHolds
  BY <1>1 DEF FInv, BlockHolds
<1> QED  BY <1>2, <1>3, <1>4, <1>5 DEF FInv

\* Rows and roles that go, of users who stay.
LEMMA RemovalKeepsFInv ==
  ASSUME FInv, friendships' \subseteq friendships, customRoles' \subseteq customRoles,
         customRoles' \subseteq UserIds' \X Role,
         \A f \in friendships' : Sides(f) \subseteq UserIds' /\ Usable(f)'
  PROVE  FInv' /\ BlockHolds
<1>1. FInv'
  BY DEF FInv
<1>2. BlockHolds
  BY DEF FInv, BlockHolds
<1> QED  BY <1>1, <1>2

\* Users who come leave the friendships as they are.
LEMMA NewUsersKeepFInv ==
  ASSUME FInv, UNCHANGED friendVars, UserIds \subseteq UserIds'
  PROVE  FInv' /\ BlockHolds
<1>1. UNCHANGED <<friendships, customRoles>>
  BY DEF friendVars
<1>2. \A f \in friendships' : Sides(f) \subseteq UserIds' /\ Usable(f)'
  BY <1>1 DEF FInv, Usable, Valid
<1>3. customRoles' \subseteq UserIds' \X Role
  BY <1>1 DEF FInv
<1> QED  BY <1>1, <1>2, <1>3, RemovalKeepsFInv

\* A new row keeps to what the others keep to, and is about no pair that has one.
LEMMA AskedKeepsFInv ==
  ASSUME FInv, NEW u \in UserIds, NEW v \in UserIds, u # v, UserIds \subseteq Id,
         Between(u, v) = {}, UNCHANGED <<customRoles, accountVars>>,
         friendships' = friendships \cup
           {[from |-> u, to |-> v, status |-> "pending", roles |-> {}, agreed |-> {u}]}
  PROVE  FInv' /\ BlockHolds
<1> DEFINE new == [from |-> u, to |-> v, status |-> "pending", roles |-> {}, agreed |-> {u}]
<1>1. friendships' = friendships \cup {new} /\ customRoles' = customRoles /\ users' = users
  BY DEF accountVars
<1>2. Sound(new) /\ Sides(new) = {u, v} /\ new.roles = {}
  BY DEF Sound, Friendship, Sides
<1> HIDE DEF new
<1>3. UserIds' = UserIds /\ \A f \in friendships : Sides(f) # Sides(new)
  BY <1>1, <1>2 DEF UserIds, Between
<1>4. \A f \in friendships' : Sound(f) /\ Usable(f)' /\ Sides(f) \subseteq UserIds'
  BY <1>1, <1>2, <1>3 DEF FInv, Usable, Valid
<1>5. \A f, g \in friendships' : Sides(f) = Sides(g) => f = g
  BY <1>1, <1>3 DEF FInv
<1>6. BlockHolds
  BY <1>1, <1>3 DEF FInv, BlockHolds
<1> QED  BY <1>1, <1>3, <1>4, <1>5, <1>6 DEF FInv

\* The other side says yes to what was asked.
LEMMA AcceptedIsSound ==
  ASSUME FInv, NEW f \in friendships, NEW u, f.status = "pending", u \in Sides(f), u # f.from
  PROVE  LET g == Accepted(f, u)
         IN Sound(g) /\ Usable(g) /\ Sides(g) = Sides(f)
<1>1. /\ f \in Friendship /\ f.from # f.to /\ f.agreed = {f.from} /\ Usable(f)
      /\ u = f.to /\ u \in Id
  BY DEF FInv, Sound, Sides, Friendship
<1> DEFINE g == Accepted(f, u)
<1>2. /\ g \in Friendship /\ g.from = f.from /\ g.to = f.to /\ g.status = "accepted"
      /\ g.roles = f.roles /\ g.agreed = {f.from, f.to}
  BY <1>1 DEF Accepted, Friendship
<1> HIDE DEF g
<1>3. Sides(g) = Sides(f) /\ Sound(g) /\ Usable(g)
  BY <1>1, <1>2 DEF Sides, Sound, Usable
<1> QED  BY <1>3 DEF g

\* Every step of the friendships keeps one row a pair, that row honest, and
\* what is blocked, blocked.
LEMMA FriendshipsStep ==
  ASSUME FInv, FriendshipsNext, UserIds \subseteq Id
  PROVE  FInv' /\ BlockHolds
<1>1. ASSUME NEW u \in UserIds, NEW v \in UserIds, Request(u, v)
      PROVE  FInv' /\ BlockHolds
  <2>1. CASE /\ Between(u, v) = {}
             /\ friendships' = friendships \cup
                  {[from |-> u, to |-> v, status |-> "pending", roles |-> {}, agreed |-> {u}]}
             /\ UNCHANGED <<customRoles, accountVars>>
    BY <1>1, <2>1, AskedKeepsFInv DEF Request
  <2>2. CASE \E f \in Between(u, v) : Mutual(u, f) /\ Replace(f, Accepted(f, u))
    <3> PICK f \in Between(u, v) : Mutual(u, f) /\ Replace(f, Accepted(f, u))
      BY <2>2
    <3>1. f \in friendships /\ f.status = "pending" /\ f.from # u /\ u \in Sides(f)
      BY DEF Between, Mutual, Sides
    <3> QED  BY <3>1, AcceptedIsSound, ReplaceKeepsFInv
  <2> QED  BY <1>1, <2>1, <2>2 DEF Request
<1>2. ASSUME NEW f \in friendships, Accept(f)
      PROVE  FInv' /\ BlockHolds
  <2>1. f.status = "pending" /\ Replace(f, Accepted(f, f.to)) /\ f.to \in Sides(f) /\ f.to # f.from
    BY <1>2 DEF Accept, Sides, FInv, Sound
  <2> QED  BY <2>1, AcceptedIsSound, ReplaceKeepsFInv
<1>3. ASSUME NEW f \in friendships, Reject(f) \/ Unfriend(f)
      PROVE  FInv' /\ BlockHolds
  <2>1. friendships' \subseteq friendships /\ customRoles' = customRoles /\ users' = users
    BY <1>3 DEF Reject, Unfriend, Remove, accountVars
  <2>2. customRoles' \subseteq UserIds' \X Role /\ UserIds' = UserIds
    BY <2>1 DEF FInv, UserIds
  <2>3. \A g \in friendships' : Sides(g) \subseteq UserIds' /\ Usable(g)'
    BY <2>1, <2>2 DEF FInv, Usable, Valid
  <2> QED  BY <2>1, <2>2, <2>3, RemovalKeepsFInv
<1>4. ASSUME NEW f \in friendships, Block(f)
      PROVE  FInv' /\ BlockHolds
  <2> DEFINE g == [f EXCEPT !.status = "blocked"]
  <2>1. f \in Friendship /\ f.from # f.to /\ Usable(f) /\ Replace(f, g)
    BY <1>4 DEF FInv, Sound, Block
  <2>2. g \in Friendship /\ g.from = f.from /\ g.to = f.to /\ g.status = "blocked" /\ g.roles = f.roles
    BY <2>1 DEF Friendship
  <2> HIDE DEF g
  <2>3. Sound(g) /\ Usable(g) /\ Sides(g) = Sides(f)
    BY <2>1, <2>2 DEF Sound, Usable, Sides
  <2> QED  BY <2>1, <2>2, <2>3, ReplaceKeepsFInv
<1>5. ASSUME NEW u \in UserIds, NEW f \in friendships, NEW r \in Role,
             AddRole(u, f, r) \/ RemoveRole(u, f, r)
      PROVE  FInv' /\ BlockHolds
  <2> PICK some \in SUBSET Role : /\ Replace(f, [f EXCEPT !.roles = some])
                                  /\ \A q \in some : q \in f.roles \/ (\E w \in Sides(f) : Valid(w, q))
    <3>1. f \in Friendship
      BY DEF FInv, Sound
    <3>2. CASE AddRole(u, f, r)
      <4>1. f.roles \cup {r} \in SUBSET Role
        BY <3>1 DEF Friendship
      <4> QED  BY <3>2, <4>1 DEF AddRole
    <3>3. CASE RemoveRole(u, f, r)
      <4>1. f.roles \ {r} \in SUBSET Role
        BY <3>1 DEF Friendship
      <4> QED  BY <3>3, <4>1 DEF RemoveRole
    <3> QED  BY <1>5, <3>2, <3>3
  <2> DEFINE g == [f EXCEPT !.roles = some]
  <2>1. Sound(f) /\ Usable(f) /\ Replace(f, g)
    BY DEF FInv
  <2>2. /\ g \in Friendship /\ g.from = f.from /\ g.to = f.to /\ g.status = f.status
        /\ g.agreed = f.agreed /\ g.roles = some
    BY <2>1 DEF Friendship, Sound
  <2> HIDE DEF g
  <2>3. Sides(g) = Sides(f)
    BY <2>2 DEF Sides
  <2>4. Sound(g) /\ Usable(g)
    BY <2>1, <2>2, <2>3 DEF Sound, Usable
  <2> QED  BY <2>1, <2>2, <2>3, <2>4, ReplaceKeepsFInv
<1>6. ASSUME NEW u \in UserIds, NEW r \in Role, CreateRole(u, r)
      PROVE  FInv' /\ BlockHolds
  <2>1. friendships' = friendships /\ users' = users /\ customRoles' = customRoles \cup {<<u, r>>}
    BY <1>6 DEF CreateRole, accountVars
  <2>2. UserIds' = UserIds /\ customRoles' \subseteq UserIds' \X Role
    BY <2>1 DEF UserIds, FInv
  <2>3. \A f \in friendships' : Usable(f)'
    BY <2>1 DEF FInv, Usable, Valid
  <2>4. BlockHolds
    BY <2>1 DEF FInv, BlockHolds
  <2> QED  BY <2>1, <2>2, <2>3, <2>4 DEF FInv
<1> QED  BY <1>1, <1>2, <1>3, <1>4, <1>5, <1>6 DEF FriendshipsNext

\* The invariant, and what it is for.
LEMMA FInvIsEnough ==
  ASSUME FInv
  PROVE  FriendshipNeedsBoth
<1> SUFFICES ASSUME NEW f \in friendships
             PROVE  Between(f.from, f.to) = {f} /\ (f.status = "accepted" => f.agreed = Sides(f))
  BY DEF FriendshipNeedsBoth
<1>1. Between(f.from, f.to) = {g \in friendships : Sides(g) = Sides(f)}
  BY DEF Between, Sides
<1> QED  BY <1>1 DEF FInv, Sound

-----------------------------------------------------------------------------
(* Groups *)

\* Memberships as the schema keeps them: one for a user in a group, of those
\* who are there.
Placed(ms) ==
  /\ ms \subseteq Member
  /\ \A m \in ms : m.user \in UserIds /\ m.by \in UserIds \cup {NoId} /\ m.group \in GroupNames
  /\ \A m, k \in ms : m.user = k.user /\ m.group = k.group => m = k

\* No group of two owners.
OneOwner(ms) ==
  \A m, k \in ms : m.role = "owner" /\ k.role = "owner" /\ m.group = k.group => m = k

\* m is the membership of the owner that g names.
Rules(m, g) == m.group = g.name /\ m.user = g.owner /\ m.status = "active" /\ m.role = "owner"

\* The inductive invariant of the groups: what is said of whole groups, with
\* what has to be true of the torn ones for them to become whole again.
GInv ==
  /\ groups \subseteq Group
  /\ torn \subseteq GroupNames
  /\ \A g \in groups : g.owner \in UserIds
  /\ \A g, h \in groups : g.name = h.name => g = h
  /\ Placed(members)
  /\ OneOwner(members)
  /\ \A g \in groups : g.name \notin torn => \E m \in members : Rules(m, g)

\* The invariant, and what it is for.
LEMMA GInvIsEnough ==
  ASSUME GInv
  PROVE  GroupHasItsOwner
<1> SUFFICES ASSUME NEW g \in groups, g.name \notin torn
             PROVE  \E m \in members :
                      /\ m.group = g.name /\ m.user = g.owner /\ m.status = "active"
                      /\ {o \in members : o.group = g.name /\ o.role = "owner"} = {m}
  BY DEF GroupHasItsOwner
<1> PICK m \in members : Rules(m, g)
  BY DEF GInv
<1>1. {o \in members : o.group = g.name /\ o.role = "owner"} = {m}
  BY DEF GInv, OneOwner, Rules
<1> QED  BY <1>1 DEF Rules

\* A membership after the role of u in n was written.
Recast(m, u, n, role) == IF m.user = u /\ m.group = n THEN [m EXCEPT !.role = role] ELSE m

\* What the write of a role changes.
LEMMA RecastChanges ==
  ASSUME NEW m \in Member, NEW u, NEW n, NEW role \in {"owner", "member"}
  PROVE  LET k == Recast(m, u, n, role)
         IN /\ k \in Member
            /\ k.group = m.group /\ k.user = m.user /\ k.status = m.status /\ k.by = m.by
            /\ k.role = IF m.user = u /\ m.group = n THEN role ELSE m.role
BY DEF Recast, Member

\* The write of a role leaves the memberships where they are.
LEMMA WithRoleKeepsPlaces ==
  ASSUME NEW ms, Placed(ms), NEW u, NEW n, NEW role \in {"owner", "member"}
  PROVE  Placed(WithRole(ms, u, n, role))
<1> DEFINE after == WithRole(ms, u, n, role)
<1>1. after = {Recast(m, u, n, role) : m \in ms}
  BY DEF WithRole, Recast
<1>2. ASSUME NEW k \in after
      PROVE  \E m \in ms : /\ k = Recast(m, u, n, role) /\ k \in Member
                           /\ k.group = m.group /\ k.user = m.user /\ k.by = m.by
  <2> PICK m \in ms : k = Recast(m, u, n, role)
    BY <1>1
  <2> QED  BY RecastChanges DEF Placed
<1> HIDE DEF after
<1>3. after \subseteq Member
  BY <1>2
<1>4. \A m \in after : m.user \in UserIds /\ m.by \in UserIds \cup {NoId} /\ m.group \in GroupNames
  BY <1>2 DEF Placed
<1>5. \A m, k \in after : m.user = k.user /\ m.group = k.group => m = k
  BY <1>2 DEF Placed
<1> QED  BY <1>3, <1>4, <1>5 DEF after, Placed

\* The owner becomes a member: the group has no owner, the others have theirs.
LEMMA OwnerUnmade ==
  ASSUME Placed(members), OneOwner(members), NEW u, NEW n, Owns(u, n)
  PROVE  LET after == WithRole(members, u, n, "member")
         IN OneOwner(after) /\ \A k \in after : k.role = "owner" => k.group # n
<1> PICK o \in members : o.user = u /\ o.group = n /\ o.role = "owner"
  BY DEF Owns, Of
<1> DEFINE after == WithRole(members, u, n, "member")
<1>1. after = {Recast(m, u, n, "member") : m \in members}
  BY DEF WithRole, Recast
<1>2. ASSUME NEW k \in after
      PROVE  \E m \in members : /\ k = Recast(m, u, n, "member") /\ k.group = m.group
                                /\ k.role = "owner" => m.role = "owner" /\ k.group # n
  <2> PICK m \in members : k = Recast(m, u, n, "member")
    BY <1>1
  <2>1. /\ k.group = m.group /\ m \in Member
        /\ k.role = IF m.user = u /\ m.group = n THEN "member" ELSE m.role
    BY RecastChanges DEF Placed
  <2>2. k.role = "owner" => m.role = "owner" /\ k.group # n
    BY <2>1 DEF OneOwner
  <2> QED  BY <2>1, <2>2
<1> HIDE DEF after
<1>3. OneOwner(after)
  BY <1>2 DEF OneOwner
<1> QED  BY <1>2, <1>3 DEF after

\* A group without an owner is given one.
LEMMA OwnerMade ==
  ASSUME NEW ms, Placed(ms), OneOwner(ms), NEW v, NEW n,
         \A k \in ms : k.role = "owner" => k.group # n
  PROVE  OneOwner(WithRole(ms, v, n, "owner"))
<1> DEFINE after == WithRole(ms, v, n, "owner")
<1>1. after = {Recast(m, v, n, "owner") : m \in ms}
  BY DEF WithRole, Recast
<1>2. ASSUME NEW k \in after
      PROVE  \E m \in ms : /\ k = Recast(m, v, n, "owner") /\ k.group = m.group
                           /\ k.role = "owner" => (m.role = "owner" \/ (m.user = v /\ m.group = n))
  <2> PICK m \in ms : k = Recast(m, v, n, "owner")
    BY <1>1
  <2> QED  BY RecastChanges DEF Placed
<1> HIDE DEF after
<1>3. OneOwner(after)
  BY <1>2 DEF OneOwner, Placed
<1> QED  BY <1>3 DEF after

\* Whatever of a transfer was written, nobody has moved and no group has two
\* owners; and the groups that the transfer is not about have the same.
LEMMA HandOverKeepsPlaces ==
  ASSUME Placed(members), OneOwner(members), NEW u, NEW n, NEW v, NEW w \in 1 .. 3, Owns(u, n)
  PROVE  LET after == HandOver(u, n, v, w)
         IN Placed(after) /\ OneOwner(after) /\ \A m \in members : m.group # n => m \in after
<1> DEFINE first == WithRole(members, u, n, "member")
<1>1. Placed(first) /\ OneOwner(first) /\ \A k \in first : k.role = "owner" => k.group # n
  BY WithRoleKeepsPlaces, OwnerUnmade
<1>2. \A m \in members : m.group # n => m \in first
  BY DEF WithRole
<1> HIDE DEF first
<1> DEFINE second == WithRole(first, v, n, "owner")
<1>3. Placed(second) /\ OneOwner(second)
  BY <1>1, WithRoleKeepsPlaces, OwnerMade
<1>4. \A m \in members : m.group # n => m \in second
  BY <1>2 DEF WithRole
<1>5. HandOver(u, n, v, w) = IF w = 1 THEN first ELSE second
  BY DEF HandOver, first
<1> QED  BY <1>1, <1>2, <1>3, <1>4, <1>5

\* Once all of it is written, the new owner is one.
LEMMA HandOverCompletes ==
  ASSUME Placed(members), NEW u, NEW n, NEW v, Active(v, n)
  PROVE  \E m \in HandOver(u, n, v, 3) :
           m.group = n /\ m.user = v /\ m.status = "active" /\ m.role = "owner"
<1> PICK k \in members : k.user = v /\ k.group = n /\ k.status = "active"
  BY DEF Active, Of
<1> DEFINE a == Recast(k, u, n, "member")
           b == Recast(a, v, n, "owner")
<1>1. k \in Member
  BY DEF Placed
<1>2. a \in Member /\ a.user = v /\ a.group = n /\ a.status = "active"
  BY <1>1, RecastChanges
<1>3. a \in WithRole(members, u, n, "member")
  BY DEF WithRole, Recast
<1> HIDE DEF a
<1>4. b \in Member /\ b.user = v /\ b.group = n /\ b.status = "active" /\ b.role = "owner"
  BY <1>2, RecastChanges
<1>5. b \in HandOver(u, n, v, 3)
  BY <1>3 DEF HandOver, WithRole, Recast
<1> QED  BY <1>4, <1>5

\* Groups and users as they are, and memberships that still are in their places.
LEMMA MembersChange ==
  ASSUME GInv, UNCHANGED <<groups, torn, users>>, Placed(members'), OneOwner(members'),
         \A m \in members : m.role = "owner" /\ m.status = "active" => m \in members'
  PROVE  GInv'
<1>1. UserIds' = UserIds /\ GroupNames' = GroupNames
  BY DEF UserIds, GroupNames
<1>2. Placed(members)' /\ OneOwner(members)'
  BY <1>1 DEF Placed, OneOwner
<1>3. \A g \in groups' : g.name \notin torn' => \E m \in members' : Rules(m, g)
  BY DEF GInv, Rules
<1> QED  BY <1>1, <1>2, <1>3 DEF GInv

\* A group that is dropped takes its memberships along and nothing else.
LEMMA DropKeepsGInv ==
  ASSUME GInv, NEW n, Drop(n), users' = users
  PROVE  GInv'
<1>1. /\ groups' = {g \in groups : g.name # n} /\ members' = {m \in members : m.group # n}
      /\ torn' = torn \ {n} /\ UserIds' = UserIds
  BY DEF Drop, UserIds
<1>2. \A m \in members' : m.group \in GroupNames'
  BY <1>1 DEF GInv, Placed, GroupNames
<1>3. Placed(members)'
  BY <1>1, <1>2 DEF GInv, Placed
<1>4. torn' \subseteq GroupNames'
  BY <1>1 DEF GInv, GroupNames
<1>5. \A g \in groups' : g.name \notin torn' => \E m \in members' : Rules(m, g)
  BY <1>1 DEF GInv, Rules
<1>6. OneOwner(members)'
  BY <1>1 DEF GInv, OneOwner
<1> QED  BY <1>1, <1>3, <1>4, <1>5, <1>6 DEF GInv

\* A membership that is new, in a group of which the user is not yet.
LEMMA EntryKeepsGInv ==
  ASSUME GInv, NEW m \in Member, Of(m.user, m.group) = {}, m.role = "member",
         m.user \in UserIds, m.by \in UserIds \cup {NoId}, m.group \in GroupNames,
         members' = members \cup {m}, UNCHANGED <<groups, torn, users>>
  PROVE  GInv'
<1>1. \A k \in members : ~(k.user = m.user /\ k.group = m.group)
  BY DEF Of
<1>2. Placed(members') /\ OneOwner(members')
  BY <1>1 DEF GInv, Placed, OneOwner
<1> QED  BY <1>2, MembersChange

\* POST /groups, whole or cut short.
LEMMA CreateKeepsGInv ==
  ASSUME GInv, NEW u \in UserIds, UserIds \subseteq Id, NEW n \in GroupName,
         NEW only \in BOOLEAN, NEW w \in 1 .. 2, CreateGroup(u, n, only, w), users' = users
  PROVE  GInv'
<1> DEFINE g == [name |-> n, owner |-> u, inviteOnly |-> only]
           m == [group |-> n, user |-> u, role |-> "owner", status |-> "active", by |-> NoId]
<1>1. /\ n \notin GroupNames /\ groups' = groups \cup {g}
      /\ \/ members' = members \cup {m} /\ torn' = torn
         \/ members' = members /\ torn' = torn \cup {n}
  BY DEF CreateGroup
<1>2. /\ g \in Group /\ g.name = n /\ g.owner = u
      /\ m \in Member /\ m.group = n /\ m.user = u /\ m.role = "owner" /\ m.status = "active" /\ m.by = NoId
  BY DEF Group, Member
<1> HIDE DEF g, m
<1>3. UserIds' = UserIds /\ GroupNames' = GroupNames \cup {n}
  BY <1>1, <1>2 DEF UserIds, GroupNames
<1>4. \A h \in groups : h.name # n
  BY <1>1 DEF GroupNames
<1>5. \A k \in members : k.group # n
  BY <1>1 DEF GInv, Placed
<1>6. Placed(members)'
  BY <1>1, <1>2, <1>3, <1>5 DEF GInv, Placed
<1>7. OneOwner(members)'
  BY <1>1, <1>2, <1>5 DEF GInv, OneOwner
<1>8. groups' \subseteq Group /\ torn' \subseteq GroupNames' /\ \A h \in groups' : h.owner \in UserIds'
  BY <1>1, <1>2, <1>3 DEF GInv
<1>9. \A h, k \in groups' : h.name = k.name => h = k
  BY <1>1, <1>2, <1>4 DEF GInv
<1>10. \A h \in groups' : h.name \notin torn' => \E k \in members' : Rules(k, h)
  BY <1>1, <1>2, <1>4 DEF GInv, Rules
<1> QED  BY <1>6, <1>7, <1>8, <1>9, <1>10 DEF GInv

\* POST /groups/:id/transfer, whole or cut short.
LEMMA TransferKeepsGInv ==
  ASSUME GInv, NEW u \in UserIds, NEW v \in UserIds, UserIds \subseteq Id, NEW n \in GroupNames,
         NEW w \in 1 .. 3, Transfer(u, n, v, w), users' = users
  PROVE  GInv'
<1>1. /\ Owns(u, n) /\ Active(v, n) /\ members' = HandOver(u, n, v, w)
      /\ UserIds' = UserIds
  BY DEF Transfer, UserIds
<1>2. Placed(members') /\ OneOwner(members') /\ \A m \in members : m.group # n => m \in members'
  BY <1>1, HandOverKeepsPlaces DEF GInv
<1>3. CASE w # 3
  <2>1. groups' = groups /\ torn' = torn \cup {n} /\ GroupNames' = GroupNames
    BY <1>3 DEF Transfer, GroupNames
  <2>2. Placed(members)' /\ OneOwner(members)'
    BY <1>1, <1>2, <2>1 DEF Placed, OneOwner
  <2>3. \A g \in groups' : g.name \notin torn' => \E m \in members' : Rules(m, g)
    BY <1>2, <2>1 DEF GInv, Rules
  <2> QED  BY <1>1, <2>1, <2>2, <2>3 DEF GInv
<1>4. CASE w = 3
  <2> DEFINE Handed(g) == IF g.name = n THEN [g EXCEPT !.owner = v] ELSE g
  <2>1. groups' = {Handed(g) : g \in groups} /\ torn' = torn \ {n}
    BY <1>4 DEF Transfer
  <2>2. \A g \in groups : /\ Handed(g) \in Group /\ Handed(g).name = g.name
                          /\ Handed(g).owner = IF g.name = n THEN v ELSE g.owner
    BY DEF GInv, Group
  <2> HIDE DEF Handed
  <2>3. GroupNames' = GroupNames
    BY <2>1, <2>2 DEF GroupNames
  <2>4. Placed(members)' /\ OneOwner(members)'
    BY <1>1, <1>2, <2>3 DEF Placed, OneOwner
  <2>5. groups' \subseteq Group /\ torn' \subseteq GroupNames' /\ \A g \in groups' : g.owner \in UserIds'
    BY <1>1, <2>1, <2>2, <2>3 DEF GInv
  <2>6. \A g, h \in groups' : g.name = h.name => g = h
    BY <2>1, <2>2 DEF GInv
  <2>7. ASSUME NEW g \in groups, g.name \notin torn \ {n}
        PROVE  \E m \in members' : Rules(m, Handed(g))
    <3>1. CASE g.name = n
      <4> PICK m \in members' : m.group = n /\ m.user = v /\ m.status = "active" /\ m.role = "owner"
        BY <1>1, <1>4, HandOverCompletes DEF GInv
      <4> QED  BY <3>1, <2>2 DEF Rules
    <3>2. CASE g.name # n
      <4> PICK m \in members : Rules(m, g)
        BY <2>7, <3>2 DEF GInv
      <4> QED  BY <1>2, <2>2, <3>2 DEF Rules
    <3> QED  BY <3>1, <3>2
  <2>8. \A g \in groups' : g.name \notin torn' => \E m \in members' : Rules(m, g)
    BY <2>1, <2>2, <2>7
  <2> QED  BY <2>4, <2>5, <2>6, <2>8 DEF GInv
<1> QED  BY <1>3, <1>4

\* Every step of the groups keeps them in order, and is none of the accounts'
\* but for the requests a crash forgets.
LEMMA GroupsStep ==
  ASSUME GInv, GroupsNext, UserIds \subseteq Id
  PROVE  GInv' /\ calls' \subseteq calls /\ UNCHANGED <<users, ids, useCount, usable, history>>
<1>1. calls' \subseteq calls /\ UNCHANGED <<users, ids, useCount, usable, history>>
  BY DEF GroupsNext, CreateGroup, InviteMember, Join, Leave, DeleteGroup, Transfer, Whole, Crash, accountVars
<1>2. ASSUME NEW u \in UserIds, NEW n \in GroupName, NEW only \in BOOLEAN, NEW w \in 1 .. 2,
             CreateGroup(u, n, only, w)
      PROVE  GInv'
  BY <1>1, <1>2, CreateKeepsGInv
<1>3. ASSUME NEW u \in UserIds, NEW v \in UserIds, NEW n \in GroupNames, InviteMember(u, n, v)
      PROVE  GInv'
  <2> DEFINE m == [group |-> n, user |-> v, role |-> "member", status |-> "invited", by |-> u]
  <2>1. Of(v, n) = {} /\ members' = members \cup {m} /\ UNCHANGED <<groups, torn>>
    BY <1>3 DEF InviteMember
  <2>2. n \in GroupName
    BY DEF GInv, Group, GroupNames
  <2>3. m \in Member /\ m.user = v /\ m.group = n /\ m.role = "member" /\ m.by = u
    BY <2>2 DEF Member
  <2> HIDE DEF m
  <2> QED  BY <1>1, <2>1, <2>3, EntryKeepsGInv
<1>4. ASSUME NEW u \in UserIds, NEW g \in groups, Join(u, g)
      PROVE  GInv'
  <2>1. UNCHANGED <<groups, torn>>
    BY <1>4 DEF Join
  <2>2. CASE \E m \in Of(u, g.name) :
               m.status = "invited" /\ members' = (members \ {m}) \cup {[m EXCEPT !.status = "active"]}
    <3> PICK m \in Of(u, g.name) :
               m.status = "invited" /\ members' = (members \ {m}) \cup {[m EXCEPT !.status = "active"]}
      BY <2>2
    <3> DEFINE k == [m EXCEPT !.status = "active"]
    <3>1. m \in members /\ m \in Member /\ members' = (members \ {m}) \cup {k}
      BY DEF Of, GInv, Placed
    <3>2. k \in Member /\ k.user = m.user /\ k.group = m.group /\ k.role = m.role /\ k.by = m.by
      BY <3>1 DEF Member
    <3> HIDE DEF k
    <3>3. Placed(members') /\ OneOwner(members')
      BY <3>1, <3>2 DEF GInv, Placed, OneOwner
    <3>4. \A o \in members : o.status = "active" => o \in members'
      BY <3>1
    <3> QED  BY <1>1, <2>1, <3>3, <3>4, MembersChange
  <2>3. CASE /\ Of(u, g.name) = {}
             /\ members' = members \cup
                  {[group |-> g.name, user |-> u, role |-> "member", status |-> "active", by |-> NoId]}
    <3> DEFINE m == [group |-> g.name, user |-> u, role |-> "member", status |-> "active", by |-> NoId]
    <3>1. g.name \in GroupName /\ g.name \in GroupNames
      BY DEF GInv, Group, GroupNames
    <3>2. m \in Member /\ m.user = u /\ m.group = g.name /\ m.role = "member" /\ m.by = NoId
      BY <3>1 DEF Member
    <3>3. members' = members \cup {m}
      BY <2>3
    <3> HIDE DEF m
    <3> QED  BY <1>1, <2>1, <2>3, <3>1, <3>2, <3>3, EntryKeepsGInv
  <2> QED  BY <1>4, <2>2, <2>3 DEF Join
<1>5. ASSUME NEW m \in members, Leave(m)
      PROVE  GInv'
  <2>1. CASE m.role = "owner"
    BY <1>1, <1>5, <2>1, DropKeepsGInv DEF Leave
  <2>2. CASE m.role # "owner"
    <3>1. members' = members \ {m} /\ UNCHANGED <<groups, torn>>
      BY <1>5, <2>2 DEF Leave
    <3>2. Placed(members') /\ OneOwner(members')
      BY <3>1 DEF GInv, Placed, OneOwner
    <3> QED  BY <1>1, <2>2, <3>1, <3>2, MembersChange
  <2> QED  BY <2>1, <2>2
<1>6. ASSUME NEW u \in UserIds, NEW n \in GroupNames, DeleteGroup(u, n)
      PROVE  GInv'
  BY <1>1, <1>6, DropKeepsGInv DEF DeleteGroup
<1>7. ASSUME NEW u \in UserIds, NEW v \in UserIds, NEW n \in GroupNames, NEW w \in 1 .. 3,
             Transfer(u, n, v, w)
      PROVE  GInv'
  BY <1>1, <1>7, TransferKeepsGInv
<1> QED  BY <1>1, <1>2, <1>3, <1>4, <1>5, <1>6, <1>7 DEF GroupsNext

\* Users who come leave the groups as they are.
LEMMA NewUsersKeepGInv ==
  ASSUME GInv, UNCHANGED groupVars, UserIds \subseteq UserIds'
  PROVE  GInv'
<1>1. groups' = groups /\ members' = members /\ torn' = torn /\ GroupNames' = GroupNames
  BY DEF groupVars, GroupNames
<1>2. Placed(members)' /\ OneOwner(members)'
  BY <1>1 DEF GInv, Placed, OneOwner
<1>3. \A g \in groups' : g.owner \in UserIds' /\ (g.name \notin torn' => \E m \in members' : Rules(m, g))
  BY <1>1 DEF GInv
<1> QED  BY <1>1, <1>2, <1>3 DEF GInv

-----------------------------------------------------------------------------
(* The deletion of accounts, and the whole *)

\* The inductive invariant of the three together.
CInv == AInv /\ FInv /\ GInv

\* The accounts that are there have ids of accounts.
LEMMA UsersHaveIds ==
  ASSUME AInv
  PROVE  UserIds \subseteq Id
BY DEF AInv, AccountsTypeOK, UserIds, UserRow

\* A deletion takes with it what is about the deleted, and only that.
LEMMA DeletionKeepsCInv ==
  ASSUME CInv, NEW gone, DeleteUsers(gone)
  PROVE  CInv' /\ BlockHolds
<1>1. /\ users' = {u \in users : u.id \notin gone}
      /\ UNCHANGED <<ids, useCount, usable, calls, history>>
      /\ \A m \in Surviving(gone) : m.by \notin gone
      /\ friendships' = {f \in friendships : Sides(f) \cap gone = {}}
      /\ customRoles' = {r \in customRoles : r[1] \notin gone}
      /\ groups' = {g \in groups : g.owner \notin gone}
      /\ members' = Surviving(gone)
      /\ torn' = {n \in torn : \E g \in groups' : g.name = n}
  BY DEF DeleteUsers, RemoveUsers, Cascade
<1>2. UserIds' = UserIds \ gone
  BY <1>1 DEF UserIds
<1>3. AInv'
  BY <1>1, LessKeepsAInv DEF CInv
<1>4. FInv' /\ BlockHolds
  <2>1. customRoles' \subseteq UserIds' \X Role
    <3> SUFFICES ASSUME NEW r \in customRoles'
                 PROVE  r \in UserIds' \X Role
      OBVIOUS
    <3>1. r \in UserIds \X Role /\ r[1] \notin gone
      BY <1>1 DEF CInv, FInv
    <3> QED  BY <3>1, <1>2
  <2>2. ASSUME NEW f \in friendships'
        PROVE  Sides(f) \subseteq UserIds' /\ Usable(f)'
    <3>1. f \in friendships /\ Sides(f) \cap gone = {} /\ Usable(f) /\ Sides(f) \subseteq UserIds
      BY <1>1 DEF CInv, FInv
    <3>2. \A u \in Sides(f) : \A r : Valid(u, r) => Valid(u, r)'
      BY <1>1, <3>1 DEF Valid
    <3>3. Usable(f)'
      BY <3>1, <3>2 DEF Usable
    <3> QED  BY <3>1, <3>3, <1>2
  <2> QED  BY <1>1, <2>1, <2>2, RemovalKeepsFInv DEF CInv
<1>5. GInv'
  <2>1. /\ members' \subseteq members
        /\ \A m \in members' : /\ m.user \notin gone /\ m.by \notin gone
                               /\ m.group \in GroupNames'
    BY <1>1 DEF Surviving, GroupNames
  <2>2. Placed(members)' /\ OneOwner(members)'
    BY <2>1, <1>2 DEF CInv, GInv, Placed, OneOwner
  <2>3. ASSUME NEW g \in groups', g.name \notin torn'
        PROVE  \E m \in members' : Rules(m, g)
    <3>1. g \in groups /\ g.owner \notin gone /\ g.name \notin torn
      BY <1>1, <2>3
    <3> PICK m \in members : Rules(m, g)
      BY <3>1 DEF CInv, GInv
    <3>2. m \in members'
      BY <1>1, <3>1 DEF Surviving, Rules
    <3> QED  BY <3>2
  <2>4. torn' \subseteq GroupNames' /\ groups' \subseteq groups /\ \A g \in groups' : g.owner \in UserIds'
    BY <1>1, <1>2 DEF CInv, GInv, GroupNames
  <2> QED  BY <2>2, <2>3, <2>4 DEF CInv, GInv
<1> QED  BY <1>3, <1>4, <1>5 DEF CInv

\* The community starts in order.
LEMMA CInvHoldsAtFirst ==
  ASSUME Init
  PROVE  CInv
<1>1. AInv
  <2>1. AccountsTypeOK /\ IsFiniteSet(users) /\ UserIds = {} /\ \A c \in calls : Sane(c)
    BY FS_EmptySet DEF Init, AccountsInit, AccountsTypeOK, UserIds
  <2>2. \A i \in Invite : useCount[i] = 0 /\ MaxUses[i] \in Nat
    BY DEF Init, AccountsInit
  <2>3. \A i \in Invite : {u \in users : u.invite = i /\ u.id \notin keyless \cup granted} = {}
    BY DEF Init, AccountsInit
  <2>4. InvitesPayForAccounts
    BY <2>2, <2>3, FS_EmptySet DEF InvitesPayForAccounts
  <2>5. KeylessOnlyWithoutInvite /\ keyless = {}
    BY DEF Init, AccountsInit, KeylessOnlyWithoutInvite
  <2> QED  BY <2>1, <2>4, <2>5 DEF AInv
<1>2. FInv
  BY DEF Init, FriendshipsInit, FInv
<1>3. GInv
  BY DEF Init, GroupsInit, GInv, Placed, OneOwner
<1> QED  BY <1>1, <1>2, <1>3 DEF CInv

\* Every step keeps it in order, and the blocked blocked.
LEMMA CommunityStep ==
  ASSUME CInv, [Next]_vars
  PROVE  CInv' /\ [BlockHolds]_friendVars
<1>1. AInv /\ FInv /\ GInv /\ UserIds \subseteq Id
  BY UsersHaveIds DEF CInv
<1>2. CASE AccountsNext /\ UNCHANGED <<friendVars, groupVars>>
  <2>1. AInv' /\ UserIds \subseteq UserIds' /\ UNCHANGED friendVars /\ UNCHANGED groupVars
    BY <1>1, <1>2, AccountsStep
  <2> QED  BY <1>1, <2>1, NewUsersKeepFInv, NewUsersKeepGInv DEF CInv
<1>3. CASE FriendshipsNext /\ UNCHANGED groupVars
  <2>1. UNCHANGED accountVars
    BY <1>3 DEF FriendshipsNext, Request, Accept, Reject, Block, Unfriend, AddRole, RemoveRole,
                CreateRole, Replace, Remove
  <2>2. AInv' /\ UserIds' = UserIds
    BY <1>1, <2>1, LessKeepsAInv DEF accountVars, UserIds
  <2> QED  BY <1>1, <1>3, <2>2, FriendshipsStep, NewUsersKeepGInv DEF CInv
<1>4. CASE GroupsNext /\ UNCHANGED friendVars
  <2>1. GInv' /\ calls' \subseteq calls /\ UNCHANGED <<users, ids, useCount, usable, history>>
    BY <1>1, <1>4, GroupsStep
  <2>2. AInv' /\ UserIds' = UserIds
    BY <1>1, <2>1, LessKeepsAInv DEF UserIds
  <2> QED  BY <1>1, <1>4, <2>1, <2>2, NewUsersKeepFInv DEF CInv
<1>5. CASE \E gone : DeleteUsers(gone)
  BY <1>5, DeletionKeepsCInv
<1>6. CASE UNCHANGED vars
  <2>1. UNCHANGED accountVars /\ UNCHANGED friendVars /\ UNCHANGED groupVars
    BY <1>6 DEF vars
  <2>2. AInv' /\ UserIds' = UserIds
    BY <1>1, <2>1, LessKeepsAInv DEF accountVars, UserIds
  <2> QED  BY <1>1, <2>1, <2>2, NewUsersKeepFInv, NewUsersKeepGInv DEF CInv
<1> QED  BY <1>2, <1>3, <1>4, <1>5, <1>6 DEF Next

\* The invariant of the accounts, friendships and groups, whatever happens to
\* their users.
THEOREM CommunityStaysInOrder ==
  Spec => [](AInv /\ FInv /\ GInv)
<1>1. Init => CInv
  BY CInvHoldsAtFirst
<1>2. CInv /\ [Next]_vars => CInv'
  BY CommunityStep
<1>3. CInv => AInv /\ FInv /\ GInv
  BY DEF CInv
<1> QED  BY <1>1, <1>2, <1>3, PTL DEF Spec

\* No interleaving of registrations, revocations and crashes lets in more
\* accounts than an invite is good for (consumeInviteToken, routes/auth.ts).
THEOREM AccountsArePaidFor ==
  Spec => []InvitesPayForAccounts
<1>1. AInv /\ FInv /\ GInv => InvitesPayForAccounts
  BY DEF AInv
<1> QED  BY <1>1, CommunityStaysInOrder, PTL

\* No registration is refused a key while its invite is still open.
THEOREM KeylessAreLate ==
  Spec => []KeylessOnlyWithoutInvite
<1>1. AInv /\ FInv /\ GInv => KeylessOnlyWithoutInvite
  BY DEF AInv
<1> QED  BY <1>1, CommunityStaysInOrder, PTL

\* Friends are two who both said so, in one row (routes/friends.ts, where no
\* constraint of the schema helps).
THEOREM FriendsAgree ==
  Spec => []FriendshipNeedsBoth
<1>1. AInv /\ FInv /\ GInv => FriendshipNeedsBoth
  BY FInvIsEnough
<1> QED  BY <1>1, CommunityStaysInOrder, PTL

\* No handler leads a blocked row back.
THEOREM BlocksAreFinal ==
  Spec => BlockedStays
<1>1. (AInv /\ FInv /\ GInv) /\ [Next]_vars => [BlockHolds]_friendVars
  BY CommunityStep DEF CInv
<1> QED  BY <1>1, CommunityStaysInOrder, PTL DEF Spec, BlockedStays, BlockHolds

\* A group that no crash has torn has the owner its row names, alone, and active.
THEOREM GroupsHaveOwners ==
  Spec => []GroupHasItsOwner
<1>1. AInv /\ FInv /\ GInv => GroupHasItsOwner
  BY GInvIsEnough
<1> QED  BY <1>1, CommunityStaysInOrder, PTL

\* The cascade of a deletion, at any point of any request, leaves no reference
\* to what is gone.
THEOREM DeletionsAreComplete ==
  Spec => []NothingDangles
<1>1. ASSUME AInv, FInv, GInv
      PROVE  NothingDangles
  <2>1. \A r \in customRoles : r[1] \in UserIds
    BY <1>1 DEF FInv
  <2>2. \A f \in friendships : Sides(f) \subseteq UserIds /\ \A r \in f.roles : \E u \in Sides(f) : Valid(u, r)
    BY <1>1 DEF FInv, Usable
  <2>3. \A m \in members : {m.user, m.by} \subseteq UserIds \cup {NoId} /\ m.group \in GroupNames
    BY <1>1 DEF GInv, Placed
  <2>4. \A g \in groups : g.owner \in UserIds
    BY <1>1 DEF GInv
  <2> QED  BY <2>1, <2>2, <2>3, <2>4 DEF NothingDangles
<1> QED  BY <1>1, CommunityStaysInOrder, PTL

\* The rows are of the shape the handlers take them for.
THEOREM CommunityIsTyped ==
  Spec => []TypeOK
<1>1. ASSUME AInv, FInv, GInv
      PROVE  TypeOK
  <2>1. friendships \subseteq Friendship /\ customRoles \subseteq Id \X Role
    BY <1>1, UsersHaveIds DEF FInv, Sound
  <2>2. groups \subseteq Group /\ members \subseteq Member /\ torn \subseteq GroupName
    BY <1>1 DEF GInv, Placed, Group, GroupNames
  <2> QED  BY <1>1, <2>1, <2>2 DEF TypeOK, AInv
<1> QED  BY <1>1, CommunityStaysInOrder, PTL

-----------------------------------------------------------------------------
(* The attachment of a user's plugins *)

AnySetup == Asking \cup Listing \cup Posting \cup Answered

\* What a setup that met no other knows of its host and of the connection.
KnowsItsWay(s) ==
  /\ s.phase \in {"asking", "listed"} => s.url = UrlOf(s.host)
  /\ s.phase = "listed" /\ conn # None => SeenId(s) = conn.id
  /\ s.phase = "posting" /\ s.rotate /\ conn # None =>
       NeedsRotation(s.host, conn.id, UrlOf(s.host))

\* A setup of a host that is not in step will ask for a new secret, has got it,
\* or nobody waits for its answer.
WillAsk(s) ==
  /\ s.phase \in {"asking", "listed"} => s.url = UrlOf(s.host)
  /\ s.phase = "listed" => SeenId(s) = ConnId
  /\ s.phase = "posting" => s.rotate \/ ~s.awaited
  /\ s.phase = "answered" => s.secret # None

BringsTheSecret(s) == s.phase = "answered" /\ s.secret # None => s.secret = conn.secret

InOrder(s) ==
  /\ s.phase = "answered" => s.id <= made
  /\ s.alone => setups = {s} /\ KnowsItsWay(s)
  /\ s.host = keeper => BringsTheSecret(s) /\ (InStep(keeper) \/ WillAsk(s))

\* Connections are numbered as they are made.
IdsAreCounted ==
  /\ conn # None => conn.id <= made
  /\ \A h \in Host : store[h].id # None => store[h].id <= made

KeeperRepairs ==
  keeper \in Host =>
    conn # None /\ (InStep(keeper) \/ NeedsRotation(keeper, ConnId, UrlOf(keeper)))

\* The inductive invariant of the attachment: what keeps a host that is out of
\* step from staying so is in its setups under way as well as in its file.
TInv ==
  /\ AttachTypeOK
  /\ IdsAreCounted
  /\ KeeperRepairs
  /\ \A s \in setups : InOrder(s)

\* A setup has the fields of its phase.
LEMMA SetupFields ==
  ASSUME NEW s \in AnySetup
  PROVE  /\ s.name \in Setup /\ s.host \in Host /\ s.url \in Url /\ s.alone \in BOOLEAN
         /\ s.phase \in {"asking", "listed", "posting", "answered"}
         /\ s.phase = "listed" => s.seen \in Connection \cup {None}
         /\ s.phase = "posting" => s.rotate \in BOOLEAN /\ s.awaited \in BOOLEAN
         /\ s.phase = "answered" => s.id \in Nat /\ s.secret \in Nat \cup {None}
BY DEF AnySetup, Asking, Listing, Posting, Answered

\* A setup that is not alone any more is otherwise as it was.
LEMMA Joined ==
  ASSUME NEW s \in AnySetup, NEW t, t = [s EXCEPT !.alone = FALSE]
  PROVE  /\ t \in AnySetup /\ ~t.alone
         /\ t.name = s.name /\ t.host = s.host /\ t.phase = s.phase /\ t.url = s.url
         /\ s.phase = "listed" => t.seen = s.seen
         /\ s.phase = "posting" => t.rotate = s.rotate /\ t.awaited = s.awaited
         /\ s.phase = "answered" => t.id = s.id /\ t.secret = s.secret
<1>1. CASE s \in Asking
  BY <1>1 DEF AnySetup, Asking
<1>2. CASE s \in Listing
  BY <1>2 DEF AnySetup, Listing
<1>3. CASE s \in Posting
  BY <1>3 DEF AnySetup, Posting
<1>4. CASE s \in Answered
  BY <1>4 DEF AnySetup, Answered
<1> QED
  BY <1>1, <1>2, <1>3, <1>4 DEF AnySetup

\* What survives the end of a host's process: the others' setups, and requests
\* whose answers nobody awaits.
LEMMA Survive ==
  ASSUME setups \subseteq AnySetup, NEW h, NEW t \in Survivors(h)
  PROVE  /\ t \in AnySetup
         /\ \/ t \in setups /\ t.host # h
            \/ /\ t.host = h /\ t.phase = "posting" /\ ~t.awaited
               /\ \E s \in setups : /\ t = [s EXCEPT !.awaited = FALSE]
                                    /\ s.host = h /\ s.phase = "posting"
                                    /\ t.alone = s.alone /\ t.rotate = s.rotate
<1>1. CASE t \in setups \ SetupsOf(h)
  BY <1>1 DEF SetupsOf
<1>2. CASE t \notin setups \ SetupsOf(h)
  <2>1. PICK s \in setups : /\ s.host = h /\ s.phase = "posting"
                            /\ t = [s EXCEPT !.awaited = FALSE]
    BY <1>2 DEF Survivors, SetupsOf
  <2>2. s \in Posting
    BY <2>1 DEF AnySetup, Asking, Listing, Answered
  <2>3. /\ t \in Posting /\ t.host = h /\ t.phase = "posting" /\ ~t.awaited
        /\ t.alone = s.alone /\ t.rotate = s.rotate
    BY <2>1, <2>2 DEF Posting
  <2> QED
    BY <2>1, <2>3 DEF AnySetup
<1> QED
  BY <1>1, <1>2

\* A host has a URL.
LEMMA UrlTyped ==
  ASSUME AttachTypeOK, NEW h \in Host
  PROVE  UrlOf(h) \in Url
BY DEF AttachTypeOK, UrlOf, Entry

\* An id a host has stored is none of a connection that is still to be made.
LEMMA NewConnectionNeedsRotation ==
  ASSUME AttachTypeOK, IdsAreCounted, NEW h \in Host, NEW u
  PROVE  NeedsRotation(h, made + 1, u)
<1>1. /\ made \in Nat /\ store[h].id \in Nat \cup {None} /\ None \notin Nat
      /\ store[h].id # None => store[h].id <= made
  BY AttachmentAssumption DEF AttachTypeOK, Entry, IdsAreCounted
<1> QED
  BY <1>1 DEF NeedsRotation

\* At first nothing is attached.
LEMMA AttachStarts == AttachInit => TInv
<1> SUFFICES ASSUME AttachInit PROVE TInv
  OBVIOUS
<1> USE AttachmentAssumption
<1>1. AttachTypeOK
  BY DEF AttachInit, AttachTypeOK, Entry, Empty
<1>2. IdsAreCounted
  BY DEF AttachInit, IdsAreCounted, Empty
<1>3. KeeperRepairs
  BY DEF AttachInit, KeeperRepairs
<1> QED
  BY <1>1, <1>2, <1>3 DEF AttachInit, TInv

\* A step that only moves setups on.
LEMMA SetupsMove ==
  ASSUME TInv, UNCHANGED <<conn, issued, made, store, where, keeper>>,
         setups' \subseteq AnySetup, \A t \in setups' : InOrder(t)'
  PROVE  TInv'
<1>1. AttachTypeOK'
  BY DEF TInv, AttachTypeOK, AnySetup
<1>2. IdsAreCounted' /\ KeeperRepairs'
  BY DEF TInv, IdsAreCounted, KeeperRepairs, InStep, NeedsRotation, ConnId, UrlOf
<1> QED
  BY <1>1, <1>2 DEF TInv

\* What is known of a setup is about the host's entry and URL and the connection.
LEMMA SameWay ==
  ASSUME UNCHANGED <<conn, store, where>>
  PROVE  /\ \A t : KnowsItsWay(t)' = KnowsItsWay(t)
         /\ \A t : WillAsk(t)' = WillAsk(t)
         /\ \A t : BringsTheSecret(t)' = BringsTheSecret(t)
         /\ \A h : InStep(h)' = InStep(h)
         /\ \A h : UrlOf(h)' = UrlOf(h)
         /\ ConnId' = ConnId
         /\ \A h, i, u : NeedsRotation(h, i, u)' = NeedsRotation(h, i, u)
BY DEF KnowsItsWay, WillAsk, BringsTheSecret, InStep, UrlOf, ConnId, NeedsRotation, SeenId

\* Another setup begins: the host's URL is the one it has by then.
LEMMA SetupStartsRepairs ==
  ASSUME TInv, NEW n \in Setup, NEW h \in Host, SetupStarts(n, h)
  PROVE  TInv'
<1> USE AttachmentAssumption
<1> DEFINE new == [name |-> n, host |-> h, phase |-> "asking", url |-> UrlOf(h),
                   alone |-> setups = {}]
<1>1. /\ setups' = {[s EXCEPT !.alone = FALSE] : s \in setups} \cup {new}
      /\ UNCHANGED <<conn, issued, made, store, where, keeper>>
  BY DEF SetupStarts
<1>2. setups \subseteq AnySetup /\ AttachTypeOK
  BY DEF TInv, AttachTypeOK, AnySetup
<1>3. UrlOf(h) \in Url
  BY <1>2, UrlTyped
<1>4. /\ new \in AnySetup /\ new.host = h /\ new.phase = "asking"
      /\ new.url = UrlOf(h) /\ (new.alone <=> setups = {})
  BY <1>3 DEF AnySetup, Asking
<1> HIDE DEF new
<1>5. ASSUME NEW t, t = new PROVE InOrder(t)'
  <2>1. t.alone => setups' = {t}
    BY <1>1, <1>4, <1>5
  <2>2. KnowsItsWay(t) /\ WillAsk(t) /\ BringsTheSecret(t)
    BY <1>4, <1>5 DEF KnowsItsWay, WillAsk, BringsTheSecret
  <2>3. t.phase # "answered"
    BY <1>4, <1>5
  <2> QED
    BY <1>1, <2>1, <2>2, <2>3, SameWay DEF InOrder
<1>6. ASSUME NEW s \in setups, NEW t, t = [s EXCEPT !.alone = FALSE]
      PROVE  t \in AnySetup /\ InOrder(t)'
  <2>1. /\ t \in AnySetup /\ ~t.alone
        /\ t.host = s.host /\ t.phase = s.phase /\ t.url = s.url
        /\ s.phase = "listed" => t.seen = s.seen
        /\ s.phase = "posting" => t.rotate = s.rotate /\ t.awaited = s.awaited
        /\ s.phase = "answered" => t.id = s.id /\ t.secret = s.secret
    BY <1>2, <1>6, Joined
  <2>2. InOrder(s)
    BY <1>6 DEF TInv
  <2>3. BringsTheSecret(s) => BringsTheSecret(t)
    BY <2>1 DEF BringsTheSecret
  <2>4. WillAsk(s) => WillAsk(t)
    BY <2>1 DEF WillAsk, SeenId
  <2> QED
    BY <1>1, <2>1, <2>2, <2>3, <2>4, SameWay DEF InOrder
<1>7. setups' \subseteq AnySetup
  BY <1>1, <1>4, <1>6
<1>8. \A t \in setups' : InOrder(t)'
  BY <1>1, <1>5, <1>6
<1> QED
  BY <1>1, <1>7, <1>8, SetupsMove

\* The connections a setup is told of are those the server has.
LEMMA ListedRepairs ==
  ASSUME TInv, NEW s \in setups, Listed(s)
  PROVE  TInv'
<1> USE AttachmentAssumption
<1> DEFINE new == [name |-> s.name, host |-> s.host, phase |-> "listed", url |-> s.url,
                   alone |-> s.alone, seen |-> conn]
<1>1. /\ s.phase = "asking"
      /\ setups' = (setups \ {s}) \cup {new}
      /\ UNCHANGED <<conn, issued, made, store, where, keeper>>
  BY DEF Listed
<1>2. /\ setups \subseteq AnySetup /\ AttachTypeOK
      /\ s \in AnySetup /\ conn \in Connection \cup {None}
  BY DEF TInv, AttachTypeOK, AnySetup
<1>3. /\ s.name \in Setup /\ s.host \in Host /\ s.url \in Url /\ s.alone \in BOOLEAN
  BY <1>2, SetupFields
<1>4. /\ new \in AnySetup /\ new.host = s.host /\ new.phase = "listed" /\ new.url = s.url
      /\ new.alone = s.alone /\ new.seen = conn
  BY <1>2, <1>3 DEF AnySetup, Listing
<1> HIDE DEF new
<1>5. InOrder(s)
  BY DEF TInv
<1>6. ASSUME NEW t, t = new PROVE InOrder(t)'
  <2>0. t.host = s.host /\ t.phase = "listed" /\ t.url = s.url /\ t.alone = s.alone
    BY <1>4, <1>6
  <2>1. SeenId(t) = ConnId
    BY <1>4, <1>6 DEF SeenId, ConnId
  <2>2. KnowsItsWay(s) => KnowsItsWay(t)
    BY <1>1, <2>0, <2>1 DEF KnowsItsWay, ConnId
  <2>3. (WillAsk(s) => WillAsk(t)) /\ BringsTheSecret(t)
    BY <1>1, <2>0, <2>1 DEF WillAsk, BringsTheSecret
  <2>4. setups = {s} => setups' = {t}
    BY <1>1, <1>6
  <2> QED
    BY <1>1, <1>5, <2>0, <2>2, <2>3, <2>4, SameWay DEF InOrder
<1>7. ASSUME NEW t \in setups, t # s PROVE InOrder(t)'
  BY <1>1, <1>7, SameWay DEF TInv, InOrder
<1>8. setups' \subseteq AnySetup
  BY <1>1, <1>2, <1>4
<1>9. \A t \in setups' : InOrder(t)'
  BY <1>1, <1>6, <1>7
<1> QED
  BY <1>1, <1>8, <1>9, SetupsMove

\* A setup that knows its way asks for a new secret when its host needs one.
LEMMA DecidesRepairs ==
  ASSUME TInv, NEW s \in setups, Decides(s)
  PROVE  TInv'
<1> USE AttachmentAssumption
<1> DEFINE new == [name |-> s.name, host |-> s.host, phase |-> "posting", url |-> s.url,
                   alone |-> s.alone, rotate |-> Rotates(s), awaited |-> TRUE]
<1>1. /\ s.phase = "listed"
      /\ setups' \subseteq (setups \ {s}) \cup {new}
      /\ UNCHANGED <<conn, issued, made, store, where, keeper>>
  BY DEF Decides
<1>2. /\ setups \subseteq AnySetup /\ AttachTypeOK
      /\ s \in AnySetup
  BY DEF TInv, AttachTypeOK, AnySetup
<1>3. /\ s.name \in Setup /\ s.host \in Host /\ s.url \in Url /\ s.alone \in BOOLEAN
  BY <1>2, SetupFields
<1>4. /\ new \in AnySetup /\ new.host = s.host /\ new.phase = "posting" /\ new.url = s.url
      /\ new.alone = s.alone /\ new.rotate = Rotates(s)
  <2>1. Rotates(s) \in BOOLEAN
    BY DEF Rotates, NeedsRotation
  <2> QED
    BY <1>3, <2>1 DEF AnySetup, Posting
<1> HIDE DEF new
<1>5. InOrder(s)
  BY DEF TInv
<1>6. ASSUME NEW t \in setups', t = new PROVE InOrder(t)'
  <2>0. /\ t.host = s.host /\ t.phase = "posting" /\ t.url = s.url /\ t.alone = s.alone
        /\ t.rotate = Rotates(s)
    BY <1>4, <1>6
  <2>1. KnowsItsWay(s) => KnowsItsWay(t)
    BY <1>1, <2>0 DEF KnowsItsWay, Rotates
  <2>2. s.host = keeper /\ ~InStep(keeper) /\ WillAsk(s) => WillAsk(t)
    BY <1>1, <1>3, <2>0 DEF WillAsk, TInv, KeeperRepairs, Rotates
  <2>3. BringsTheSecret(t)
    BY <2>0 DEF BringsTheSecret
  <2>4. setups = {s} => setups' = {t}
    BY <1>1, <1>6
  <2> QED
    BY <1>1, <1>5, <2>0, <2>1, <2>2, <2>3, <2>4, SameWay DEF InOrder
<1>7. ASSUME NEW t \in setups, t # s PROVE InOrder(t)'
  BY <1>1, <1>7, SameWay DEF TInv, InOrder
<1>8. setups' \subseteq AnySetup
  BY <1>1, <1>2, <1>4
<1>9. \A t \in setups' : InOrder(t)'
  BY <1>1, <1>6, <1>7
<1> QED
  BY <1>1, <1>8, <1>9, SetupsMove

\* A registration: whose answer matters was alone, or belongs to the keeper.
LEMMA RegisteredRepairs ==
  ASSUME TInv, NEW s \in setups, Registered(s)
  PROVE  TInv'
<1> USE AttachmentAssumption
<1> DEFINE rotates == conn = None \/ s.rotate
           id == IF conn = None THEN made + 1 ELSE conn.id
           secret == IF rotates THEN issued + 1 ELSE conn.secret
           new == [name |-> s.name, host |-> s.host, phase |-> "answered", url |-> s.url,
                   alone |-> s.alone, id |-> id, secret |-> IF rotates THEN secret ELSE None]
<1>1. /\ s.phase = "posting"
      /\ conn' = [id |-> id, url |-> s.url, secret |-> secret]
      /\ issued' = IF rotates THEN issued + 1 ELSE issued
      /\ made' = IF conn = None THEN made + 1 ELSE made
      /\ keeper' = IF rotates /\ s.alone THEN s.host
                   ELSE IF ~rotates /\ keeper = s.host THEN keeper ELSE None
      /\ setups' = (setups \ {s}) \cup (IF s.awaited THEN {new} ELSE {})
      /\ UNCHANGED <<store, where>>
  BY DEF Registered
<1>2. /\ setups \subseteq AnySetup /\ AttachTypeOK /\ s \in AnySetup
      /\ conn \in Connection \cup {None} /\ issued \in Nat /\ made \in Nat
  BY DEF TInv, AttachTypeOK, AnySetup
<1>3. /\ s.name \in Setup /\ s.host \in Host /\ s.url \in Url /\ s.alone \in BOOLEAN
      /\ s.rotate \in BOOLEAN /\ s.awaited \in BOOLEAN
  BY <1>1, <1>2, SetupFields
<1>4. /\ id \in Nat /\ secret \in Nat
      /\ conn # None => id = conn.id
      /\ ~rotates => secret = conn.secret /\ conn # None
  BY <1>2, <1>3 DEF Connection
<1>5. /\ new \in AnySetup /\ new.host = s.host /\ new.phase = "answered"
      /\ new.alone = s.alone /\ new.id = id
      /\ new.secret = IF rotates THEN secret ELSE None
  BY <1>3, <1>4 DEF AnySetup, Answered
<1>6. id <= made' /\ made <= made' /\ made' \in Nat /\ issued' \in Nat
  BY <1>1, <1>2 DEF TInv, IdsAreCounted, Connection
<1> HIDE DEF new
<1>7. /\ conn' \in Connection /\ conn' # None
      /\ conn'.id = id /\ conn'.secret = secret /\ ConnId' = id
  <2>1. conn' \in Connection /\ conn'.id = id /\ conn'.secret = secret
    BY <1>1, <1>3, <1>4 DEF Connection
  <2> QED
    BY <2>1 DEF ConnId
<1>8. AttachTypeOK'
  <2>1. setups' \subseteq AnySetup
    BY <1>1, <1>2, <1>5
  <2>2. keeper' \in Host \cup {None}
    BY <1>1, <1>2, <1>3 DEF AttachTypeOK
  <2> QED
    BY <1>1, <1>2, <1>6, <1>7, <2>1, <2>2 DEF AttachTypeOK, AnySetup
<1>9. IdsAreCounted'
  <2>1. ASSUME NEW h \in Host, store[h].id # None PROVE store[h].id <= made'
    BY <1>2, <1>6, <2>1 DEF TInv, IdsAreCounted, AttachTypeOK, Entry
  <2> QED
    BY <1>1, <1>6, <1>7, <2>1 DEF IdsAreCounted
<1>10. /\ \A h : UrlOf(h)' = UrlOf(h)
       /\ \A h, i, u : NeedsRotation(h, i, u)' = NeedsRotation(h, i, u)
       /\ \A h : InStep(h)' <=> store[h].secret = secret
  BY <1>1, <1>7 DEF UrlOf, NeedsRotation, InStep
<1>11. InOrder(s)
  BY DEF TInv
<1> HIDE DEF rotates, id, secret
<1>12. CASE rotates /\ s.alone
  <2>1. keeper' = s.host /\ setups = {s}
    BY <1>1, <1>11, <1>12 DEF InOrder
  <2>2. NeedsRotation(s.host, id, UrlOf(s.host))
    <3>1. CASE conn = None
      <4>1. id = made + 1
        BY <3>1 DEF id
      <4> QED
        BY <1>2, <1>3, <4>1, NewConnectionNeedsRotation DEF TInv
    <3>2. CASE conn # None
      BY <1>1, <1>4, <1>11, <1>12, <3>2 DEF rotates, InOrder, KnowsItsWay
    <3> QED
      BY <3>1, <3>2
  <2>3. KeeperRepairs'
    BY <1>3, <1>7, <1>10, <2>1, <2>2 DEF KeeperRepairs
  <2>4. ASSUME NEW t \in setups', t = new PROVE InOrder(t)'
    <3>1. /\ t.phase = "answered" /\ t.id <= made' /\ t.host = s.host
          /\ t.secret = secret /\ secret # None
      BY <1>4, <1>5, <1>6, <1>12, <2>4
    <3>2. setups' = {t}
      BY <1>1, <2>1, <2>4
    <3>3. KnowsItsWay(t)' /\ BringsTheSecret(t)' /\ WillAsk(t)'
      BY <1>7, <3>1 DEF KnowsItsWay, BringsTheSecret, WillAsk
    <3> QED
      BY <3>1, <3>2, <3>3 DEF InOrder
  <2> QED
    BY <1>1, <1>8, <1>9, <2>1, <2>3, <2>4 DEF TInv
<1>13. CASE ~(rotates /\ s.alone)
  <2>1. keeper' = IF ~rotates /\ keeper = s.host THEN keeper ELSE None
    BY <1>1, <1>13
  <2>2. keeper' \in Host => /\ keeper' = keeper /\ keeper = s.host /\ ~rotates
                            /\ secret = conn.secret /\ conn # None /\ id = ConnId
    BY <1>3, <1>4, <2>1 DEF ConnId
  <2>3. keeper' \in Host => (InStep(keeper)' <=> InStep(keeper))
    BY <1>10, <2>2 DEF InStep
  <2>4. KeeperRepairs'
    BY <1>7, <1>10, <2>2, <2>3 DEF TInv, KeeperRepairs
  <2>5. ASSUME NEW t \in setups, t # s PROVE InOrder(t)'
    <3>1. InOrder(t) /\ ~t.alone /\ t.host \in Host
      BY <1>2, <2>5, SetupFields DEF TInv, InOrder
    <3>2. t.phase = "answered" => t.id <= made'
      BY <1>2, <1>6, <2>5, <3>1, SetupFields DEF InOrder
    <3>3. t.host = keeper' => BringsTheSecret(t)' /\ (InStep(keeper)' \/ WillAsk(t)')
      BY <1>7, <1>10, <2>2, <2>3, <3>1 DEF InOrder, BringsTheSecret, WillAsk, SeenId
    <3> QED
      BY <2>2, <3>1, <3>2, <3>3 DEF InOrder
  <2>6. ASSUME NEW t \in setups', t = new, s.awaited PROVE InOrder(t)'
    <3>1. /\ t.phase = "answered" /\ t.id <= made' /\ t.host = s.host
          /\ t.secret = (IF rotates THEN secret ELSE None) /\ t.alone = s.alone
      BY <1>5, <1>6, <2>6
    <3>2. t.alone => setups' = {t}
      BY <1>1, <1>11, <2>6, <3>1 DEF InOrder
    <3>3. KnowsItsWay(t)'
      BY <3>1 DEF KnowsItsWay
    <3>4. keeper' \in Host => InStep(keeper)' /\ BringsTheSecret(t)'
      BY <1>1, <1>11, <2>2, <2>3, <2>6, <3>1 DEF InOrder, WillAsk, BringsTheSecret, rotates
    <3> QED
      BY <1>3, <2>2, <3>1, <3>2, <3>3, <3>4 DEF InOrder
  <2> QED
    BY <1>1, <1>8, <1>9, <2>4, <2>5, <2>6 DEF TInv
<1> QED
  BY <1>12, <1>13

\* An answer is written down: the host is in step with the secret it was given.
LEMMA PersistedRepairs ==
  ASSUME TInv, NEW s \in setups, Persisted(s)
  PROVE  TInv'
<1> USE AttachmentAssumption
<1> DEFINE e == [id |-> s.id, url |-> s.url,
                 secret |-> IF s.secret = None THEN store[s.host].secret ELSE s.secret]
<1>1. /\ setups \subseteq AnySetup /\ AttachTypeOK /\ s \in AnySetup
      /\ store \in [Host -> Entry]
  BY DEF TInv, AttachTypeOK, AnySetup
<1>2. /\ s.phase = "answered" /\ setups' = setups \ {s}
      /\ store' = [store EXCEPT ![s.host] = e]
      /\ UNCHANGED <<conn, issued, made, where, keeper>>
  BY DEF Persisted
<1>3. s.host \in Host /\ s.url \in Url /\ s.id \in Nat /\ s.secret \in Nat \cup {None}
  BY <1>1, <1>2, SetupFields
<1>4. /\ e \in Entry /\ e.id = s.id
      /\ e.secret = IF s.secret = None THEN store[s.host].secret ELSE s.secret
  BY <1>1, <1>3 DEF Entry
<1> HIDE DEF e
<1>5. store'[s.host] = e /\ \A h \in Host : h # s.host => store'[h] = store[h]
  BY <1>1, <1>2, <1>3
<1>6. InOrder(s) /\ s.id <= made
  BY <1>2 DEF TInv, InOrder
<1>7. AttachTypeOK'
  BY <1>1, <1>2, <1>3, <1>4 DEF AttachTypeOK, AnySetup
<1>8. IdsAreCounted'
  BY <1>2, <1>4, <1>5, <1>6 DEF TInv, IdsAreCounted
<1>9. keeper = s.host => InStep(keeper)'
  BY <1>2, <1>3, <1>4, <1>5, <1>6 DEF TInv, KeeperRepairs, InOrder, WillAsk, BringsTheSecret, InStep
<1>10. ASSUME NEW h \in Host, h # s.host
       PROVE  /\ UrlOf(h)' = UrlOf(h) /\ (InStep(h)' <=> InStep(h))
              /\ \A i, u : NeedsRotation(h, i, u)' = NeedsRotation(h, i, u)
  BY <1>2, <1>5, <1>10 DEF UrlOf, InStep, NeedsRotation
<1>11. ConnId' = ConnId
  BY <1>2 DEF ConnId
<1>12. KeeperRepairs'
  BY <1>2, <1>3, <1>9, <1>10, <1>11 DEF TInv, KeeperRepairs
<1>13. ASSUME NEW t \in setups, t # s PROVE InOrder(t)'
  <2>1. InOrder(t) /\ ~t.alone /\ t.host \in Host
    BY <1>1, <1>13, SetupFields DEF TInv, InOrder
  <2>2. BringsTheSecret(t)' = BringsTheSecret(t)
    BY <1>2 DEF BringsTheSecret
  <2>3. t.host # s.host => WillAsk(t)' = WillAsk(t)
    BY <1>10, <1>11, <2>1 DEF WillAsk, SeenId
  <2> QED
    BY <1>2, <1>9, <1>10, <2>1, <2>2, <2>3 DEF InOrder
<1> QED
  BY <1>2, <1>7, <1>8, <1>12, <1>13 DEF TInv

\* A setup gives up.
LEMMA FailsRepairs ==
  ASSUME TInv, NEW s \in setups, Fails(s)
  PROVE  TInv'
<1>1. setups' = setups \ {s} /\ UNCHANGED <<conn, issued, made, store, where, keeper>>
  BY DEF Fails
<1>2. setups \subseteq AnySetup
  BY DEF TInv, AttachTypeOK, AnySetup
<1>3. ASSUME NEW t \in setups, t # s PROVE InOrder(t)'
  BY <1>1, <1>3, SameWay DEF TInv, InOrder
<1>4. setups' \subseteq AnySetup
  BY <1>1, <1>2
<1>5. \A t \in setups' : InOrder(t)'
  BY <1>1, <1>3
<1> QED
  BY <1>1, <1>4, <1>5, SetupsMove

\* What a process leaves behind when it ends is still in order.
LEMMA HostRestartsRepairs ==
  ASSUME TInv, NEW h \in Host, HostRestarts(h)
  PROVE  TInv'
<1>1. /\ SetupsOf(h) # {} /\ setups' = Survivors(h)
      /\ UNCHANGED <<conn, issued, made, store, where, keeper>>
  BY DEF HostRestarts
<1>2. setups \subseteq AnySetup
  BY DEF TInv, AttachTypeOK, AnySetup
<1>3. ASSUME NEW t \in Survivors(h) PROVE t \in AnySetup /\ InOrder(t)'
  <2>0. t \in AnySetup
    BY <1>2, <1>3, Survive
  <2>1. CASE t \in setups /\ t.host # h
    <3>1. InOrder(t) /\ ~t.alone
      BY <1>1, <2>1 DEF TInv, InOrder, SetupsOf
    <3> QED
      BY <1>1, <2>0, <3>1, SameWay DEF InOrder
  <2>2. CASE ~(t \in setups /\ t.host # h)
    <3>1. /\ t.host = h /\ t.phase = "posting" /\ ~t.awaited
          /\ \E s \in setups : /\ t = [s EXCEPT !.awaited = FALSE]
                               /\ s.host = h /\ s.phase = "posting"
                               /\ t.alone = s.alone /\ t.rotate = s.rotate
      BY <1>2, <1>3, <2>2, Survive
    <3>2. PICK s \in setups : /\ t = [s EXCEPT !.awaited = FALSE]
                              /\ s.host = h /\ s.phase = "posting"
                              /\ t.alone = s.alone /\ t.rotate = s.rotate
      BY <3>1
    <3>3. InOrder(s)
      BY DEF TInv
    <3>4. KnowsItsWay(s) => KnowsItsWay(t)
      BY <3>1, <3>2 DEF KnowsItsWay
    <3>5. WillAsk(t) /\ BringsTheSecret(t)
      BY <3>1 DEF WillAsk, BringsTheSecret
    <3>6. setups = {s} => Survivors(h) = {t}
      BY <1>3, <3>2 DEF Survivors, SetupsOf
    <3> QED
      BY <1>1, <2>0, <3>1, <3>2, <3>3, <3>4, <3>5, <3>6, SameWay DEF InOrder
  <2> QED
    BY <2>1, <2>2
<1> QED
  BY <1>1, <1>3, SetupsMove

\* A torn file is an empty one, and nobody awaits an answer any more.
LEMMA FileTornRepairs ==
  ASSUME TInv, NEW h \in Host, FileTorn(h)
  PROVE  TInv'
<1> USE AttachmentAssumption
<1>1. PICK r \in setups : r.host = h /\ r.phase = "answered"
  BY DEF FileTorn, SetupsOf
<1>2. /\ setups' = Survivors(h)
      /\ store' = [store EXCEPT ![h] = Empty]
      /\ UNCHANGED <<conn, issued, made, where, keeper>>
  BY DEF FileTorn
<1>3. setups \subseteq AnySetup /\ AttachTypeOK /\ store \in [Host -> Entry]
  BY DEF TInv, AttachTypeOK, AnySetup
<1>4. /\ Empty \in Entry /\ Empty.id = None /\ Empty.secret = None
      /\ store'[h] = Empty /\ \A k \in Host : k # h => store'[k] = store[k]
  BY <1>2, <1>3 DEF Empty, Entry
<1>5. IdsAreCounted'
  BY <1>2, <1>4 DEF TInv, IdsAreCounted
<1>6. ASSUME NEW k \in Host, k # h
      PROVE  /\ UrlOf(k)' = UrlOf(k) /\ (InStep(k)' <=> InStep(k))
             /\ \A i, u : NeedsRotation(k, i, u)' = NeedsRotation(k, i, u)
  BY <1>2, <1>4, <1>6 DEF UrlOf, InStep, NeedsRotation
<1>7. \A i, u : NeedsRotation(h, i, u)'
  BY <1>4 DEF NeedsRotation
<1>8. ConnId' = ConnId
  BY <1>2 DEF ConnId
<1>9. KeeperRepairs'
  <2>1. CASE keeper = h
    BY <1>2, <1>7, <2>1 DEF TInv, KeeperRepairs
  <2>2. CASE keeper # h
    BY <1>2, <1>6, <1>8, <2>2 DEF TInv, KeeperRepairs
  <2> QED
    BY <2>1, <2>2
<1>10. ASSUME NEW t \in Survivors(h) PROVE t \in AnySetup /\ InOrder(t)'
  <2>0. t \in AnySetup
    BY <1>3, <1>10, Survive
  <2>1. CASE t \in setups /\ t.host # h
    <3>1. InOrder(t) /\ ~t.alone /\ t.host \in Host
      BY <1>1, <1>3, <2>1, SetupFields DEF TInv, InOrder
    <3>2. BringsTheSecret(t)' = BringsTheSecret(t) /\ WillAsk(t)' = WillAsk(t)
      BY <1>2, <1>6, <1>8, <2>1, <3>1 DEF BringsTheSecret, WillAsk, SeenId
    <3> QED
      BY <1>2, <1>6, <2>0, <2>1, <3>1, <3>2 DEF InOrder
  <2>2. CASE ~(t \in setups /\ t.host # h)
    <3>1. /\ t.host = h /\ t.phase = "posting" /\ ~t.awaited
          /\ \E s \in setups : /\ t = [s EXCEPT !.awaited = FALSE]
                               /\ s.host = h /\ s.phase = "posting"
                               /\ t.alone = s.alone /\ t.rotate = s.rotate
      BY <1>3, <1>10, <2>2, Survive
    <3>2. ~t.alone
      BY <1>1, <3>1 DEF TInv, InOrder
    <3>3. WillAsk(t)' /\ BringsTheSecret(t)'
      BY <3>1 DEF WillAsk, BringsTheSecret
    <3> QED
      BY <2>0, <3>1, <3>2, <3>3 DEF InOrder
  <2> QED
    BY <2>1, <2>2
<1>11. AttachTypeOK'
  BY <1>2, <1>3, <1>4, <1>10 DEF AttachTypeOK, AnySetup
<1> QED
  BY <1>2, <1>5, <1>9, <1>10, <1>11 DEF TInv

\* A host under another URL is the keeper only when it was in step and at rest.
LEMMA HostMovesRepairs ==
  ASSUME TInv, NEW h \in Host, HostMoves(h)
  PROVE  TInv'
<1> USE AttachmentAssumption
<1>1. PICK w \in [url : UrlsOf[h], configured : BOOLEAN] : where' = [where EXCEPT ![h] = w]
  BY DEF HostMoves
<1>2. /\ setups' = {IF s.host = h THEN [s EXCEPT !.alone = FALSE] ELSE s : s \in Survivors(h)}
      /\ keeper' = IF keeper = h /\ (SetupsOf(h) # {} \/ ~InStep(h)) THEN None ELSE keeper
      /\ UNCHANGED <<conn, issued, made, store>>
  BY DEF HostMoves
<1>3. setups \subseteq AnySetup /\ AttachTypeOK
  BY DEF TInv, AttachTypeOK, AnySetup
<1>4. /\ w \in [url : Url, configured : BOOLEAN] /\ w.url \in UrlsOf[h]
      /\ where \in [Host -> [url : Url, configured : BOOLEAN]]
      /\ where'[h] = w /\ \A k \in Host : k # h => where'[k] = where[k]
  BY <1>1, <1>3 DEF AttachTypeOK, Url
<1>5. IdsAreCounted'
  BY <1>2 DEF TInv, IdsAreCounted
<1>6. /\ \A k \in Host : k # h => UrlOf(k)' = UrlOf(k)
      /\ \A k : InStep(k)' <=> InStep(k)
      /\ \A k, i, u : NeedsRotation(k, i, u)' = NeedsRotation(k, i, u)
      /\ ConnId' = ConnId
  BY <1>2, <1>4 DEF UrlOf, InStep, NeedsRotation, ConnId
<1>7. /\ keeper' \in Host => keeper' = keeper
      /\ keeper' = h => SetupsOf(h) = {} /\ InStep(h)
  BY <1>2
<1>8. KeeperRepairs'
  BY <1>2, <1>6, <1>7 DEF TInv, KeeperRepairs
<1>9. ASSUME NEW s \in Survivors(h), NEW t,
             t = IF s.host = h THEN [s EXCEPT !.alone = FALSE] ELSE s
      PROVE  t \in AnySetup /\ InOrder(t)'
  <2>0. s \in AnySetup
    BY <1>3, <1>9, Survive
  <2>1. CASE s.host # h
    <3>1. t = s /\ s \in setups
      BY <1>3, <1>9, <2>1, Survive
    <3>2. InOrder(t) /\ t.host \in Host
      BY <2>0, <3>1, SetupFields DEF TInv
    <3>3. t.alone => setups' = {t}
      <4>1. t.alone => Survivors(h) = {t}
        BY <2>1, <3>1, <3>2 DEF InOrder, Survivors, SetupsOf
      <4> QED
        BY <1>2, <2>1, <3>1, <4>1
    <3>4. /\ KnowsItsWay(t)' = KnowsItsWay(t) /\ WillAsk(t)' = WillAsk(t)
          /\ BringsTheSecret(t)' = BringsTheSecret(t)
      BY <1>2, <1>6, <2>1, <3>1, <3>2 DEF KnowsItsWay, WillAsk, BringsTheSecret, SeenId
    <3> QED
      BY <1>2, <1>6, <1>7, <2>0, <3>1, <3>2, <3>3, <3>4 DEF InOrder
  <2>2. CASE s.host = h
    <3>1. /\ t \in AnySetup /\ ~t.alone /\ t.host = h /\ t.phase = s.phase
      BY <1>9, <2>0, <2>2, Joined
    <3>2. s.phase = "posting" /\ SetupsOf(h) # {}
      BY <1>3, <1>9, <2>2, Survive DEF SetupsOf
    <3> QED
      BY <1>7, <3>1, <3>2 DEF InOrder
  <2> QED
    BY <2>1, <2>2
<1>10. setups' \subseteq AnySetup /\ \A t \in setups' : InOrder(t)'
  BY <1>2, <1>9
<1>11. AttachTypeOK'
  <2>1. keeper' \in Host \cup {None}
    BY <1>2, <1>3 DEF AttachTypeOK
  <2>2. /\ where' \in [Host -> [url : Url, configured : BOOLEAN]]
        /\ \A k \in Host : where'[k].url \in UrlsOf[k]
    BY <1>1, <1>3, <1>4 DEF AttachTypeOK
  <2> QED
    BY <1>2, <1>3, <1>10, <2>1, <2>2 DEF AttachTypeOK, AnySetup
<1> QED
  BY <1>5, <1>8, <1>10, <1>11 DEF TInv

\* Without a connection nobody is its keeper.
LEMMA ConnectionDeletedRepairs ==
  ASSUME TInv, ConnectionDeleted
  PROVE  TInv'
<1> USE AttachmentAssumption
<1>1. conn' = None /\ keeper' = None /\ UNCHANGED <<issued, made, store, where, setups>>
  BY DEF ConnectionDeleted
<1>2. AttachTypeOK' /\ IdsAreCounted' /\ KeeperRepairs'
  BY <1>1 DEF TInv, AttachTypeOK, IdsAreCounted, KeeperRepairs
<1>3. ASSUME NEW t \in setups PROVE InOrder(t)'
  <2>1. InOrder(t) /\ t.host # None
    BY SetupFields DEF TInv, AttachTypeOK, AnySetup
  <2>2. KnowsItsWay(t) => KnowsItsWay(t)'
    BY <1>1 DEF KnowsItsWay, UrlOf
  <2> QED
    BY <1>1, <2>1, <2>2 DEF InOrder
<1> QED
  BY <1>1, <1>2, <1>3 DEF TInv

\* Every step of the attachment keeps its invariant.
LEMMA AttachStepRepairs == TInv /\ [AttachNext]_attachVars => TInv'
<1> SUFFICES ASSUME TInv, [AttachNext]_attachVars PROVE TInv'
  OBVIOUS
<1>1. ASSUME NEW n \in Setup, NEW h \in Host, SetupStarts(n, h) PROVE TInv'
  BY <1>1, SetupStartsRepairs
<1>2. ASSUME NEW s \in setups, Listed(s) PROVE TInv'
  BY <1>2, ListedRepairs
<1>3. ASSUME NEW s \in setups, Decides(s) PROVE TInv'
  BY <1>3, DecidesRepairs
<1>4. ASSUME NEW s \in setups, Registered(s) PROVE TInv'
  BY <1>4, RegisteredRepairs
<1>5. ASSUME NEW s \in setups, Persisted(s) PROVE TInv'
  BY <1>5, PersistedRepairs
<1>6. ASSUME NEW s \in setups, Fails(s) PROVE TInv'
  BY <1>6, FailsRepairs
<1>7. ASSUME NEW h \in Host, HostRestarts(h) PROVE TInv'
  BY <1>7, HostRestartsRepairs
<1>8. ASSUME NEW h \in Host, FileTorn(h) PROVE TInv'
  BY <1>8, FileTornRepairs
<1>9. ASSUME NEW h \in Host, HostMoves(h) PROVE TInv'
  BY <1>9, HostMovesRepairs
<1>10. CASE ConnectionDeleted
  BY <1>10, ConnectionDeletedRepairs
<1>11. CASE UNCHANGED attachVars
  <2>1. UNCHANGED <<conn, issued, made, store, where, keeper>> /\ setups' = setups
    BY <1>11 DEF attachVars
  <2>2. setups \subseteq AnySetup
    BY DEF TInv, AttachTypeOK, AnySetup
  <2>3. \A t \in setups : InOrder(t)'
    BY <2>1, SameWay DEF TInv, InOrder
  <2> QED
    BY <2>1, <2>2, <2>3, SetupsMove
<1> QED
  BY <1>1, <1>2, <1>3, <1>4, <1>5, <1>6, <1>7, <1>8, <1>9, <1>10, <1>11 DEF AttachNext

\* Whatever request, answer, process or file is lost, the host for which an
\* undisturbed setup has made up the secret has it or will ask for a new one
\* (needsSecretRotation, openclaw-plugin-wrapper.ts).
THEOREM NextSetupsRepair == AttachSpec => []NextSetupRepairs
<1>1. AttachInit => TInv
  BY AttachStarts
<1>2. TInv /\ [AttachNext]_attachVars => TInv'
  BY AttachStepRepairs
<1>3. TInv => NextSetupRepairs
  BY DEF TInv, KeeperRepairs, NextSetupRepairs
<1> QED
  BY <1>1, <1>2, <1>3, PTL DEF AttachSpec
=============================================================================

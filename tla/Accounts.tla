------------------------------ MODULE Accounts ------------------------------
(***************************************************************************)
(* Accounts, invites and API keys (routes/auth.ts, routes/admin.ts,        *)
(* services/auth.ts).  Registration, creation, key rotation and key reset  *)
(* look something up, wait for argon2, and write: the two are steps of     *)
(* their own here.  The transaction around registration commits before its *)
(* asynchronous body runs, so that nothing is rolled back.                 *)
(***************************************************************************)
EXTENDS Naturals, FiniteSets

CONSTANTS
  Id,      \* user ids, never used twice
  Name,    \* usernames
  Invite,  \* ids of invite tokens
  MaxUses, \* max_uses of each
  Call,    \* requests that may wait for argon2 at a time
  NoInvite, NoId

ASSUME AccountsAssumption ==
  MaxUses \in [Invite -> Nat \ {0}] /\ NoInvite \notin Invite /\ NoId \notin Id

VARIABLES
  users,    \* rows of users
  ids,      \* user ids that have been given out
  useCount, \* of each invite
  usable,   \* invites that are neither revoked nor expired
  calls,    \* requests that wait for argon2
  keyless,  \* history: accounts whose key was never answered to anybody
  cut,      \* history: those of them a crash kept from being answered
  granted   \* history: accounts an admin has answered a key of

history == <<keyless, cut, granted>>
accountVars == <<users, ids, useCount, usable, calls, history>>

UserRow == [id : Id, name : Name, invite : Invite \cup {NoInvite}]

Waiting == [call : Call, kind : {"register", "create", "rotate", "reset"}, name : Name,
            invite : Invite \cup {NoInvite}, id : Id \cup {NoId}]

AccountsTypeOK ==
  /\ users \subseteq UserRow
  /\ ids \subseteq Id
  /\ useCount \in [Invite -> Nat]
  /\ usable \subseteq Invite
  /\ calls \subseteq Waiting
  /\ keyless \subseteq Id
  /\ cut \subseteq Id
  /\ granted \subseteq Id

UserIds == {u.id : u \in users}
Taken(n) == \E u \in users : u.name = n

\* resolveInviteTokenStatus: active
Open(i) == i \in usable /\ useCount[i] < MaxUses[i]

Wait(n, kind, name, invite, id) ==
  /\ n \notin {c.call : c \in calls}
  /\ calls' = calls \cup {[call |-> n, kind |-> kind, name |-> name, invite |-> invite, id |-> id]}
  /\ UNCHANGED <<users, ids, useCount, usable, history>>

-----------------------------------------------------------------------------
(* POST /auth/register, POST /admin/users *)

\* The name is free and the invite open; then the hashes of the invite and of
\* the new key are computed.
RegisterStarts(n, name, i) ==
  /\ ~Taken(name)
  /\ Open(i)
  /\ Wait(n, "register", name, i, NoId)

CreateStarts(n, name) ==
  /\ ~Taken(name)
  /\ Wait(n, "create", name, NoInvite, NoId)

\* Mutant: the update is not guarded.
BugConsumes(i) == TRUE

\* Mutant: the invite must not have been used since it was read.
BugConsumesOnce(i) == i \in usable /\ useCount[i] = 0

\* consumeInviteToken: the guard of the update, looked at again.
Consumes(i) == Open(i)

Insert(c, id) ==
  /\ id \notin ids
  /\ users' = users \cup {[id |-> id, name |-> c.name, invite |-> c.invite]}
  /\ ids' = ids \cup {id}

Use(c) == [i \in Invite |-> IF i = c.invite /\ Consumes(i) THEN useCount[i] + 1 ELSE useCount[i]]

\* The name was taken meanwhile.
NameRefused(c) ==
  /\ c \in calls /\ c.kind \in {"register", "create"} /\ Taken(c.name)
  /\ calls' = calls \ {c}
  /\ UNCHANGED <<users, ids, useCount, usable, history>>

\* The row is inserted and the invite consumed; when it cannot be, the request
\* fails and the row stays.
AccountInserted(c, id) ==
  /\ c \in calls /\ c.kind \in {"register", "create"} /\ ~Taken(c.name)
  /\ Insert(c, id)
  /\ useCount' = Use(c)
  /\ keyless' = IF c.kind = "create" \/ Consumes(c.invite) THEN keyless ELSE keyless \cup {id}
  /\ granted' = IF c.kind = "create" THEN granted \cup {id} ELSE granted
  /\ calls' = calls \ {c}
  /\ UNCHANGED <<usable, cut>>

\* A crash after the row was inserted, or after the invite was consumed: nobody
\* has the key, and the other requests are lost with this one.
AccountCut(c, id, writes) ==
  /\ c \in calls /\ c.kind \in {"register", "create"} /\ ~Taken(c.name)
  /\ Insert(c, id)
  /\ useCount' = IF writes = 2 THEN Use(c) ELSE useCount
  /\ keyless' = keyless \cup {id}
  /\ cut' = cut \cup {id}
  /\ calls' = {}
  /\ UNCHANGED <<usable, granted>>

-----------------------------------------------------------------------------
(* POST /auth/rotate-key by the user, POST /admin/users/:username/reset-key *)

\* A user rotates with the key of the account; an admin needs none.
KeyStarts(n, u, kind) ==
  /\ kind = "reset" \/ u.id \notin keyless
  /\ Wait(n, kind, u.name, NoInvite, u.id)

\* The row of the id is updated, if it is still there, and the key answered.
KeyReplaced(c) ==
  /\ c \in calls /\ c.kind \in {"rotate", "reset"}
  /\ calls' = calls \ {c}
  /\ keyless' = keyless \ {c.id}
  /\ granted' = IF c.kind = "reset" THEN granted \cup {c.id} ELSE granted
  /\ UNCHANGED <<users, ids, useCount, usable, cut>>

-----------------------------------------------------------------------------
\* POST /admin/invite-tokens/:tokenId/revoke, or expires_at passes.
InviteEnds(i) ==
  /\ i \in usable
  /\ usable' = usable \ {i}
  /\ UNCHANGED <<users, ids, useCount, calls, history>>

\* The part of DELETE /admin/users that concerns accounts.
RemoveUsers(gone) ==
  /\ users' = {u \in users : u.id \notin gone}
  /\ UNCHANGED <<ids, useCount, usable, calls, history>>

\* A restart forgets the requests that wait.
RestartForgets ==
  /\ calls # {}
  /\ calls' = {}
  /\ UNCHANGED <<users, ids, useCount, usable, history>>

AccountsInit ==
  /\ users = {}
  /\ ids = {}
  /\ useCount = [i \in Invite |-> 0]
  /\ usable = Invite
  /\ calls = {}
  /\ keyless = {}
  /\ cut = {}
  /\ granted = {}

AccountsNext ==
  \/ \E n \in Call, name \in Name, i \in Invite : RegisterStarts(n, name, i)
  \/ \E n \in Call, name \in Name : CreateStarts(n, name)
  \/ \E c \in calls : NameRefused(c) \/ KeyReplaced(c)
  \/ \E c \in calls, id \in Id : AccountInserted(c, id)
  \/ \E c \in calls, id \in Id, writes \in 1 .. 2 : AccountCut(c, id, writes)
  \/ \E n \in Call, u \in users, kind \in {"rotate", "reset"} : KeyStarts(n, u, kind)
  \/ \E i \in Invite : InviteEnds(i)
  \/ RestartForgets

-----------------------------------------------------------------------------
(* Safety *)

\* An invite lets in no more accounts than it is good for, although each
\* registration reads it long before it consumes it.  Those that come too late
\* leave an account nobody has a key for: whoever has a key of an account of the
\* invite is paid for by one of its uses or got the key from an admin.
InvitesPayForAccounts ==
  \A i \in Invite :
    /\ useCount[i] <= MaxUses[i]
    /\ Cardinality({u \in users : u.invite = i /\ u.id \notin keyless \cup granted}) <= useCount[i]

\* Unless a crash cut it short, a registration ends in an account without a key
\* only when the invite was used up, revoked or expired meanwhile: no invite
\* that is open is refused, nor its username lost to an account nobody can use.
KeylessOnlyWithoutInvite ==
  \A u \in users : u.id \in keyless \ cut => ~Open(u.invite)
=============================================================================

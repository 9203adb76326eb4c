------------------------------ MODULE Community ------------------------------
(***************************************************************************)
(* Accounts with their friendships and groups, and the deletion of         *)
(* accounts, which reaches into all of them (routes/admin.ts, and the      *)
(* foreign keys of db/schema.ts, which SQLite enforces).                   *)
(***************************************************************************)
EXTENDS Friendships, Groups

vars == <<accountVars, friendVars, groupVars>>

\* The memberships that outlive the deletion of the users: the groups that
\* name one of them as owner go, with everybody in them.
Surviving(gone) ==
  LET kept == {g.name : g \in {h \in groups : h.owner \notin gone}}
  IN {m \in members : m.user \notin gone /\ m.group \in kept}

\* Mutant: the groups of the deleted owner stay.
BugCascade(gone) ==
  /\ friendships' = {f \in friendships : Sides(f) \cap gone = {}}
  /\ customRoles' = {r \in customRoles : r[1] \notin gone}
  /\ UNCHANGED <<groups, torn>>
  /\ members' = {m \in members : m.user \notin gone}

\* ON DELETE CASCADE, from users and from groups.
Cascade(gone) ==
  /\ friendships' = {f \in friendships : Sides(f) \cap gone = {}}
  /\ customRoles' = {r \in customRoles : r[1] \notin gone}
  /\ groups' = {g \in groups : g.owner \notin gone}
  /\ members' = Surviving(gone)
  /\ torn' = {n \in torn : \E g \in groups' : g.name = n}

\* DELETE /admin/users/:username and, for everybody at once, DELETE
\* /admin/users.  invited_by_user_id has no ON DELETE: who invited a member of a
\* group that stays cannot be deleted, and the request fails with the messages
\* of the user gone (which are not part of this module).
DeleteUsers(gone) ==
  /\ \A m \in Surviving(gone) : m.by \notin gone
  /\ RemoveUsers(gone)
  /\ Cascade(gone)

Init == AccountsInit /\ FriendshipsInit /\ GroupsInit

Next ==
  \/ AccountsNext /\ UNCHANGED <<friendVars, groupVars>>
  \/ FriendshipsNext /\ UNCHANGED groupVars
  \/ GroupsNext /\ UNCHANGED friendVars
  \/ \E u \in UserIds : DeleteUsers({u})
  \/ UserIds # {} /\ DeleteUsers(UserIds)

Spec == Init /\ [][Next]_vars

-----------------------------------------------------------------------------
(* Safety *)

TypeOK ==
  /\ AccountsTypeOK
  /\ friendships \subseteq Friendship
  /\ customRoles \subseteq Id \X Role
  /\ groups \subseteq Group
  /\ members \subseteq Member
  /\ torn \subseteq GroupName

\* Whatever is deleted while requests, invitations and transfers are under way,
\* no friendship, role, group or membership is left that names an account or a
\* group that is gone, and no role in a friendship that neither side may use.
NothingDangles ==
  /\ \A f \in friendships : Sides(f) \subseteq UserIds /\ \A r \in f.roles : \E u \in Sides(f) : Valid(u, r)
  /\ \A r \in customRoles : r[1] \in UserIds
  /\ \A g \in groups : g.owner \in UserIds
  /\ \A m \in members : {m.user, m.by} \subseteq UserIds \cup {NoId} /\ m.group \in GroupNames
=============================================================================

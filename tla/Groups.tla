------------------------------- MODULE Groups -------------------------------
(***************************************************************************)
(* Groups and their memberships (routes/groups.ts).  A group is known by   *)
(* its name, which is unique; a group that is created anew under it starts *)
(* with nothing of the former.  Creation and transfer are several writes   *)
(* without a transaction: a crash leaves what was written so far.          *)
(***************************************************************************)
EXTENDS Accounts

CONSTANT GroupName

VARIABLES
  groups,  \* rows of groups
  members, \* rows of group_memberships
  torn     \* history: groups a crash left between two writes

groupVars == <<groups, members, torn>>

Group == [name : GroupName, owner : Id, inviteOnly : BOOLEAN]

\* No route makes anybody an admin of a group.
Member == [group : GroupName, user : Id, role : {"owner", "member"},
           status : {"invited", "active"}, by : Id \cup {NoId}]

GroupNames == {g.name : g \in groups}
Of(u, n) == {m \in members : m.user = u /\ m.group = n}
Owns(u, n) == \E m \in Of(u, n) : m.role = "owner"
Active(u, n) == \E m \in Of(u, n) : m.status = "active"

\* The rest of the server stands still, or loses what it kept in memory.
Whole == UNCHANGED accountVars
Crash == calls' = {} /\ UNCHANGED <<users, ids, useCount, usable, history>>

\* The row is deleted, and the memberships with it.
Drop(n) ==
  /\ groups' = {g \in groups : g.name # n}
  /\ members' = {m \in members : m.group # n}
  /\ torn' = torn \ {n}

-----------------------------------------------------------------------------
\* POST /groups: the group, then the membership of its owner.
CreateGroup(u, n, inviteOnly, writes) ==
  /\ n \notin GroupNames
  /\ groups' = groups \cup {[name |-> n, owner |-> u, inviteOnly |-> inviteOnly]}
  /\ IF writes = 2
     THEN /\ members' = members \cup
               {[group |-> n, user |-> u, role |-> "owner", status |-> "active", by |-> NoId]}
          /\ Whole /\ UNCHANGED torn
     ELSE /\ torn' = torn \cup {n}
          /\ Crash /\ UNCHANGED members

\* POST /groups/:id/invite
InviteMember(u, n, v) ==
  /\ Owns(u, n) /\ Active(u, n)
  /\ Of(v, n) = {}
  /\ members' = members \cup
       {[group |-> n, user |-> v, role |-> "member", status |-> "invited", by |-> u]}
  /\ Whole /\ UNCHANGED <<groups, torn>>

\* POST /groups/:id/join: an invitation is taken up, or the group is open.
Join(u, g) ==
  /\ \/ \E m \in Of(u, g.name) :
          /\ m.status = "invited"
          /\ members' = (members \ {m}) \cup {[m EXCEPT !.status = "active"]}
     \/ /\ Of(u, g.name) = {} /\ ~g.inviteOnly
        /\ members' = members \cup
             {[group |-> g.name, user |-> u, role |-> "member", status |-> "active", by |-> NoId]}
  /\ Whole /\ UNCHANGED <<groups, torn>>

\* DELETE /groups/:id/leave: the owner leaves only as the last active member,
\* and the group ends with it.
Leave(m) ==
  /\ IF m.role = "owner"
     THEN /\ ~\E v \in UserIds \ {m.user} : Active(v, m.group)
          /\ Drop(m.group)
     ELSE members' = members \ {m} /\ UNCHANGED <<groups, torn>>
  /\ Whole

\* DELETE /groups/:id
DeleteGroup(u, n) == Owns(u, n) /\ Drop(n) /\ Whole

-----------------------------------------------------------------------------
WithRole(ms, u, n, role) ==
  {IF m.user = u /\ m.group = n THEN [m EXCEPT !.role = role] ELSE m : m \in ms}

\* Mutant: the new owner is made before the old one is unmade, which leaves
\* nobody when they are the same.
BugHandOver(u, n, v, writes) ==
  LET first == WithRole(members, v, n, "owner")
  IN IF writes = 1 THEN first ELSE WithRole(first, u, n, "member")

\* The memberships after the first one or two writes of a transfer.
HandOver(u, n, v, writes) ==
  LET first == WithRole(members, u, n, "member")
  IN IF writes = 1 THEN first ELSE WithRole(first, v, n, "owner")

\* POST /groups/:id/transfer: the old owner, the new owner, the group.  The
\* new owner may be the old one.  A transfer after one that was cut short
\* after its second write makes the group whole again.
Transfer(u, n, v, writes) ==
  /\ Owns(u, n) /\ Active(v, n)
  /\ members' = HandOver(u, n, v, writes)
  /\ IF writes = 3
     THEN /\ groups' = {IF g.name = n THEN [g EXCEPT !.owner = v] ELSE g : g \in groups}
          /\ torn' = torn \ {n}
          /\ Whole
     ELSE /\ torn' = torn \cup {n}
          /\ Crash /\ UNCHANGED groups

GroupsInit == groups = {} /\ members = {} /\ torn = {}

GroupsNext ==
  \/ \E u \in UserIds, n \in GroupName, only \in BOOLEAN, w \in 1 .. 2 : CreateGroup(u, n, only, w)
  \/ \E u, v \in UserIds, n \in GroupNames : InviteMember(u, n, v)
  \/ \E u \in UserIds, g \in groups : Join(u, g)
  \/ \E m \in members : Leave(m)
  \/ \E u \in UserIds, n \in GroupNames : DeleteGroup(u, n)
  \/ \E u, v \in UserIds, n \in GroupNames, w \in 1 .. 3 : Transfer(u, n, v, w)

-----------------------------------------------------------------------------
(* Safety *)

\* Unless a crash cut a creation or a transfer short, a group has one owner, an
\* active member, and the row of the group names the same user: somebody can
\* always invite, hand over and delete, and the deletion of an account takes
\* the groups of its owner with it and no other.
GroupHasItsOwner ==
  \A g \in groups : g.name \notin torn =>
    \E m \in members :
      /\ m.group = g.name /\ m.user = g.owner /\ m.status = "active"
      /\ {o \in members : o.group = g.name /\ o.role = "owner"} = {m}
=============================================================================

----------------------------- MODULE Friendships -----------------------------
(***************************************************************************)
(* Friendships and the roles given in them (routes/friends.ts,             *)
(* services/roles.ts).  Nothing in the schema keeps two users from having  *)
(* two rows: that they have one is the work of the handlers.  A row whose  *)
(* id a client still holds is found only as long as it exists, so that the *)
(* row stands for its id here.                                             *)
(***************************************************************************)
EXTENDS Accounts

CONSTANTS
  Role,      \* role names
  SystemRole \* those of them that everybody may use

ASSUME FriendshipsAssumption == SystemRole \subseteq Role

VARIABLES
  friendships, \* rows, with the roles given in them; agreed is a history
  customRoles  \* <<user, role>> of user_roles

friendVars == <<friendships, customRoles>>

Friendship == [from : Id, to : Id, status : {"pending", "accepted", "blocked"},
               roles : SUBSET Role, agreed : SUBSET Id]

Sides(f) == {f.from, f.to}
Between(u, v) == {f \in friendships : Sides(f) = {u, v}}

Replace(f, g) ==
  /\ friendships' = (friendships \ {f}) \cup {g}
  /\ UNCHANGED <<customRoles, accountVars>>

Remove(f) ==
  /\ friendships' = friendships \ {f}
  /\ UNCHANGED <<customRoles, accountVars>>

Accepted(f, u) == [f EXCEPT !.status = "accepted", !.agreed = @ \cup {u}]

-----------------------------------------------------------------------------
\* Mutant: whoever asks, asking again accepts.
BugMutual(u, f) == f.status = "pending"

\* Mutant: the answer to a request does not look at the status.
BugMutualBlocked(u, f) == f.status # "accepted" /\ f.from # u

\* The other side has asked, and is waiting.
Mutual(u, f) == f.status = "pending" /\ f.from # u

\* POST /friends/request: a new row when the pair has none; when the other side
\* has asked, its row is accepted; every other row refuses the request.
Request(u, v) ==
  /\ u # v
  /\ \/ /\ Between(u, v) = {}
        /\ friendships' = friendships \cup
             {[from |-> u, to |-> v, status |-> "pending", roles |-> {}, agreed |-> {u}]}
        /\ UNCHANGED <<customRoles, accountVars>>
     \/ \E f \in Between(u, v) :
          /\ Mutual(u, f)
          /\ Replace(f, Accepted(f, u))

\* POST /friends/:id/accept and /reject: by the side that was asked.
Accept(f) == f.status = "pending" /\ Replace(f, Accepted(f, f.to))
Reject(f) == f.status = "pending" /\ Remove(f)

\* POST /friends/:id/block, DELETE /friends/:id: by either side, whatever the
\* status, and so also by the side that was blocked.
Block(f) == f.status # "blocked" /\ Replace(f, [f EXCEPT !.status = "blocked"])
Unfriend(f) == Remove(f)

-----------------------------------------------------------------------------
\* isValidRole
Valid(u, r) == r \in SystemRole \/ <<u, r>> \in customRoles

\* POST and DELETE /friends/:id/roles: by either side, whatever the status.
AddRole(u, f, r) ==
  /\ u \in Sides(f) /\ Valid(u, r) /\ r \notin f.roles
  /\ Replace(f, [f EXCEPT !.roles = @ \cup {r}])

RemoveRole(u, f, r) ==
  /\ u \in Sides(f) /\ r \in f.roles
  /\ Replace(f, [f EXCEPT !.roles = @ \ {r}])

\* createCustomRole
CreateRole(u, r) ==
  /\ r \notin SystemRole /\ <<u, r>> \notin customRoles
  /\ customRoles' = customRoles \cup {<<u, r>>}
  /\ UNCHANGED <<friendships, accountVars>>

FriendshipsInit == friendships = {} /\ customRoles = {}

FriendshipsNext ==
  \/ \E u, v \in UserIds : Request(u, v)
  \/ \E f \in friendships : Accept(f) \/ Reject(f) \/ Block(f) \/ Unfriend(f)
  \/ \E u \in UserIds, f \in friendships, r \in Role : AddRole(u, f, r) \/ RemoveRole(u, f, r)
  \/ \E u \in UserIds, r \in Role : CreateRole(u, r)

-----------------------------------------------------------------------------
(* Safety *)

\* Two users are friends through one row, and only when both of them asked for
\* it or said yes since that row exists, in whichever order their requests,
\* answers and removals came.
FriendshipNeedsBoth ==
  \A f \in friendships :
    /\ Between(f.from, f.to) = {f}
    /\ f.status = "accepted" => f.agreed = Sides(f)

\* Blocked is final for a row: no request, answer or late acceptance leads out
\* of it but the removal of the row.
BlockedStays ==
  [][\A f \in friendships : f.status = "blocked" =>
       \A g \in friendships' : Sides(g) = Sides(f) => g.status = "blocked"]_friendVars
=============================================================================

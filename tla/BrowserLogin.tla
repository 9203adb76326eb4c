---------------------------- MODULE BrowserLogin ----------------------------
(***************************************************************************)
(* The server's side of signing a browser in with the approval of an agent *)
(* (routes/auth.ts, services/browserAuth.ts).  A browser asks for a code,  *)
(* the agent of the user approves or denies it, the browser redeems it for *)
(* a session.  No handler waits between its first read and its last write, *)
(* so each is one step; a handler that authenticates by an API key acts on *)
(* behalf of a user it read before it hashed the key.  A request that      *)
(* changes nothing is no step.                                             *)
(***************************************************************************)
EXTENDS Naturals, FiniteSets

CONSTANTS
  User,
  Attempt,  \* ids of login attempts, never used twice
  Code,     \* approval codes; two attempts may draw the same
  NoUser, NoAttempt

ASSUME LoginAssumption == NoUser \notin User /\ NoAttempt \notin Attempt

VARIABLES
  active,    \* users that exist
  attempts,  \* rows of browser_login_attempts
  issued,    \* ids that have been given out
  sessions,  \* rows of browser_sessions that are neither revoked nor expired
  opened     \* history: sessions each attempt has opened

serverVars == <<active, attempts, issued, sessions, opened>>

\* A row; expired stands for expires_at being in the past.
Row == [id : Attempt, user : User, code : Code,
        approvedBy : User \cup {NoUser}, denied : BOOLEAN, redeemed : BOOLEAN,
        expired : BOOLEAN,
        failure : {"none", "superseded", "denied", "replayed", "rate_limited"}]

\* A session, by the attempt that opened it.
Session == [attempt : Attempt, user : User]

ServerTypeOK ==
  /\ active \subseteq User
  /\ attempts \subseteq Row
  /\ issued \subseteq Attempt
  /\ sessions \subseteq Session
  /\ opened \in [Attempt -> Nat]

\* Mutant: an approved attempt is still approved after it was redeemed.
BugStatus(a) ==
  IF a.denied THEN "denied"
  ELSE IF a.expired THEN "expired"
  ELSE IF a.approvedBy # NoUser THEN "approved"
  ELSE IF a.redeemed THEN "redeemed" ELSE "pending"

\* getBrowserLoginAttemptStatus
Status(a) ==
  IF a.redeemed THEN "redeemed"
  ELSE IF a.denied THEN "denied"
  ELSE IF a.expired THEN "expired"
  ELSE IF a.approvedBy # NoUser THEN "approved" ELSE "pending"

Live(a) == Status(a) \in {"pending", "approved"}

Write(a, b) == attempts' = (attempts \ {a}) \cup {b}

-----------------------------------------------------------------------------
(* POST /auth/browser-login/attempts *)

\* Mutant: only codes nobody has approved yet are replaced.
BugSuperseded(u) ==
  {IF a.user = u /\ Status(a) = "pending"
   THEN [a EXCEPT !.expired = TRUE, !.failure = "superseded"] ELSE a : a \in attempts}

\* A new code replaces the user's live ones.
Superseded(u) ==
  {IF a.user = u /\ Live(a)
   THEN [a EXCEPT !.expired = TRUE, !.failure = "superseded"] ELSE a : a \in attempts}

Start(u, i, c) ==
  /\ u \in active
  /\ i \notin issued
  /\ attempts' = Superseded(u) \cup
       {[id |-> i, user |-> u, code |-> c, approvedBy |-> NoUser, denied |-> FALSE,
         redeemed |-> FALSE, expired |-> FALSE, failure |-> "none"]}
  /\ issued' = issued \cup {i}
  /\ UNCHANGED <<active, sessions, opened>>

-----------------------------------------------------------------------------
(* POST /auth/browser-login/approve and /deny *)

\* Mutant: a code names an attempt, whoever asked for it.
BugResolved(u, i, c) ==
  IF i # NoAttempt
  THEN {a \in attempts : a.id = i /\ a.code = c}
  ELSE LET found == {a \in attempts : a.code = c /\ ~a.redeemed /\ ~a.expired}
       IN IF Cardinality(found) = 1 THEN found ELSE {}

\* resolveBrowserLoginAttemptForActor: the attempt named by its id, or the only
\* one the code can mean; none when the request is refused.
Resolved(u, i, c) ==
  IF i # NoAttempt
  THEN {a \in attempts : a.id = i /\ a.user = u /\ a.code = c}
  ELSE LET found == {a \in attempts : a.user = u /\ a.code = c /\ ~a.redeemed /\ ~a.expired}
       IN IF Cardinality(found) = 1 THEN found ELSE {}

Replayed(a) == Write(a, [a EXCEPT !.failure = "replayed"])
Throttled(a) == Write(a, [a EXCEPT !.failure = "rate_limited"])

\* A second approval only marks the attempt; a first one may be throttled.
Approve(u, i, c, throttled) ==
  /\ \E a \in Resolved(u, i, c) :
       \/ /\ Status(a) \in {"redeemed", "approved"}
          /\ Replayed(a)
       \/ /\ Status(a) = "pending"
          /\ IF throttled THEN Throttled(a)
             ELSE Write(a, [a EXCEPT !.approvedBy = u, !.failure = "none"])
  /\ UNCHANGED <<active, issued, sessions, opened>>

Deny(u, i, c) ==
  /\ \E a \in Resolved(u, i, c) :
       /\ Status(a) = "pending"
       /\ Write(a, [a EXCEPT !.denied = TRUE, !.failure = "denied"])
  /\ UNCHANGED <<active, issued, sessions, opened>>

-----------------------------------------------------------------------------
(* POST /auth/browser-login/attempts/:attemptId/redeem *)

\* The row a request may see: its token was made for this attempt.
RowOf(i, token) == {a \in attempts : a.id = i /\ token = i}

RedeemAnswer(i, token, throttled) ==
  LET s == {Status(a) : a \in RowOf(i, token)}
  IN IF s \in {{"expired"}, {"denied"}} THEN CHOOSE x \in s : TRUE
     ELSE IF s = {"approved"} /\ ~throttled THEN "ok" ELSE "refused"

\* Mutant: the failure of an earlier try is left in the row.
BugRedeem(a) ==
  /\ Status(a) = "approved"
  /\ Write(a, [a EXCEPT !.redeemed = TRUE])
  /\ sessions' = sessions \cup {[attempt |-> a.id, user |-> a.user]}
  /\ opened' = [opened EXCEPT ![a.id] = @ + 1]
  /\ UNCHANGED <<active, issued>>

\* The approved attempt is used up and opens a session.
Redeem(a) ==
  /\ Status(a) = "approved"
  /\ Write(a, [a EXCEPT !.redeemed = TRUE, !.failure = "none"])
  /\ sessions' = sessions \cup {[attempt |-> a.id, user |-> a.user]}
  /\ opened' = [opened EXCEPT ![a.id] = @ + 1]
  /\ UNCHANGED <<active, issued>>

\* A used attempt is marked as replayed, an approved one that is throttled as
\* rate-limited.
RedeemRefused(a) ==
  /\ CASE Status(a) = "redeemed" -> Replayed(a)
       [] Status(a) = "approved" -> Throttled(a)
       [] OTHER -> UNCHANGED attempts
  /\ UNCHANGED <<active, issued, sessions, opened>>

-----------------------------------------------------------------------------
(* The rest *)

\* GET /auth/browser-login/attempts/:attemptId
PollAnswer(i, token) ==
  IF RowOf(i, token) = {} THEN "refused" ELSE Status(CHOOSE a \in RowOf(i, token) : TRUE)

\* verifyBrowserSessionToken: the sessions a cookie stands for.
SessionsOf(cookie) == {s \in sessions : s.attempt = cookie}

\* POST /auth/logout
Revoke(cookie) ==
  /\ sessions' = sessions \ SessionsOf(cookie)
  /\ UNCHANGED <<active, attempts, issued, opened>>

\* expires_at passes; nobody looks at it once the attempt is redeemed.
AttemptExpires(i) ==
  /\ \E a \in attempts : a.id = i /\ ~a.expired /\ ~a.redeemed /\ Write(a, [a EXCEPT !.expired = TRUE])
  /\ UNCHANGED <<active, issued, sessions, opened>>

SessionExpires(i) ==
  /\ SessionsOf(i) # {}
  /\ Revoke(i)

\* DELETE /admin/users/:username takes the rows of the user with it.
DeleteUser(u) ==
  /\ u \in active
  /\ active' = active \ {u}
  /\ attempts' = {a \in attempts : a.user # u}
  /\ sessions' = {s \in sessions : s.user # u}
  /\ UNCHANGED <<issued, opened>>

ServerInit ==
  /\ active = User
  /\ attempts = {}
  /\ issued = {}
  /\ sessions = {}
  /\ opened = [i \in Attempt |-> 0]

\* What happens elsewhere: another browser, a request whose page was reloaded,
\* the users' agents, time, the administrator.
AgentNext ==
  \/ \E u \in User, i \in Attempt, c \in Code : Start(u, i, c)
  \/ \E u \in User, i \in Attempt \cup {NoAttempt}, c \in Code, t \in BOOLEAN : Approve(u, i, c, t)
  \/ \E u \in User, i \in Attempt \cup {NoAttempt}, c \in Code : Deny(u, i, c)
  \/ \E i \in Attempt : AttemptExpires(i) \/ SessionExpires(i)
  \/ \E u \in User : DeleteUser(u)

-----------------------------------------------------------------------------
(* Safety *)

\* "Only one live code stays active at a time" (public/app.js:6155): however
\* starts, approvals and redemptions interleave, so that a code alone names at
\* most one attempt its user could approve.
OneLiveCode ==
  \A a, b \in attempts : Live(a) /\ Live(b) /\ a.user = b.user => a = b

\* Whoever holds a session got it by a code that the agent of this very user
\* had approved and nobody had denied, and that was used up by it.
SessionsAreEarned ==
  \A s \in sessions : \E a \in attempts :
    a.id = s.attempt /\ a.user = s.user /\ a.approvedBy = s.user /\ a.redeemed /\ ~a.denied

\* What diagnostics say of an attempt agrees with what became of it: a denied
\* one is shown as denied, a redeemed one as used twice at the worst, a live
\* one as throttled or replayed at the worst, whatever was tried before.
FailureIsExplained ==
  \A a \in attempts :
    /\ (Status(a) = "denied") <=> (a.failure = "denied")
    /\ Status(a) = "redeemed" => a.failure \in {"none", "replayed"}
    /\ a.failure = "superseded" => Status(a) = "expired"

-----------------------------------------------------------------------------
(* Refinement: each attempt is a ticket *)

StageOf(i) ==
  IF i \notin issued THEN "none"
  ELSE LET s == {Status(a) : a \in {b \in attempts : b.id = i}}
       IN IF s = {"pending"} THEN "open"
          ELSE IF s = {"approved"} THEN "approved"
          ELSE IF s = {"redeemed"} THEN "used" ELSE "closed"

Ticket == INSTANCE LoginTicket
  WITH Ticket <- Attempt, stage <- [i \in Attempt |-> StageOf(i)], opened <- opened

\* Every login attempt goes through the life of a ticket: issued, approved and
\* used once, in this order, and over when denied, replaced, expired or deleted.
ImplementsTicket == Ticket!Spec
=============================================================================

----------------------------- MODULE LoginProofs -----------------------------
(***************************************************************************)
(* What the server's side of browser sign-in keeps for any number of       *)
(* users, pages, attempts and codes, whatever the pages, the agents and    *)
(* the network do: one live code per user, sessions that are earned,       *)
(* failures that are explained, and that each attempt is a LoginTicket.    *)
(***************************************************************************)
EXTENDS LoginPage, TLAPS

\* What a row says of itself.
Coherent(a) ==
  /\ a.approvedBy \in {NoUser, a.user}
  /\ a.redeemed => a.approvedBy = a.user /\ ~a.denied /\ a.failure \in {"none", "replayed"}
  /\ a.denied <=> a.failure = "denied"
  /\ a.denied => a.approvedBy = NoUser
  /\ a.failure = "superseded" => a.expired /\ ~a.redeemed

\* An id names one row, and was given out before.
KnownById ==
  /\ \A a \in attempts : a.id \in issued
  /\ \A a, b \in attempts : a.id = b.id => a = b

\* The inductive invariant.
SInv ==
  /\ ServerTypeOK
  /\ KnownById
  /\ \A a \in attempts : Coherent(a)
  /\ OneLiveCode
  /\ SessionsAreEarned

\* What the pages, the agents and the rest can make the server do.
ServerStep ==
  \/ \E u \in User, i \in Attempt, c \in Code : Start(u, i, c)
  \/ \E u \in User, i \in Attempt \cup {NoAttempt}, c \in Code, t \in BOOLEAN : Approve(u, i, c, t)
  \/ \E u \in User, i \in Attempt \cup {NoAttempt}, c \in Code : Deny(u, i, c)
  \/ \E a \in attempts : Redeem(a) \/ RedeemRefused(a)
  \/ \E i \in Attempt : AttemptExpires(i)
  \/ \E cookie : Revoke(cookie)
  \/ \E u \in User : DeleteUser(u)

USE LoginAssumption DEF LoginAssumption

\* Every step of the pages and of the world is one of these or leaves the
\* server alone.
LEMMA OnlyServerSteps ==
  ASSUME SInv, [Next]_vars
  PROVE  ServerStep \/ UNCHANGED serverVars
<1>1. CASE UNCHANGED vars
  BY <1>1 DEF vars
<1>2. ASSUME NEW p \in Page, Submit(p) \/ Reset(p) \/ Continue(p) \/ Poll(p) \/ Logout(p) \/ Reload(p)
      PROVE  UNCHANGED serverVars
  BY <1>2 DEF Submit, Reset, Continue, Poll, Logout, Reload
<1>3. ASSUME NEW q \in net, Read(q) \/ Lose(q) \/ RefuseStart(q) \/ ServePoll(q) \/ ServeMe(q)
      PROVE  UNCHANGED serverVars
  BY <1>3 DEF Read, StartAnswered, PollAnswered, RedeemAnswered, MeAnswered, LogoutAnswered,
              Lose, RefuseStart, ServePoll, ServeMe
<1>4. ASSUME NEW q \in net, NEW i \in Attempt, NEW c \in Code, ServeStart(q, i, c)
      PROVE  ServerStep
  <2>1. Start(UserOf[q.page], i, c) /\ UserOf[q.page] \in User
    BY <1>4 DEF ServeStart, Start, SInv, ServerTypeOK
  <2> QED  BY <2>1 DEF ServerStep
<1>5. ASSUME NEW q \in net, NEW t \in BOOLEAN, ServeRedeem(q, t)
      PROVE  ServerStep \/ UNCHANGED serverVars
  <2>1. UNCHANGED serverVars \/ \E a \in RowOf(q.attempt, q.token) : Redeem(a) \/ RedeemRefused(a)
    BY <1>5 DEF ServeRedeem
  <2> QED  BY <2>1 DEF RowOf, ServerStep
<1>6. ASSUME NEW q \in net, ServeLogout(q)
      PROVE  ServerStep
  <2>1. Revoke(q.attempt)
    BY <1>6 DEF ServeLogout
  <2> QED  BY <2>1 DEF ServerStep
<1>7. ASSUME AgentNext PROVE ServerStep
  BY <1>7 DEF AgentNext, ServerStep, SessionExpires
<1> QED
  BY <1>1, <1>2, <1>3, <1>4, <1>5, <1>6, <1>7 DEF Next, Serve

-----------------------------------------------------------------------------
(* The rows *)

\* A row that is replaced by one that says no more than it may.
LEMMA WriteKeepsSInv ==
  ASSUME SInv, NEW a \in attempts, NEW b \in Row, Write(a, b),
         b.id = a.id, b.user = a.user, Coherent(b),
         Live(b) => Live(a), a.redeemed => b.redeemed,
         UNCHANGED <<active, issued>>,
         sessions' \subseteq Session,
         \A s \in sessions' : s \in sessions \/ (s.attempt = b.id /\ s.user = b.user /\ b.redeemed),
         opened' \in [Attempt -> Nat]
  PROVE  SInv'
<1>1. attempts' = (attempts \ {a}) \cup {b} /\ attempts' \subseteq Row
  BY DEF Write, SInv, ServerTypeOK
<1>2. ServerTypeOK'
  BY <1>1 DEF SInv, ServerTypeOK
<1>3. KnownById'
  BY <1>1 DEF SInv, KnownById
<1>4. \A d \in attempts' : Coherent(d)
  BY <1>1 DEF SInv
<1>5. OneLiveCode'
  BY <1>1 DEF SInv, OneLiveCode, Live, Status
<1>6. SessionsAreEarned'
  <2> SUFFICES ASSUME NEW s \in sessions'
               PROVE  \E d \in attempts' : d.id = s.attempt /\ d.user = s.user /\ d.approvedBy = s.user
                                             /\ d.redeemed /\ ~d.denied
    BY DEF SessionsAreEarned
  <2>1. CASE s.attempt = b.id /\ s.user = b.user /\ b.redeemed
    BY <2>1, <1>1 DEF Coherent
  <2>2. CASE s \in sessions
    <3>1. PICK d \in attempts : d.id = s.attempt /\ d.user = s.user /\ d.approvedBy = s.user
                                  /\ d.redeemed /\ ~d.denied
      BY <2>2 DEF SInv, SessionsAreEarned
    <3>2. CASE d = a
      BY <3>1, <3>2, <1>1 DEF Coherent
    <3>3. CASE d # a
      BY <3>1, <3>3, <1>1
    <3> QED  BY <3>2, <3>3
  <2> QED  BY <2>1, <2>2
<1> QED  BY <1>2, <1>3, <1>4, <1>5, <1>6 DEF SInv

\* A new code takes the place of the live ones of its user.
LEMMA StartKeepsSInv ==
  ASSUME SInv, NEW u \in User, NEW i \in Attempt, NEW c \in Code, Start(u, i, c)
  PROVE  SInv'
<1> DEFINE new == [id |-> i, user |-> u, code |-> c, approvedBy |-> NoUser, denied |-> FALSE,
                   redeemed |-> FALSE, expired |-> FALSE, failure |-> "none"]
           over(a) == IF a.user = u /\ Live(a)
                      THEN [a EXCEPT !.expired = TRUE, !.failure = "superseded"] ELSE a
<1>1. /\ attempts' = {over(a) : a \in attempts} \cup {new}
      /\ i \notin issued /\ issued' = issued \cup {i}
      /\ UNCHANGED <<active, sessions, opened>>
  BY DEF Start, Superseded
<1>2. /\ new \in Row /\ new.id = i /\ new.user = u /\ Coherent(new)
      /\ new.approvedBy = NoUser
  BY DEF Row, Coherent
<1>3. ASSUME NEW a \in attempts
      PROVE  /\ over(a) \in Row /\ over(a).id = a.id /\ over(a).user = a.user
             /\ Coherent(over(a))
             /\ Live(over(a)) => over(a) = a /\ a.user # u
             /\ a.redeemed => over(a) = a
  <2>1. a \in Row /\ Coherent(a)
    BY DEF SInv, ServerTypeOK
  <2>2. CASE a.user = u /\ Live(a)
    <3>1. over(a) = [a EXCEPT !.expired = TRUE, !.failure = "superseded"] /\ ~a.redeemed /\ ~a.denied
      BY <2>2 DEF Live, Status
    <3> QED  BY <2>1, <3>1 DEF Row, Coherent, Live, Status
  <2>3. CASE ~(a.user = u /\ Live(a))
    <3>1. over(a) = a
      BY <2>3
    <3> HIDE DEF over
    <3> QED  BY <2>1, <2>3, <3>1
  <2> QED  BY <2>2, <2>3
<1> HIDE DEF new, over
<1>4. ServerTypeOK'
  BY <1>1, <1>2, <1>3 DEF SInv, ServerTypeOK
<1>5. KnownById'
  BY <1>1, <1>2, <1>3 DEF SInv, KnownById
<1>6. \A d \in attempts' : Coherent(d)
  BY <1>1, <1>2, <1>3
<1>7. OneLiveCode'
  <2> SUFFICES ASSUME NEW d \in attempts', NEW e \in attempts', Live(d), Live(e), d.user = e.user
               PROVE  d = e
    BY DEF OneLiveCode, Live, Status
  <2>1. \A f \in attempts' : Live(f) => f = new \/ (f \in attempts /\ f.user # u)
    BY <1>1, <1>3
  <2> QED  BY <2>1, <1>2 DEF SInv, OneLiveCode
<1>8. SessionsAreEarned'
  BY <1>1, <1>3 DEF SInv, SessionsAreEarned
<1> QED  BY <1>4, <1>5, <1>6, <1>7, <1>8 DEF SInv

\* The row a code means is one of the user's.
LEMMA ResolvedIsOwn ==
  ASSUME NEW u, NEW i, NEW c, NEW a \in Resolved(u, i, c)
  PROVE  a \in attempts /\ a.user = u
BY DEF Resolved

\* An approval writes the user of the row, and only to a pending one.
LEMMA ApproveKeepsSInv ==
  ASSUME SInv, NEW u \in User, NEW i, NEW c, NEW t \in BOOLEAN, Approve(u, i, c, t)
  PROVE  SInv'
<1>1. PICK a \in Resolved(u, i, c) :
        \/ Status(a) \in {"redeemed", "approved"} /\ Replayed(a)
        \/ /\ Status(a) = "pending"
           /\ IF t THEN Throttled(a)
              ELSE Write(a, [a EXCEPT !.approvedBy = u, !.failure = "none"])
  BY DEF Approve
<1>2. /\ a \in attempts /\ a \in Row /\ a.user = u /\ Coherent(a)
      /\ UNCHANGED <<active, issued, sessions, opened>>
  BY ResolvedIsOwn DEF Approve, SInv, ServerTypeOK
<1>3. sessions' \subseteq Session /\ opened' \in [Attempt -> Nat]
  BY <1>2 DEF SInv, ServerTypeOK
<1>4. CASE Status(a) \in {"redeemed", "approved"} /\ Replayed(a)
  <2> DEFINE b == [a EXCEPT !.failure = "replayed"]
  <2>1. Write(a, b)
    BY <1>4 DEF Replayed
  <2>2. b \in Row /\ b.id = a.id /\ b.user = a.user /\ Coherent(b)
        /\ Live(b) = Live(a) /\ b.redeemed = a.redeemed
    BY <1>2, <1>4 DEF Row, Coherent, Live, Status
  <2> HIDE DEF b
  <2> QED  BY <1>2, <1>3, <2>1, <2>2, WriteKeepsSInv
<1>5. CASE Status(a) = "pending" /\ Throttled(a)
  <2> DEFINE b == [a EXCEPT !.failure = "rate_limited"]
  <2>1. Write(a, b)
    BY <1>5 DEF Throttled
  <2>2. b \in Row /\ b.id = a.id /\ b.user = a.user /\ Coherent(b)
        /\ Live(b) = Live(a) /\ b.redeemed = a.redeemed
    BY <1>2, <1>5 DEF Row, Coherent, Live, Status
  <2> HIDE DEF b
  <2> QED  BY <1>2, <1>3, <2>1, <2>2, WriteKeepsSInv
<1>6. CASE Status(a) = "pending" /\ Write(a, [a EXCEPT !.approvedBy = u, !.failure = "none"])
  <2> DEFINE b == [a EXCEPT !.approvedBy = u, !.failure = "none"]
  <2>1. Write(a, b)
    BY <1>6
  <2>2. b \in Row /\ b.id = a.id /\ b.user = a.user /\ Coherent(b)
        /\ Live(a) /\ b.redeemed = a.redeemed
    BY <1>2, <1>6 DEF Row, Coherent, Live, Status
  <2> HIDE DEF b
  <2> QED  BY <1>2, <1>3, <2>1, <2>2, WriteKeepsSInv
<1> QED  BY <1>1, <1>4, <1>5, <1>6

\* A denial finds a row nobody approved.
LEMMA DenyKeepsSInv ==
  ASSUME SInv, NEW u, NEW i, NEW c, Deny(u, i, c)
  PROVE  SInv'
<1>1. PICK a \in Resolved(u, i, c) :
        Status(a) = "pending" /\ Write(a, [a EXCEPT !.denied = TRUE, !.failure = "denied"])
  BY DEF Deny
<1>2. /\ a \in attempts /\ a \in Row /\ Coherent(a)
      /\ UNCHANGED <<active, issued, sessions, opened>>
  BY ResolvedIsOwn DEF Deny, SInv, ServerTypeOK
<1>3. sessions' \subseteq Session /\ opened' \in [Attempt -> Nat]
  BY <1>2 DEF SInv, ServerTypeOK
<1> DEFINE b == [a EXCEPT !.denied = TRUE, !.failure = "denied"]
<1>4. Write(a, b)
  BY <1>1
<1>5. b \in Row /\ b.id = a.id /\ b.user = a.user /\ Coherent(b) /\ Live(a) /\ b.redeemed = a.redeemed
  BY <1>1, <1>2 DEF Row, Coherent, Live, Status
<1> HIDE DEF b
<1> QED  BY <1>2, <1>3, <1>4, <1>5, WriteKeepsSInv

\* The session of a redemption names the row that is used up.
LEMMA RedeemKeepsSInv ==
  ASSUME SInv, NEW a \in attempts, Redeem(a)
  PROVE  SInv'
<1> DEFINE b == [a EXCEPT !.redeemed = TRUE, !.failure = "none"]
<1>1. /\ Status(a) = "approved" /\ Write(a, b) /\ UNCHANGED <<active, issued>>
      /\ sessions' = sessions \cup {[attempt |-> a.id, user |-> a.user]}
      /\ opened' = [opened EXCEPT ![a.id] = @ + 1]
  BY DEF Redeem
<1>2. a \in Row /\ Coherent(a)
  BY DEF SInv, ServerTypeOK
<1>3. b \in Row /\ b.id = a.id /\ b.user = a.user /\ Coherent(b) /\ Live(a) /\ b.redeemed
  BY <1>1, <1>2 DEF Row, Coherent, Live, Status
<1> HIDE DEF b
<1>4. /\ sessions' \subseteq Session
      /\ \A s \in sessions' : s \in sessions \/ (s.attempt = b.id /\ s.user = b.user /\ b.redeemed)
  BY <1>1, <1>2, <1>3 DEF Session, Row, SInv, ServerTypeOK
<1>5. opened' \in [Attempt -> Nat]
  BY <1>1, <1>2 DEF Row, SInv, ServerTypeOK
<1> QED  BY <1>1, <1>3, <1>4, <1>5, WriteKeepsSInv

\* The row is marked or left as it is; its status stays.
LEMMA RedeemRefusedKeepsSInv ==
  ASSUME SInv, NEW a \in attempts, RedeemRefused(a)
  PROVE  SInv'
<1>1. UNCHANGED <<active, issued, sessions, opened>>
  BY DEF RedeemRefused
<1>2. a \in Row /\ Coherent(a) /\ sessions' \subseteq Session /\ opened' \in [Attempt -> Nat]
  BY <1>1 DEF SInv, ServerTypeOK
<1>3. CASE Status(a) = "redeemed" /\ Replayed(a)
  <2> DEFINE b == [a EXCEPT !.failure = "replayed"]
  <2>1. Write(a, b)
    BY <1>3 DEF Replayed
  <2>2. b \in Row /\ b.id = a.id /\ b.user = a.user /\ Coherent(b)
        /\ Live(b) = Live(a) /\ b.redeemed = a.redeemed
    BY <1>2, <1>3 DEF Row, Coherent, Live, Status
  <2> HIDE DEF b
  <2> QED  BY <1>1, <1>2, <2>1, <2>2, WriteKeepsSInv
<1>4. CASE Status(a) = "approved" /\ Throttled(a)
  <2> DEFINE b == [a EXCEPT !.failure = "rate_limited"]
  <2>1. Write(a, b)
    BY <1>4 DEF Throttled
  <2>2. b \in Row /\ b.id = a.id /\ b.user = a.user /\ Coherent(b)
        /\ Live(b) = Live(a) /\ b.redeemed = a.redeemed
    BY <1>2, <1>4 DEF Row, Coherent, Live, Status
  <2> HIDE DEF b
  <2> QED  BY <1>1, <1>2, <2>1, <2>2, WriteKeepsSInv
<1>5. CASE UNCHANGED attempts
  BY <1>1, <1>5 DEF SInv, ServerTypeOK, KnownById, Coherent, OneLiveCode, Live, Status, SessionsAreEarned
<1> QED  BY <1>3, <1>4, <1>5 DEF RedeemRefused

\* What expires was not redeemed.
LEMMA AttemptExpiresKeepsSInv ==
  ASSUME SInv, NEW i, AttemptExpires(i)
  PROVE  SInv'
<1>1. PICK a \in attempts : ~a.expired /\ ~a.redeemed /\ Write(a, [a EXCEPT !.expired = TRUE])
  BY DEF AttemptExpires
<1>2. /\ a \in Row /\ Coherent(a) /\ UNCHANGED <<active, issued, sessions, opened>>
      /\ sessions' \subseteq Session /\ opened' \in [Attempt -> Nat]
  BY DEF AttemptExpires, SInv, ServerTypeOK
<1> DEFINE b == [a EXCEPT !.expired = TRUE]
<1>3. b \in Row /\ b.id = a.id /\ b.user = a.user /\ Coherent(b) /\ ~Live(b) /\ b.redeemed = a.redeemed
  BY <1>1, <1>2 DEF Row, Coherent, Live, Status
<1>4. Write(a, b)
  BY <1>1
<1> HIDE DEF b
<1> QED  BY <1>2, <1>3, <1>4, WriteKeepsSInv

\* What is deleted takes its sessions with it.
LEMMA DeleteUserKeepsSInv ==
  ASSUME SInv, NEW u, DeleteUser(u)
  PROVE  SInv'
<1>1. /\ active' = active \ {u} /\ UNCHANGED <<issued, opened>>
      /\ attempts' = {a \in attempts : a.user # u}
      /\ sessions' = {s \in sessions : s.user # u}
  BY DEF DeleteUser
<1>2. ServerTypeOK' /\ KnownById' /\ \A a \in attempts' : Coherent(a)
  BY <1>1 DEF SInv, ServerTypeOK, KnownById
<1>3. OneLiveCode'
  BY <1>1 DEF SInv, OneLiveCode, Live, Status
<1>4. SessionsAreEarned'
  BY <1>1 DEF SInv, SessionsAreEarned
<1> QED  BY <1>2, <1>3, <1>4 DEF SInv, Coherent

\* Every step of the server keeps the invariant.
LEMMA ServerStepKeepsSInv ==
  ASSUME SInv, ServerStep \/ UNCHANGED serverVars
  PROVE  SInv'
<1>1. CASE UNCHANGED serverVars
  BY <1>1 DEF serverVars, SInv, ServerTypeOK, KnownById, Coherent, OneLiveCode, Live, Status,
              SessionsAreEarned
<1>2. ASSUME NEW cookie, Revoke(cookie)
      PROVE  SInv'
  <2>1. sessions' \subseteq sessions /\ UNCHANGED <<active, attempts, issued, opened>>
    BY <1>2 DEF Revoke
  <2> QED  BY <2>1 DEF SInv, ServerTypeOK, KnownById, Coherent, OneLiveCode, Live, Status,
                      SessionsAreEarned
<1> QED
  BY <1>1, <1>2, StartKeepsSInv, ApproveKeepsSInv, DenyKeepsSInv, RedeemKeepsSInv,
     RedeemRefusedKeepsSInv, AttemptExpiresKeepsSInv, DeleteUserKeepsSInv DEF ServerStep

\* The invariant of every behaviour.
LEMMA SInvHolds == Spec => []SInv
<1>1. Init => SInv
  BY DEF Init, ServerInit, SInv, ServerTypeOK, KnownById, OneLiveCode, SessionsAreEarned
<1>2. SInv /\ [Next]_vars => SInv'
  BY OnlyServerSteps, ServerStepKeepsSInv
<1> QED  BY <1>1, <1>2, PTL DEF Spec

-----------------------------------------------------------------------------
(* The theorems on the server's rows *)

\* However starts, approvals, denials, redemptions and deletions interleave, a
\* user has one live code, so that a code alone names one attempt at most.
THEOREM CodesAreUnique == Spec => []OneLiveCode
<1>1. SInv => OneLiveCode
  BY DEF SInv
<1> QED  BY <1>1, SInvHolds, PTL

\* Every session rests on an attempt that an agent of its user had approved and
\* nobody had denied, and that was used up by it.
THEOREM SessionsComeFromApproval == Spec => []SessionsAreEarned
<1>1. SInv => SessionsAreEarned
  BY DEF SInv
<1> QED  BY <1>1, SInvHolds, PTL

\* The failure that diagnostics show agrees with what became of the attempt.
THEOREM DiagnosticsAreTrue == Spec => []FailureIsExplained
<1>1. SInv => FailureIsExplained
  BY DEF SInv, Coherent, FailureIsExplained, Status
<1> QED  BY <1>1, SInvHolds, PTL

-----------------------------------------------------------------------------
(* The refinement: each attempt is a ticket *)

\* The stage a row stands for.
RowStage(a) ==
  IF a.redeemed THEN "used"
  ELSE IF a.denied \/ a.expired THEN "closed"
  ELSE IF a.approvedBy # NoUser THEN "approved" ELSE "open"

\* StageOf, read off the rows: an attempt without one is over.
Stages ==
  \A i \in Attempt :
    /\ i \notin issued => StageOf(i) = "none"
    /\ \A a \in attempts : a.id = i => StageOf(i) = RowStage(a)
    /\ i \in issued /\ (\A a \in attempts : a.id # i) => StageOf(i) = "closed"

\* The ids being unique, the mapping is read off one row.
LEMMA StagesAreRows == SInv => Stages
<1> SUFFICES ASSUME SInv, NEW i \in Attempt
             PROVE  /\ i \notin issued => StageOf(i) = "none"
                    /\ \A a \in attempts : a.id = i => StageOf(i) = RowStage(a)
                    /\ i \in issued /\ (\A a \in attempts : a.id # i) => StageOf(i) = "closed"
  BY DEF Stages
<1> DEFINE s == {Status(a) : a \in {b \in attempts : b.id = i}}
<1>1. StageOf(i) = IF i \notin issued THEN "none"
                   ELSE IF s = {"pending"} THEN "open"
                   ELSE IF s = {"approved"} THEN "approved"
                   ELSE IF s = {"redeemed"} THEN "used" ELSE "closed"
  BY DEF StageOf
<1>2. ASSUME NEW a \in attempts, a.id = i
      PROVE  StageOf(i) = RowStage(a)
  <2>1. s = {Status(a)} /\ i \in issued
    BY <1>2 DEF SInv, KnownById
  <2> HIDE DEF s
  <2> QED  BY <1>1, <2>1 DEF Status, RowStage
<1>3. (\A a \in attempts : a.id # i) => s = {}
  OBVIOUS
<1> HIDE DEF s
<1> QED  BY <1>1, <1>2, <1>3

\* The abstract state before a step.
stage == [i \in Attempt |-> StageOf(i)]

\* The attempts of rows.
Ids(S) == {a.id : a \in S}

\* The mapping depends on the rows and on the ids given out.
LEMMA SameStages ==
  ASSUME SInv, SInv', UNCHANGED <<attempts, issued>>
  PROVE  stage' = stage
BY DEF stage, StageOf, Status

\* A row is replaced: its ticket moves, the others stay.
LEMMA WriteMovesOne ==
  ASSUME SInv, SInv', Stages, Stages', NEW a \in attempts, NEW b \in Row, Write(a, b), b.id = a.id,
         UNCHANGED issued
  PROVE  stage' = [stage EXCEPT ![a.id] = RowStage(b)] /\ stage[a.id] = RowStage(a) /\ a.id \in Attempt
<1>1. /\ attempts' = (attempts \ {a}) \cup {b} /\ a.id \in Attempt /\ a.id \in issued
      /\ \A d \in attempts : d.id = a.id => d = a
  BY DEF Write, SInv, ServerTypeOK, KnownById, Row
<1>2. ASSUME NEW i \in Attempt
      PROVE  StageOf(i)' = IF i = a.id THEN RowStage(b) ELSE StageOf(i)
  <2>1. CASE i = a.id
    BY <1>1, <2>1 DEF Stages, RowStage
  <2>2. CASE i # a.id /\ i \notin issued
    BY <1>1, <2>2 DEF Stages
  <2>3. CASE i # a.id /\ i \in issued /\ \E d \in attempts : d.id = i
    <3>1. PICK d \in attempts : d.id = i
      BY <2>3
    <3>2. d \in attempts'
      BY <3>1, <2>3, <1>1
    <3> QED  BY <3>1, <3>2, <2>3 DEF Stages, RowStage
  <2>4. CASE i # a.id /\ i \in issued /\ \A d \in attempts : d.id # i
    <3>1. \A d \in attempts' : d.id # i
      BY <2>4, <1>1
    <3> QED  BY <3>1, <2>4 DEF Stages
  <2> QED  BY <2>1, <2>2, <2>3, <2>4
<1>3. stage' = [stage EXCEPT ![a.id] = RowStage(b)]
  BY <1>1, <1>2 DEF stage
<1>4. stage[a.id] = RowStage(a)
  BY <1>1 DEF stage, Stages
<1> QED  BY <1>1, <1>3, <1>4

\* A new code is issued, and those it replaces are closed.
LEMMA StartIssues ==
  ASSUME SInv, SInv', Stages, Stages', NEW u \in User, NEW i \in Attempt, NEW c \in Code, Start(u, i, c)
  PROVE  \E S \in SUBSET Attempt : Ticket!Issue(i, S)
<1> DEFINE S == Ids({a \in attempts : a.user = u /\ Live(a)})
           new == [id |-> i, user |-> u, code |-> c, approvedBy |-> NoUser, denied |-> FALSE,
                   redeemed |-> FALSE, expired |-> FALSE, failure |-> "none"]
           over(a) == IF a.user = u /\ Live(a)
                      THEN [a EXCEPT !.expired = TRUE, !.failure = "superseded"] ELSE a
<1>1. /\ attempts' = {over(a) : a \in attempts} \cup {new}
      /\ i \notin issued /\ issued' = issued \cup {i} /\ opened' = opened
  BY DEF Start, Superseded
<1>2. ASSUME NEW a \in attempts
      PROVE  /\ a \in Row /\ a.id \in issued /\ a.id \in Attempt /\ over(a).id = a.id
             /\ Live(a) => RowStage(a) \in {"open", "approved"}
             /\ RowStage(over(a)) = IF a.user = u /\ Live(a) THEN "closed" ELSE RowStage(a)
             /\ a.id \in S <=> (a.user = u /\ Live(a))
  <2>1. /\ a \in Row /\ a.id \in issued /\ a.id \in Attempt
        /\ a.id \in S <=> (a.user = u /\ Live(a))
    BY DEF SInv, ServerTypeOK, KnownById, Row, Ids
  <2>2. Live(a) => RowStage(a) \in {"open", "approved"} /\ ~a.redeemed /\ ~a.denied
    BY DEF Live, Status, RowStage
  <2>3. over(a).id = a.id /\ RowStage(over(a)) = IF a.user = u /\ Live(a) THEN "closed" ELSE RowStage(a)
    <3>1. CASE a.user = u /\ Live(a)
      <4>1. over(a) = [a EXCEPT !.expired = TRUE, !.failure = "superseded"]
        BY <3>1
      <4> HIDE DEF over
      <4> QED  BY <2>1, <2>2, <3>1, <4>1 DEF RowStage, Row
    <3>2. CASE ~(a.user = u /\ Live(a))
      BY <3>2
    <3> QED  BY <3>1, <3>2
  <2> QED  BY <2>1, <2>2, <2>3
<1>3. S \subseteq Attempt /\ i \notin S
  BY <1>1, <1>2 DEF Ids
<1>4. new.id = i /\ RowStage(new) = "open"
  BY DEF RowStage
<1>5. ASSUME NEW j \in S PROVE StageOf(j) \in {"open", "approved"}
  <2>1. PICK a \in attempts : a.user = u /\ Live(a) /\ a.id = j
    BY DEF Ids
  <2>2. StageOf(j) = RowStage(a) /\ RowStage(a) \in {"open", "approved"}
    BY <2>1, <1>2 DEF Stages
  <2> QED  BY <2>2
<1>6. StageOf(i) = "none"
  BY <1>1 DEF Stages
<1> HIDE DEF S, new, over
<1>7. ASSUME NEW j \in Attempt
      PROVE  StageOf(j)' = IF j = i THEN "open" ELSE IF j \in S THEN "closed" ELSE StageOf(j)
  <2>1. CASE j = i
    <3>1. new \in attempts'
      BY <1>1
    <3> QED  BY <2>1, <3>1, <1>4 DEF Stages, RowStage
  <2>2. CASE j # i /\ j \notin issued
    BY <2>2, <1>1, <1>5 DEF Stages
  <2>3. CASE j # i /\ \E a \in attempts : a.id = j
    <3>1. PICK a \in attempts : a.id = j
      BY <2>3
    <3>2. over(a) \in attempts' /\ over(a).id = j
      BY <3>1, <1>1, <1>2
    <3>3. StageOf(j)' = RowStage(over(a))
      BY <3>2 DEF Stages, RowStage
    <3> QED  BY <3>1, <3>3, <2>3, <1>2 DEF Stages
  <2>4. CASE j # i /\ j \in issued /\ \A a \in attempts : a.id # j
    <3>1. \A d \in attempts' : d.id # j
      BY <2>4, <1>1, <1>2, <1>4
    <3>2. j \notin S
      BY <2>4 DEF S, Ids
    <3> QED  BY <3>1, <3>2, <2>4, <1>1 DEF Stages
  <2> QED  BY <2>1, <2>2, <2>3, <2>4
<1>8. Ticket!Issue(i, S)
  BY <1>1, <1>3, <1>5, <1>6, <1>7 DEF Ticket!Issue, Ticket!Closable, Ticket!Closing
<1> QED  BY <1>3, <1>8

\* The tickets of a deleted user end, used ones included.
LEMMA DeletionCloses ==
  ASSUME SInv, SInv', Stages, Stages', NEW u, DeleteUser(u)
  PROVE  \E S \in SUBSET Attempt : Ticket!Close(S)
<1> DEFINE S == {i \in Ids({a \in attempts : a.user = u}) : StageOf(i) # "closed"}
<1>1. attempts' = {a \in attempts : a.user # u} /\ UNCHANGED <<issued, opened>>
  BY DEF DeleteUser
<1>2. \A a \in attempts : a.id \in issued /\ a.id \in Attempt /\ StageOf(a.id) = RowStage(a)
  BY DEF SInv, KnownById, ServerTypeOK, Row, Stages
<1>3. S \subseteq Attempt /\ \A i \in S : StageOf(i) \notin {"none", "closed"}
  BY <1>2 DEF Ids, RowStage
<1>4. ASSUME NEW i \in Attempt
      PROVE  StageOf(i)' = IF i \in S THEN "closed" ELSE StageOf(i)
  <2>1. CASE i \notin issued
    BY <2>1, <1>1, <1>3 DEF Stages
  <2>2. CASE i \in issued /\ \E a \in attempts : a.id = i /\ a.user # u
    <3>1. PICK a \in attempts : a.id = i /\ a.user # u
      BY <2>2
    <3>2. a \in attempts' /\ i \notin S
      BY <3>1, <1>1 DEF Ids, SInv, KnownById
    <3> QED  BY <3>1, <3>2 DEF Stages, RowStage
  <2>3. CASE i \in issued /\ \A a \in attempts : a.id = i => a.user = u
    <3>1. StageOf(i)' = "closed"
      BY <2>3, <1>1 DEF Stages
    <3>2. i \notin S => StageOf(i) = "closed"
      BY <2>3 DEF Ids, Stages
    <3> QED  BY <3>1, <3>2
  <2> QED  BY <2>1, <2>2, <2>3
<1> HIDE DEF S
<1>5. Ticket!Close(S)
  BY <1>1, <1>3, <1>4 DEF Ticket!Close, Ticket!Closable, Ticket!Closing
<1> QED  BY <1>3, <1>5

\* A row that keeps its stage leaves the tickets alone, and one that is closed
\* closes its ticket.
LEMMA RowIsClosed ==
  ASSUME SInv, SInv', Stages, Stages', NEW a \in attempts, NEW b \in Row, Write(a, b), b.id = a.id,
         UNCHANGED <<issued, opened>>,
         RowStage(b) = RowStage(a) \/ (RowStage(a) \in {"open", "approved"} /\ RowStage(b) = "closed")
  PROVE  (\E S \in SUBSET Attempt : Ticket!Close(S)) \/ UNCHANGED Ticket!vars
<1>1. stage' = [stage EXCEPT ![a.id] = RowStage(b)] /\ stage[a.id] = RowStage(a) /\ a.id \in Attempt
  BY WriteMovesOne
<1>2. CASE RowStage(b) = RowStage(a)
  <2>1. stage' = stage
    BY <1>1, <1>2 DEF stage
  <2> QED  BY <2>1 DEF stage, Ticket!vars
<1>3. CASE RowStage(a) \in {"open", "approved"} /\ RowStage(b) = "closed"
  <2>1. Ticket!Close({a.id})
    BY <1>1, <1>3 DEF stage, Ticket!Close, Ticket!Closable, Ticket!Closing
  <2> QED  BY <2>1, <1>1
<1> QED  BY <1>2, <1>3

\* Each step of the server is a step of LoginTicket or a stutter.
LEMMA ServerStepIsTicketStep ==
  ASSUME SInv, SInv', Stages, Stages', ServerStep \/ UNCHANGED serverVars
  PROVE  [Ticket!Next]_Ticket!vars
<1>1. ASSUME NEW u \in User, NEW i \in Attempt, NEW c \in Code, Start(u, i, c)
      PROVE  Ticket!Next
  BY <1>1, StartIssues DEF Ticket!Next
<1>2. ASSUME NEW u \in User, NEW i \in Attempt \cup {NoAttempt}, NEW c \in Code, NEW t \in BOOLEAN,
             Approve(u, i, c, t)
      PROVE  [Ticket!Next]_Ticket!vars
  <2>1. PICK a \in Resolved(u, i, c) :
          \/ Status(a) \in {"redeemed", "approved"} /\ Replayed(a)
          \/ /\ Status(a) = "pending"
             /\ IF t THEN Throttled(a)
                ELSE Write(a, [a EXCEPT !.approvedBy = u, !.failure = "none"])
    BY <1>2 DEF Approve
  <2>2. a \in attempts /\ a \in Row /\ UNCHANGED <<issued, opened>>
    BY <1>2, ResolvedIsOwn DEF Approve, SInv, ServerTypeOK
  <2>3. ASSUME NEW f \in {"replayed", "rate_limited"}, Write(a, [a EXCEPT !.failure = f])
        PROVE  [Ticket!Next]_Ticket!vars
    <3> DEFINE b == [a EXCEPT !.failure = f]
    <3>1. b \in Row /\ b.id = a.id /\ RowStage(b) = RowStage(a) /\ Write(a, b)
      BY <2>2, <2>3 DEF Row, RowStage
    <3> HIDE DEF b
    <3> QED  BY <3>1, <2>2, RowIsClosed DEF Ticket!Next
  <2>4. CASE Status(a) = "pending" /\ Write(a, [a EXCEPT !.approvedBy = u, !.failure = "none"])
    <3> DEFINE b == [a EXCEPT !.approvedBy = u, !.failure = "none"]
    <3>1. b \in Row /\ b.id = a.id /\ RowStage(a) = "open" /\ RowStage(b) = "approved" /\ Write(a, b)
      BY <2>2, <2>4 DEF Row, RowStage, Status
    <3> HIDE DEF b
    <3>2. stage' = [stage EXCEPT ![a.id] = RowStage(b)] /\ stage[a.id] = RowStage(a) /\ a.id \in Attempt
      BY <3>1, <2>2, WriteMovesOne
    <3>3. Ticket!Approve(a.id)
      BY <3>1, <3>2, <2>2 DEF stage, Ticket!Approve
    <3> QED  BY <3>2, <3>3 DEF Ticket!Next
  <2> QED  BY <2>1, <2>3, <2>4 DEF Replayed, Throttled
<1>3. ASSUME NEW u \in User, NEW i \in Attempt \cup {NoAttempt}, NEW c \in Code, Deny(u, i, c)
      PROVE  [Ticket!Next]_Ticket!vars
  <2>1. PICK a \in Resolved(u, i, c) :
          Status(a) = "pending" /\ Write(a, [a EXCEPT !.denied = TRUE, !.failure = "denied"])
    BY <1>3 DEF Deny
  <2>2. a \in attempts /\ a \in Row /\ UNCHANGED <<issued, opened>>
    BY <1>3, ResolvedIsOwn DEF Deny, SInv, ServerTypeOK
  <2> DEFINE b == [a EXCEPT !.denied = TRUE, !.failure = "denied"]
  <2>3. b \in Row /\ b.id = a.id /\ RowStage(a) = "open" /\ RowStage(b) = "closed" /\ Write(a, b)
    BY <2>1, <2>2 DEF Row, RowStage, Status
  <2> HIDE DEF b
  <2> QED  BY <2>2, <2>3, RowIsClosed DEF Ticket!Next
<1>4. ASSUME NEW a \in attempts, Redeem(a)
      PROVE  Ticket!Next
  <2> DEFINE b == [a EXCEPT !.redeemed = TRUE, !.failure = "none"]
  <2>1. /\ a \in Row /\ Status(a) = "approved" /\ Write(a, b) /\ issued' = issued
        /\ opened' = [opened EXCEPT ![a.id] = @ + 1]
    BY <1>4 DEF Redeem, SInv, ServerTypeOK
  <2>2. b \in Row /\ b.id = a.id /\ RowStage(a) = "approved" /\ RowStage(b) = "used"
    BY <2>1 DEF Row, RowStage, Status
  <2> HIDE DEF b
  <2>3. stage' = [stage EXCEPT ![a.id] = RowStage(b)] /\ stage[a.id] = RowStage(a) /\ a.id \in Attempt
    BY <2>1, <2>2, WriteMovesOne
  <2>4. Ticket!Use(a.id)
    BY <2>1, <2>2, <2>3 DEF stage, Ticket!Use
  <2> QED  BY <2>3, <2>4 DEF Ticket!Next
<1>5. ASSUME NEW a \in attempts, RedeemRefused(a)
      PROVE  [Ticket!Next]_Ticket!vars
  <2>1. a \in Row /\ UNCHANGED <<issued, opened>>
    BY <1>5 DEF RedeemRefused, SInv, ServerTypeOK
  <2>2. ASSUME NEW f \in {"replayed", "rate_limited"}, Write(a, [a EXCEPT !.failure = f])
        PROVE  [Ticket!Next]_Ticket!vars
    <3> DEFINE b == [a EXCEPT !.failure = f]
    <3>1. b \in Row /\ b.id = a.id /\ RowStage(b) = RowStage(a) /\ Write(a, b)
      BY <2>1, <2>2 DEF Row, RowStage
    <3> HIDE DEF b
    <3> QED  BY <3>1, <2>1, RowIsClosed DEF Ticket!Next
  <2>3. CASE UNCHANGED attempts
    BY <2>1, <2>3, SameStages DEF stage, Ticket!vars
  <2> QED  BY <1>5, <2>2, <2>3 DEF RedeemRefused, Replayed, Throttled
<1>6. ASSUME NEW i \in Attempt, AttemptExpires(i)
      PROVE  [Ticket!Next]_Ticket!vars
  <2>1. PICK a \in attempts : ~a.expired /\ ~a.redeemed /\ Write(a, [a EXCEPT !.expired = TRUE])
    BY <1>6 DEF AttemptExpires
  <2>2. a \in Row /\ UNCHANGED <<issued, opened>>
    BY <1>6 DEF AttemptExpires, SInv, ServerTypeOK
  <2> DEFINE b == [a EXCEPT !.expired = TRUE]
  <2>3. /\ b \in Row /\ b.id = a.id /\ RowStage(b) = "closed" /\ Write(a, b)
        /\ RowStage(a) \in {"open", "approved", "closed"}
    BY <2>1, <2>2 DEF Row, RowStage
  <2> HIDE DEF b
  <2> QED  BY <2>2, <2>3, RowIsClosed DEF Ticket!Next
<1>7. ASSUME NEW u \in User, DeleteUser(u)
      PROVE  Ticket!Next
  BY <1>7, DeletionCloses DEF Ticket!Next
<1>8. ASSUME NEW cookie, Revoke(cookie)
      PROVE  UNCHANGED Ticket!vars
  <2>1. UNCHANGED <<attempts, issued, opened>>
    BY <1>8 DEF Revoke
  <2> QED  BY <2>1, SameStages DEF stage, Ticket!vars
<1>9. CASE UNCHANGED serverVars
  BY <1>9, SameStages DEF stage, serverVars, Ticket!vars
<1> QED
  BY <1>1, <1>2, <1>3, <1>4, <1>5, <1>6, <1>7, <1>8, <1>9 DEF ServerStep

\* Every login attempt goes through the life of a ticket, whatever the pages,
\* the agents, the network and the administrator do.
THEOREM LoginImplementsTicket == Spec => ImplementsTicket
<1>1. Init => Ticket!Init
  BY DEF Init, ServerInit, Ticket!Init, StageOf
<1>2. SInv => Stages
  BY StagesAreRows
<1>3. SInv /\ SInv' /\ Stages /\ Stages' /\ [Next]_vars => [Ticket!Next]_Ticket!vars
  BY OnlyServerSteps, ServerStepIsTicketStep
<1> QED  BY <1>1, <1>2, <1>3, SInvHolds, PTL DEF Spec, ImplementsTicket, Ticket!Spec

-----------------------------------------------------------------------------
(* What the tickets hand down *)

\* A ticket that has not been used has opened nothing, and none opens two.
UsedOnce ==
  \A i \in Attempt :
    /\ opened[i] \in 0 .. 1
    /\ stage[i] \in {"none", "open", "approved"} => opened[i] = 0

\* No ticket that is used or over is issued, approved or used again.
NothingReopens ==
  \A i \in Attempt : stage[i] \in {"used", "closed"} => stage'[i] \in {stage[i], "closed"}

\* Each step of a behaviour is one of the tickets, and the mapping is exact in
\* each state.
LEMMA TicketSteps == Spec => [](SInv /\ Stages) /\ [][[Ticket!Next]_Ticket!vars]_vars
<1>1. SInv => Stages
  BY StagesAreRows
<1>2. SInv /\ SInv' /\ Stages /\ Stages' /\ [Next]_vars => [Ticket!Next]_Ticket!vars
  BY OnlyServerSteps, ServerStepIsTicketStep
<1> QED  BY <1>1, <1>2, SInvHolds, PTL DEF Spec

\* A step of the tickets uses one that was approved and unused.
LEMMA TicketStepKeepsUsedOnce ==
  ASSUME UsedOnce, opened \in [Attempt -> Nat], [Ticket!Next]_Ticket!vars
  PROVE  UsedOnce'
<1> USE DEF UsedOnce
<1>1. /\ stage = [t \in Attempt |-> StageOf(t)]
      /\ stage' = [t \in Attempt |-> StageOf(t)]'
  BY DEF stage
<1>2. ASSUME NEW t \in Attempt, Ticket!Approve(t)
      PROVE  UsedOnce'
  BY <1>1, <1>2 DEF Ticket!Approve
<1>3. ASSUME NEW t \in Attempt, Ticket!Use(t)
      PROVE  UsedOnce'
  BY <1>1, <1>3 DEF Ticket!Use
<1>4. ASSUME NEW t \in Attempt, NEW S \in SUBSET Attempt, Ticket!Issue(t, S)
      PROVE  UsedOnce'
  BY <1>1, <1>4 DEF Ticket!Issue, Ticket!Closing, Ticket!Closable
<1>5. ASSUME NEW S \in SUBSET Attempt, Ticket!Close(S)
      PROVE  UsedOnce'
  BY <1>1, <1>5 DEF Ticket!Close, Ticket!Closing, Ticket!Closable
<1>6. CASE UNCHANGED Ticket!vars
  BY <1>1, <1>6 DEF Ticket!vars
<1> QED  BY <1>2, <1>3, <1>4, <1>5, <1>6 DEF Ticket!Next

\* The tickets' side of the invariant.
LEMMA UsedOnceHolds == Spec => [](SInv /\ Stages /\ UsedOnce)
<1>1. Init => UsedOnce
  BY DEF Init, ServerInit, UsedOnce
<1>2. SInv /\ UsedOnce /\ [[Ticket!Next]_Ticket!vars]_vars => UsedOnce'
  <2>1. UNCHANGED vars /\ UsedOnce => UsedOnce'
    BY DEF vars, serverVars, UsedOnce, stage, StageOf, Status
  <2>2. SInv => opened \in [Attempt -> Nat]
    BY DEF SInv, ServerTypeOK
  <2> QED  BY <2>1, <2>2, TicketStepKeepsUsedOnce
<1> QED  BY <1>1, <1>2, TicketSteps, PTL DEF Spec

\* A code opens one session at most, however often it is redeemed, by whichever
\* page, with whatever lost in between (LoginTicket's SingleUse, for the code).
THEOREM CodesOpenOneSession == Spec => []Ticket!SingleUse
<1>1. UsedOnce => Ticket!SingleUse
  BY DEF UsedOnce, Ticket!SingleUse
<1> QED  BY <1>1, UsedOnceHolds, PTL

\* A code that was used, denied, replaced, timed out or deleted with its user is
\* over for good.
THEOREM CodesStayOver == Spec => [][NothingReopens]_vars
<1>1. ASSUME [Ticket!Next]_Ticket!vars
      PROVE  NothingReopens
  <2>1. /\ stage = [t \in Attempt |-> StageOf(t)]
        /\ stage' = [t \in Attempt |-> StageOf(t)]'
    BY DEF stage
  <2>2. ASSUME NEW t \in Attempt, Ticket!Approve(t) \/ Ticket!Use(t)
        PROVE  NothingReopens
    BY <2>1, <2>2 DEF Ticket!Approve, Ticket!Use, NothingReopens
  <2>3. ASSUME NEW t \in Attempt, NEW S \in SUBSET Attempt, Ticket!Issue(t, S) \/ Ticket!Close(S)
        PROVE  NothingReopens
    BY <2>1, <2>3 DEF Ticket!Issue, Ticket!Close, Ticket!Closing, NothingReopens
  <2>4. CASE UNCHANGED Ticket!vars
    BY <2>1, <2>4 DEF Ticket!vars, NothingReopens
  <2>5. ASSUME NEW S \in SUBSET Attempt, Ticket!Close(S)
        PROVE  NothingReopens
    BY <2>1, <2>5 DEF Ticket!Close, Ticket!Closing, NothingReopens
  <2> QED  BY <1>1, <2>2, <2>3, <2>4, <2>5 DEF Ticket!Next
<1> QED  BY <1>1, TicketSteps, PTL

-----------------------------------------------------------------------------
(* The pages *)

\* An answer that opened a session and has not reached its page.
Won(q) == q.kind = "redeem" /\ q.answer = "ok"

\* A page that offers no button has an answer coming that changes it.
RedeemingIsAnswered ==
  \A p \in Page : page[p].status = "redeeming" /\ ~page[p].dashboard =>
    \E q \in net : q.page = p /\ q.kind \in {"redeem", "me"}

\* A session's cookie is in one place: on a page, or on its way to one.
CookiesAreOwn ==
  /\ \A p \in Page : page[p].cookie # NoAttempt => opened[page[p].cookie] = 1
  /\ \A p, r \in Page : page[p].cookie = page[r].cookie /\ page[p].cookie # NoAttempt => p = r
  /\ \A q \in net : Won(q) => /\ q.attempt \in Attempt /\ opened[q.attempt] = 1
                              /\ \A p \in Page : page[p].cookie # q.attempt
  /\ \A q, r \in net : Won(q) /\ Won(r) /\ q.attempt = r.attempt => q = r

\* The inductive invariant of the pages, given the server's.
PageInv ==
  /\ page \in [Page -> Login]
  /\ net \subseteq Request
  /\ \A q \in net : q.kind = "poll" => q.answer # "ok"
  /\ RedeemingIsAnswered
  /\ CookiesAreOwn

\* What a page does by itself, or on reading an answer that brings no cookie.
LEMMA PageMoves ==
  ASSUME PageInv, NEW p \in Page, NEW l \in Login, page' = [page EXCEPT ![p] = l],
         l.cookie \in {page[p].cookie, NoAttempt}, opened' = opened,
         \A q \in net' : q \in net \/ (q \in Request /\ ~Won(q) /\ (q.kind = "poll" => q.answer # "ok")),
         \A q \in net : q.page # p => q \in net',
         l.status = "redeeming" /\ ~l.dashboard =>
           \E q \in net' : q.page = p /\ q.kind \in {"redeem", "me"}
  PROVE  PageInv'
<1>1. /\ page \in [Page -> Login] /\ net \subseteq Request
      /\ \A q \in net : q.kind = "poll" => q.answer # "ok"
  BY DEF PageInv
<1>2. page' \in [Page -> Login] /\ net' \subseteq Request
  BY <1>1
<1>3. \A q \in net' : q.kind = "poll" => q.answer # "ok"
  BY <1>1
<1>4. RedeemingIsAnswered'
  BY <1>1 DEF PageInv, RedeemingIsAnswered
<1>5. \A r \in Page : page'[r].cookie \in {page[r].cookie, NoAttempt}
  BY <1>1
<1>6. \A q \in net' : Won(q) => q \in net
  OBVIOUS
<1>7. NoAttempt \notin Attempt
  OBVIOUS
<1>8. CookiesAreOwn'
  BY <1>5, <1>6, <1>7 DEF PageInv, CookiesAreOwn
<1> QED  BY <1>2, <1>3, <1>4, <1>8 DEF PageInv

\* A request whose answer opened no session is answered.
LEMMA AnswerKeepsPageInv ==
  ASSUME PageInv, NEW q \in net, NEW i \in Attempt \cup {NoAttempt}, NEW answer, Answered(q, i, answer),
         [q EXCEPT !.attempt = i, !.answer = answer] \in Request,
         q.kind \in {"redeem", "poll"} => answer # "ok", UNCHANGED <<page, opened>>
  PROVE  PageInv'
<1> DEFINE a == [q EXCEPT !.attempt = i, !.answer = answer]
<1>1. a.page = q.page /\ a.kind = q.kind /\ a.answer = answer /\ a \in Request
  BY DEF PageInv, Request
<1>2. net' = (net \ {q}) \cup {a}
  BY DEF Answered
<1> HIDE DEF a
<1>3. RedeemingIsAnswered'
  BY <1>1, <1>2 DEF PageInv, RedeemingIsAnswered
<1>4. CookiesAreOwn'
  BY <1>1, <1>2 DEF PageInv, CookiesAreOwn, Won
<1> QED  BY <1>1, <1>2, <1>3, <1>4 DEF PageInv

\* An empty login record, and one after an error, are records that wait for nothing.
LEMMA PageRecords ==
  ASSUME PageInv, NEW p \in Page
  PROVE  /\ page[p] \in Login
         /\ \A s \in LoginStatus :
              /\ Empty(p, s) \in Login
              /\ Empty(p, s).cookie = page[p].cookie /\ Empty(p, s).status = s
         /\ \A answer, b :
              /\ Erred(p, answer, b) \in Login
              /\ Erred(p, answer, b).cookie = page[p].cookie
              /\ Erred(p, answer, b).status # "redeeming"
<1>1. page[p] \in Login
  BY DEF PageInv
<1>2. ASSUME NEW s \in LoginStatus
      PROVE  Empty(p, s) \in Login /\ Empty(p, s).cookie = page[p].cookie /\ Empty(p, s).status = s
  BY <1>1, <1>2 DEF Empty, Login
<1>3. ASSUME NEW answer, NEW b
      PROVE  /\ Erred(p, answer, b) \in Login /\ Erred(p, answer, b).cookie = page[p].cookie
             /\ Erred(p, answer, b).status # "redeeming"
  <2> DEFINE s == IF answer \in {"expired", "denied"} THEN answer ELSE "retry"
             kept == [page[p] EXCEPT !.status = s, !.elsewhere = FALSE, !.timer = FALSE]
  <2>1. s \in LoginStatus /\ s # "redeeming"
    BY DEF LoginStatus
  <2>2. kept \in Login /\ kept.cookie = page[p].cookie /\ kept.status = s
    BY <1>1, <2>1 DEF Login
  <2>3. Erred(p, answer, b) = kept \/ Erred(p, answer, b) = Empty(p, s)
    BY DEF Erred
  <2> HIDE DEF s, kept
  <2> QED  BY <1>2, <2>1, <2>2, <2>3
<1> QED  BY <1>1, <1>2, <1>3

\* What the user and the timer do.
LEMMA ClicksKeepPageInv ==
  ASSUME PageInv, NEW p \in Page,
         Submit(p) \/ Reset(p) \/ Continue(p) \/ Poll(p) \/ Logout(p) \/ Reload(p)
  PROVE  PageInv'
<1>1. /\ page[p] \in Login
      /\ \A s \in LoginStatus : /\ Empty(p, s) \in Login
                                /\ Empty(p, s).cookie = page[p].cookie /\ Empty(p, s).status = s
  BY PageRecords
<1>2. /\ "submitting" \in LoginStatus /\ "idle" \in LoginStatus /\ "redeeming" \in LoginStatus
      /\ page[p].cookie \in Attempt \cup {NoAttempt} /\ page[p].attempt \in Attempt \cup {NoAttempt}
      /\ page[p].token \in Attempt \cup {NoAttempt}
  BY <1>1 DEF LoginStatus, Login
<1>3. ASSUME NEW kind \in {"start", "poll", "redeem", "me", "boot", "logout"},
             NEW i \in Attempt \cup {NoAttempt}, NEW token \in Attempt \cup {NoAttempt}
      PROVE  /\ Ask(p, kind, i, token) \in Request /\ ~Won(Ask(p, kind, i, token))
             /\ Ask(p, kind, i, token).answer # "ok"
             /\ Ask(p, kind, i, token).kind = kind /\ Ask(p, kind, i, token).page = p
  BY DEF Ask, Won, Request
<1>4. CASE Submit(p)
  <2> DEFINE l == Empty(p, "submitting")  a == Ask(p, "start", NoAttempt, NoAttempt)
  <2>1. page' = [page EXCEPT ![p] = l] /\ net' = net \cup {a} /\ opened' = opened
    BY <1>4 DEF Submit, Shows, serverVars
  <2>2. l \in Login /\ l.cookie = page[p].cookie /\ l.status # "redeeming"
    BY <1>1, <1>2
  <2>3. a \in Request /\ ~Won(a) /\ a.answer # "ok"
    BY <1>3
  <2> HIDE DEF l, a
  <2> QED  BY <2>1, <2>2, <2>3, PageMoves
<1>5. CASE Reset(p)
  <2> DEFINE l == Empty(p, "idle")
  <2>1. page' = [page EXCEPT ![p] = l] /\ net' = net /\ opened' = opened
    BY <1>5 DEF Reset, Shows, serverVars
  <2>2. l \in Login /\ l.cookie = page[p].cookie /\ l.status # "redeeming"
    BY <1>1, <1>2
  <2> HIDE DEF l
  <2> QED  BY <2>1, <2>2, PageMoves
<1>6. CASE Continue(p)
  <2> DEFINE l == [page[p] EXCEPT !.status = "redeeming", !.timer = FALSE]
             a == Ask(p, "redeem", page[p].attempt, page[p].token)
  <2>1. page' = [page EXCEPT ![p] = l] /\ net' = net \cup {a} /\ opened' = opened
    BY <1>6 DEF Continue, Shows, serverVars
  <2>2. l \in Login /\ l.cookie = page[p].cookie
    BY <1>1, <1>2 DEF Login
  <2>3. a \in Request /\ ~Won(a) /\ a.answer # "ok" /\ a.kind = "redeem" /\ a.page = p
    BY <1>2, <1>3
  <2> HIDE DEF l, a
  <2> QED  BY <2>1, <2>2, <2>3, PageMoves
<1>7. ASSUME NEW kind \in {"poll", "logout"}, NEW i \in Attempt \cup {NoAttempt},
             NEW token \in Attempt \cup {NoAttempt},
             page' = [page EXCEPT ![p] = [page[p] EXCEPT !.timer = FALSE]],
             net' = net \cup {Ask(p, kind, i, token)}, opened' = opened
      PROVE  PageInv'
  <2> DEFINE l == [page[p] EXCEPT !.timer = FALSE]
             a == Ask(p, kind, i, token)
  <2>1. page' = [page EXCEPT ![p] = l] /\ net' = net \cup {a} /\ opened' = opened
    BY <1>7
  <2>2. l \in Login /\ l.cookie = page[p].cookie /\ l.status = page[p].status /\ l.dashboard = page[p].dashboard
    BY <1>1 DEF Login
  <2>3. a \in Request /\ ~Won(a) /\ a.answer # "ok"
    BY <1>3, <1>7
  <2> HIDE DEF l, a
  <2>4. l.status = "redeeming" /\ ~l.dashboard => \E q \in net' : q.page = p /\ q.kind \in {"redeem", "me"}
    BY <2>1, <2>2 DEF PageInv, RedeemingIsAnswered
  <2> QED  BY <2>1, <2>2, <2>3, <2>4, PageMoves
<1>8. CASE Poll(p)
  BY <1>2, <1>7, <1>8 DEF Poll, Shows, serverVars
<1>9. CASE Logout(p)
  BY <1>2, <1>7, <1>9 DEF Logout, Shows, serverVars
<1>10. CASE Reload(p)
  <2> DEFINE l == [Empty(p, "idle") EXCEPT !.dashboard = FALSE]  a == Ask(p, "boot", page[p].cookie, NoAttempt)
  <2>1. page' = [page EXCEPT ![p] = l] /\ net' = {q \in net : q.page # p} \cup {a} /\ opened' = opened
    BY <1>10 DEF Reload, Shows, serverVars
  <2>2. l \in Login /\ l.cookie = page[p].cookie /\ l.status # "redeeming"
    BY <1>1, <1>2 DEF Login
  <2>3. a \in Request /\ ~Won(a) /\ a.answer # "ok"
    BY <1>2, <1>3
  <2> HIDE DEF l, a
  <2> QED  BY <2>1, <2>2, <2>3, PageMoves
<1> QED  BY <1>4, <1>5, <1>6, <1>8, <1>9, <1>10

\* What the server answers, and what is lost on the way.
LEMMA AnswersKeepPageInv ==
  ASSUME SInv, Stages, UsedOnce, PageInv, NEW q \in net, Serve(q) \/ Lose(q)
  PROVE  PageInv'
<1>1. q \in Request /\ q.attempt \in Attempt \cup {NoAttempt}
  BY DEF PageInv, Request
<1>2. ASSUME NEW i \in Attempt \cup {NoAttempt},
             NEW answer \in {"ok", "refused", "pending", "approved", "denied", "expired", "redeemed"}
      PROVE  [q EXCEPT !.attempt = i, !.answer = answer] \in Request
  BY <1>1 DEF Request
<1>3. ASSUME NEW i \in Attempt, NEW c \in Code, ServeStart(q, i, c)
      PROVE  PageInv'
  <2>1. Answered(q, i, "ok") /\ q.kind = "start" /\ UNCHANGED <<page, opened>>
    BY <1>3 DEF ServeStart, Start
  <2> QED  BY <1>2, <2>1, AnswerKeepsPageInv
<1>4. ASSUME RefuseStart(q) \/ Lose(q)
      PROVE  PageInv'
  <2>1. PICK i \in Attempt \cup {NoAttempt} : Answered(q, i, "refused")
    BY <1>1, <1>4 DEF RefuseStart, Lose
  <2>2. UNCHANGED <<page, opened>>
    BY <1>4 DEF RefuseStart, Lose, serverVars
  <2> QED  BY <1>2, <2>1, <2>2, AnswerKeepsPageInv
<1>5. CASE ServePoll(q)
  <2> DEFINE answer == PollAnswer(q.attempt, q.token)
  <2>1. answer \in {"refused", "pending", "approved", "denied", "expired", "redeemed"}
    BY DEF PollAnswer, Status
  <2>2. Answered(q, q.attempt, answer) /\ UNCHANGED <<page, opened>>
    BY <1>5 DEF ServePoll, serverVars
  <2> HIDE DEF answer
  <2> QED  BY <1>1, <1>2, <2>1, <2>2, AnswerKeepsPageInv
<1>6. CASE ServeMe(q)
  <2>1. PICK answer \in {"ok", "refused"} : Answered(q, q.attempt, answer)
    BY <1>6 DEF ServeMe
  <2>2. UNCHANGED <<page, opened>> /\ q.kind \notin {"redeem", "poll"}
    BY <1>6 DEF ServeMe, serverVars
  <2> QED  BY <1>1, <1>2, <2>1, <2>2, AnswerKeepsPageInv
<1>7. CASE ServeLogout(q)
  <2>1. Answered(q, q.attempt, "ok") /\ UNCHANGED <<page, opened>> /\ q.kind = "logout"
    BY <1>7 DEF ServeLogout, Revoke
  <2> QED  BY <1>1, <1>2, <2>1, AnswerKeepsPageInv
<1>8. ASSUME NEW t \in BOOLEAN, ServeRedeem(q, t)
      PROVE  PageInv'
  <2> DEFINE answer == RedeemAnswer(q.attempt, q.token, t)
             row == RowOf(q.attempt, q.token)
             s == {Status(a) : a \in row}
  <2>1. /\ Answered(q, q.attempt, answer) /\ q.kind = "redeem" /\ page' = page
        /\ IF row = {} THEN UNCHANGED serverVars
           ELSE \E a \in row : IF answer = "ok" THEN Redeem(a) ELSE RedeemRefused(a)
    BY <1>8 DEF ServeRedeem
  <2>2. answer = IF s \in {{"expired"}, {"denied"}} THEN CHOOSE x \in s : TRUE
                 ELSE IF s = {"approved"} /\ ~t THEN "ok" ELSE "refused"
    BY DEF RedeemAnswer
  <2>3. s \in {{"expired"}, {"denied"}} => (CHOOSE x \in s : TRUE) \in {"expired", "denied"}
    <3> HIDE DEF s
    <3> QED  OBVIOUS
  <2>4. answer \in {"expired", "denied", "ok", "refused"} /\ (answer = "ok" => s = {"approved"})
    <3> HIDE DEF s, answer
    <3> QED  BY <2>2, <2>3
  <2>5. answer = "ok" => row # {}
    BY <2>4
  <2>6. \A a \in row : a \in attempts /\ a.id = q.attempt /\ a.id \in Attempt
    BY DEF RowOf, SInv, ServerTypeOK, Row
  <2> HIDE DEF answer, row, s
  <2>7. CASE answer # "ok"
    <3>1. opened' = opened
      BY <2>1, <2>7 DEF serverVars, RedeemRefused
    <3>2. [q EXCEPT !.attempt = q.attempt, !.answer = answer] \in Request
      BY <1>1, <1>2, <2>4
    <3> QED  BY <1>1, <2>1, <2>7, <3>1, <3>2, AnswerKeepsPageInv
  <2>8. CASE answer = "ok"
    <3>1. PICK a \in row : Redeem(a)
      BY <2>1, <2>5, <2>8
    <3> DEFINE i == q.attempt  new == [q EXCEPT !.attempt = q.attempt, !.answer = answer]
    <3>2. a \in attempts /\ a.id = i /\ i \in Attempt
      BY <2>6
    <3>3. opened[i] = 0 /\ opened' = [opened EXCEPT ![i] = 1] /\ opened \in [Attempt -> Nat]
      <4>1. StageOf(i) = "approved"
        BY <3>1, <3>2 DEF Redeem, Stages, RowStage, Status
      <4>2. opened[i] = 0
        BY <3>2, <4>1 DEF UsedOnce, stage
      <4>3. opened \in [Attempt -> Nat]
        BY DEF SInv, ServerTypeOK
      <4> QED  BY <3>1, <3>2, <4>2, <4>3 DEF Redeem
    <3>4. /\ new \in Request /\ new.page = q.page /\ new.kind = "redeem" /\ new.attempt = i
          /\ new.answer = "ok" /\ net' = (net \ {q}) \cup {new}
      <4>1. new \in Request
        BY <1>1, <1>2, <2>4
      <4>2. new.page = q.page /\ new.kind = q.kind /\ new.attempt = i /\ new.answer = answer
        BY <1>1 DEF Request
      <4>3. net' = (net \ {q}) \cup {new}
        BY <2>1 DEF Answered
      <4> HIDE DEF new, i
      <4> QED  BY <2>1, <2>8, <4>1, <4>2, <4>3
    <3> HIDE DEF new, i
    <3>5. \A p \in Page : page[p].cookie # i
      BY <3>2, <3>3 DEF PageInv, CookiesAreOwn, Login
    <3>6. \A r \in net : Won(r) => r.attempt # i
      BY <3>3 DEF PageInv, CookiesAreOwn
    <3>7. \A j \in Attempt : j # i => opened'[j] = opened[j]
      BY <3>3
    <3>8. opened'[i] = 1
      BY <3>2, <3>3
    <3>9. RedeemingIsAnswered'
      BY <2>1, <3>4 DEF PageInv, RedeemingIsAnswered
    <3>10. \A p \in Page : page[p].cookie \in Attempt \cup {NoAttempt}
      BY DEF PageInv, Login
    <3>11. CookiesAreOwn'
      BY <2>1, <3>2, <3>4, <3>5, <3>6, <3>7, <3>8, <3>10 DEF PageInv, CookiesAreOwn, Won
    <3> QED  BY <2>1, <3>4, <3>9, <3>11 DEF PageInv
  <2> QED  BY <2>7, <2>8
<1> QED  BY <1>3, <1>4, <1>5, <1>6, <1>7, <1>8 DEF Serve

\* What a page makes of an answer.
LEMMA ReadingKeepsPageInv ==
  ASSUME PageInv, NEW q \in net, Read(q)
  PROVE  PageInv'
<1> DEFINE p == q.page
<1>1. /\ p \in Page /\ q \in Request /\ q.attempt \in Attempt \cup {NoAttempt}
      /\ opened' = opened /\ page[p] \in Login
  BY DEF PageInv, Request, Read, StartAnswered, PollAnswered, RedeemAnswered, MeAnswered, LogoutAnswered,
         serverVars
<1>2. /\ \A s \in LoginStatus :
           /\ Empty(p, s) \in Login
           /\ Empty(p, s).cookie = page[p].cookie /\ Empty(p, s).status = s
      /\ \A answer, b :
           /\ Erred(p, answer, b) \in Login
           /\ Erred(p, answer, b).cookie = page[p].cookie
           /\ Erred(p, answer, b).status # "redeeming"
  BY <1>1, PageRecords
<1>3. "pending" \in LoginStatus /\ "idle" \in LoginStatus /\ "retry" \in LoginStatus
  BY DEF LoginStatus
<1> HIDE DEF p
\* The answer is gone, and leaves a record that waits for nothing.
<1>4. ASSUME NEW l \in Login, Shows(p, l), Done(q), l.cookie \in {page[p].cookie, NoAttempt},
             l.status # "redeeming" \/ l.dashboard
      PROVE  PageInv'
  <2>1. page' = [page EXCEPT ![p] = l] /\ net' = net \ {q} /\ \A r \in net : r.page # p => r \in net'
    BY <1>4 DEF Shows, Done, p
  <2> QED  BY <1>1, <1>4, <2>1, PageMoves
<1>5. CASE StartAnswered(q)
  <2> DEFINE l == [Empty(p, "pending") EXCEPT !.attempt = q.attempt, !.token = q.attempt, !.timer = TRUE]
  <2>1. l \in Login /\ l.cookie = page[p].cookie /\ l.status = "pending"
    BY <1>1, <1>2, <1>3 DEF Login
  <2>2. (Shows(p, l) \/ Shows(p, Erred(p, "refused", FALSE))) /\ Done(q)
    BY <1>5 DEF StartAnswered, p
  <2> HIDE DEF l
  <2> QED  BY <1>2, <1>4, <2>1, <2>2
<1>6. CASE PollAnswered(q)
  <2> DEFINE l == Merged(page[p], q)
  <2>1. (Shows(p, Erred(p, "refused", TRUE)) \/ (q.answer # "refused" /\ Shows(p, l))) /\ Done(q)
        /\ q.kind = "poll" /\ q.answer # "none"
    BY <1>6 DEF PollAnswered, p
  <2>2. CASE Shows(p, Erred(p, "refused", TRUE))
    <3> DEFINE e == Erred(p, "refused", TRUE)
    <3>1. e \in Login /\ e.cookie = page[p].cookie /\ e.status # "redeeming"
      BY <1>2
    <3>2. Shows(p, e) /\ Done(q)
      BY <2>1, <2>2
    <3> HIDE DEF e, l
    <3> QED  BY <1>4, <3>1, <3>2
  <2>3. CASE q.answer # "refused" /\ Shows(p, l)
    <3>1. q.answer \in {"pending", "approved", "denied", "expired", "redeemed"}
      BY <1>1, <2>1, <2>3 DEF PageInv, Request
    <3>2. l \in Login /\ l.cookie = page[p].cookie /\ l.status # "redeeming"
      <4>1. CASE q.answer = "redeemed"
        <5>1. l = [page[p] EXCEPT !.status = "retry", !.attempt = q.attempt, !.elsewhere = TRUE,
                                  !.timer = FALSE]
          BY <4>1 DEF Merged
        <5> HIDE DEF l
        <5> QED  BY <1>1, <1>3, <5>1 DEF Login
      <4>2. CASE q.answer # "redeemed"
        <5> DEFINE timer == page[p].token # NoAttempt /\ q.answer \in {"pending", "approved"}
        <5>1. l = [page[p] EXCEPT !.status = q.answer, !.attempt = q.attempt, !.timer = timer]
          BY <4>2 DEF Merged
        <5>2. q.answer \in LoginStatus /\ q.answer # "redeeming" /\ timer \in BOOLEAN
          BY <3>1, <4>2 DEF LoginStatus
        <5> HIDE DEF l, timer
        <5> QED  BY <1>1, <5>1, <5>2 DEF Login
      <4> QED  BY <4>1, <4>2
    <3> HIDE DEF l
    <3> QED  BY <1>4, <2>1, <2>3, <3>2
  <2> QED  BY <2>1, <2>2, <2>3
<1>7. CASE MeAnswered(q)
  <2> DEFINE l == [page[p] EXCEPT !.dashboard = TRUE]
  <2>1. l \in Login /\ l.cookie = page[p].cookie /\ l.dashboard
    BY <1>1 DEF Login
  <2>2. /\ \/ Shows(p, l)
           \/ Shows(p, Erred(p, "refused", TRUE))
           \/ Shows(p, page[p]) /\ q.kind = "boot"
        /\ Done(q)
    BY <1>7 DEF MeAnswered, p
  <2> HIDE DEF l
  <2>3. CASE Shows(p, page[p]) /\ q.kind = "boot"
    <3>1. page' = [page EXCEPT ![p] = page[p]] /\ net' = net \ {q}
      BY <2>2, <2>3 DEF Shows, Done
    <3>2. page[p].status = "redeeming" /\ ~page[p].dashboard =>
            \E r \in net' : r.page = p /\ r.kind \in {"redeem", "me"}
      BY <1>1, <2>3, <3>1 DEF PageInv, RedeemingIsAnswered
    <3>3. \A r \in net : r.page # p => r \in net'
      BY <3>1 DEF p
    <3> QED  BY <1>1, <3>1, <3>2, <3>3, PageMoves
  <2> QED  BY <1>2, <1>4, <2>1, <2>2, <2>3
<1>8. CASE LogoutAnswered(q)
  <2> DEFINE cookie == IF q.answer = "ok" THEN NoAttempt ELSE Empty(p, "idle").cookie
             l == [Empty(p, "idle") EXCEPT !.dashboard = FALSE, !.cookie = cookie]
  <2>1. cookie \in {page[p].cookie, NoAttempt} /\ cookie \in Attempt \cup {NoAttempt}
    BY <1>1, <1>2, <1>3 DEF Login
  <2>2. Shows(p, l) /\ Done(q)
    BY <1>8 DEF LogoutAnswered, p
  <2> HIDE DEF cookie
  <2>3. l \in Login /\ l.cookie = cookie /\ l.status = "idle"
    BY <1>2, <1>3, <2>1 DEF Login
  <2> HIDE DEF l
  <2> QED  BY <1>4, <2>1, <2>2, <2>3
<1>9. CASE RedeemAnswered(q) /\ q.answer # "ok"
  <2>1. Shows(p, Erred(p, q.answer, TRUE)) /\ Done(q)
    BY <1>9 DEF RedeemAnswered, p
  <2> QED  BY <1>2, <1>4, <2>1
<1>10. CASE RedeemAnswered(q) /\ q.answer = "ok"
  <2> DEFINE i == q.attempt  a == Ask(p, "me", i, NoAttempt)  l == [page[p] EXCEPT !.cookie = i]
  <2>1. page' = [page EXCEPT ![p] = l] /\ net' = (net \ {q}) \cup {a} /\ Won(q) /\ q.page = p
    BY <1>10 DEF RedeemAnswered, Shows, Won, p
  <2>2. i \in Attempt /\ opened[i] = 1 /\ \A r \in Page : page[r].cookie # i
    BY <2>1 DEF PageInv, CookiesAreOwn
  <2>3. a \in Request /\ a.page = p /\ a.kind = "me"
    BY <1>1, <2>2 DEF Ask, Request
  <2>4. l \in Login /\ l.cookie = i /\ l.status = page[p].status /\ l.dashboard = page[p].dashboard
    BY <1>1, <2>2 DEF Login
  <2>5. \A r \in net : Won(r) /\ r.attempt = i => r = q
    BY <2>1 DEF PageInv, CookiesAreOwn
  <2>6. i # NoAttempt
    BY <2>2
  <2> HIDE DEF i, a, l
  <2>7. page' \in [Page -> Login] /\ net' \subseteq Request
    BY <2>1, <2>3, <2>4 DEF PageInv
  <2>8. /\ page'[p] = l /\ \A r \in Page : r # p => page'[r] = page[r]
    BY <1>1, <2>1 DEF PageInv
  <2>9. RedeemingIsAnswered'
    BY <2>1, <2>3, <2>4, <2>8 DEF PageInv, RedeemingIsAnswered
  <2>10. \A r \in net' : Won(r) => r \in net /\ r # q /\ r.attempt # i
    BY <2>1, <2>3, <2>5 DEF Won
  <2>11. CookiesAreOwn'
    BY <1>1, <2>2, <2>4, <2>6, <2>8, <2>10 DEF PageInv, CookiesAreOwn
  <2> QED  BY <2>1, <2>3, <2>7, <2>9, <2>11 DEF PageInv
<1> QED  BY <1>5, <1>6, <1>7, <1>8, <1>9, <1>10 DEF Read

\* No step of the pages, the network, the agents or the server breaks it.
LEMMA StepKeepsPageInv ==
  ASSUME SInv, Stages, UsedOnce, PageInv, [Next]_vars
  PROVE  PageInv'
<1>1. CASE UNCHANGED vars \/ (AgentNext /\ UNCHANGED <<page, net>>)
  <2>1. UNCHANGED <<page, net, opened>>
    BY <1>1 DEF vars, serverVars, AgentNext, Start, Approve, Deny, AttemptExpires, SessionExpires, Revoke,
                DeleteUser
  <2> QED  BY <2>1 DEF PageInv, RedeemingIsAnswered, CookiesAreOwn
<1> QED
  BY <1>1, ClicksKeepPageInv, AnswersKeepPageInv, ReadingKeepsPageInv DEF Next

\* The invariant of the pages.
LEMMA PageInvHolds == Spec => []PageInv
<1>1. Init => PageInv
  <2> SUFFICES ASSUME Init PROVE PageInv
    OBVIOUS
  <2>1. page \in [Page -> Login]
    BY DEF Init, Login, LoginStatus
  <2> QED  BY <2>1 DEF Init, PageInv, RedeemingIsAnswered, CookiesAreOwn
<1>2. SInv /\ Stages /\ UsedOnce /\ PageInv /\ [Next]_vars => PageInv'
  BY StepKeepsPageInv
<1> QED  BY <1>1, <1>2, UsedOnceHolds, PTL DEF Spec

\* The pages, the requests and the rows keep their types.
THEOREM PagesAreTyped == Spec => []TypeOK
<1>1. SInv /\ PageInv => TypeOK
  BY DEF SInv, PageInv, TypeOK
<1> QED  BY <1>1, SInvHolds, PageInvHolds, PTL

\* The safety half of NoDeadEnd: a page that is signing in, and so offers no
\* button, always has an answer coming that takes it to the dashboard or back,
\* whatever other requests of its are answered, reset or lost meanwhile.
THEOREM NoPageIsForgotten == Spec => []RedeemingIsAnswered
<1>1. PageInv => RedeemingIsAnswered
  BY DEF PageInv
<1> QED  BY <1>1, PageInvHolds, PTL

\* A code signs one page in: no two pages come to hold the cookie of the same
\* session, and none does while the answer that brings it is under way.
THEOREM CookiesAreNotShared == Spec => []CookiesAreOwn
<1>1. PageInv => CookiesAreOwn
  BY DEF PageInv
<1> QED  BY <1>1, PageInvHolds, PTL

=============================================================================

----------------------------- MODULE LoginTicket -----------------------------
(***************************************************************************)
(* What a browser sign-in promises (docs/prd-dashboard-frontend-           *)
(* activation.md 6.2 and 6.5): a code is issued, approved and used in that *)
(* order, it opens at most one session, and a code that was denied,        *)
(* replaced, timed out or used is over for good.                           *)
(***************************************************************************)
EXTENDS Naturals

CONSTANT Ticket

VARIABLES
  stage,   \* of each code
  opened   \* sessions each has opened

vars == <<stage, opened>>

Init ==
  /\ stage = [t \in Ticket |-> "none"]
  /\ opened = [t \in Ticket |-> 0]

\* Codes that have been issued and are not over may end at any time: denied,
\* replaced, timed out, or gone with their account.
Closable(S) == \A t \in S : stage[t] \notin {"none", "closed"}

Closing(S) == [t \in Ticket |-> IF t \in S THEN "closed" ELSE stage[t]]

\* A new code may replace others.
Issue(t, S) ==
  /\ stage[t] = "none"
  /\ Closable(S)
  /\ stage' = [Closing(S) EXCEPT ![t] = "open"]
  /\ UNCHANGED opened

Approve(t) ==
  /\ stage[t] = "open"
  /\ stage' = [stage EXCEPT ![t] = "approved"]
  /\ UNCHANGED opened

Use(t) ==
  /\ stage[t] = "approved"
  /\ stage' = [stage EXCEPT ![t] = "used"]
  /\ opened' = [opened EXCEPT ![t] = @ + 1]

Close(S) ==
  /\ Closable(S)
  /\ stage' = Closing(S)
  /\ UNCHANGED opened

Next ==
  \/ \E t \in Ticket : Approve(t) \/ Use(t)
  \/ \E t \in Ticket, S \in SUBSET Ticket : Issue(t, S)
  \/ \E S \in SUBSET Ticket : Close(S)

Spec == Init /\ [][Next]_vars

\* No code opens two sessions.
SingleUse == \A t \in Ticket : opened[t] <= 1
=============================================================================

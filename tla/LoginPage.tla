------------------------------ MODULE LoginPage ------------------------------
(***************************************************************************)
(* The landing page that signs a browser in (public/app.js, UI and State)  *)
(* and the requests it has under way: several at a time, answered in any   *)
(* order, or lost.  State.browserLogin is one record that every answer     *)
(* writes to, whichever attempt it was asked for.                          *)
(***************************************************************************)
EXTENDS BrowserLogin

CONSTANTS
  Page,
  UserOf,      \* username that is typed on each page
  MaxRequests  \* requests a page has under way: bounds what the user and the timer do

ASSUME PageAssumption == UserOf \in [Page -> User] /\ MaxRequests \in Nat \ {0}

VARIABLES
  page,  \* State.browserLogin, State.user, the poll timer and the cookie of each
  net    \* requests of the pages that are not answered yet, or whose answer is under way

vars == <<serverVars, page, net>>

LoginStatus == {"idle", "submitting", "pending", "approved", "redeeming",
                "expired", "denied", "retry"}

Login == [status : LoginStatus, attempt : Attempt \cup {NoAttempt},
          token : Attempt \cup {NoAttempt},
          elsewhere : BOOLEAN,  \* says that the code was redeemed in another browser session
          timer : BOOLEAN, dashboard : BOOLEAN, cookie : Attempt \cup {NoAttempt}]

Request == [page : Page, kind : {"start", "poll", "redeem", "me", "boot", "logout"},
            attempt : Attempt \cup {NoAttempt}, token : Attempt \cup {NoAttempt},
            answer : {"none", "ok", "refused", "pending", "approved", "denied",
                      "expired", "redeemed"}]

TypeOK ==
  /\ ServerTypeOK
  /\ page \in [Page -> Login]
  /\ net \subseteq Request

\* createEmptyBrowserLoginState and clearBrowserLoginPolling
Empty(p, status) ==
  [page[p] EXCEPT !.status = status, !.attempt = NoAttempt, !.token = NoAttempt,
                  !.elsewhere = FALSE, !.timer = FALSE]

Shows(p, l) == page' = [page EXCEPT ![p] = l]

Ask(p, kind, i, token) ==
  [page |-> p, kind |-> kind, attempt |-> i, token |-> token, answer |-> "none"]

HasRoom(p) == Cardinality({q \in net : q.page = p}) < MaxRequests

-----------------------------------------------------------------------------
(* The user and the timer *)

\* What getBrowserLoginPresentation and renderBrowserLogin enable on the landing
\* page: the form and the retry button, the reset and the continue button.
CanSubmit(l) == ~l.dashboard /\ l.status \in {"idle", "expired", "denied", "retry"}
CanReset(l) == ~l.dashboard /\ l.status \notin {"idle", "redeeming"}
CanContinue(l) == ~l.dashboard /\ l.status = "approved"

\* handleAgentBrowserLogin, by the form or the retry button
Submit(p) ==
  /\ CanSubmit(page[p]) /\ HasRoom(p)
  /\ Shows(p, Empty(p, "submitting"))
  /\ net' = net \cup {Ask(p, "start", NoAttempt, NoAttempt)}
  /\ UNCHANGED serverVars

\* resetBrowserLogin; requests under way are not taken back
Reset(p) ==
  /\ CanReset(page[p])
  /\ Shows(p, Empty(p, "idle"))
  /\ UNCHANGED <<serverVars, net>>

\* redeemBrowserLoginAttempt, by the button an approved code shows
Continue(p) ==
  /\ CanContinue(page[p]) /\ HasRoom(p)
  /\ page[p].attempt # NoAttempt /\ page[p].token # NoAttempt
  /\ Shows(p, [page[p] EXCEPT !.status = "redeeming", !.timer = FALSE])
  /\ net' = net \cup {Ask(p, "redeem", page[p].attempt, page[p].token)}
  /\ UNCHANGED serverVars

\* pollBrowserLoginAttempt
Poll(p) ==
  /\ page[p].timer /\ HasRoom(p)
  /\ Shows(p, [page[p] EXCEPT !.timer = FALSE])
  /\ net' = net \cup {Ask(p, "poll", page[p].attempt, page[p].token)}
  /\ UNCHANGED serverVars

\* handleLogout, until it asks the server
Logout(p) ==
  /\ page[p].dashboard /\ HasRoom(p)
  /\ Shows(p, [page[p] EXCEPT !.timer = FALSE])
  /\ net' = net \cup {Ask(p, "logout", page[p].cookie, NoAttempt)}
  /\ UNCHANGED serverVars

\* The page is loaded again: checkAuth asks who the cookie is.
Reload(p) ==
  /\ Shows(p, [Empty(p, "idle") EXCEPT !.dashboard = FALSE])
  /\ net' = {q \in net : q.page # p} \cup {Ask(p, "boot", page[p].cookie, NoAttempt)}
  /\ UNCHANGED serverVars

-----------------------------------------------------------------------------
(* The server handles a request *)

Answered(q, i, answer) ==
  net' = (net \ {q}) \cup {[q EXCEPT !.attempt = i, !.answer = answer]}

ServeStart(q, i, c) ==
  /\ q.kind = "start" /\ q.answer = "none"
  /\ Start(UserOf[q.page], i, c)
  /\ Answered(q, i, "ok")
  /\ UNCHANGED page

\* No such user any more, or too many attempts.
RefuseStart(q) ==
  /\ q.kind = "start" /\ q.answer = "none"
  /\ Answered(q, NoAttempt, "refused")
  /\ UNCHANGED <<serverVars, page>>

ServePoll(q) ==
  /\ q.kind = "poll" /\ q.answer = "none"
  /\ Answered(q, q.attempt, PollAnswer(q.attempt, q.token))
  /\ UNCHANGED <<serverVars, page>>

ServeRedeem(q, throttled) ==
  LET answer == RedeemAnswer(q.attempt, q.token, throttled)
      row == RowOf(q.attempt, q.token)
  IN /\ q.kind = "redeem" /\ q.answer = "none"
     /\ Answered(q, q.attempt, answer)
     /\ IF row = {} THEN UNCHANGED serverVars
        ELSE \E a \in row : IF answer = "ok" THEN Redeem(a) ELSE RedeemRefused(a)
     /\ UNCHANGED page

\* GET /auth/me
ServeMe(q) ==
  /\ q.kind \in {"me", "boot"} /\ q.answer = "none"
  /\ Answered(q, q.attempt, IF SessionsOf(q.attempt) # {} THEN "ok" ELSE "refused")
  /\ UNCHANGED <<serverVars, page>>

ServeLogout(q) ==
  /\ q.kind = "logout" /\ q.answer = "none"
  /\ Revoke(q.attempt)
  /\ Answered(q, q.attempt, "ok")
  /\ UNCHANGED page

\* The request or its answer is lost, and the page sees an error.
Lose(q) ==
  /\ q.answer # "refused"
  /\ Answered(q, q.attempt, "refused")
  /\ UNCHANGED <<serverVars, page>>

-----------------------------------------------------------------------------
(* The page reads an answer *)

Done(q) == net' = net \ {q}

\* Mutant: errors of a redemption are not caught.
BugErred(p, answer, preserve) ==
  IF page[p].status = "redeeming" THEN page[p]
  ELSE LET s == IF answer \in {"expired", "denied"} THEN answer ELSE "retry"
       IN IF preserve THEN [page[p] EXCEPT !.status = s, !.elsewhere = FALSE, !.timer = FALSE]
          ELSE Empty(p, s)

\* applyBrowserLoginError
Erred(p, answer, preserve) ==
  LET s == IF answer \in {"expired", "denied"} THEN answer ELSE "retry"
  IN IF preserve THEN [page[p] EXCEPT !.status = s, !.elsewhere = FALSE, !.timer = FALSE]
     ELSE Empty(p, s)

StartAnswered(q) ==
  /\ q.kind = "start" /\ q.answer # "none"
  /\ Shows(q.page,
       IF q.answer = "ok"
       THEN [Empty(q.page, "pending") EXCEPT !.attempt = q.attempt, !.token = q.attempt,
                                             !.timer = TRUE]
       ELSE Erred(q.page, "refused", FALSE))
  /\ Done(q)
  /\ UNCHANGED serverVars

\* The answer is merged into whatever the page shows by now; only the token stays.
Merged(l, q) ==
  IF q.answer = "redeemed"
  THEN [l EXCEPT !.status = "retry", !.attempt = q.attempt, !.elsewhere = TRUE, !.timer = FALSE]
  ELSE [l EXCEPT !.status = q.answer, !.attempt = q.attempt,
                 !.timer = l.token # NoAttempt /\ q.answer \in {"pending", "approved"}]

PollAnswered(q) ==
  /\ q.kind = "poll" /\ q.answer # "none"
  /\ Shows(q.page, IF q.answer = "refused" THEN Erred(q.page, "refused", TRUE)
                   ELSE Merged(page[q.page], q))
  /\ Done(q)
  /\ UNCHANGED serverVars

\* The answer sets the cookie; bootstrap asks who it is.
RedeemAnswered(q) ==
  /\ q.kind = "redeem" /\ q.answer # "none"
  /\ IF q.answer = "ok"
     THEN /\ Shows(q.page, [page[q.page] EXCEPT !.cookie = q.attempt])
          /\ net' = (net \ {q}) \cup {Ask(q.page, "me", q.attempt, NoAttempt)}
     ELSE /\ Shows(q.page, Erred(q.page, q.answer, TRUE))
          /\ Done(q)
  /\ UNCHANGED serverVars

MeAnswered(q) ==
  /\ q.kind \in {"me", "boot"} /\ q.answer # "none"
  /\ Shows(q.page,
       IF q.answer = "ok" THEN [page[q.page] EXCEPT !.dashboard = TRUE]
       ELSE IF q.kind = "me" THEN Erred(q.page, "refused", TRUE) ELSE page[q.page])
  /\ Done(q)
  /\ UNCHANGED serverVars

\* State.clear, whether or not the server could be asked; only its answer clears
\* the cookie.
LogoutAnswered(q) ==
  /\ q.kind = "logout" /\ q.answer # "none"
  /\ Shows(q.page, [Empty(q.page, "idle") EXCEPT
       !.dashboard = FALSE, !.cookie = IF q.answer = "ok" THEN NoAttempt ELSE @])
  /\ Done(q)
  /\ UNCHANGED serverVars

-----------------------------------------------------------------------------
Init ==
  /\ ServerInit
  /\ page = [p \in Page |->
       [status |-> "idle", attempt |-> NoAttempt, token |-> NoAttempt, elsewhere |-> FALSE,
        timer |-> FALSE, dashboard |-> FALSE, cookie |-> NoAttempt]]
  /\ net = {}

Serve(q) ==
  \/ \E i \in Attempt, c \in Code : ServeStart(q, i, c)
  \/ RefuseStart(q)
  \/ ServePoll(q)
  \/ \E t \in BOOLEAN : ServeRedeem(q, t)
  \/ ServeMe(q)
  \/ ServeLogout(q)

Read(q) ==
  \/ StartAnswered(q)
  \/ PollAnswered(q)
  \/ RedeemAnswered(q)
  \/ MeAnswered(q)
  \/ LogoutAnswered(q)

Next ==
  \/ \E p \in Page : Submit(p) \/ Reset(p) \/ Continue(p) \/ Poll(p) \/ Logout(p) \/ Reload(p)
  \/ \E q \in net : Serve(q) \/ Read(q) \/ Lose(q)
  \/ AgentNext /\ UNCHANGED <<page, net>>

\* The server and the network get round to each request; nobody has to click,
\* approve or poll.
Fairness ==
  /\ WF_vars(\E q \in net : \E t \in BOOLEAN : ServeRedeem(q, t))
  /\ WF_vars(\E q \in net : ServeMe(q))
  /\ WF_vars(\E q \in net : RedeemAnswered(q))
  /\ WF_vars(\E q \in net : MeAnswered(q))

Spec == Init /\ [][Next]_vars /\ Fairness

\* "the UI offers useful fallback guidance instead of a dead end"
\* (docs/prd-dashboard-frontend-activation.md:468): a page that is signing in,
\* which offers no button, gets to the dashboard or back to one that does,
\* whatever is lost, replaced or deleted meanwhile.
NoDeadEnd ==
  \A p \in Page : page[p].status = "redeeming" /\ ~page[p].dashboard ~>
    page[p].status # "redeeming" \/ page[p].dashboard
=============================================================================

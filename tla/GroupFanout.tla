---------------------------- MODULE GroupFanout ----------------------------
(***************************************************************************)
(* One message to a group (src/src/routes/messages.ts, recipient_type      *)
(* "group") on top of Delivery, whose items are here the delivery rows:    *)
(* one per connection of a member the policies let through.  The status of *)
(* the parent message has two writers: recomputeGroupMessageStatus, after  *)
(* every settled row, and the send handler, once, from what its own first  *)
(* attempts returned.  Connections and accounts are not deleted while the  *)
(* message is under way: what that does to rows is shown in Delivery.      *)
(***************************************************************************)
EXTENDS Delivery, Functions

CONSTANTS
  Member,   \* active members of the group, the sender excluded
  owner     \* the member whose connection an item stands for

ASSUME GroupAssumption == owner \in [Item -> Member]

VARIABLES
  parent,   \* messages.status of the group message
  decision, \* per member: what the policies decided
  answer,   \* per item: what its first attempt returned to the handler
  handler   \* where the send handler is

groupVars == <<parent, decision, answer, handler>>
allVars == <<vars, groupVars>>

Decision == {"deliver", "rejected", "review_required"}
ParentStatus == {"absent", "pending", "delivered", "failed", "rejected", "review_required"}

GroupTypeOK ==
  /\ parent \in ParentStatus
  /\ decision \in [Member -> Decision]
  /\ answer \in [Item -> {"none", "delivered", "pending"}]
  /\ handler \in {"idle", "waiting", "done", "died"}

\* Rows with a connection; every other member gets one row that is failed at once.
Rows == {i \in Item : status[i] # "absent"}

-----------------------------------------------------------------------------
(* The two writers of the parent's status *)

\* Mutant: one failed row is enough.
BugRecompute(st) ==
  LET rows == {i \in Item : st[i] # "absent"}
  IN IF \E i \in rows : st[i] = "failed" THEN "failed"
     ELSE IF \E i \in rows : st[i] = "pending" THEN "pending"
     ELSE "delivered"

\* recomputeGroupMessageStatus, called after row i was settled, on statuses st.
\* The rows of blocked and unreachable members are failed and change nothing.
Recompute(st) ==
  LET rows == {i \in Item : st[i] # "absent"}
  IN IF \E i \in rows : st[i] = "pending" THEN "pending"
     ELSE IF \A i \in rows : st[i] = "failed" THEN "failed"
     ELSE "delivered"

\* Mutant: a member counts as delivered as soon as one connection has it.
BugMemberStatus(dec, ans, m) ==
  LET answers == {ans[i] : i \in {j \in Item : owner[j] = m}}
  IN IF dec[m] # "deliver" THEN dec[m]
     ELSE IF "delivered" \in answers THEN "delivered"
     ELSE IF "pending" \in answers THEN "pending"
     ELSE "failed"

\* memberDeliveryStats: a member reached over several connections is pending
\* as long as one of them answered pending.
MemberStatus(dec, ans, m) ==
  LET answers == {ans[i] : i \in {j \in Item : owner[j] = m}}
  IN IF dec[m] # "deliver" THEN dec[m]
     ELSE IF "pending" \in answers THEN "pending"
     ELSE IF "delivered" \in answers THEN "delivered"
     ELSE "failed"

\* overallStatus of the handler, the first that some member has.
OverallStatus(dec, ans) ==
  LET members == {MemberStatus(dec, ans, m) : m \in Member}
  IN IF "pending" \in members THEN "pending"
     ELSE IF "delivered" \in members THEN "delivered"
     ELSE IF "review_required" \in members THEN "review_required"
     ELSE IF "rejected" \in members THEN "rejected"
     ELSE IF "failed" \in members THEN "failed"
     ELSE "delivered"

-----------------------------------------------------------------------------
(* The send handler *)

\* Decisions, rows and first attempts.  The handler starts the attempts while
\* it still inserts rows, so the recompute of a polling row may run before
\* later rows exist: the parent is then called delivered too early.  Without
\* a POST to wait for, Promise.all is settled and the final write is made.
FanOut(dec, at) ==
  LET polled == {i \in DOMAIN at : mode[at[i]] = "polling"}
      posted == DOMAIN at \ polled
  IN /\ handler = "idle"
     /\ \A i \in DOMAIN at : mode[at[i]] # "deleted"
     /\ decision' = dec
     /\ to' = [i \in Item |-> IF i \in DOMAIN at THEN at[i] ELSE NoConn]
     /\ status' = [i \in Item |-> IF i \in polled THEN "delivered"
                                  ELSE IF i \in posted THEN "pending" ELSE "absent"]
     /\ answer' = [i \in Item |-> IF i \in polled THEN "delivered" ELSE "none"]
     /\ handed' = polled
     /\ inFlight' = {[by |-> Handler, item |-> i, accepted |-> FALSE] : i \in posted}
     /\ IF posted = {}
        THEN /\ handler' = "done"
             /\ parent' = OverallStatus(dec, answer')
        ELSE /\ handler' = "waiting"
             /\ parent' \in {"pending"} \cup (IF polled = {} THEN {} ELSE {"delivered"})
     /\ UNCHANGED <<retryCount, mode, queue, due, todo, failures, lost>>

\* What the end of attempt a means for the handler: it notes the answer of its
\* own attempts and, when it has them all, makes the final write.
HandlerLearns(a, result, recomputed) ==
  IF a.by # Handler
  THEN /\ parent' = recomputed
       /\ UNCHANGED <<answer, handler>>
  ELSE /\ answer' = [answer EXCEPT ![a.item] = result]
       /\ IF \E b \in inFlight' : b.by = Handler
          THEN /\ parent' = recomputed
               /\ UNCHANGED handler
          ELSE /\ parent' = OverallStatus(decision, answer')
               /\ handler' = "done"

-----------------------------------------------------------------------------
(* The steps of Delivery, with what they do to the parent *)

RowDelivered(a) ==
  /\ AttemptOk(a)
  /\ HandlerLearns(a, "delivered", Recompute(status'))
  /\ UNCHANGED decision

\* Only a row that is given up is recomputed; a row queued again stays pending.
RowFails(a) ==
  /\ AttemptFails(a)
  /\ HandlerLearns(a, "pending",
                   IF NextRetry(a.item) > MaxRetries
                   THEN Recompute(status') ELSE parent)
  /\ UNCHANGED decision

\* A visit that starts no POST has settled the row.
RowVisited(r, i) ==
  /\ Visit(r, i)
  /\ parent' = IF UNCHANGED inFlight THEN Recompute(status') ELSE parent
  /\ UNCHANGED <<decision, answer, handler>>

GroupRestart ==
  /\ Restart
  /\ handler' = IF handler = "waiting" THEN "died" ELSE handler
  /\ UNCHANGED <<parent, decision, answer>>

GroupInit ==
  /\ Init
  /\ parent = "absent"
  /\ decision = [m \in Member |-> "deliver"]
  /\ answer = [i \in Item |-> "none"]
  /\ handler = "idle"

GroupNext ==
  \/ \E dec \in [Member -> Decision] :
       \E at \in Injection({i \in Item : dec[owner[i]] = "deliver"}, Conn) : FanOut(dec, at)
  \/ \E a \in inFlight : RecipientAccepts(a) /\ UNCHANGED groupVars
  \/ \E a \in inFlight : RowDelivered(a)
  \/ \E a \in inFlight : RowFails(a)
  \/ \E i \in Item : BackoffElapses(i) /\ UNCHANGED groupVars
  \/ \E r \in Run : StartRun(r) /\ UNCHANGED groupVars
  \/ \E r \in Run, i \in Item : RowVisited(r, i)
  \/ \E c \in Conn : Reregister(c) /\ UNCHANGED groupVars
  \/ GroupRestart

GroupSpec == GroupInit /\ [][GroupNext]_allVars

-----------------------------------------------------------------------------
(* Properties *)

\* The sender is never told that all is lost while a recipient has the message
\* or may still get it: failed, rejected and review_required leave no such row.
NoRowOutlivesRefusal ==
  parent \in {"failed", "rejected", "review_required"} =>
    \A i \in Rows : status[i] = "failed"

\* Once the handler has answered, a message called delivered has no row still
\* pending and, if it has recipients, one that a recipient has.
DeliveredParentIsComplete ==
  handler = "done" /\ parent = "delivered" =>
    /\ \A i \in Rows : status[i] # "pending"
    /\ Member # {} => \E i \in Rows : status[i] = "delivered"

\* When nothing is under way any more, the final status has been set
\* (src/src/routes/messages.ts:1348): the parent is not left pending.
QuietParentIsSettled ==
  handler = "done" /\ Queued = {} /\ inFlight = {} /\ lost = {} =>
    parent # "pending"
=============================================================================

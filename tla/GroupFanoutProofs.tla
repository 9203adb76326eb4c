--------------------------- MODULE GroupFanoutProofs ---------------------------
(***************************************************************************)
(* Proofs about one message to a group: the two writers of the parent's    *)
(* status agree with the rows, for any members, connections, retry budget  *)
(* and overlap of retry runs.                                              *)
(***************************************************************************)
EXTENDS GroupFanout, DeliveryProofs

-----------------------------------------------------------------------------
(* What the two writers conclude *)

Answer == {"none", "delivered", "pending"}

\* recomputeGroupMessageStatus calls the parent failed only if every row is, and
\* delivered only if no row is pending and one is not failed.
LEMMA RecomputeConclusions ==
  ASSUME NEW st \in [Item -> Status], \A i \in Item : st[i] # "gone"
  PROVE  /\ Recompute(st) = "failed" =>
              \A i \in Item : st[i] # "absent" => st[i] = "failed"
         /\ Recompute(st) = "delivered" =>
              /\ \A i \in Item : st[i] # "pending"
              /\ \E i \in Item : st[i] = "delivered"
         /\ Recompute(st) \in {"pending", "failed", "delivered"}
BY DEF Recompute, Status

\* The answers for a member the policies let through count for what the handler
\* concludes: the member is neither rejected nor under review nor failed.
LEMMA AnswersCount ==
  ASSUME NEW dec \in [Member -> Decision], NEW ans \in [Item -> Answer],
         NEW i \in Item, dec[owner[i]] = "deliver"
  PROVE  /\ ans[i] = "pending" => OverallStatus(dec, ans) = "pending"
         /\ ans[i] = "delivered" => OverallStatus(dec, ans) \in {"pending", "delivered"}
<1> DEFINE m == owner[i]
           answers == {ans[j] : j \in {k \in Item : owner[k] = m}}
           members == {MemberStatus(dec, ans, x) : x \in Member}
<1>1. m \in Member
  BY GroupAssumption
<1>2. MemberStatus(dec, ans, m) \in members
  BY <1>1
<1>3. ans[i] \in answers
  OBVIOUS
<1>4. MemberStatus(dec, ans, m) =
        IF "pending" \in answers THEN "pending"
        ELSE IF "delivered" \in answers THEN "delivered" ELSE "failed"
  BY DEF MemberStatus
<1>5. /\ ans[i] = "pending" => MemberStatus(dec, ans, m) = "pending"
      /\ ans[i] = "delivered" => MemberStatus(dec, ans, m) \in {"pending", "delivered"}
  <2> HIDE DEF answers
  <2> QED BY <1>3, <1>4
<1>6. /\ "pending" \in members => OverallStatus(dec, ans) = "pending"
      /\ "delivered" \in members => OverallStatus(dec, ans) \in {"pending", "delivered"}
  BY DEF OverallStatus
<1> HIDE DEF members, m
<1> QED
  BY <1>2, <1>5, <1>6

\* The handler calls the parent delivered only if a member has the message, if
\* there are members.
LEMMA DeliveredHasAnswer ==
  ASSUME NEW dec \in [Member -> Decision], NEW ans \in [Item -> Answer],
         OverallStatus(dec, ans) = "delivered", Member # {}
  PROVE  \E i \in Item : dec[owner[i]] = "deliver" /\ ans[i] = "delivered"
<1> DEFINE members == {MemberStatus(dec, ans, x) : x \in Member}
<1>1. \A m \in Member :
        MemberStatus(dec, ans, m) \in
          {"pending", "delivered", "review_required", "rejected", "failed"}
  BY DEF MemberStatus, Decision
<1>2. "delivered" \in members
  <2>1. PICK m \in Member : TRUE
    OBVIOUS
  <2>2. MemberStatus(dec, ans, m) \in members
    OBVIOUS
  <2>3. OverallStatus(dec, ans) = "delivered" =>
          \/ "delivered" \in members
          \/ \A s \in {"pending", "review_required", "rejected", "failed"} : s \notin members
    BY DEF OverallStatus
  <2> HIDE DEF members
  <2> QED
    BY <1>1, <2>2, <2>3
<1>3. PICK m \in Member : MemberStatus(dec, ans, m) = "delivered"
  BY <1>2
<1>4. dec[m] = "deliver"
  BY <1>3 DEF MemberStatus, Decision
<1>5. "delivered" \in {ans[j] : j \in {k \in Item : owner[k] = m}}
  BY <1>3, <1>4 DEF MemberStatus
<1> QED
  BY <1>4, <1>5

-----------------------------------------------------------------------------
(* The inductive invariant *)

\* Before the send handler runs nothing is stored; afterwards the rows are those
\* of the members the policies let through.
RowsAreLetThrough ==
  IF handler = "idle" THEN \A i \in Item : status[i] = "absent"
  ELSE \A i \in Rows : decision[owner[i]] = "deliver"

\* The handler waits as long as a first attempt is out, and by the time it is
\* done each row has an answer.
HandlerAwaitsAnswers ==
  /\ (\E a \in inFlight : a.by = Handler) => handler = "waiting"
  /\ handler \in {"waiting", "done"} =>
       \A i \in Rows : answer[i] = "none" =>
         \E a \in inFlight : a.by = Handler /\ a.item = i

\* A row whose first attempt succeeded is out of every run's reach.
AnsweredStaysDelivered ==
  \A i \in Item : answer[i] = "delivered" =>
    status[i] = "delivered" /\ i \notin Queued /\ InFlightOf(i) = {}

\* The accounts of a message under way are not deleted.
NothingIsDeleted == \A i \in Item : status[i] # "gone"

\* The two properties of the parent's status, and what the writers of it rely on.
FanoutInv ==
  /\ IInv
  /\ NothingIsDeleted
  /\ GroupTypeOK
  /\ RowsAreLetThrough
  /\ HandlerAwaitsAnswers
  /\ AnsweredStaysDelivered
  /\ NoRowOutlivesRefusal
  /\ DeliveredParentIsComplete

\* A fresh server, and no message yet.
LEMMA FanoutInit == GroupInit => FanoutInv
<1> SUFFICES ASSUME GroupInit PROVE FanoutInv
  OBVIOUS
<1>1. IInv
  BY IInvInit DEF GroupInit
<1>2. GroupTypeOK
  BY DEF GroupInit, GroupTypeOK, ParentStatus, Decision
<1> QED
  BY <1>1, <1>2 DEF GroupInit, Init, FanoutInv, NothingIsDeleted, RowsAreLetThrough, HandlerAwaitsAnswers,
     AnsweredStaysDelivered, NoRowOutlivesRefusal, DeliveredParentIsComplete

\* What the final write of the handler implies, from the answers it has.
LEMMA FinalWrite ==
  ASSUME NEW dec \in [Member -> Decision], NEW ans \in [Item -> Answer],
         NEW st \in [Item -> Status],
         \A i \in Item : st[i] # "absent" => dec[owner[i]] = "deliver" /\ ans[i] # "none",
         \A i \in Item : ans[i] = "delivered" => st[i] = "delivered"
  PROVE  /\ OverallStatus(dec, ans) \in {"failed", "rejected", "review_required"} =>
              \A i \in Item : st[i] = "absent"
         /\ OverallStatus(dec, ans) = "delivered" =>
              /\ \A i \in Item : st[i] # "pending"
              /\ Member # {} => \E i \in Item : st[i] = "delivered"
         /\ OverallStatus(dec, ans) \in ParentStatus
<1>1. ASSUME NEW i \in Item, st[i] # "absent"
      PROVE  /\ OverallStatus(dec, ans) \in {"pending", "delivered"}
             /\ OverallStatus(dec, ans) = "delivered" => st[i] = "delivered"
  BY <1>1, AnswersCount DEF Answer
<1>2. OverallStatus(dec, ans) = "delivered" /\ Member # {} => \E i \in Item : ans[i] = "delivered"
  BY DeliveredHasAnswer
<1>3. OverallStatus(dec, ans) \in ParentStatus
  BY DEF OverallStatus, ParentStatus
<1> QED
  BY <1>1, <1>2, <1>3

-----------------------------------------------------------------------------
(* The steps *)

\* The handler stores rows and starts its attempts: the parent is called
\* delivered at once only while attempts are out, or if there is none to wait for.
LEMMA FanOutPreserves ==
  ASSUME FanoutInv, NEW dec \in [Member -> Decision],
         NEW at \in Injection({i \in Item : dec[owner[i]] = "deliver"}, Conn),
         FanOut(dec, at)
  PROVE  FanoutInv'
<1> USE DeliveryAssumption
<1> DEFINE D == {i \in Item : dec[owner[i]] = "deliver"}
           polled == {i \in D : mode[at[i]] = "polling"}
           posted == D \ polled
           post(i) == [by |-> Handler, item |-> i, accepted |-> FALSE]
<1>1. at \in [D -> Conn]
  BY DEF Injection
<1>2. /\ handler = "idle"
      /\ \A i \in D : mode[at[i]] # "deleted"
      /\ decision' = dec
      /\ to' = [i \in Item |-> IF i \in D THEN at[i] ELSE NoConn]
      /\ status' = [i \in Item |-> IF i \in polled THEN "delivered"
                                   ELSE IF i \in posted THEN "pending" ELSE "absent"]
      /\ answer' = [i \in Item |-> IF i \in polled THEN "delivered" ELSE "none"]
      /\ handed' = polled
      /\ inFlight' = {post(i) : i \in posted}
      /\ UNCHANGED <<retryCount, mode, queue, due, todo, failures, lost>>
  BY <1>1 DEF FanOut
<1>3. IF posted = {}
      THEN handler' = "done" /\ parent' = OverallStatus(dec, answer')
      ELSE handler' = "waiting" /\ parent' \in {"pending", "delivered"}
  BY <1>1 DEF FanOut
<1>4. polled \subseteq Item /\ posted \subseteq Item /\ D \subseteq Item /\ D = polled \cup posted
  OBVIOUS
<1>5. \A i \in Item : post(i).by = Handler /\ post(i).item = i /\ post(i).accepted = FALSE
                        /\ post(i) \in Attempt
  BY NewAttemptType
<1>6. \A i \in Item : status[i] = "absent"
  BY <1>2 DEF FanoutInv, RowsAreLetThrough
<1>7. Queued = {} /\ lost = {}
  BY <1>6 DEF FanoutInv, IInv, AbsentIsUntouched, LostWasStored, TypeOK, Queued
<1>8. Queued' = {}
  BY <1>2, <1>7 DEF Queued
<1>9. \A i \in Item : /\ status'[i] = "absent" <=> i \notin D
                      /\ status'[i] = "pending" <=> i \in posted
                      /\ status'[i] = "delivered" <=> i \in polled
                      /\ answer'[i] = "delivered" <=> i \in polled
  BY <1>2, <1>4
<1>10. D = {i \in Item : dec[owner[i]] = "deliver"}
  OBVIOUS
<1>11. \A i \in D : at[i] \in Conn
  BY <1>1
<1> HIDE DEF D, polled, posted, post
<1>12. IInv'
  <2>1. TypeOK'
    <3>1. status' \in [Item -> Status] /\ to' \in [Item -> Conn \cup {NoConn}]
      BY <1>2, <1>4, <1>11 DEF Status
    <3>2. inFlight' \subseteq Attempt /\ handed' \subseteq Item
      BY <1>2, <1>4, <1>5
    <3> QED
      BY <1>2, <3>1, <3>2 DEF FanoutInv, IInv, TypeOK
  <2>2. AbsentIsUntouched' /\ StoredNamesConnection'
    <3>1. \A i \in Item : queue'[i] = 0
      BY <1>2, <1>6 DEF FanoutInv, IInv, AbsentIsUntouched
    <3>2. \A a \in inFlight' : a.item \in D
      BY <1>2, <1>4, <1>5
    <3> QED
      BY <1>2, <1>4, <1>9, <1>11, <3>1, <3>2 DEF AbsentIsUntouched, StoredNamesConnection
  <2>3. LostWasStored' /\ AcceptedIsHanded' /\ FailuresCoverQueue'
    BY <1>2, <1>4, <1>5, <1>7 DEF FanoutInv, IInv, LostWasStored, AcceptedIsHanded,
       FailuresCoverQueue
  <2>4. PendingIsTracked'
    BY <1>2, <1>5, <1>9 DEF PendingIsTracked, InFlightOf
  <2>5. RetryCountAgrees' /\ RunsVisitDueEntries'
    BY <1>2, <1>8 DEF FanoutInv, IInv, RetryCountAgrees, RunsVisitDueEntries, Queued
  <2>6. DeliveredWasHandedOver' /\ FailedSpentBudget'
    BY <1>2, <1>9 DEF DeliveredWasHandedOver, FailedSpentBudget
  <2>7. FirstAttemptPrecedesRetries'
    <3>1. ASSUME NEW a \in inFlight' PROVE InFlightOf(a.item)' = {a}
      <4>1. PICK i \in posted : a = post(i)
        BY <1>2
      <4>2. \A b \in inFlight' : b.item = i => b = post(i)
        BY <1>2, <1>4, <1>5
      <4> QED
        BY <1>4, <1>5, <4>1, <4>2 DEF InFlightOf
    <3> QED
      BY <1>8, <3>1 DEF FirstAttemptPrecedesRetries
  <2> QED
    BY <2>1, <2>2, <2>3, <2>4, <2>5, <2>6, <2>7 DEF IInv
<1>13. answer' \in [Item -> Answer]
  BY <1>2 DEF Answer
<1>14. /\ OverallStatus(dec, answer') \in ParentStatus
       /\ posted = {} =>
            /\ OverallStatus(dec, answer') \in {"failed", "rejected", "review_required"} =>
                 \A i \in Item : status'[i] = "absent"
            /\ OverallStatus(dec, answer') = "delivered" =>
                 /\ \A i \in Item : status'[i] # "pending"
                 /\ Member # {} => \E i \in Item : status'[i] = "delivered"
  <2>1. OverallStatus(dec, answer') \in ParentStatus
    BY DEF OverallStatus, ParentStatus
  <2>2. ASSUME posted = {}
        PROVE  \A i \in Item : status'[i] # "absent" =>
                 dec[owner[i]] = "deliver" /\ answer'[i] # "none"
    BY <1>2, <1>4, <1>9, <1>10, <2>2
  <2>3. status' \in [Item -> Status]
    BY <1>12 DEF IInv, TypeOK
  <2> QED
    BY <1>9, <1>13, <2>1, <2>2, <2>3, FinalWrite
<1>15. GroupTypeOK'
  BY <1>2, <1>3, <1>13, <1>14 DEF GroupTypeOK, ParentStatus, Answer
<1>16. RowsAreLetThrough' /\ AnsweredStaysDelivered'
  <2>1. ASSUME NEW i \in polled PROVE InFlightOf(i)' = {}
    <3>1. i \notin posted
      BY <1>9, <1>4
    <3> QED
      BY <1>2, <1>4, <1>5, <3>1 DEF InFlightOf
  <2> QED
    BY <1>2, <1>3, <1>8, <1>9, <1>10, <2>1 DEF RowsAreLetThrough, AnsweredStaysDelivered, Rows
<1>17. HandlerAwaitsAnswers'
  <2>1. \A i \in posted : \E a \in inFlight' : a.by = Handler /\ a.item = i
    BY <1>2, <1>4, <1>5
  <2>2. posted = {} => inFlight' = {}
    BY <1>2
  <2>3. ASSUME NEW i \in Rows', answer'[i] = "none" PROVE i \in posted
    BY <1>2, <1>4, <1>9, <2>3 DEF Rows
  <2> QED
    BY <1>3, <2>1, <2>2, <2>3 DEF HandlerAwaitsAnswers
<1>18. NoRowOutlivesRefusal' /\ DeliveredParentIsComplete'
  BY <1>3, <1>14 DEF NoRowOutlivesRefusal, DeliveredParentIsComplete, Rows
<1>19. NothingIsDeleted'
  BY <1>2, <1>4 DEF NothingIsDeleted
<1> QED
  BY <1>12, <1>15, <1>16, <1>17, <1>18, <1>19 DEF FanoutInv

\* What the end of an attempt does to the parent agrees with the rows, if the
\* recomputed status does.
LEMMA LearningPreserves ==
  ASSUME FanoutInv, IInv', NEW a \in inFlight,
         NEW result \in {"delivered", "pending"}, NEW recomputed \in ParentStatus,
         HandlerLearns(a, result, recomputed),
         decision' = decision,
         inFlight' = inFlight \ {a},
         \A i \in Item : status'[i] = "absent" <=> status[i] = "absent",
         NothingIsDeleted',
         \A i \in Item : i # a.item => status'[i] = status[i] /\ queue'[i] = queue[i],
         result = "delivered" => status'[a.item] = "delivered",
         result = "delivered" /\ a.by = Handler => queue'[a.item] = queue[a.item],
         recomputed \in {"failed", "rejected", "review_required"} =>
           \A i \in Rows' : status'[i] = "failed",
         handler = "done" /\ recomputed = "delivered" =>
           /\ \A i \in Rows' : status'[i] # "pending"
           /\ Member # {} => \E i \in Rows' : status'[i] = "delivered"
  PROVE  FanoutInv'
<1>1. a.item \in Item /\ a.item \in Rows
  BY StoredItem DEF FanoutInv, IInv, Rows
<1>2. Rows' = Rows
  BY DEF Rows
<1>3. answer[a.item] # "delivered"
  BY <1>1 DEF FanoutInv, AnsweredStaysDelivered, InFlightOf
<1>4. a.by = Handler => /\ handler = "waiting"
                        /\ a.item \notin Queued
                        /\ InFlightOf(a.item) = {a}
  BY DEF FanoutInv, HandlerAwaitsAnswers, IInv, FirstAttemptPrecedesRetries
<1>5. /\ answer' = IF a.by = Handler THEN [answer EXCEPT ![a.item] = result] ELSE answer
      /\ IF a.by = Handler /\ ~\E b \in inFlight' : b.by = Handler
         THEN handler' = "done" /\ parent' = OverallStatus(decision, answer')
         ELSE handler' = handler /\ parent' = recomputed
  BY DEF HandlerLearns
<1>6. answer \in [Item -> Answer] /\ decision \in [Member -> Decision]
  BY DEF FanoutInv, GroupTypeOK, Answer
<1>7. answer' \in [Item -> Answer]
  BY <1>5, <1>6 DEF Answer
<1>8. handler # "idle" /\ \A i \in Rows : decision[owner[i]] = "deliver"
  BY <1>1 DEF FanoutInv, RowsAreLetThrough, Rows
<1>9. AnsweredStaysDelivered'
  <2>1. ASSUME NEW i \in Item, answer'[i] = "delivered"
        PROVE  status'[i] = "delivered" /\ i \notin Queued' /\ InFlightOf(i)' = {}
    <3>1. CASE i = a.item
      <4>1. a.by = Handler /\ result = "delivered"
        BY <1>3, <1>5, <1>6, <2>1, <3>1
      <4>2. InFlightOf(i)' = {}
        BY <1>4, <3>1, <4>1 DEF InFlightOf
      <4> QED
        BY <1>1, <1>4, <3>1, <4>1, <4>2 DEF Queued
    <3>2. CASE i # a.item
      <4>1. answer[i] = "delivered"
        BY <1>5, <1>6, <2>1, <3>2
      <4> QED
        BY <3>2, <4>1 DEF FanoutInv, AnsweredStaysDelivered, Queued, InFlightOf
    <3> QED
      BY <3>1, <3>2
  <2> QED
    BY <2>1 DEF AnsweredStaysDelivered
<1>10. HandlerAwaitsAnswers'
  <2>1. ASSUME NEW i \in Rows, answer'[i] = "none", handler' \in {"waiting", "done"}
        PROVE  \E b \in inFlight' : b.by = Handler /\ b.item = i
    <3>1. answer[i] = "none"
      BY <1>5, <1>6, <2>1 DEF Rows
    <3>2. a.by = Handler => a.item # i
      BY <1>5, <1>6, <2>1 DEF Rows
    <3>3. handler \in {"waiting", "done"}
      BY <1>4, <1>5, <2>1
    <3>4. PICK b \in inFlight : b.by = Handler /\ b.item = i
      BY <3>1, <3>3 DEF FanoutInv, HandlerAwaitsAnswers
    <3>5. b # a
      BY <3>2, <3>4
    <3> QED
      BY <3>4, <3>5
  <2>2. (\E b \in inFlight' : b.by = Handler) => handler' = "waiting"
    BY <1>4, <1>5 DEF FanoutInv, HandlerAwaitsAnswers
  <2> QED
    BY <1>2, <2>1, <2>2 DEF HandlerAwaitsAnswers
<1>11. CASE handler' = handler /\ parent' = recomputed
  BY <1>1, <1>2, <1>6, <1>7, <1>8, <1>9, <1>10, <1>11
     DEF FanoutInv, GroupTypeOK, Answer, RowsAreLetThrough, NoRowOutlivesRefusal,
         DeliveredParentIsComplete
<1>12. CASE /\ a.by = Handler /\ ~\E b \in inFlight' : b.by = Handler
            /\ handler' = "done" /\ parent' = OverallStatus(decision, answer')
  <2>1. \A i \in Item : status'[i] # "absent" => decision[owner[i]] = "deliver" /\ answer'[i] # "none"
    BY <1>2, <1>8, <1>10, <1>12 DEF HandlerAwaitsAnswers, Rows
  <2>2. \A i \in Item : answer'[i] = "delivered" => status'[i] = "delivered"
    BY <1>9 DEF AnsweredStaysDelivered
  <2>3. status' \in [Item -> Status]
    BY DEF IInv, TypeOK
  <2>4. /\ parent' \in {"failed", "rejected", "review_required"} =>
             \A i \in Item : status'[i] = "absent"
        /\ parent' = "delivered" =>
             /\ \A i \in Item : status'[i] # "pending"
             /\ Member # {} => \E i \in Item : status'[i] = "delivered"
        /\ parent' \in ParentStatus
    BY <1>6, <1>7, <1>12, <2>1, <2>2, <2>3, FinalWrite
  <2>5. GroupTypeOK' /\ RowsAreLetThrough'
    BY <1>2, <1>6, <1>7, <1>8, <1>12, <2>4 DEF GroupTypeOK, Answer, RowsAreLetThrough
  <2>6. NoRowOutlivesRefusal' /\ DeliveredParentIsComplete'
    BY <2>4 DEF NoRowOutlivesRefusal, DeliveredParentIsComplete, Rows
  <2> QED
    BY <1>9, <1>10, <2>5, <2>6 DEF FanoutInv
<1> QED
  BY <1>5, <1>11, <1>12

\* After the handler every step is one of Delivery.
LEMMA DeliveryStep ==
  ASSUME FanoutInv, [Next]_vars
  PROVE  IInv' /\ status' \in [Item -> Status]
<1>1. IInv'
  BY IInvStep DEF FanoutInv
<1> QED
  BY <1>1 DEF IInv, TypeOK

\* A first attempt or a retry that succeeded.
LEMMA RowDeliveredPreserves ==
  ASSUME FanoutInv, NEW a \in inFlight, RowDelivered(a)
  PROVE  FanoutInv'
<1>1. AttemptOk(a) /\ HandlerLearns(a, "delivered", Recompute(status')) /\ UNCHANGED decision
  BY DEF RowDelivered
<1>2. [Next]_vars
  BY <1>1 DEF Next
<1>3. IInv' /\ status' \in [Item -> Status]
  BY <1>2, DeliveryStep
<1>4. a.item \in Item /\ status[a.item] # "absent"
  BY StoredItem DEF FanoutInv, IInv
<1>5. /\ inFlight' = inFlight \ {a}
      /\ status' = [status EXCEPT ![a.item] = "delivered"]
      /\ \A i \in Item : i # a.item => queue'[i] = queue[i]
      /\ a.by = Handler => queue' = queue
  BY <1>1 DEF AttemptOk, MarkDelivered, Marked, DropEntry, FanoutInv, NothingIsDeleted, IInv, TypeOK
<1>6. /\ \A i \in Item : status'[i] = "absent" <=> status[i] = "absent"
      /\ \A i \in Item : i # a.item => status'[i] = status[i]
      /\ status'[a.item] = "delivered"
      /\ NothingIsDeleted'
  BY <1>4, <1>5 DEF FanoutInv, NothingIsDeleted, IInv, TypeOK, Status
<1> DEFINE r == Recompute(status')
<1>7. /\ r \in ParentStatus
      /\ r \in {"failed", "rejected", "review_required"} => \A i \in Rows' : status'[i] = "failed"
      /\ r = "delivered" => /\ \A i \in Rows' : status'[i] # "pending"
                            /\ \E i \in Rows' : status'[i] = "delivered"
  BY <1>3, <1>6, RecomputeConclusions DEF Rows, ParentStatus, NothingIsDeleted
<1>8. HandlerLearns(a, "delivered", r)
  BY <1>1
<1> HIDE DEF r
<1> QED
  BY <1>1, <1>3, <1>5, <1>6, <1>7, <1>8, LearningPreserves

\* An attempt that failed: the row is queued again, or given up and the parent
\* recomputed.
LEMMA RowFailsPreserves ==
  ASSUME FanoutInv, NEW a \in inFlight, RowFails(a)
  PROVE  FanoutInv'
<1> DEFINE r == IF NextRetry(a.item) > MaxRetries THEN Recompute(status') ELSE parent
<1>1. AttemptFails(a) /\ HandlerLearns(a, "pending", r) /\ UNCHANGED decision
  BY DEF RowFails
<1>2. [Next]_vars
  BY <1>1 DEF Next
<1>3. IInv' /\ status' \in [Item -> Status]
  BY <1>2, DeliveryStep
<1>4. a.item \in Item /\ status[a.item] # "absent"
  BY StoredItem DEF FanoutInv, IInv
<1>5. GiveUp(a.item) \/ RetryLater(a.item)
  BY <1>1 DEF AttemptFails
<1>6. inFlight' = inFlight \ {a} /\ \A i \in Item : i # a.item => queue'[i] = queue[i]
  BY <1>1, <1>5 DEF AttemptFails, GiveUp, RetryLater, DropEntry, ArmEntry, FanoutInv, IInv, TypeOK
<1>7. /\ \A i \in Item : status'[i] = "absent" <=> status[i] = "absent"
      /\ \A i \in Item : i # a.item => status'[i] = status[i]
      /\ NothingIsDeleted'
  BY <1>4, <1>5 DEF GiveUp, RetryLater, MarkFailed, Marked, FanoutInv, NothingIsDeleted, IInv,
     TypeOK, Status
<1>8. /\ r \in ParentStatus
      /\ r \in {"failed", "rejected", "review_required"} => \A i \in Rows' : status'[i] = "failed"
      /\ handler = "done" /\ r = "delivered" =>
           /\ \A i \in Rows' : status'[i] # "pending"
           /\ Member # {} => \E i \in Rows' : status'[i] = "delivered"
  <2>1. CASE NextRetry(a.item) > MaxRetries
    BY <1>3, <1>7, <2>1, RecomputeConclusions DEF Rows, ParentStatus, NothingIsDeleted
  <2>2. CASE ~(NextRetry(a.item) > MaxRetries)
    <3>1. status' = status
      BY <1>5, <2>2 DEF GiveUp, RetryLater
    <3> QED
      BY <2>2, <3>1 DEF FanoutInv, GroupTypeOK, NoRowOutlivesRefusal,
         DeliveredParentIsComplete, Rows
  <2> QED
    BY <2>1, <2>2
<1> HIDE DEF r
<1> QED
  BY <1>1, <1>3, <1>6, <1>7, <1>8, LearningPreserves

\* A visit of the retry processor: it starts a POST, or settles the row and
\* recomputes the parent.
LEMMA RowVisitedPreserves ==
  ASSUME FanoutInv, NEW r \in Run, NEW i \in Item, RowVisited(r, i)
  PROVE  FanoutInv'
<1>1. Visit(r, i) /\ UNCHANGED <<decision, answer, handler>>
  BY DEF RowVisited
<1>2. [Next]_vars
  BY <1>1 DEF Next
<1>3. IInv' /\ status' \in [Item -> Status]
  BY <1>2, DeliveryStep
<1>4. i \in Queued /\ status[i] # "absent" /\ answer[i] # "delivered"
  BY <1>1 DEF Visit, FanoutInv, IInv, RunsVisitDueEntries, AbsentIsUntouched,
     AnsweredStaysDelivered, Queued
<1> DEFINE new == [by |-> r, item |-> i, accepted |-> FALSE]
<1>5. new.by = r /\ new.item = i /\ r # Handler
  BY DeliveryAssumption
<1>6. /\ \/ inFlight' = inFlight
         \/ inFlight' = inFlight \cup {new} /\ status' = status /\ new \notin inFlight
      /\ \A j \in Item : status'[j] = "absent" <=> status[j] = "absent"
      /\ \A j \in Item : j # i => status'[j] = status[j] /\ queue'[j] = queue[j]
      /\ NothingIsDeleted'
  <2>1. new \notin inFlight
    BY <1>1, <1>5 DEF Visit, Waiting
  <2> QED
    BY <1>1, <1>4, <1>5, <2>1, VisitDropsOrPosts
       DEF MarkDelivered, Marked, DropEntry, FanoutInv, NothingIsDeleted, IInv, TypeOK, Status
<1> HIDE DEF new
<1>7. \/ parent' = Recompute(status')
      \/ parent' = parent /\ status' = status
  BY <1>6 DEF RowVisited
<1>8. Rows' = Rows
  BY <1>6 DEF Rows
<1>9. GroupTypeOK' /\ RowsAreLetThrough'
  BY <1>1, <1>3, <1>6, <1>7, <1>8, RecomputeConclusions
     DEF NothingIsDeleted, FanoutInv, GroupTypeOK, RowsAreLetThrough, ParentStatus
<1>10. HandlerAwaitsAnswers'
  BY <1>1, <1>5, <1>6, <1>8 DEF FanoutInv, HandlerAwaitsAnswers
<1>11. AnsweredStaysDelivered'
  <2>1. ASSUME NEW j \in Item, answer'[j] = "delivered"
        PROVE  status'[j] = "delivered" /\ j \notin Queued' /\ InFlightOf(j)' = {}
    BY <1>1, <1>4, <1>5, <1>6, <2>1 DEF FanoutInv, AnsweredStaysDelivered, Queued, InFlightOf
  <2> QED
    BY <2>1 DEF AnsweredStaysDelivered
<1>12. NoRowOutlivesRefusal' /\ DeliveredParentIsComplete'
  <2>1. CASE parent' = Recompute(status')
    BY <1>3, <1>6, <2>1, RecomputeConclusions
       DEF NothingIsDeleted, NoRowOutlivesRefusal, DeliveredParentIsComplete, Rows
  <2>2. CASE parent' = parent /\ status' = status
    BY <1>1, <1>8, <2>2 DEF FanoutInv, NoRowOutlivesRefusal, DeliveredParentIsComplete, Rows
  <2> QED
    BY <1>7, <2>1, <2>2
<1> QED
  BY <1>3, <1>6, <1>9, <1>10, <1>11, <1>12 DEF FanoutInv

\* The steps the handler and the parent take no notice of.
LEMMA QuietPreserves ==
  ASSUME FanoutInv, UNCHANGED groupVars,
         \/ \E a \in inFlight : RecipientAccepts(a)
         \/ \E i \in Item : BackoffElapses(i)
         \/ \E r \in Run : StartRun(r)
         \/ \E c \in Conn : Reregister(c)
         \/ UNCHANGED vars
  PROVE  FanoutInv'
<1>1. [Next]_vars
  BY DEF Next
<1>2. IInv'
  BY <1>1, DeliveryStep
<1>3. status' = status /\ queue' = queue
  BY DEF RecipientAccepts, BackoffElapses, StartRun, Reregister, vars, dbVars, memVars
<1>4. /\ \A b \in inFlight' : \E a \in inFlight : a.by = b.by /\ a.item = b.item
      /\ \A a \in inFlight : \E b \in inFlight' : a.by = b.by /\ a.item = b.item
  <2>1. ASSUME NEW a \in inFlight, RecipientAccepts(a)
        PROVE  /\ \A b \in inFlight' : \E x \in inFlight : x.by = b.by /\ x.item = b.item
               /\ \A x \in inFlight : \E b \in inFlight' : x.by = b.by /\ x.item = b.item
    <3> DEFINE t == [a EXCEPT !.accepted = TRUE]
    <3>1. t.by = a.by /\ t.item = a.item /\ inFlight' = (inFlight \ {a}) \cup {t}
      BY <2>1 DEF RecipientAccepts, FanoutInv, IInv, TypeOK, Attempt
    <3> HIDE DEF t
    <3> QED
      BY <3>1
  <2>2. (\A a \in inFlight : ~RecipientAccepts(a)) => inFlight' = inFlight
    BY DEF BackoffElapses, StartRun, Reregister, vars, memVars
  <2> QED
    BY <2>1, <2>2
<1>5. Rows' = Rows /\ Queued' = Queued
  BY <1>3 DEF Rows, Queued
<1>6. GroupTypeOK' /\ RowsAreLetThrough' /\ NoRowOutlivesRefusal' /\ DeliveredParentIsComplete'
  BY <1>3, <1>5 DEF groupVars, FanoutInv, GroupTypeOK, RowsAreLetThrough, NoRowOutlivesRefusal,
     DeliveredParentIsComplete
<1>7. HandlerAwaitsAnswers'
  BY <1>4, <1>5 DEF groupVars, FanoutInv, HandlerAwaitsAnswers
<1>8. AnsweredStaysDelivered'
  BY <1>3, <1>4, <1>5 DEF groupVars, FanoutInv, AnsweredStaysDelivered, InFlightOf
<1>9. NothingIsDeleted'
  BY <1>3 DEF FanoutInv, NothingIsDeleted
<1> QED
  BY <1>2, <1>6, <1>7, <1>8, <1>9 DEF FanoutInv

\* A restart ends the handler with its attempts.
LEMMA RestartPreserves == FanoutInv /\ GroupRestart => FanoutInv'
<1> SUFFICES ASSUME FanoutInv, GroupRestart PROVE FanoutInv'
  OBVIOUS
<1>1. [Next]_vars /\ Restart
  BY DEF GroupRestart, Next
<1>2. IInv'
  BY <1>1, DeliveryStep
<1>3. /\ status' = status /\ inFlight' = {} /\ Queued' = {}
      /\ UNCHANGED <<parent, decision, answer>>
      /\ handler' = IF handler = "waiting" THEN "died" ELSE handler
  BY <1>1 DEF GroupRestart, Restart, dbVars, Queued
<1> QED
  BY <1>2, <1>3 DEF FanoutInv, NothingIsDeleted, GroupTypeOK, RowsAreLetThrough, HandlerAwaitsAnswers,
     AnsweredStaysDelivered, NoRowOutlivesRefusal, DeliveredParentIsComplete, Rows, InFlightOf

\* Every step keeps the invariant.
LEMMA FanoutStep == FanoutInv /\ [GroupNext]_allVars => FanoutInv'
<1> SUFFICES ASSUME FanoutInv, [GroupNext]_allVars PROVE FanoutInv'
  OBVIOUS
<1>1. CASE \E dec \in [Member -> Decision] :
             \E at \in Injection({i \in Item : dec[owner[i]] = "deliver"}, Conn) : FanOut(dec, at)
  BY <1>1, FanOutPreserves
<1>2. CASE \E a \in inFlight : RowDelivered(a)
  BY <1>2, RowDeliveredPreserves
<1>3. CASE \E a \in inFlight : RowFails(a)
  BY <1>3, RowFailsPreserves
<1>4. CASE \E r \in Run, i \in Item : RowVisited(r, i)
  BY <1>4, RowVisitedPreserves
<1>5. CASE GroupRestart
  BY <1>5, RestartPreserves
<1>6. CASE /\ UNCHANGED groupVars
           /\ \/ \E a \in inFlight : RecipientAccepts(a)
              \/ \E i \in Item : BackoffElapses(i)
              \/ \E r \in Run : StartRun(r)
              \/ \E c \in Conn : Reregister(c)
              \/ UNCHANGED vars
  BY <1>6, QuietPreserves
<1> QED
  BY <1>1, <1>2, <1>3, <1>4, <1>5, <1>6 DEF GroupNext, allVars

\* The invariant holds in every reachable state.
LEMMA FanoutInvariant == GroupSpec => []FanoutInv
BY FanoutInit, FanoutStep, PTL DEF GroupSpec

-----------------------------------------------------------------------------
(* When the parent is left pending *)

\* The handler's final write is as good as the answers it is taken from: as long
\* as it waits, no row settles that was already reported to it as pending.
FirstAnswersStand ==
  handler = "waiting" =>
    \A i \in Item : answer[i] = "pending" => status'[i] = status[i]

\* What the handler has been told is still so.
AnswersAreCurrent ==
  handler = "waiting" => \A i \in Item : answer[i] = "pending" => status[i] = "pending"

\* A row is pending as long as its first attempt is out.
FirstAttemptsArePending ==
  \A a \in inFlight : a.by = Handler => status[a.item] = "pending"

\* A parent that is pending after the final write waits for a row.
PendingParentHasRow ==
  handler = "done" /\ parent = "pending" => \E i \in Item : status[i] = "pending"

\* The three together are inductive as long as the first answers stand.
PendingInv ==
  /\ AnswersAreCurrent
  /\ FirstAttemptsArePending
  /\ PendingParentHasRow

\* recomputeGroupMessageStatus calls the parent pending for a pending row only.
LEMMA RecomputePending ==
  ASSUME NEW st, Recompute(st) = "pending"
  PROVE  \E i \in Item : st[i] = "pending"
<1> DEFINE rows == {i \in Item : st[i] # "absent"}
<1>1. \E i \in rows : st[i] = "pending"
  BY DEF Recompute
<1> QED
  BY <1>1

\* The final write leaves the parent pending for a pending answer only.
LEMMA OverallPending ==
  ASSUME NEW dec \in [Member -> Decision], NEW ans \in [Item -> Answer],
         OverallStatus(dec, ans) = "pending"
  PROVE  \E i \in Item : ans[i] = "pending"
<1>1. PICK m \in Member : MemberStatus(dec, ans, m) = "pending"
  BY DEF OverallStatus
<1>2. "pending" \in {ans[j] : j \in {k \in Item : owner[k] = m}}
  BY <1>1 DEF MemberStatus, Decision
<1> QED
  BY <1>2

\* The end of an attempt: a first attempt that fails leaves its row pending, and
\* the parent is put to pending for a row that is.
LEMMA LearningKeepsPending ==
  ASSUME FanoutInv, PendingInv, FirstAnswersStand, IInv', NEW a \in inFlight,
         NEW result \in {"delivered", "pending"}, NEW recomputed,
         HandlerLearns(a, result, recomputed),
         decision' = decision,
         inFlight' = inFlight \ {a},
         \A i \in Item : i # a.item => status'[i] = status[i],
         a.by = Handler /\ result = "pending" => status'[a.item] = "pending",
         recomputed = "pending" =>
           \/ \E i \in Item : status'[i] = "pending"
           \/ parent = "pending" /\ status' = status
  PROVE  PendingInv'
<1>1. /\ answer' = IF a.by = Handler THEN [answer EXCEPT ![a.item] = result] ELSE answer
      /\ \/ handler' = handler /\ parent' = recomputed
         \/ /\ a.by = Handler
            /\ handler' = "done" /\ parent' = OverallStatus(decision, answer')
  BY DEF HandlerLearns
<1>2. a.by = Handler => handler = "waiting" /\ InFlightOf(a.item) = {a}
  BY DEF FanoutInv, HandlerAwaitsAnswers, IInv, FirstAttemptPrecedesRetries
<1>3. answer \in [Item -> Answer] /\ decision \in [Member -> Decision]
  BY DEF FanoutInv, GroupTypeOK, Answer
<1>4. answer' \in [Item -> Answer]
  BY <1>1, <1>3 DEF Answer
<1>5. ASSUME handler = "waiting", NEW i \in Item, answer'[i] = "pending"
      PROVE  status'[i] = "pending"
  <2>1. CASE answer[i] = "pending"
    BY <1>5, <2>1 DEF PendingInv, AnswersAreCurrent, FirstAnswersStand
  <2>2. CASE answer[i] # "pending"
    BY <1>1, <1>3, <1>5, <2>2
  <2> QED
    BY <2>1, <2>2
<1>6. AnswersAreCurrent'
  BY <1>1, <1>5 DEF AnswersAreCurrent
<1>7. FirstAttemptsArePending'
  <2>1. ASSUME NEW b \in inFlight', b.by = Handler PROVE status'[b.item] = "pending"
    <3>1. b \in inFlight /\ b # a /\ status[b.item] = "pending" /\ b.item \in Item
      BY <2>1 DEF PendingInv, FirstAttemptsArePending, FanoutInv, IInv, TypeOK, Attempt
    <3>2. InFlightOf(b.item) = {b}
      BY <2>1, <3>1 DEF FanoutInv, IInv, FirstAttemptPrecedesRetries
    <3>3. b.item # a.item
      BY <3>1, <3>2 DEF InFlightOf
    <3> QED
      BY <3>1, <3>3
  <2> QED
    BY <2>1 DEF FirstAttemptsArePending
<1>8. PendingParentHasRow'
  <2>1. CASE handler' = handler /\ parent' = recomputed
    BY <2>1 DEF PendingInv, PendingParentHasRow
  <2>2. CASE a.by = Handler /\ handler' = "done" /\ parent' = OverallStatus(decision, answer')
    <3> SUFFICES ASSUME parent' = "pending" PROVE \E i \in Item : status'[i] = "pending"
      BY DEF PendingParentHasRow
    <3>1. PICK i \in Item : answer'[i] = "pending"
      BY <1>3, <1>4, <2>2, OverallPending
    <3> QED
      BY <1>2, <1>5, <2>2, <3>1
  <2> QED
    BY <1>1, <2>1, <2>2
<1> QED
  BY <1>6, <1>7, <1>8 DEF PendingInv

\* The handler stores its rows: it waits, with no pending answer yet, or is done
\* at once with every row delivered.
LEMMA FanOutKeepsPending ==
  ASSUME FanoutInv, NEW dec \in [Member -> Decision],
         NEW at \in Injection({i \in Item : dec[owner[i]] = "deliver"}, Conn),
         FanOut(dec, at)
  PROVE  PendingInv'
<1> DEFINE D == {i \in Item : dec[owner[i]] = "deliver"}
           polled == {i \in D : mode[at[i]] = "polling"}
           posted == D \ polled
           post(i) == [by |-> Handler, item |-> i, accepted |-> FALSE]
<1>1. at \in [D -> Conn]
  BY DEF Injection
<1>2. /\ status' = [i \in Item |-> IF i \in polled THEN "delivered"
                                   ELSE IF i \in posted THEN "pending" ELSE "absent"]
      /\ answer' = [i \in Item |-> IF i \in polled THEN "delivered" ELSE "none"]
      /\ inFlight' = {post(i) : i \in posted}
      /\ IF posted = {} THEN parent' = OverallStatus(dec, answer') ELSE handler' = "waiting"
  BY <1>1 DEF FanOut
<1>3. posted \subseteq Item /\ polled \cap posted = {} /\ \A i \in posted : post(i).item = i
  OBVIOUS
<1> HIDE DEF D, polled, posted, post
<1>4. answer' \in [Item -> Answer] /\ \A i \in Item : answer'[i] # "pending"
  BY <1>2 DEF Answer
<1>5. posted = {} => parent' # "pending"
  BY <1>2, <1>4, OverallPending
<1>6. FirstAttemptsArePending'
  BY <1>2, <1>3 DEF FirstAttemptsArePending
<1> QED
  BY <1>2, <1>4, <1>5, <1>6 DEF PendingInv, AnswersAreCurrent, PendingParentHasRow

\* A first attempt or a retry that succeeded.
LEMMA DeliveredKeepsPending ==
  ASSUME FanoutInv, PendingInv, FirstAnswersStand, NEW a \in inFlight, RowDelivered(a)
  PROVE  PendingInv'
<1>1. AttemptOk(a) /\ HandlerLearns(a, "delivered", Recompute(status')) /\ UNCHANGED decision
  BY DEF RowDelivered
<1>2. IInv'
  BY <1>1, DeliveryStep DEF Next
<1>3. /\ inFlight' = inFlight \ {a}
      /\ \A i \in Item : i # a.item => status'[i] = status[i]
  BY <1>1 DEF AttemptOk, MarkDelivered, Marked, FanoutInv, IInv, TypeOK
<1> DEFINE r == Recompute(status')
<1>4. HandlerLearns(a, "delivered", r) /\ (r = "pending" => \E i \in Item : status'[i] = "pending")
  BY <1>1, RecomputePending
<1> HIDE DEF r
<1> QED
  BY <1>1, <1>2, <1>3, <1>4, LearningKeepsPending

\* An attempt that failed: the first one always leaves a retry.
LEMMA FailureKeepsPending ==
  ASSUME FanoutInv, PendingInv, FirstAnswersStand,
         NEW a \in inFlight, RowFails(a)
  PROVE  PendingInv'
<1> DEFINE r == IF NextRetry(a.item) > MaxRetries THEN Recompute(status') ELSE parent
<1>1. AttemptFails(a) /\ HandlerLearns(a, "pending", r) /\ UNCHANGED decision
  BY DEF RowFails
<1>2. IInv'
  BY <1>1, DeliveryStep DEF Next
<1>3. a.item \in Item
  BY StoredItem DEF FanoutInv, IInv
<1>4. GiveUp(a.item) \/ RetryLater(a.item)
  BY <1>1 DEF AttemptFails
<1>5. /\ inFlight' = inFlight \ {a}
      /\ \A i \in Item : i # a.item => status'[i] = status[i]
  BY <1>1, <1>4 DEF AttemptFails, GiveUp, RetryLater, MarkFailed, Marked, FanoutInv, IInv, TypeOK
<1>6. NextRetry(a.item) <= MaxRetries => status' = status
  BY <1>3, <1>4, DeliveryAssumption DEF GiveUp, RetryLater, NextRetry, FanoutInv, IInv, TypeOK
<1>7. ASSUME a.by = Handler PROVE status'[a.item] = "pending"
  <2>1. queue[a.item] = 0
    BY <1>3, <1>7, DeliveryAssumption
       DEF FanoutInv, IInv, FirstAttemptPrecedesRetries, TypeOK, Queued
  <2>2. NextRetry(a.item) <= MaxRetries
    BY <2>1, DeliveryAssumption DEF NextRetry
  <2> QED
    BY <1>6, <1>7, <2>2 DEF PendingInv, FirstAttemptsArePending
<1>8. r = "pending" => \/ \E i \in Item : status'[i] = "pending"
                       \/ parent = "pending" /\ status' = status
  <2>1. CASE NextRetry(a.item) > MaxRetries
    BY <2>1, RecomputePending
  <2>2. CASE ~(NextRetry(a.item) > MaxRetries)
    BY <1>4, <2>2 DEF GiveUp, RetryLater
  <2> QED
    BY <2>1, <2>2
<1> HIDE DEF r
<1> QED
  BY <1>1, <1>2, <1>5, <1>7, <1>8, LearningKeepsPending

\* A visit of the retry processor: an entry's row is not under a first attempt.
LEMMA VisitKeepsPending ==
  ASSUME FanoutInv, PendingInv, FirstAnswersStand, NEW r \in Run, NEW i \in Item,
         RowVisited(r, i)
  PROVE  PendingInv'
<1> DEFINE new == [by |-> r, item |-> i, accepted |-> FALSE]
<1>1. Visit(r, i) /\ UNCHANGED <<decision, answer, handler>>
  BY DEF RowVisited
<1>2. new.by = r /\ r # Handler
  BY DeliveryAssumption
<1>3. i \in Queued
  BY <1>1 DEF Visit, FanoutInv, IInv, RunsVisitDueEntries
<1>4. /\ \/ inFlight' = inFlight
         \/ inFlight' = inFlight \cup {new} /\ status' = status
      /\ \A j \in Item : j # i => status'[j] = status[j]
  BY <1>1, VisitDropsOrPosts DEF MarkDelivered, Marked, FanoutInv, IInv, TypeOK
<1> HIDE DEF new
<1>5. \/ parent' = Recompute(status')
      \/ parent' = parent /\ status' = status
  BY <1>4 DEF RowVisited
<1>6. AnswersAreCurrent'
  BY <1>1 DEF PendingInv, AnswersAreCurrent, FirstAnswersStand
<1>7. FirstAttemptsArePending'
  <2>1. ASSUME NEW b \in inFlight', b.by = Handler PROVE status'[b.item] = "pending"
    <3>1. b \in inFlight
      BY <1>2, <1>4, <2>1
    <3>2. b.item # i /\ b.item \in Item
      BY <1>3, <2>1, <3>1 DEF FanoutInv, IInv, FirstAttemptPrecedesRetries, TypeOK, Attempt
    <3> QED
      BY <1>4, <2>1, <3>1, <3>2 DEF PendingInv, FirstAttemptsArePending
  <2> QED
    BY <2>1 DEF FirstAttemptsArePending
<1>8. PendingParentHasRow'
  BY <1>1, <1>5, RecomputePending DEF PendingInv, PendingParentHasRow
<1> QED
  BY <1>6, <1>7, <1>8 DEF PendingInv

\* The steps that settle nothing.
LEMMA QuietKeepsPending ==
  ASSUME FanoutInv, PendingInv,
         \/ GroupRestart
         \/ /\ UNCHANGED groupVars
            /\ \/ \E a \in inFlight : RecipientAccepts(a)
               \/ \E i \in Item : BackoffElapses(i)
               \/ \E r \in Run : StartRun(r)
               \/ \E c \in Conn : Reregister(c)
               \/ UNCHANGED vars
  PROVE  PendingInv'
<1>1. /\ status' = status /\ parent' = parent /\ answer' = answer
      /\ handler' \in {handler, "died"}
  BY DEF GroupRestart, Restart, RecipientAccepts, BackoffElapses, StartRun, Reregister, vars,
     dbVars, memVars, groupVars
<1>2. \A b \in inFlight' : \E a \in inFlight : a.by = b.by /\ a.item = b.item
  <2>1. ASSUME NEW a \in inFlight, RecipientAccepts(a)
        PROVE  \A b \in inFlight' : \E x \in inFlight : x.by = b.by /\ x.item = b.item
    <3> DEFINE t == [a EXCEPT !.accepted = TRUE]
    <3>1. t.by = a.by /\ t.item = a.item /\ inFlight' = (inFlight \ {a}) \cup {t}
      BY <2>1 DEF RecipientAccepts, FanoutInv, IInv, TypeOK, Attempt
    <3> HIDE DEF t
    <3> QED
      BY <3>1
  <2>2. (\A a \in inFlight : ~RecipientAccepts(a)) => inFlight' \in {inFlight, {}}
    BY DEF GroupRestart, Restart, BackoffElapses, StartRun, Reregister, vars, memVars
  <2> QED
    BY <2>1, <2>2
<1> QED
  BY <1>1, <1>2 DEF PendingInv, AnswersAreCurrent, FirstAttemptsArePending, PendingParentHasRow

\* Every step at which the first answers stand keeps the three facts.
LEMMA PendingStep ==
  ASSUME FanoutInv, PendingInv, [GroupNext]_allVars,
         [FirstAnswersStand]_allVars
  PROVE  PendingInv'
<1>1. CASE \E dec \in [Member -> Decision] :
             \E at \in Injection({i \in Item : dec[owner[i]] = "deliver"}, Conn) : FanOut(dec, at)
  BY <1>1, FanOutKeepsPending
<1>2. ASSUME NEW a \in inFlight, RowDelivered(a) PROVE PendingInv'
  <2>1. FirstAnswersStand
    BY DEF FirstAnswersStand, allVars, vars, dbVars
  <2> QED
    BY <1>2, <2>1, DeliveredKeepsPending
<1>3. ASSUME NEW a \in inFlight, RowFails(a) PROVE PendingInv'
  <2>1. FirstAnswersStand
    BY DEF FirstAnswersStand, allVars, vars, dbVars
  <2> QED
    BY <1>3, <2>1, FailureKeepsPending
<1>4. ASSUME NEW r \in Run, NEW i \in Item, RowVisited(r, i) PROVE PendingInv'
  <2>1. FirstAnswersStand
    BY DEF FirstAnswersStand, allVars, vars, dbVars
  <2> QED
    BY <1>4, <2>1, VisitKeepsPending
<1>5. CASE \/ GroupRestart
           \/ /\ UNCHANGED groupVars
              /\ \/ \E a \in inFlight : RecipientAccepts(a)
                 \/ \E i \in Item : BackoffElapses(i)
                 \/ \E r \in Run : StartRun(r)
                 \/ \E c \in Conn : Reregister(c)
                 \/ UNCHANGED vars
  BY <1>5, QuietKeepsPending
<1> QED
  BY <1>1, <1>2, <1>3, <1>4, <1>5 DEF GroupNext, allVars

-----------------------------------------------------------------------------
(* The theorems *)

\* The sender of a group message is never told that it failed or was refused
\* while a recipient has it or may still get it.
THEOREM RefusalIsFinal == GroupSpec => []NoRowOutlivesRefusal
BY FanoutInvariant, PTL DEF FanoutInv

\* A group message that is called delivered once the handler has answered has
\* no pending row, and a recipient has it if there are any.
THEOREM DeliveredMeansAllSettled == GroupSpec => []DeliveredParentIsComplete
BY FanoutInvariant, PTL DEF FanoutInv

\* A member's row is only ever stored on a decision to deliver to the member.
THEOREM OnlyTheLetThroughGetRows == GroupSpec => []RowsAreLetThrough
BY FanoutInvariant, PTL DEF FanoutInv

\* The parent is left pending for good only if a row settles while the handler
\* still waits, after its first attempt was reported to the handler as pending:
\* otherwise the final status is set by the time nothing is under way.
THEOREM QuietUnlessOverwritten ==
  GroupSpec /\ [][FirstAnswersStand]_allVars => []QuietParentIsSettled
<1>1. GroupInit => PendingInv
  BY DEF GroupInit, Init, PendingInv, AnswersAreCurrent, FirstAttemptsArePending,
     PendingParentHasRow
<1>2. FanoutInv /\ PendingInv /\ [GroupNext]_allVars /\ [FirstAnswersStand]_allVars => PendingInv'
  BY PendingStep
<1>3. FanoutInv /\ PendingInv => QuietParentIsSettled
  <2> SUFFICES ASSUME FanoutInv, PendingInv, handler = "done", parent = "pending",
                      Queued = {}, inFlight = {}, lost = {}
               PROVE  FALSE
    BY DEF QuietParentIsSettled
  <2>1. PICK i \in Item : status[i] = "pending"
    BY DEF PendingInv, PendingParentHasRow
  <2> QED
    BY <2>1 DEF FanoutInv, IInv, PendingIsTracked, InFlightOf
<1> QED
  BY <1>1, <1>2, <1>3, FanoutInvariant, PTL DEF GroupSpec
=============================================================================

--------------------------- MODULE DeliveryProofs ---------------------------
(***************************************************************************)
(* What holds of Delivery for every set of items, connections and          *)
(* overlapping runs and every retry budget.                                *)
(***************************************************************************)
EXTENDS Delivery, TLAPS

-----------------------------------------------------------------------------
(* Visits *)

\* The three ways a visited entry goes: its connection is gone, is polled, or is
\* POSTed to.
LEMMA VisitCases ==
  ASSUME NEW r \in Run, NEW i \in Item, Visit(r, i)
  PROVE  \/ /\ mode[to[i]] = "deleted"
            /\ MarkFailed(i)
            /\ DropEntry(i)
            /\ UNCHANGED <<inFlight, handed>>
         \/ /\ mode[to[i]] = "polling"
            /\ MarkDelivered(i)
            /\ DropEntry(i)
            /\ handed' = handed \cup ({i} \cap Stored)
            /\ UNCHANGED inFlight
         \/ /\ mode[to[i]] \notin {"deleted", "polling"}
            /\ inFlight' = inFlight \cup
                  {[by |-> r, item |-> i, accepted |-> FALSE]}
            /\ todo' = [todo EXCEPT ![r] = @ \ {i}]
            /\ UNCHANGED <<status, queue, due, handed>>
BY DEF Visit

-----------------------------------------------------------------------------
(* Type correctness *)

\* A POST that starts is an attempt.
LEMMA NewAttemptType ==
  ASSUME NEW b \in Run \cup {Handler}, NEW i \in Item
  PROVE  [by |-> b, item |-> i, accepted |-> FALSE] \in Attempt
BY DEF Attempt

\* Every step keeps the variables in their types: in particular neither the
\* Map nor the database ever holds a retry count above MaxRetries.
LEMMA TypeStep == TypeOK /\ [Next]_vars => TypeOK'
<1> SUFFICES ASSUME TypeOK, [Next]_vars PROVE TypeOK'
  OBVIOUS
<1> USE DEF TypeOK, Status, Mode, Marked, Stored, vars, dbVars, memVars, history
<1>1. ASSUME NEW i \in Item, NEW c \in Conn, Send(i, c) PROVE TypeOK'
  <2>1. CASE mode[c] = "polling"
    BY <1>1, <2>1 DEF Send, MarkDelivered
  <2>2. CASE mode[c] # "polling"
    <3>1. /\ status' = [status EXCEPT ![i] = "pending"]
          /\ to' = [to EXCEPT ![i] = c]
          /\ inFlight' = inFlight \cup
                {[by |-> Handler, item |-> i, accepted |-> FALSE]}
          /\ UNCHANGED <<retryCount, mode, queue, due, todo, handed, failures, lost>>
      BY <1>1, <2>2 DEF Send
    <3>2. inFlight' \subseteq Attempt
      BY <3>1, NewAttemptType
    <3>3. QED
      BY <3>1, <3>2
  <2>3. QED
    BY <2>1, <2>2
<1>2. ASSUME NEW a \in inFlight, RecipientAccepts(a) PROVE TypeOK'
  BY <1>2 DEF RecipientAccepts, Attempt
<1>3. ASSUME NEW a \in inFlight, AttemptOk(a) PROVE TypeOK'
  BY <1>3, DeliveryAssumption DEF AttemptOk, MarkDelivered, DropEntry, Attempt
<1>4. ASSUME NEW a \in inFlight, AttemptFails(a) PROVE TypeOK'
  <2>1. failures' \in [Item -> 0 .. FailureCap]
    BY <1>4, DeliveryAssumption DEF AttemptFails, FailureCap, Attempt
  <2>2. CASE GiveUp(a.item)
    BY <1>4, <2>1, <2>2, DeliveryAssumption DEF AttemptFails, GiveUp, MarkFailed, DropEntry,
           Attempt
  <2>3. CASE RetryLater(a.item)
    <3>1. NextRetry(a.item) \in 0 .. MaxRetries
      BY <2>3, DeliveryAssumption DEF RetryLater, NextRetry, Attempt
    <3>2. QED
      BY <1>4, <2>1, <2>3, <3>1 DEF AttemptFails, RetryLater, ArmEntry, Count, Attempt
  <2>4. QED
    BY <1>4, <2>2, <2>3 DEF AttemptFails
<1>5. ASSUME NEW i \in Item, BackoffElapses(i) PROVE TypeOK'
  BY <1>5 DEF BackoffElapses
<1>6. ASSUME NEW r \in Run, StartRun(r) PROVE TypeOK'
  BY <1>6 DEF StartRun
<1>7. ASSUME NEW r \in Run, NEW i \in Item, Visit(r, i) PROVE TypeOK'
  <2>1. UNCHANGED <<retryCount, to, mode, failures, lost>>
    BY <1>7 DEF Visit
  <2>2. CASE MarkFailed(i) /\ DropEntry(i) /\ UNCHANGED <<inFlight, handed>>
    BY <2>1, <2>2, DeliveryAssumption DEF MarkFailed, DropEntry
  <2>3. CASE /\ MarkDelivered(i)
             /\ DropEntry(i)
             /\ handed' = handed \cup ({i} \cap Stored)
             /\ UNCHANGED inFlight
    BY <2>1, <2>3, DeliveryAssumption DEF MarkDelivered, DropEntry
  <2>4. CASE /\ inFlight' = inFlight \cup
                   {[by |-> r, item |-> i, accepted |-> FALSE]}
             /\ todo' = [todo EXCEPT ![r] = @ \ {i}]
             /\ UNCHANGED <<status, queue, due, handed>>
    <3>1. inFlight' \subseteq Attempt
      BY <2>4, NewAttemptType
    <3>2. QED
      BY <2>1, <2>4, <3>1
  <2>5. QED
    BY <1>7, <2>2, <2>3, <2>4, VisitCases
<1>8. ASSUME NEW c \in Conn, Reregister(c) PROVE TypeOK'
  BY <1>8 DEF Reregister
<1>9. ASSUME NEW c \in Conn, DeleteConnection(c) PROVE TypeOK'
  BY <1>9 DEF DeleteConnection
<1>10. CASE Restart
  BY <1>10, DeliveryAssumption DEF Restart
<1>11. ASSUME NEW S \in SUBSET Stored, NEW C \in SUBSET Conn, DeleteAccount(S, C)
       PROVE  TypeOK'
  BY <1>11, DeliveryAssumption DEF DeleteAccount
<1>12. CASE UNCHANGED vars
  BY <1>12
<1>13. QED
  BY <1>1, <1>2, <1>3, <1>4, <1>5, <1>6, <1>7, <1>8, <1>9, <1>10, <1>11, <1>12 DEF Next

\* Delivery is type correct.
THEOREM TypeCorrect == Spec => []TypeOK
<1>1. Init => TypeOK
  BY DeliveryAssumption DEF Init, TypeOK, Status, Mode, Attempt, FailureCap
<1>2. QED
  BY <1>1, TypeStep, PTL DEF Spec

-----------------------------------------------------------------------------
(* The inductive invariant *)

AbsentIsUntouched ==
  \A i \in Item : status[i] = "absent" =>
    to[i] = NoConn /\ queue[i] = 0 /\ \A a \in inFlight : a.item # i

StoredNamesConnection ==
  \A i \in Item : status[i] # "absent" =>
    to[i] \in Conn /\ (mode[to[i]] = "deleted" => status[i] = "gone")

LostWasStored == \A i \in lost : status[i] # "absent"

AcceptedIsHanded == \A a \in inFlight : a.accepted => a.item \in handed

FailuresCoverQueue == \A i \in Item : queue[i] <= failures[i]

\* The retry_count the sender is shown is the count the Map goes by, while there
\* is a row to show it.
RetryCountAgrees ==
  \A i \in Queued : status[i] # "gone" => retryCount[i] = queue[i]

\* A run acts only on entries that are in the Map and whose backoff is over.
RunsVisitDueEntries ==
  \A r \in Run : todo[r] \subseteq due /\ due \subseteq Queued

\* The first attempt and the retries of an item never overlap: a retry starts
\* only after the send handler has learned that its own POST failed.
FirstAttemptPrecedesRetries ==
  \A a \in inFlight : a.by = Handler =>
    a.item \notin Queued /\ InFlightOf(a.item) = {a}

\* The properties of interest, and the facts that make them inductive:
\* what a row not yet stored excludes, the row the foreign key protects, what
\* a restart can cut off, what an answered POST implies, and that a
\* retry count never exceeds the failures.
IInv ==
  /\ TypeOK
  /\ AbsentIsUntouched
  /\ StoredNamesConnection
  /\ LostWasStored
  /\ AcceptedIsHanded
  /\ FailuresCoverQueue
  /\ PendingIsTracked
  /\ RetryCountAgrees
  /\ DeliveredWasHandedOver
  /\ FailedSpentBudget
  /\ RunsVisitDueEntries
  /\ FirstAttemptPrecedesRetries

\* The item of a POST was stored, and while it is its connection row is protected.
LEMMA StoredItem ==
  ASSUME TypeOK, AbsentIsUntouched, StoredNamesConnection, NEW a \in inFlight
  PROVE  /\ a.item \in Item
         /\ status[a.item] # "absent"
         /\ to[a.item] \in Conn
         /\ mode[to[a.item]] = "deleted" => status[a.item] = "gone"
BY DEF TypeOK, Attempt, AbsentIsUntouched, StoredNamesConnection

\* A visit drops the entry of a row that is settled or POSTs it.  A connection is
\* missed only for a row that is gone, where marking it changes nothing: that
\* visit is none but a drop.
LEMMA VisitDropsOrPosts ==
  ASSUME IInv, NEW r \in Run, NEW i \in Item, Visit(r, i)
  PROVE  /\ i \in Queued /\ i \in due /\ status[i] # "absent"
         /\ \/ /\ MarkDelivered(i)
               /\ DropEntry(i)
               /\ handed' = handed \cup ({i} \cap Stored)
               /\ UNCHANGED inFlight
            \/ /\ inFlight' = inFlight \cup
                     {[by |-> r, item |-> i, accepted |-> FALSE]}
               /\ todo' = [todo EXCEPT ![r] = @ \ {i}]
               /\ UNCHANGED <<status, queue, due, handed>>
<1>1. /\ i \in Queued /\ i \in due /\ status[i] # "absent"
      /\ mode[to[i]] = "deleted" => status[i] = "gone"
  BY DEF Visit, IInv, RunsVisitDueEntries, Queued, AbsentIsUntouched, StoredNamesConnection
<1>2. CASE mode[to[i]] = "deleted"
  <2>1. MarkFailed(i) /\ DropEntry(i) /\ UNCHANGED <<inFlight, handed>>
    BY <1>2, VisitCases
  <2>2. MarkDelivered(i) /\ {i} \cap Stored = {}
    BY <1>1, <1>2, <2>1 DEF MarkFailed, MarkDelivered, Marked, Stored
  <2>3. QED
    BY <1>1, <2>1, <2>2
<1>3. QED
  BY <1>1, <1>2, VisitCases

\* Every step of the server, of a recipient or of a restart keeps IInv.
LEMMA IInvStep == IInv /\ [Next]_vars => IInv'
<1> SUFFICES ASSUME IInv, [Next]_vars PROVE IInv'
  OBVIOUS
<1> USE DeliveryAssumption
    DEF IInv, TypeOK, Status, Mode, Attempt, Marked, Stored, Count, dbVars, memVars, history
<1>1. ASSUME NEW i \in Item, NEW c \in Conn, Send(i, c) PROVE IInv'
  <2>1. TypeOK'
    BY TypeStep
  <2>2. FailuresCoverQueue' /\ RetryCountAgrees' /\ RunsVisitDueEntries'
    BY <1>1 DEF Send, MarkDelivered, AbsentIsUntouched, FailuresCoverQueue, RetryCountAgrees,
           RunsVisitDueEntries, FailureCap, Queued
  <2>3. AbsentIsUntouched'
    BY <1>1 DEF AbsentIsUntouched, Send, MarkDelivered
  <2>4. StoredNamesConnection'
    BY <1>1 DEF StoredNamesConnection, Send, MarkDelivered
  <2>5. LostWasStored'
    BY <1>1 DEF LostWasStored, Send, MarkDelivered
  <2>6. AcceptedIsHanded'
    BY <1>1 DEF AcceptedIsHanded, Send, MarkDelivered
  <2>7. PendingIsTracked'
    <3>1. ASSUME NEW j \in Item, status'[j] = "pending"
          PROVE  j \in Queued' \/ InFlightOf(j)' # {} \/ j \in lost'
      <4>1. CASE j = i
        <5>1. [by |-> Handler, item |-> i, accepted |-> FALSE] \in inFlight'
          BY <1>1, <3>1, <4>1 DEF Send, MarkDelivered
        <5>2. QED
          BY <4>1, <5>1 DEF InFlightOf
      <4>2. CASE j # i
        <5>1. status[j] = "pending" /\ Queued' = Queued /\ inFlight \subseteq inFlight'
              /\ lost' = lost
          BY <1>1, <3>1, <4>2 DEF Send, MarkDelivered, Queued
        <5>2. QED
          BY <5>1 DEF PendingIsTracked, InFlightOf
      <4>3. QED
        BY <4>1, <4>2
    <3>2. QED
      BY <3>1 DEF PendingIsTracked
  <2>8. DeliveredWasHandedOver'
    BY <1>1 DEF DeliveredWasHandedOver, Send, MarkDelivered
  <2>9. FailedSpentBudget'
    BY <1>1 DEF FailedSpentBudget, FailureCap, Send, MarkDelivered
  <2>10. FirstAttemptPrecedesRetries'
    <3>1. \A a \in inFlight : a.item # i
      BY <1>1 DEF Send, AbsentIsUntouched
    <3>2. i \notin Queued /\ Queued' = Queued
      BY <1>1 DEF Send, AbsentIsUntouched, Queued
    <3>3. CASE inFlight' = inFlight
      BY <3>2, <3>3 DEF FirstAttemptPrecedesRetries, InFlightOf
    <3>4. CASE inFlight' = inFlight \cup {[by |-> Handler, item |-> i, accepted |-> FALSE]}
      <4> DEFINE new == [by |-> Handler, item |-> i, accepted |-> FALSE]
      <4>1. ASSUME NEW b \in inFlight, b.by = Handler
            PROVE  b.item \notin Queued /\ InFlightOf(b.item)' = {b}
        BY <3>1, <3>4, <4>1 DEF FirstAttemptPrecedesRetries, InFlightOf
      <4>2. InFlightOf(i)' = {new}
        BY <3>1, <3>4 DEF InFlightOf
      <4>3. QED
        BY <3>2, <3>4, <4>1, <4>2 DEF FirstAttemptPrecedesRetries, InFlightOf
    <3>5. QED
      BY <1>1, <3>3, <3>4 DEF Send
  <2>11. QED
    BY <2>1, <2>2, <2>3, <2>4, <2>5, <2>6, <2>7, <2>8, <2>9, <2>10
<1>2. ASSUME NEW a \in inFlight, RecipientAccepts(a) PROVE IInv'
  <2>1. TypeOK'
    BY TypeStep
  <2>2. StoredNamesConnection' /\ LostWasStored' /\ FailuresCoverQueue'
        /\ RetryCountAgrees' /\ FailedSpentBudget' /\ RunsVisitDueEntries'
    BY <1>2 DEF RecipientAccepts, StoredNamesConnection, LostWasStored, FailuresCoverQueue,
           RetryCountAgrees, FailedSpentBudget, RunsVisitDueEntries, FailureCap, Queued
  <2>3. AbsentIsUntouched'
    BY <1>2 DEF AbsentIsUntouched, RecipientAccepts
  <2>4. AcceptedIsHanded'
    BY <1>2 DEF AcceptedIsHanded, RecipientAccepts
  <2>5. PendingIsTracked'
    <3>1. ASSUME NEW j \in Item, InFlightOf(j) # {} PROVE InFlightOf(j)' # {}
      <4>1. PICK b \in inFlight : b.item = j
        BY <3>1 DEF InFlightOf
      <4>2. CASE b = a
        <5>1. [a EXCEPT !.accepted = TRUE] \in inFlight'
              /\ [a EXCEPT !.accepted = TRUE].item = j
          BY <1>2, <4>1, <4>2 DEF RecipientAccepts
        <5>2. QED
          BY <5>1 DEF InFlightOf
      <4>3. CASE b # a
        BY <1>2, <4>1, <4>3 DEF RecipientAccepts, InFlightOf
      <4>4. QED
        BY <4>2, <4>3
    <3>2. QED
      BY <1>2, <3>1 DEF PendingIsTracked, Queued, RecipientAccepts
  <2>6. DeliveredWasHandedOver'
    BY <1>2 DEF DeliveredWasHandedOver, RecipientAccepts
  <2>7. FirstAttemptPrecedesRetries'
    <3> DEFINE t == [a EXCEPT !.accepted = TRUE]
    <3>1. t.by = a.by /\ t.item = a.item /\ inFlight' = (inFlight \ {a}) \cup {t}
      BY <1>2 DEF RecipientAccepts
    <3>2. Queued' = Queued
      BY <1>2 DEF RecipientAccepts, Queued
    <3> HIDE DEF t
    <3>3. QED
      BY <3>1, <3>2 DEF FirstAttemptPrecedesRetries, InFlightOf
  <2>8. QED
    BY <2>1, <2>2, <2>3, <2>4, <2>5, <2>6, <2>7
<1>3. ASSUME NEW a \in inFlight, AttemptOk(a) PROVE IInv'
  <2>1. TypeOK'
    BY TypeStep
  <2>2. AbsentIsUntouched'
    BY <1>3 DEF AbsentIsUntouched, AttemptOk, MarkDelivered, DropEntry
  <2>3. StoredNamesConnection'
    BY <1>3, StoredItem DEF StoredNamesConnection, AttemptOk, MarkDelivered, DropEntry
  <2>4. LostWasStored'
    BY <1>3 DEF LostWasStored, AttemptOk, MarkDelivered, DropEntry
  <2>5. AcceptedIsHanded'
    BY <1>3 DEF AcceptedIsHanded, AttemptOk, MarkDelivered, DropEntry
  <2>6. FailuresCoverQueue'
    BY <1>3 DEF FailuresCoverQueue, FailureCap, AttemptOk, MarkDelivered, DropEntry
  <2>7. PendingIsTracked'
    BY <1>3 DEF PendingIsTracked, Queued, InFlightOf, AttemptOk, MarkDelivered, DropEntry
  <2>8. RetryCountAgrees'
    BY <1>3 DEF RetryCountAgrees, Queued, AttemptOk, MarkDelivered, DropEntry
  <2>9. DeliveredWasHandedOver'
    <3>1. a.item \in handed /\ a.item \in Item
      BY <1>3 DEF AttemptOk, AcceptedIsHanded
    <3>2. handed' = handed /\ status' = Marked(a.item, "delivered")
      BY <1>3 DEF AttemptOk, MarkDelivered
    <3>3. QED
      BY <3>1, <3>2 DEF DeliveredWasHandedOver
  <2>10. FailedSpentBudget'
    BY <1>3 DEF FailedSpentBudget, FailureCap, AttemptOk, MarkDelivered, DropEntry
  <2>11. RunsVisitDueEntries'
    BY <1>3 DEF RunsVisitDueEntries, Queued, AttemptOk, MarkDelivered, DropEntry
  <2>12. FirstAttemptPrecedesRetries'
    BY <1>3 DEF FirstAttemptPrecedesRetries, Queued, InFlightOf, AttemptOk, MarkDelivered,
           DropEntry
  <2>13. QED
    BY <2>1, <2>2, <2>3, <2>4, <2>5, <2>6, <2>7, <2>8, <2>9, <2>10, <2>11, <2>12
<1>4. ASSUME NEW a \in inFlight, AttemptFails(a), GiveUp(a.item) PROVE IInv'
  <2>1. TypeOK'
    BY TypeStep
  <2>2. AbsentIsUntouched'
    BY <1>4 DEF AbsentIsUntouched, AttemptFails, GiveUp, NextRetry, MarkFailed, DropEntry
  <2>3. StoredNamesConnection'
    BY <1>4, StoredItem DEF StoredNamesConnection, AttemptFails, GiveUp, MarkFailed,
           DropEntry
  <2>4. LostWasStored'
    BY <1>4 DEF LostWasStored, AttemptFails, GiveUp, NextRetry, MarkFailed, DropEntry
  <2>5. AcceptedIsHanded'
    BY <1>4 DEF AcceptedIsHanded, AttemptFails, GiveUp, NextRetry, MarkFailed, DropEntry
  <2>6. FailuresCoverQueue'
    BY <1>4 DEF FailuresCoverQueue, FailureCap, AttemptFails, GiveUp, NextRetry, MarkFailed,
           DropEntry
  <2>7. PendingIsTracked'
    BY <1>4 DEF PendingIsTracked, Queued, InFlightOf, AttemptFails, GiveUp, NextRetry,
           MarkFailed, DropEntry
  <2>8. RetryCountAgrees'
    BY <1>4 DEF RetryCountAgrees, Queued, AttemptFails, GiveUp, NextRetry, MarkFailed,
           DropEntry
  <2>9. DeliveredWasHandedOver'
    BY <1>4 DEF DeliveredWasHandedOver, AttemptFails, GiveUp, NextRetry, MarkFailed,
           DropEntry
  <2>10. FailedSpentBudget'
    <3>1. queue[a.item] \in 0 .. MaxRetries /\ failures[a.item] \in 0 .. FailureCap
      OBVIOUS
    <3>2. queue[a.item] + 1 > MaxRetries /\ queue[a.item] <= failures[a.item]
      BY <1>4 DEF GiveUp, NextRetry, FailuresCoverQueue
    <3>3. failures'[a.item] > MaxRetries
      BY <1>4, <3>1, <3>2 DEF AttemptFails, FailureCap
    <3>4. ASSUME NEW j \in Item, j # a.item PROVE failures'[j] = failures[j] /\ status'[j] = status[j]
      BY <1>4, <3>4 DEF AttemptFails, GiveUp, MarkFailed
    <3>5. QED
      BY <3>3, <3>4 DEF FailedSpentBudget
  <2>11. RunsVisitDueEntries'
    BY <1>4 DEF RunsVisitDueEntries, Queued, AttemptFails, GiveUp, NextRetry, MarkFailed,
           DropEntry
  <2>12. FirstAttemptPrecedesRetries'
    BY <1>4 DEF FirstAttemptPrecedesRetries, Queued, InFlightOf, AttemptFails, GiveUp,
           NextRetry, MarkFailed, DropEntry
  <2>13. QED
    BY <2>1, <2>2, <2>3, <2>4, <2>5, <2>6, <2>7, <2>8, <2>9, <2>10, <2>11, <2>12
<1>5. ASSUME NEW a \in inFlight, AttemptFails(a), RetryLater(a.item) PROVE IInv'
  <2>1. TypeOK'
    BY TypeStep
  <2>2. StoredNamesConnection' /\ LostWasStored' /\ DeliveredWasHandedOver'
    BY <1>5 DEF AttemptFails, RetryLater, ArmEntry, StoredNamesConnection, LostWasStored,
           DeliveredWasHandedOver
  <2>3. AbsentIsUntouched'
    BY <1>5 DEF AbsentIsUntouched, AttemptFails, RetryLater, NextRetry, ArmEntry
  <2>4. AcceptedIsHanded'
    BY <1>5 DEF AcceptedIsHanded, AttemptFails, RetryLater, NextRetry, ArmEntry
  <2>5. FailuresCoverQueue'
    BY <1>5 DEF FailuresCoverQueue, FailureCap, AttemptFails, RetryLater, NextRetry,
           ArmEntry
  <2>6. PendingIsTracked'
    BY <1>5 DEF PendingIsTracked, Queued, InFlightOf, AttemptFails, RetryLater, NextRetry,
           ArmEntry
  <2>7. RetryCountAgrees'
    BY <1>5 DEF RetryCountAgrees, Queued, AttemptFails, RetryLater, NextRetry, ArmEntry
  <2>8. FailedSpentBudget'
    BY <1>5 DEF FailedSpentBudget, FailureCap, AttemptFails, RetryLater, NextRetry, ArmEntry
  <2>9. RunsVisitDueEntries'
    BY <1>5 DEF RunsVisitDueEntries, Queued, AttemptFails, RetryLater, NextRetry, ArmEntry
  <2>10. FirstAttemptPrecedesRetries'
    BY <1>5 DEF FirstAttemptPrecedesRetries, Queued, InFlightOf, AttemptFails, RetryLater,
           NextRetry, ArmEntry
  <2>11. QED
    BY <2>1, <2>2, <2>3, <2>4, <2>5, <2>6, <2>7, <2>8, <2>9, <2>10
<1>6. ASSUME NEW i \in Item, BackoffElapses(i) PROVE IInv'
  <2>1. TypeOK'
    BY TypeStep
  <2>2. AbsentIsUntouched' /\ StoredNamesConnection' /\ LostWasStored'
        /\ AcceptedIsHanded' /\ FailuresCoverQueue' /\ PendingIsTracked'
              /\ RetryCountAgrees' /\ DeliveredWasHandedOver' /\ FailedSpentBudget'
                    /\ FirstAttemptPrecedesRetries'
    BY <1>6 DEF BackoffElapses, AbsentIsUntouched, StoredNamesConnection, LostWasStored,
           AcceptedIsHanded, FailuresCoverQueue, PendingIsTracked, RetryCountAgrees,
                  DeliveredWasHandedOver, FailedSpentBudget, FirstAttemptPrecedesRetries,
                         FailureCap, InFlightOf, Queued
  <2>3. RunsVisitDueEntries'
    BY <1>6 DEF RunsVisitDueEntries, Queued, BackoffElapses
  <2>4. QED
    BY <2>1, <2>2, <2>3
<1>7. ASSUME NEW r \in Run, StartRun(r) PROVE IInv'
  <2>1. TypeOK'
    BY TypeStep
  <2>2. AbsentIsUntouched' /\ StoredNamesConnection' /\ LostWasStored'
        /\ AcceptedIsHanded' /\ FailuresCoverQueue' /\ PendingIsTracked'
              /\ RetryCountAgrees' /\ DeliveredWasHandedOver' /\ FailedSpentBudget'
                    /\ FirstAttemptPrecedesRetries'
    BY <1>7 DEF StartRun, AbsentIsUntouched, StoredNamesConnection, LostWasStored,
           AcceptedIsHanded, FailuresCoverQueue, PendingIsTracked, RetryCountAgrees,
                  DeliveredWasHandedOver, FailedSpentBudget, FirstAttemptPrecedesRetries,
                         FailureCap, InFlightOf, Queued
  <2>3. RunsVisitDueEntries'
    BY <1>7 DEF RunsVisitDueEntries, Queued, StartRun
  <2>4. QED
    BY <2>1, <2>2, <2>3
<1>8. ASSUME NEW r \in Run, NEW i \in Item, Visit(r, i) PROVE IInv'
  <2> DEFINE Posts == /\ inFlight' = inFlight \cup {[by |-> r, item |-> i, accepted |-> FALSE]}
                      /\ todo' = [todo EXCEPT ![r] = @ \ {i}]
                      /\ UNCHANGED <<status, queue, due, handed>>
  <2> DEFINE Drops == /\ MarkDelivered(i)
                      /\ DropEntry(i)
                      /\ handed' = handed \cup ({i} \cap Stored)
                      /\ UNCHANGED inFlight
  <2>1. i \in Queued /\ i \in due /\ status[i] # "absent"
    BY <1>8, VisitDropsOrPosts
  <2>2. Drops \/ Posts
    BY <1>8, VisitDropsOrPosts
  <2>3. TypeOK'
    BY TypeStep
  <2>4. AbsentIsUntouched'
    <3>1. CASE Drops
      BY <1>8, <2>1, <3>1 DEF AbsentIsUntouched, MarkDelivered, DropEntry, Visit
    <3>2. CASE Posts
      BY <1>8, <2>1, <3>2 DEF AbsentIsUntouched, Visit
    <3>3. QED
      BY <3>1, <3>2, <2>2
  <2>5. StoredNamesConnection'
    <3>1. CASE Drops
      BY <1>8, <2>1, <3>1 DEF StoredNamesConnection, MarkDelivered, DropEntry, Visit
    <3>2. CASE Posts
      BY <1>8, <2>1, <3>2 DEF StoredNamesConnection, Visit
    <3>3. QED
      BY <3>1, <3>2, <2>2
  <2>6. LostWasStored'
    <3>1. CASE Drops
      BY <1>8, <2>1, <3>1 DEF LostWasStored, MarkDelivered, DropEntry, Visit
    <3>2. CASE Posts
      BY <1>8, <2>1, <3>2 DEF LostWasStored, Visit
    <3>3. QED
      BY <3>1, <3>2, <2>2
  <2>7. AcceptedIsHanded'
    <3>1. CASE Drops
      BY <1>8, <2>1, <3>1 DEF AcceptedIsHanded, MarkDelivered, DropEntry, Visit
    <3>2. CASE Posts
      BY <1>8, <2>1, <3>2 DEF AcceptedIsHanded, Visit
    <3>3. QED
      BY <3>1, <3>2, <2>2
  <2>8. FailuresCoverQueue'
    <3>1. CASE Drops
      BY <1>8, <2>1, <3>1 DEF FailuresCoverQueue, FailureCap, MarkDelivered, DropEntry,
             Visit
    <3>2. CASE Posts
      BY <1>8, <2>1, <3>2 DEF FailuresCoverQueue, FailureCap, Visit
    <3>3. QED
      BY <3>1, <3>2, <2>2
  <2>9. PendingIsTracked'
    <3>1. CASE Drops
      BY <1>8, <2>1, <3>1 DEF PendingIsTracked, Queued, InFlightOf, MarkDelivered,
             DropEntry, Visit
    <3>2. CASE Posts
      BY <1>8, <2>1, <3>2 DEF PendingIsTracked, Queued, InFlightOf, Visit
    <3>3. QED
      BY <3>1, <3>2, <2>2
  <2>10. RetryCountAgrees'
    <3>1. CASE Drops
      BY <1>8, <2>1, <3>1 DEF RetryCountAgrees, Queued, MarkDelivered, DropEntry, Visit
    <3>2. CASE Posts
      BY <1>8, <2>1, <3>2 DEF RetryCountAgrees, Queued, Visit
    <3>3. QED
      BY <3>1, <3>2, <2>2
  <2>11. DeliveredWasHandedOver'
    <3>1. CASE Drops
      BY <1>8, <2>1, <3>1 DEF DeliveredWasHandedOver, MarkDelivered, DropEntry, Visit
    <3>2. CASE Posts
      BY <1>8, <2>1, <3>2 DEF DeliveredWasHandedOver, Visit
    <3>3. QED
      BY <3>1, <3>2, <2>2
  <2>12. FailedSpentBudget'
    <3>1. CASE Drops
      BY <1>8, <2>1, <3>1 DEF FailedSpentBudget, FailureCap, MarkDelivered, DropEntry, Visit
    <3>2. CASE Posts
      BY <1>8, <2>1, <3>2 DEF FailedSpentBudget, FailureCap, Visit
    <3>3. QED
      BY <3>1, <3>2, <2>2
  <2>13. RunsVisitDueEntries'
    <3>1. CASE Drops
      BY <1>8, <2>1, <3>1 DEF RunsVisitDueEntries, Queued, MarkDelivered, DropEntry, Visit
    <3>2. CASE Posts
      BY <1>8, <2>1, <3>2 DEF RunsVisitDueEntries, Queued, Visit
    <3>3. QED
      BY <3>1, <3>2, <2>2
  <2>14. FirstAttemptPrecedesRetries'
    <3>1. CASE Drops
      BY <1>8, <2>1, <3>1 DEF FirstAttemptPrecedesRetries, Queued, InFlightOf,
             MarkDelivered, DropEntry, Visit
    <3>2. CASE Posts
      BY <1>8, <2>1, <3>2 DEF FirstAttemptPrecedesRetries, Queued, InFlightOf, Visit
    <3>3. QED
      BY <3>1, <3>2, <2>2
  <2>15. QED
    BY <2>3, <2>4, <2>5, <2>6, <2>7, <2>8, <2>9, <2>10, <2>11, <2>12, <2>13, <2>14
<1>9. ASSUME NEW c \in Conn, Reregister(c) PROVE IInv'
  <2>1. TypeOK'
    BY TypeStep
  <2>2. AbsentIsUntouched' /\ LostWasStored' /\ AcceptedIsHanded' /\ FailuresCoverQueue'
        /\ PendingIsTracked' /\ RetryCountAgrees' /\ DeliveredWasHandedOver'
              /\ FailedSpentBudget' /\ RunsVisitDueEntries' /\ FirstAttemptPrecedesRetries'
    BY <1>9 DEF Reregister, AbsentIsUntouched, LostWasStored, AcceptedIsHanded,
           FailuresCoverQueue, PendingIsTracked, RetryCountAgrees, DeliveredWasHandedOver,
                  FailedSpentBudget, RunsVisitDueEntries, FirstAttemptPrecedesRetries,
                         FailureCap, InFlightOf, Queued
  <2>3. StoredNamesConnection'
    BY <1>9 DEF StoredNamesConnection, Reregister
  <2>4. QED
    BY <2>1, <2>2, <2>3
<1>10. ASSUME NEW c \in Conn, DeleteConnection(c) PROVE IInv'
  <2>1. TypeOK'
    BY TypeStep
  <2>2. AbsentIsUntouched' /\ LostWasStored' /\ AcceptedIsHanded' /\ FailuresCoverQueue'
        /\ PendingIsTracked' /\ RetryCountAgrees' /\ DeliveredWasHandedOver'
              /\ FailedSpentBudget' /\ RunsVisitDueEntries' /\ FirstAttemptPrecedesRetries'
    BY <1>10 DEF DeleteConnection, AbsentIsUntouched, LostWasStored, AcceptedIsHanded,
           FailuresCoverQueue, PendingIsTracked, RetryCountAgrees, DeliveredWasHandedOver,
                  FailedSpentBudget, RunsVisitDueEntries, FirstAttemptPrecedesRetries,
                         FailureCap, InFlightOf, Queued
  <2>3. StoredNamesConnection'
    BY <1>10 DEF StoredNamesConnection, DeleteConnection, Unnamed
  <2>4. QED
    BY <2>1, <2>2, <2>3
<1>11. CASE Restart
  <2>1. TypeOK'
    BY TypeStep
  <2>2. StoredNamesConnection' /\ DeliveredWasHandedOver' /\ FailedSpentBudget'
    BY <1>11 DEF Restart, StoredNamesConnection, DeliveredWasHandedOver, FailedSpentBudget,
           FailureCap
  <2>3. AbsentIsUntouched'
    BY <1>11 DEF AbsentIsUntouched, Restart
  <2>4. LostWasStored'
    BY <1>11 DEF LostWasStored, Restart
  <2>5. AcceptedIsHanded'
    BY <1>11 DEF AcceptedIsHanded, Restart
  <2>6. FailuresCoverQueue'
    BY <1>11 DEF FailuresCoverQueue, FailureCap, Restart
  <2>7. PendingIsTracked'
    BY <1>11 DEF PendingIsTracked, Queued, InFlightOf, Restart
  <2>8. RetryCountAgrees'
    BY <1>11 DEF RetryCountAgrees, Queued, Restart
  <2>9. RunsVisitDueEntries'
    BY <1>11 DEF RunsVisitDueEntries, Queued, Restart
  <2>10. FirstAttemptPrecedesRetries'
    BY <1>11 DEF FirstAttemptPrecedesRetries, Queued, InFlightOf, Restart
  <2>11. QED
    BY <2>1, <2>2, <2>3, <2>4, <2>5, <2>6, <2>7, <2>8, <2>9, <2>10
<1>12. ASSUME NEW S \in SUBSET Stored, NEW C \in SUBSET Conn, DeleteAccount(S, C) PROVE IInv'
  <2>1. TypeOK'
    BY TypeStep
  <2>2. AbsentIsUntouched' /\ LostWasStored' /\ AcceptedIsHanded' /\ FailuresCoverQueue'
        /\ RunsVisitDueEntries' /\ FirstAttemptPrecedesRetries'
    BY <1>12 DEF DeleteAccount, AbsentIsUntouched, LostWasStored, AcceptedIsHanded,
           FailuresCoverQueue, RunsVisitDueEntries, FirstAttemptPrecedesRetries, FailureCap,
           InFlightOf, Queued
  <2>3. PendingIsTracked' /\ DeliveredWasHandedOver' /\ FailedSpentBudget'
    BY <1>12 DEF DeleteAccount, PendingIsTracked, DeliveredWasHandedOver, FailedSpentBudget,
           FailureCap, InFlightOf, Queued
  <2>4. RetryCountAgrees'
    BY <1>12 DEF DeleteAccount, RetryCountAgrees, Queued
  <2>5. StoredNamesConnection'
    BY <1>12 DEF DeleteAccount, StoredNamesConnection, Unnamed
  <2>6. QED
    BY <2>1, <2>2, <2>3, <2>4, <2>5
<1>13. CASE UNCHANGED vars
  BY <1>13, TypeStep DEF vars, AbsentIsUntouched, StoredNamesConnection, LostWasStored,
         AcceptedIsHanded, FailuresCoverQueue, PendingIsTracked, RetryCountAgrees,
                DeliveredWasHandedOver, FailedSpentBudget, RunsVisitDueEntries,
                       FirstAttemptPrecedesRetries, Queued, InFlightOf
<1>14. QED
  BY <1>1, <1>2, <1>3, <1>4, <1>5, <1>6, <1>7, <1>8, <1>9, <1>10, <1>11, <1>12, <1>13
     DEF Next, AttemptFails

\* A fresh database satisfies IInv.
LEMMA IInvInit == Init => IInv
<1> SUFFICES ASSUME Init PROVE IInv
  OBVIOUS
<1>1. TypeOK
  BY DeliveryAssumption DEF Init, TypeOK, Status, Mode, Attempt, FailureCap
<1>2. QED
  BY <1>1 DEF Init, IInv, AbsentIsUntouched, StoredNamesConnection, LostWasStored,
         AcceptedIsHanded, FailuresCoverQueue, PendingIsTracked, RetryCountAgrees,
                DeliveredWasHandedOver, FailedSpentBudget, RunsVisitDueEntries,
                       FirstAttemptPrecedesRetries, Queued

\* The inductive invariant holds in every reachable state.
THEOREM InductiveInvariant == Spec => []IInv
BY IInvInit, IInvStep, PTL DEF Spec

-----------------------------------------------------------------------------
(* The safety properties, each for any number of items, connections and *)
(* overlapping runs *)

\* Nothing pending is forgotten while the process that stored it lives.
THEOREM NothingPendingIsForgotten == Spec => []PendingIsTracked
BY InductiveInvariant, PTL DEF IInv

\* An item is given up only after MaxRetries + 1 of its attempts have failed.
THEOREM GivenUpOnlyWithoutBudget == Spec => []FailedSpentBudget
BY InductiveInvariant, PTL DEF IInv

\* What is called delivered has been handed over.
THEOREM DeliveredOnlyWhenHandedOver == Spec => []DeliveredWasHandedOver
BY InductiveInvariant, PTL DEF IInv

\* The first attempt of an item and its retries never overlap.
THEOREM FirstAttemptIsAlone == Spec => []FirstAttemptPrecedesRetries
BY InductiveInvariant, PTL DEF IInv

\* An entry of the retry Map names a connection, and one that is missing only if
\* the row it stands for was deleted, with an account, as well.
THEOREM OnlyDeletedRowsLoseTheirConnection == Spec => []StoredItemsFindTheirConnection
<1>1. IInv => StoredItemsFindTheirConnection
  <2>1. SUFFICES ASSUME IInv, NEW i \in Queued
                 PROVE  to[i] \in Conn /\ (mode[to[i]] = "deleted" => status[i] = "gone")
    BY DEF StoredItemsFindTheirConnection
  <2>2. i \in Item /\ status[i] # "absent"
    BY <2>1 DEF IInv, AbsentIsUntouched, Queued
  <2>3. QED
    BY <2>1, <2>2 DEF IInv, StoredNamesConnection
<1>2. QED
  BY <1>1, InductiveInvariant, PTL

\* So no item the database still holds is failed for want of a connection: a step
\* that marks one failed is the last attempt of a spent budget.
FailsOnlyByAttempt ==
  \A i \in Item : status[i] # "failed" /\ status'[i] = "failed" =>
    \E a \in inFlight : a.item = i /\ AttemptFails(a)

\* Only the end of an attempt marks an item failed, whichever accounts and
\* connections are deleted while the processor goes through its entries.
THEOREM OnlyAttemptsFailItems == Spec => [][FailsOnlyByAttempt]_vars
<1>1. IInv /\ [Next]_vars => FailsOnlyByAttempt
  <2> SUFFICES ASSUME IInv, [Next]_vars, NEW i \in Item,
                      status[i] # "failed", status'[i] = "failed"
               PROVE  \E a \in inFlight : a.item = i /\ AttemptFails(a)
    BY DEF FailsOnlyByAttempt
  <2> USE DEF Marked
  <2>1. CASE \E j \in Item, c \in Conn : Send(j, c)
    BY <2>1 DEF Send, MarkDelivered, IInv, TypeOK
  <2>2. CASE \E a \in inFlight : RecipientAccepts(a) \/ AttemptOk(a)
    BY <2>2 DEF RecipientAccepts, AttemptOk, MarkDelivered, IInv, TypeOK, dbVars
  <2>3. CASE \E a \in inFlight : AttemptFails(a)
    <3>1. PICK a \in inFlight : AttemptFails(a)
      BY <2>3
    <3>2. a.item = i
      BY <3>1 DEF AttemptFails, GiveUp, RetryLater, MarkFailed, IInv, TypeOK
    <3>3. QED
      BY <3>1, <3>2
  <2>4. CASE \E r \in Run, j \in Item : Visit(r, j)
    <3>1. PICK r \in Run, j \in Item : Visit(r, j)
      BY <2>4
    <3>2. QED
      BY <3>1, VisitDropsOrPosts DEF MarkDelivered, IInv, TypeOK
  <2>5. CASE \/ \E j \in Item : BackoffElapses(j)
             \/ \E r \in Run : StartRun(r)
             \/ \E c \in Conn : Reregister(c) \/ DeleteConnection(c)
             \/ Restart
             \/ UNCHANGED vars
    BY <2>5 DEF BackoffElapses, StartRun, Reregister, DeleteConnection, Restart, vars, dbVars
  <2>6. CASE \E S \in SUBSET Stored, C \in SUBSET Conn : DeleteAccount(S, C)
    BY <2>6 DEF DeleteAccount
  <2>7. QED
    BY <2>1, <2>2, <2>3, <2>4, <2>5, <2>6 DEF Next
<1>2. QED
  BY <1>1, InductiveInvariant, PTL DEF Spec

-----------------------------------------------------------------------------
(* When runs do not overlap *)

\* With one run at a time an item is in one place only: pending (or deleted) and
\* not cut off by a restart while it is queued or tried, and tried once at a time.
SerialInv ==
  /\ \A i \in Queued : status[i] \in {"pending", "gone"} /\ i \notin lost
  /\ \A a \in inFlight :
        /\ status[a.item] \in {"pending", "gone"}
        /\ a.item \notin lost
        /\ a.by # Handler => a.item \in Queued
        /\ \A b \in inFlight : b.item = a.item => b = a

\* An entry a single run visits is queued and not being tried.
LEMMA SerialVisit ==
  ASSUME IInv, SerialInv, \A r, s \in Run : r = s,
         NEW r \in Run, NEW i \in Item, Visit(r, i)
  PROVE  /\ i \in Queued
         /\ status[i] \in {"pending", "gone"} /\ i \notin lost
         /\ \A a \in inFlight : a.item # i
<1>1. i \in Queued
  BY DEF Visit, IInv, RunsVisitDueEntries
<1>2. status[i] \in {"pending", "gone"} /\ i \notin lost
  BY <1>1 DEF SerialInv
<1>3. ASSUME NEW a \in inFlight, a.item = i PROVE FALSE
  <2>1. a.by = Handler \/ a.by = r
    BY DEF IInv, TypeOK, Attempt
  <2>2. a.by # Handler
    BY <1>1, <1>3 DEF IInv, FirstAttemptPrecedesRetries
  <2>3. a.by # r
    BY DEF Visit, Waiting
  <2>4. QED
    BY <2>1, <2>2, <2>3
<1>4. QED
  BY <1>1, <1>2, <1>3

\* A serial server keeps SerialInv.
LEMMA SerialStep ==
  ASSUME \A r, s \in Run : r = s
  PROVE  IInv /\ SerialInv /\ [Next]_vars => SerialInv'
<1> SUFFICES ASSUME IInv, SerialInv, [Next]_vars PROVE SerialInv'
  OBVIOUS
<1> USE DeliveryAssumption
    DEF TypeOK, Status, Mode, Attempt, Marked, Stored, Count, dbVars, memVars, history, Queued
<1>1. ASSUME NEW i \in Item, NEW c \in Conn, Send(i, c) PROVE SerialInv'
  <2>1. queue[i] = 0 /\ \A a \in inFlight : a.item # i
    BY <1>1 DEF Send, IInv, AbsentIsUntouched
  <2>2. status[i] # "pending" /\ i \notin lost
    BY <1>1 DEF Send, IInv, LostWasStored
  <2> DEFINE new == [by |-> Handler, item |-> i, accepted |-> FALSE]
  <2>3. new.item = i /\ new.by = Handler
    OBVIOUS
  <2>4. /\ \/ inFlight' = inFlight
           \/ inFlight' = inFlight \cup {new} /\ status'[i] = "pending"
        /\ \A j \in Item \ {i} : status'[j] = status[j]
        /\ UNCHANGED <<queue, lost>>
    BY <1>1 DEF Send, MarkDelivered, IInv
  <2> HIDE DEF new
  <2>5. \A a \in inFlight : a.item \in Item \ {i}
    BY <2>1 DEF IInv
  <2>6. QED
    BY <2>1, <2>2, <2>3, <2>4, <2>5 DEF SerialInv
<1>2. ASSUME NEW a \in inFlight, RecipientAccepts(a) PROVE SerialInv'
  <2> DEFINE t == [a EXCEPT !.accepted = TRUE]
  <2>1. /\ t.by = a.by /\ t.item = a.item
        /\ inFlight' = (inFlight \ {a}) \cup {t}
        /\ UNCHANGED <<status, lost, queue>>
    BY <1>2 DEF RecipientAccepts, IInv
  <2> HIDE DEF t
  <2>2. QED
    BY <2>1 DEF SerialInv
<1>3. ASSUME NEW a \in inFlight, AttemptOk(a) PROVE SerialInv'
  BY <1>3, StoredItem DEF AttemptOk, MarkDelivered, DropEntry, SerialInv, IInv,
         FirstAttemptPrecedesRetries
<1>4. ASSUME NEW a \in inFlight, AttemptFails(a), GiveUp(a.item) PROVE SerialInv'
  BY <1>4, StoredItem DEF AttemptFails, GiveUp, MarkFailed, DropEntry, SerialInv, IInv
<1>5. ASSUME NEW a \in inFlight, AttemptFails(a), RetryLater(a.item) PROVE SerialInv'
  BY <1>5, StoredItem DEF AttemptFails, RetryLater, ArmEntry, NextRetry, SerialInv, IInv
<1>6. ASSUME NEW r \in Run, NEW i \in Item, Visit(r, i) PROVE SerialInv'
  <2>1. /\ i \in Queued
        /\ status[i] \in {"pending", "gone"} /\ i \notin lost
        /\ \A a \in inFlight : a.item # i
    BY <1>6, SerialVisit
  <2>2. UNCHANGED lost
    BY <1>6 DEF Visit
  <2>3. CASE MarkDelivered(i) /\ DropEntry(i) /\ UNCHANGED inFlight
    BY <2>1, <2>2, <2>3 DEF MarkDelivered, DropEntry, SerialInv, IInv
  <2>4. CASE /\ inFlight' = inFlight \cup {[by |-> r, item |-> i, accepted |-> FALSE]}
             /\ UNCHANGED <<status, queue>>
    <3> DEFINE new == [by |-> r, item |-> i, accepted |-> FALSE]
    <3>1. new.item = i /\ inFlight' = inFlight \cup {new}
      BY <2>4
    <3> HIDE DEF new
    <3>2. QED
      BY <2>1, <2>2, <2>4, <3>1 DEF SerialInv
  <2>5. QED
    BY <1>6, <2>3, <2>4, VisitDropsOrPosts
<1>7. CASE \/ \E i \in Item : BackoffElapses(i)
           \/ \E r \in Run : StartRun(r)
           \/ \E c \in Conn : Reregister(c) \/ DeleteConnection(c)
           \/ UNCHANGED vars
  BY <1>7 DEF BackoffElapses, StartRun, Reregister, DeleteConnection, vars, SerialInv
<1>8. CASE Restart
  BY <1>8 DEF Restart, SerialInv
<1>9. ASSUME NEW S \in SUBSET Stored, NEW C \in SUBSET Conn, DeleteAccount(S, C)
      PROVE  SerialInv'
  BY <1>9 DEF DeleteAccount, SerialInv, IInv
<1>10. QED
  BY <1>1, <1>2, <1>3, <1>4, <1>5, <1>6, <1>7, <1>8, <1>9 DEF Next, AttemptFails

\* A step of a serial server is a step of the abstract lifecycle, or invisible in it.
LEMMA SerialStepRefines ==
  ASSUME \A r, s \in Run : r = s
  PROVE  IInv /\ SerialInv /\ [Next]_vars => [Lifecycle!Next]_Lifecycle!vars
<1> SUFFICES ASSUME IInv, SerialInv, [Next]_vars
             PROVE  [Lifecycle!Next]_Lifecycle!vars
  OBVIOUS
<1> USE DEF Lifecycle!vars, Lifecycle!Next, Marked, Stored, TypeOK
<1>1. ASSUME NEW i \in Item, NEW c \in Conn, Send(i, c) PROVE Lifecycle!Submit(i)
  BY <1>1 DEF Send, MarkDelivered, Lifecycle!Submit
<1>2. ASSUME NEW a \in inFlight, RecipientAccepts(a)
      PROVE  a.item \in Item /\ Lifecycle!HandOver(a.item)
  BY <1>2, StoredItem DEF RecipientAccepts, SerialInv, IInv, dbVars, Lifecycle!HandOver
<1>3. ASSUME NEW a \in inFlight, AttemptOk(a)
      PROVE  (a.item \in Item /\ Lifecycle!Confirm(a.item)) \/ UNCHANGED Lifecycle!vars
  <2>1. a.item \in handed
    BY <1>3 DEF AttemptOk, IInv, AcceptedIsHanded
  <2>2. QED
    BY <1>3, <2>1, StoredItem
       DEF AttemptOk, MarkDelivered, history, SerialInv, IInv, Lifecycle!Confirm
<1>4. ASSUME NEW a \in inFlight, AttemptFails(a), GiveUp(a.item)
      PROVE  (a.item \in Item /\ Lifecycle!Abandon(a.item)) \/ UNCHANGED Lifecycle!vars
  <2>1. /\ a.item \in Item
        /\ status[a.item] \in {"pending", "gone"} /\ a.item \notin lost
    BY StoredItem DEF SerialInv, IInv
  <2>2. status' = Marked(a.item, "failed") /\ UNCHANGED <<handed, lost>>
    BY <1>4 DEF AttemptFails, GiveUp, MarkFailed
  <2>3. CASE status[a.item] = "pending"
    BY <2>1, <2>2, <2>3 DEF IInv, Lifecycle!Abandon
  <2>4. CASE status[a.item] = "gone"
    BY <2>1, <2>2, <2>4 DEF IInv
  <2>5. QED
    BY <2>1, <2>3, <2>4
<1>5. ASSUME NEW a \in inFlight, AttemptFails(a), RetryLater(a.item)
      PROVE  UNCHANGED Lifecycle!vars
  BY <1>5 DEF AttemptFails, RetryLater
<1>6. ASSUME NEW r \in Run, NEW i \in Item, Visit(r, i)
      PROVE  Lifecycle!Confirm(i) \/ UNCHANGED Lifecycle!vars
  <2>1. status[i] \in {"pending", "gone"} /\ i \notin lost /\ UNCHANGED lost
    BY <1>6, SerialVisit DEF Visit
  <2>2. CASE status' = Marked(i, "delivered") /\ handed' = handed \cup ({i} \cap Stored)
    <3>1. CASE status[i] = "pending"
      BY <2>1, <2>2, <3>1 DEF IInv, Lifecycle!Confirm
    <3>2. CASE status[i] = "gone"
      BY <2>1, <2>2, <3>2 DEF IInv
    <3>3. QED
      BY <2>1, <3>1, <3>2
  <2>3. QED
    BY <1>6, <2>1, <2>2, VisitDropsOrPosts DEF MarkDelivered
<1>7. CASE \/ \E i \in Item : BackoffElapses(i)
           \/ \E r \in Run : StartRun(r)
           \/ \E c \in Conn : Reregister(c) \/ DeleteConnection(c)
           \/ UNCHANGED vars
  BY <1>7 DEF BackoffElapses, StartRun, Reregister, DeleteConnection, vars, dbVars, history
<1>8. CASE Restart
  BY <1>8 DEF Restart, Lifecycle!Restart, dbVars
<1>9. ASSUME NEW S \in SUBSET Stored, NEW C \in SUBSET Conn, DeleteAccount(S, C)
      PROVE  Lifecycle!Delete
  BY <1>9 DEF DeleteAccount, Lifecycle!Delete, history
<1>10. QED
  BY <1>1, <1>2, <1>3, <1>4, <1>5, <1>6, <1>7, <1>8, <1>9 DEF Next, AttemptFails

\* When no two runs overlap, delivery implements the lifecycle promised to
\* senders: an item is settled once, and delivered only after a hand-over.
THEOREM SerialDeliveryImplementsLifecycle ==
  ASSUME \A r, s \in Run : r = s
  PROVE  Spec => ImplementsLifecycle
<1>1. Init => SerialInv
  BY DEF Init, SerialInv, Queued
<1>2. Init => Lifecycle!Init
  BY DEF Init, Lifecycle!Init
<1>3. IInv /\ SerialInv /\ [Next]_vars => SerialInv'
  BY SerialStep
<1>4. IInv /\ SerialInv /\ [Next]_vars => [Lifecycle!Next]_Lifecycle!vars
  BY SerialStepRefines
<1>5. QED
  BY <1>1, <1>2, <1>3, <1>4, InductiveInvariant, PTL DEF Spec, ImplementsLifecycle,
         Lifecycle!Spec

\* When no two runs overlap, a delivered item stays delivered while it has a row.
THEOREM SerialDeliveredIsFinal ==
  ASSUME \A r, s \in Run : r = s
  PROVE  Spec => DeliveredIsFinal
<1>1. Init => SerialInv
  BY DEF Init, SerialInv, Queued
<1>2. IInv /\ SerialInv /\ [Next]_vars => SerialInv'
  BY SerialStep
<1>3. IInv /\ SerialInv /\ [Next]_vars =>
        [\A i \in Item : status[i] = "delivered" => status'[i] \in {"delivered", "gone"}]_vars
  <2>1. [Lifecycle!Next]_Lifecycle!vars /\ IInv =>
          \A i \in Item : status[i] = "delivered" => status'[i] \in {"delivered", "gone"}
    BY DEF Lifecycle!Next, Lifecycle!vars, Lifecycle!Submit, Lifecycle!HandOver,
           Lifecycle!Confirm, Lifecycle!Abandon, Lifecycle!Delete, Lifecycle!Restart, IInv, TypeOK
  <2>2. QED
    BY <2>1, SerialStepRefines
<1>4. QED
  BY <1>1, <1>2, <1>3, InductiveInvariant, PTL DEF Spec, DeliveredIsFinal

\* An item that is settled, delivered or failed, is settled as long as it is there.
SettledIsFinal ==
  \A i \in Item : status[i] \in {"delivered", "failed"} => status'[i] \in {status[i], "gone"}

\* When no two runs overlap, what the lifecycle promises of settled items is
\* kept: no late answer of a recipient, and no retry, changes what the sender read.
THEOREM SerialSettledIsFinal ==
  ASSUME \A r, s \in Run : r = s
  PROVE  Spec => [][SettledIsFinal]_vars
<1>1. Init => SerialInv
  BY DEF Init, SerialInv, Queued
<1>2. IInv /\ SerialInv /\ [Next]_vars => SerialInv'
  BY SerialStep
<1>3. IInv /\ SerialInv /\ [Next]_vars => SettledIsFinal
  <2>1. [Lifecycle!Next]_Lifecycle!vars /\ IInv => SettledIsFinal
    BY DEF Lifecycle!Next, Lifecycle!vars, Lifecycle!Submit, Lifecycle!HandOver,
           Lifecycle!Confirm, Lifecycle!Abandon, Lifecycle!Delete, Lifecycle!Restart, IInv, TypeOK, SettledIsFinal
  <2>2. QED
    BY <2>1, SerialStepRefines
<1>4. QED
  BY <1>1, <1>2, <1>3, InductiveInvariant, PTL DEF Spec

\* A serial server counts: while an item is queued or tried its entry holds
\* exactly the attempts that failed.
SerialCount ==
  \A i \in Item :
    /\ status[i] = "absent" => failures[i] = 0
    /\ i \in Queued \/ (\E a \in inFlight : a.item = i) => failures[i] = queue[i]
    /\ failures[i] <= MaxRetries + 1

\* A serial server keeps SerialCount.
LEMMA SerialCountStep ==
  ASSUME \A r, s \in Run : r = s
  PROVE  IInv /\ SerialInv /\ SerialCount /\ [Next]_vars => SerialCount'
<1> SUFFICES ASSUME IInv, SerialInv, SerialCount, [Next]_vars PROVE SerialCount'
  OBVIOUS
<1> USE DeliveryAssumption
    DEF TypeOK, Status, Mode, Attempt, Marked, Stored, Count, dbVars, memVars, history, Queued
<1>1. ASSUME NEW i \in Item, NEW c \in Conn, Send(i, c) PROVE SerialCount'
  <2> DEFINE new == [by |-> Handler, item |-> i, accepted |-> FALSE]
  <2>1. /\ status[i] = "absent" /\ queue[i] = 0 /\ failures[i] = 0
        /\ UNCHANGED <<queue, failures>>
        /\ \A j \in Item \ {i} : status'[j] = status[j]
    BY <1>1 DEF Send, MarkDelivered, IInv, AbsentIsUntouched, SerialCount
  <2>2. new.item = i /\ inFlight' \subseteq inFlight \cup {new}
    BY <1>1 DEF Send
  <2> HIDE DEF new
  <2> QED
    BY <2>1, <2>2 DEF SerialCount
<1>2. ASSUME NEW a \in inFlight, RecipientAccepts(a) PROVE SerialCount'
  <2> DEFINE t == [a EXCEPT !.accepted = TRUE]
  <2>1. t.item = a.item /\ inFlight' = (inFlight \ {a}) \cup {t}
        /\ UNCHANGED <<status, queue, failures>>
    BY <1>2 DEF RecipientAccepts, IInv
  <2> HIDE DEF t
  <2> QED
    BY <2>1 DEF SerialCount
<1>3. ASSUME NEW a \in inFlight, AttemptOk(a) PROVE SerialCount'
  <2>1. a.item \in Item /\ status[a.item] # "absent"
    BY StoredItem DEF IInv
  <2>2. /\ status' = Marked(a.item, "delivered")
        /\ inFlight' = inFlight \ {a}
        /\ failures' = failures
        /\ queue' \in {queue, [queue EXCEPT ![a.item] = 0]}
        /\ a.by # Handler => queue'[a.item] = 0
    BY <1>3, <2>1 DEF AttemptOk, MarkDelivered, DropEntry, IInv
  <2>3. a.item \notin Queued' /\ \A b \in inFlight' : b.item # a.item
    BY <2>1, <2>2 DEF SerialInv, IInv, FirstAttemptPrecedesRetries
  <2> QED
    BY <2>1, <2>2, <2>3 DEF SerialCount, IInv
<1>4. ASSUME NEW a \in inFlight, AttemptFails(a) PROVE SerialCount'
  <2>1. a.item \in Item /\ status[a.item] # "absent"
    BY StoredItem DEF IInv
  <2>2. failures[a.item] = queue[a.item] /\ queue[a.item] \in 0 .. MaxRetries
    BY <2>1 DEF SerialCount, IInv
  <2>3. /\ inFlight' = inFlight \ {a}
        /\ failures' = [failures EXCEPT ![a.item] = queue[a.item] + 1]
    <3>1. failures[a.item] < FailureCap
      BY <2>2 DEF FailureCap
    <3> QED
      BY <1>4, <2>2, <3>1 DEF AttemptFails
  <2>4. \A b \in inFlight' : b.item # a.item
    BY <2>3 DEF SerialInv
  <2>5. \A j \in Item \ {a.item} : status'[j] = status[j] /\ queue'[j] = queue[j]
    BY <1>4, <2>1 DEF AttemptFails, GiveUp, RetryLater, MarkFailed, DropEntry, ArmEntry, IInv
  <2>6. /\ status'[a.item] # "absent"
        /\ queue'[a.item] = 0 \/ queue'[a.item] = queue[a.item] + 1
    BY <1>4, <2>1
       DEF AttemptFails, GiveUp, RetryLater, MarkFailed, DropEntry, ArmEntry, NextRetry, IInv
  <2> QED
    BY <2>1, <2>2, <2>3, <2>4, <2>5, <2>6 DEF SerialCount, IInv
<1>5. ASSUME NEW r \in Run, NEW i \in Item, Visit(r, i) PROVE SerialCount'
  <2> DEFINE new == [by |-> r, item |-> i, accepted |-> FALSE]
  <2>1. i \in Queued /\ status[i] # "absent"
    BY <1>5, SerialVisit
  <2>2. /\ failures' = failures
        /\ new.item = i
        /\ inFlight' \subseteq inFlight \cup {new}
        /\ \A j \in Item : status'[j] = "absent" => status[j] = "absent"
        /\ \/ queue' = queue
           \/ queue' = [queue EXCEPT ![i] = 0] /\ inFlight' = inFlight
    BY <1>5, <2>1, VisitDropsOrPosts DEF Visit, MarkDelivered, DropEntry, IInv
  <2>3. \A a \in inFlight : a.item # i
    BY <1>5, SerialVisit
  <2> HIDE DEF new
  <2> QED
    BY <2>1, <2>2, <2>3 DEF SerialCount, IInv
<1>6. CASE \/ \E i \in Item : BackoffElapses(i)
           \/ \E r \in Run : StartRun(r)
           \/ \E c \in Conn : Reregister(c) \/ DeleteConnection(c)
           \/ UNCHANGED vars
  BY <1>6 DEF BackoffElapses, StartRun, Reregister, DeleteConnection, vars, SerialCount
<1>7. CASE Restart
  BY <1>7 DEF Restart, SerialCount
<1>8. ASSUME NEW S \in SUBSET Stored, NEW C \in SUBSET Conn, DeleteAccount(S, C)
      PROVE  SerialCount'
  BY <1>8 DEF DeleteAccount, SerialCount
<1> QED
  BY <1>1, <1>2, <1>3, <1>4, <1>5, <1>6, <1>7, <1>8 DEF Next

\* When no two runs overlap, no more than MaxRetries + 1 attempts of an item fail.
THEOREM SerialBudgetIsRespected ==
  ASSUME \A r, s \in Run : r = s
  PROVE  Spec => []BudgetRespected
<1>1. Init => SerialInv /\ SerialCount
  BY DeliveryAssumption DEF Init, SerialInv, SerialCount, Queued
<1>2. IInv /\ SerialInv /\ [Next]_vars => SerialInv'
  BY SerialStep
<1>3. IInv /\ SerialInv /\ SerialCount /\ [Next]_vars => SerialCount'
  BY SerialCountStep
<1>4. SerialCount => BudgetRespected
  BY DEF SerialCount, BudgetRespected
<1> QED
  BY <1>1, <1>2, <1>3, <1>4, InductiveInvariant, PTL DEF Spec
=============================================================================

------------------------------ MODULE Delivery ------------------------------
(***************************************************************************)
(* Delivery of stored items to recipient callbacks and their retries       *)
(* (src/src/services/delivery.ts).  An item is a direct message, tracked   *)
(* by retryQueue and messages.status, or one recipient's copy of a group   *)
(* message, tracked by deliveryRetryQueue and message_deliveries.status:   *)
(* the code treats both alike, in two copies of the same functions.        *)
(*                                                                         *)
(* Rows may be deleted under the Map's entries and the POSTs in flight:    *)
(* an administrator deletes accounts with their messages and connections   *)
(* (src/src/routes/admin.ts), and nothing tells the retry Maps.            *)
(*                                                                         *)
(* The server is one event loop, so what a handler does between two waits  *)
(* for the network is one step.  The waits are the POSTs to callbacks      *)
(* (AbortSignal.timeout, 30 s) while the retry timer fires every second:   *)
(* several runs of processRetryQueue can be inside a POST at a time, each  *)
(* with its own position in the same Map.                                  *)
(***************************************************************************)
EXTENDS Integers

CONSTANTS
  Item,        \* ids of the items a client may submit
  Conn,        \* agent connections of the recipients
  Run,         \* runs of processRetryQueue that may be alive at a time
  Handler,     \* stands for the send handler as the owner of a first attempt
  NoConn,      \* recipient_connection_id is null
  MaxRetries   \* config.maxRetries

ASSUME DeliveryAssumption ==
  /\ MaxRetries \in Nat \ {0}
  /\ Handler \notin Run
  /\ NoConn \notin Conn

VARIABLES
  status,      \* status column of the item; "gone" when its row is deleted
  retryCount,  \* retry_count column of the item
  to,          \* recipient_connection_id of the item and of its entry in the Map
  mode,        \* how a connection is reached; "deleted" when its row is gone
  queue,       \* retryCount of the item's entry in the retry Map, 0: no entry
  due,         \* entries whose nextRetryAt has passed
  todo,        \* per run: entries it has yet to visit and that are due at its "now"
  inFlight,    \* POSTs being waited for
  handed,      \* history: items a recipient has accepted, or may read from its inbox
  failures,    \* history: failed attempts of an item, up to FailureCap
  lost         \* history: items pending when the process died

dbVars == <<status, retryCount, to, mode>>
memVars == <<queue, due, todo, inFlight>>
history == <<handed, failures, lost>>
vars == <<dbVars, memVars, history>>

FailureCap == MaxRetries + 2

Status == {"absent", "pending", "delivered", "failed", "gone"}
Mode == {"webhook", "polling", "deleted"}
Attempt == [by : Run \cup {Handler}, item : Item, accepted : BOOLEAN]

TypeOK ==
  /\ status \in [Item -> Status]
  /\ retryCount \in [Item -> 0 .. MaxRetries]
  /\ to \in [Item -> Conn \cup {NoConn}]
  /\ mode \in [Conn -> Mode]
  /\ queue \in [Item -> 0 .. MaxRetries]
  /\ due \subseteq Item
  /\ todo \in [Run -> SUBSET Item]
  /\ inFlight \subseteq Attempt
  /\ handed \subseteq Item
  /\ failures \in [Item -> 0 .. FailureCap]
  /\ lost \subseteq Item

Stored == {i \in Item : status[i] \notin {"absent", "gone"}}
Queued == {i \in Item : queue[i] > 0}
InFlightOf(i) == {a \in inFlight : a.item = i}
Waiting(r) == \E a \in inFlight : a.by = r

-----------------------------------------------------------------------------
(* Parts of the handlers *)

\* Map.delete: the entry is gone for every live iterator over the Map.
DropEntry(i) ==
  /\ queue' = [queue EXCEPT ![i] = 0]
  /\ due' = due \ {i}
  /\ todo' = [r \in Run |-> todo[r] \ {i}]

\* Mutant: only an entry that exists is updated.
BugArmOnlyExisting(i, n) ==
  /\ queue' = [queue EXCEPT ![i] = IF @ = 0 THEN 0 ELSE n]
  /\ due' = due \ {i}
  /\ todo' = [r \in Run |-> todo[r] \ {i}]

\* Map.set with nextRetryAt in the future: no run alive now finds it due.
ArmEntry(i, n) ==
  /\ queue' = [queue EXCEPT ![i] = n]
  /\ due' = due \ {i}
  /\ todo' = [r \in Run |-> todo[r] \ {i}]

\* An UPDATE of a row that is gone changes nothing.
Marked(i, s) == [status EXCEPT ![i] = IF @ = "gone" THEN @ ELSE s]
MarkDelivered(i) == status' = Marked(i, "delivered")
MarkFailed(i) == status' = Marked(i, "failed")
Count(i, n) == retryCount' = [retryCount EXCEPT ![i] = IF status[i] = "gone" THEN @ ELSE n]

\* Mutant: the retry count of an existing entry is not incremented.
BugNextRetry(i) == IF queue[i] = 0 THEN 1 ELSE queue[i]

\* The two halves of queueForRetry: the budget is spent, or the item is armed again.
NextRetry(i) == queue[i] + 1

\* Mutant: ">=" for ">".
BugGiveUpEarly(i) ==
  /\ NextRetry(i) >= MaxRetries
  /\ MarkFailed(i)
  /\ DropEntry(i)
  /\ UNCHANGED retryCount

\* Mutant: the entry of an abandoned item stays in the Map.
BugGiveUpKeepsEntry(i) ==
  /\ NextRetry(i) > MaxRetries
  /\ MarkFailed(i)
  /\ UNCHANGED <<retryCount, queue, due, todo>>

GiveUp(i) ==
  /\ NextRetry(i) > MaxRetries
  /\ MarkFailed(i)
  /\ DropEntry(i)
  /\ UNCHANGED retryCount

\* Mutant: one retry too many.
BugRetryOnceMore(i) ==
  /\ NextRetry(i) <= MaxRetries + 1
  /\ ArmEntry(i, NextRetry(i))
  /\ Count(i, NextRetry(i))
  /\ UNCHANGED status

RetryLater(i) ==
  /\ NextRetry(i) <= MaxRetries
  /\ ArmEntry(i, NextRetry(i))
  /\ Count(i, NextRetry(i))
  /\ UNCHANGED status

-----------------------------------------------------------------------------
(* The send handler *)

\* The handler stores the item as pending and calls deliverMessage, which
\* settles a polling recipient at once and POSTs to the callback otherwise.
Send(i, c) ==
  /\ status[i] = "absent"
  /\ mode[c] # "deleted"
  /\ to' = [to EXCEPT ![i] = c]
  /\ IF mode[c] = "polling"
     THEN /\ MarkDelivered(i)
          /\ handed' = handed \cup {i}
          /\ UNCHANGED inFlight
     ELSE /\ status' = [status EXCEPT ![i] = "pending"]
          /\ inFlight' = inFlight \cup
                {[by |-> Handler, item |-> i, accepted |-> FALSE]}
          /\ UNCHANGED handed
  /\ UNCHANGED <<retryCount, mode, queue, due, todo, failures, lost>>

-----------------------------------------------------------------------------
(* A POST: the recipient takes it, and the caller learns how it ended *)

RecipientAccepts(a) ==
  /\ ~a.accepted
  /\ inFlight' = (inFlight \ {a}) \cup {[a EXCEPT !.accepted = TRUE]}
  /\ handed' = handed \cup {a.item}
  /\ UNCHANGED <<dbVars, queue, due, todo, failures, lost>>

\* Mutant: response.ok is not looked at.
BugAttemptOkUnchecked(a) ==
  /\ inFlight' = inFlight \ {a}
  /\ MarkDelivered(a.item)
  /\ IF a.by = Handler
     THEN UNCHANGED <<queue, due, todo>>
     ELSE DropEntry(a.item)
  /\ UNCHANGED <<retryCount, to, mode, history>>

\* 2xx.  processRetryQueue then drops the entry; the send handler has none to drop.
AttemptOk(a) ==
  /\ a.accepted
  /\ inFlight' = inFlight \ {a}
  /\ MarkDelivered(a.item)
  /\ IF a.by = Handler
     THEN UNCHANGED <<queue, due, todo>>
     ELSE DropEntry(a.item)
  /\ UNCHANGED <<retryCount, to, mode, history>>

\* Non-2xx, network error or timeout; the recipient may have accepted it all the same.
AttemptFails(a) ==
  /\ inFlight' = inFlight \ {a}
  /\ failures' = [failures EXCEPT ![a.item] =
                    IF @ < FailureCap THEN @ + 1 ELSE @]
  /\ GiveUp(a.item) \/ RetryLater(a.item)
  /\ UNCHANGED <<to, mode, handed, lost>>

-----------------------------------------------------------------------------
(* The retry processor *)

BackoffElapses(i) ==
  /\ i \in Queued \ due
  /\ due' = due \cup {i}
  /\ UNCHANGED <<dbVars, queue, todo, inFlight, history>>

\* The timer fires whether or not earlier runs have ended.
StartRun(r) ==
  /\ todo[r] = {} /\ ~Waiting(r)
  /\ due # {}
  /\ todo' = [todo EXCEPT ![r] = due]
  /\ UNCHANGED <<dbVars, queue, due, inFlight, history>>

\* One turn of the loop up to its await: a due entry is looked up and tried,
\* whatever has become of the row it stands for.
Visit(r, i) ==
  /\ ~Waiting(r)
  /\ i \in todo[r]
  /\ IF mode[to[i]] = "deleted"
     THEN /\ MarkFailed(i)
          /\ DropEntry(i)
          /\ UNCHANGED <<inFlight, handed>>
     ELSE IF mode[to[i]] = "polling"
     THEN /\ MarkDelivered(i)
          /\ DropEntry(i)
          /\ handed' = handed \cup ({i} \cap Stored)
          /\ UNCHANGED inFlight
     ELSE /\ inFlight' = inFlight \cup
                {[by |-> r, item |-> i, accepted |-> FALSE]}
          /\ todo' = [todo EXCEPT ![r] = @ \ {i}]
          /\ UNCHANGED <<status, queue, due, handed>>
  /\ UNCHANGED <<retryCount, to, mode, failures, lost>>

-----------------------------------------------------------------------------
(* Connections and the process *)

\* Registering again under the same label switches the callback in place.
Reregister(c) ==
  /\ mode[c] # "deleted"
  /\ \E m \in {"webhook", "polling"} \ {mode[c]} : mode' = [mode EXCEPT ![c] = m]
  /\ UNCHANGED <<status, retryCount, to, memVars, history>>

\* The foreign key of the stored items (PRAGMA foreign_keys = ON) refuses
\* to delete a connection any of them names.
Unnamed(C, rows) == \A i \in rows : to[i] \notin C

DeleteConnection(c) ==
  /\ mode[c] # "deleted"
  /\ Unnamed({c}, Stored)
  /\ mode' = [mode EXCEPT ![c] = "deleted"]
  /\ UNCHANGED <<status, retryCount, to, memVars, history>>

\* An administrator deletes an account, or all of them: first the rows S it has
\* sent or was to receive in groups, then the account with its connections C
\* (none, if the foreign key of other rows refuses that).  The retry Maps and
\* the POSTs go on as if nothing had happened.
DeleteAccount(S, C) ==
  /\ Unnamed(C, Stored \ S)
  /\ status' = [i \in Item |-> IF i \in S THEN "gone" ELSE status[i]]
  /\ retryCount' = [i \in Item |-> IF i \in S THEN 0 ELSE retryCount[i]]
  /\ mode' = [c \in Conn |-> IF c \in C THEN "deleted" ELSE mode[c]]
  /\ UNCHANGED <<to, memVars, history>>

\* The process dies and comes up again: rows survive, Maps and runs do not.
Restart ==
  /\ queue' = [i \in Item |-> 0]
  /\ due' = {}
  /\ todo' = [r \in Run |-> {}]
  /\ inFlight' = {}
  /\ lost' = lost \cup {i \in Item : status[i] = "pending"}
  /\ UNCHANGED <<dbVars, handed, failures>>

-----------------------------------------------------------------------------
Init ==
  /\ status = [i \in Item |-> "absent"]
  /\ retryCount = [i \in Item |-> 0]
  /\ to = [i \in Item |-> NoConn]
  /\ mode \in [Conn -> {"webhook", "polling"}]
  /\ queue = [i \in Item |-> 0]
  /\ due = {}
  /\ todo = [r \in Run |-> {}]
  /\ inFlight = {}
  /\ handed = {}
  /\ failures = [i \in Item |-> 0]
  /\ lost = {}

AttemptEnds(a) == AttemptOk(a) \/ AttemptFails(a)
RunStep(r) == StartRun(r) \/ \E i \in Item : Visit(r, i)

Next ==
  \/ \E i \in Item, c \in Conn : Send(i, c)
  \/ \E a \in inFlight : RecipientAccepts(a)
  \/ \E a \in inFlight : AttemptOk(a)
  \/ \E a \in inFlight : AttemptFails(a)
  \/ \E i \in Item : BackoffElapses(i)
  \/ \E r \in Run : StartRun(r)
  \/ \E r \in Run, i \in Item : Visit(r, i)
  \/ \E c \in Conn : Reregister(c)
  \/ \E c \in Conn : DeleteConnection(c)
  \/ \E S \in SUBSET Stored, C \in SUBSET Conn : DeleteAccount(S, C)
  \/ Restart

Spec == Init /\ [][Next]_vars

\* A POST ends within config.callbackTimeoutMs, the interval timer keeps
\* firing, a run keeps going and Date.now() passes every nextRetryAt.  Clients,
\* recipients and restarts owe nothing.
Fairness ==
  /\ \A b \in Run \cup {Handler}, i \in Item :
        WF_vars(\E a \in inFlight : a.by = b /\ a.item = i /\ AttemptEnds(a))
  /\ \A i \in Item : WF_vars(BackoffElapses(i))
  /\ \A r \in Run : WF_vars(RunStep(r))

FairSpec == Spec /\ Fairness

-----------------------------------------------------------------------------
(* Safety *)

\* No pending item is forgotten while the process lives: it waits in the retry
\* Map or in a POST, or it was already pending when an earlier process died.
PendingIsTracked ==
  \A i \in Item : status[i] = "pending" =>
    i \in Queued \/ InFlightOf(i) # {} \/ i \in lost

\* "delivered" is never claimed for an item no recipient has taken.
DeliveredWasHandedOver ==
  \A i \in Item : status[i] = "delivered" => i \in handed

\* An item is given up only after the first attempt and MaxRetries retries
\* have failed, however the attempts of overlapping runs interleave.
FailedSpentBudget ==
  \A i \in Item : status[i] = "failed" => failures[i] > MaxRetries

\* The retry processor misses the connection of an entry only when the row the
\* entry stands for was deleted too: its "Connection not found" branch marks no
\* stored item failed, though accounts go while their items are being retried.
StoredItemsFindTheirConnection ==
  \A i \in Queued : to[i] \notin Conn \/ mode[to[i]] = "deleted" => status[i] = "gone"

-----------------------------------------------------------------------------
(* What the documents promise and overlapping runs break *)

\* docs/tasks-registry.md:356: at most MaxRetries retries, so at most
\* MaxRetries + 1 failed attempts of an item.
BudgetRespected == \A i \in Item : failures[i] <= MaxRetries + 1

\* docs/registry-design.md:296: a 2xx answer marks the item delivered, for good,
\* or as long as it has a row.
DeliveredIsFinal ==
  [][\A i \in Item : status[i] = "delivered" => status'[i] \in {"delivered", "gone"}]_vars

-----------------------------------------------------------------------------
(* The abstract promise *)

Lifecycle == INSTANCE MessageLifecycle

\* When no two runs overlap (every POST ends before the next tick), delivery
\* implements the promise made to senders: settled once, after a hand-over.
ImplementsLifecycle == Lifecycle!Spec

\* Liveness: a pending item is settled one way or the other unless the process
\* dies or its row is deleted.
PendingSettles == Lifecycle!Settles
=============================================================================

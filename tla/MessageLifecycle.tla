-------------------------- MODULE MessageLifecycle --------------------------
(***************************************************************************)
(* What a sender is promised about an item it submits: it stays pending    *)
(* until it is settled, once; it is called delivered only after a          *)
(* recipient has it; and a restart of the registry may leave it pending    *)
(* for ever (docs/tasks-registry.md REG-023: "Simple in-memory queue").    *)
(* An item may be deleted at any time, with an account; that stops neither *)
(* the attempts to deliver it nor a recipient from getting it.             *)
(***************************************************************************)
CONSTANT Item

VARIABLES
  status,  \* what the sender reads; "gone" when the item is deleted
  handed,  \* items some recipient has, at least once
  lost     \* items a restart has cut off

vars == <<status, handed, lost>>

Init ==
  /\ status = [i \in Item |-> "absent"]
  /\ handed = {}
  /\ lost = {}

\* A polling recipient has the item as soon as it is submitted.
Submit(i) ==
  /\ status[i] = "absent"
  /\ \/ /\ status' = [status EXCEPT ![i] = "pending"]
        /\ UNCHANGED handed
     \/ /\ status' = [status EXCEPT ![i] = "delivered"]
        /\ handed' = handed \cup {i}
  /\ UNCHANGED lost

HandOver(i) ==
  /\ status[i] \in {"pending", "gone"}
  /\ i \notin lost
  /\ handed' = handed \cup {i}
  /\ UNCHANGED <<status, lost>>

Confirm(i) ==
  /\ status[i] = "pending"
  /\ i \notin lost
  /\ status' = [status EXCEPT ![i] = "delivered"]
  /\ handed' = handed \cup {i}
  /\ UNCHANGED lost

Abandon(i) ==
  /\ status[i] = "pending"
  /\ i \notin lost
  /\ status' = [status EXCEPT ![i] = "failed"]
  /\ UNCHANGED <<handed, lost>>

\* Items go with the accounts they belong to.
Delete ==
  /\ \E S \in SUBSET {i \in Item : status[i] \notin {"absent", "gone"}} :
        status' = [i \in Item |-> IF i \in S THEN "gone" ELSE status[i]]
  /\ UNCHANGED <<handed, lost>>

Restart ==
  /\ lost' = lost \cup {i \in Item : status[i] = "pending"}
  /\ UNCHANGED <<status, handed>>

Next ==
  \/ \E i \in Item : Submit(i) \/ HandOver(i) \/ Confirm(i) \/ Abandon(i)
  \/ Delete
  \/ Restart

Spec == Init /\ [][Next]_vars

\* Each submitted item is settled, cut off by a restart or deleted.
Settles ==
  \A i \in Item : status[i] = "pending" ~>
    status[i] \in {"delivered", "failed", "gone"} \/ i \in lost
=============================================================================

----------------------------- MODULE TaskBoard -----------------------------
(***************************************************************************)
(* What the orchestrator promises about the tasks of a workflow            *)
(* (docs/autonomous-orchestrator.md, "How It Works"): a task is recorded   *)
(* as done or blocked only on the word of an agent and after everything    *)
(* its worktree held on top of the integration branch has been put there;  *)
(* a commit gets there once; what is done stays done.                      *)
(***************************************************************************)
CONSTANTS Task, Commit, Silent

VARIABLES
  tracker,  \* recorded status of each task
  word,     \* what an agent last said of each task
  commits,  \* commits in the worktree of each task
  offer,    \* commits to be integrated for each task
  applied   \* times each commit was put on the integration branch

vars == <<tracker, word, commits, offer, applied>>

Init ==
  /\ tracker \in [Task -> {"pending", "in-progress"}]
  /\ word = [t \in Task |-> Silent]
  /\ commits = [t \in Task |-> {}]
  /\ offer = [t \in Task |-> {}]
  /\ applied = [c \in Commit |-> 0]

\* Commits appear, or the worktree is made anew.
Work(t) ==
  /\ \E C \in {{}} \cup {commits[t] \cup {c} : c \in Commit} :
       commits' = [commits EXCEPT ![t] = C]
  /\ UNCHANGED <<tracker, word, offer, applied>>

Say(t) ==
  /\ tracker[t] # "done"
  /\ \E s \in {"done", "blocked"} : word' = [word EXCEPT ![t] = s]
  /\ UNCHANGED <<tracker, commits, offer, applied>>

Offer(t) ==
  /\ word[t] # Silent
  /\ offer' = [offer EXCEPT ![t] = {c \in commits[t] : applied[c] = 0}]
  /\ UNCHANGED <<tracker, word, commits, applied>>

Integrate(t) ==
  /\ \E c \in offer[t] : applied[c] = 0 /\ applied' = [applied EXCEPT ![c] = 1]
  /\ UNCHANGED <<tracker, word, commits, offer>>

Record(t) ==
  /\ tracker[t] # "done" /\ word[t] # Silent
  /\ \A c \in offer[t] : applied[c] = 1
  /\ tracker' = [tracker EXCEPT ![t] = word[t]]
  /\ UNCHANGED <<word, commits, offer, applied>>

Next == \E t \in Task : Work(t) \/ Say(t) \/ Offer(t) \/ Integrate(t) \/ Record(t)

Spec == Init /\ [][Next]_vars
=============================================================================

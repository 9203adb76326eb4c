------------------------- MODULE OrchestratorProofs -------------------------
(***************************************************************************)
(* What the worker of a workflow keeps to, and that it implements          *)
(* TaskBoard: for any number of tasks, whatever depends on what, of        *)
(* commits, deaths and failures.  Nothing of it rests on the locks: one    *)
(* workflow has one worker.  The last part says what the locks are worth.  *)
(***************************************************************************)
EXTENDS Orchestrator, WellFoundedInduction, TLAPS

USE OrchestratorAssumption DEF OrchestratorAssumption

-----------------------------------------------------------------------------
(* The next commit to be picked *)

\* A set of numbers has a least one.
LEMMA HasLeast ==
  ASSUME NEW S, S \subseteq Nat, S # {}
  PROVE  \E n \in S : \A k \in S : n <= k
<1> DEFINE R == OpToRel(<, Nat)
<1>1. IsWellFoundedOn(R, Nat)
  BY NatLessThanWellFounded
<1>2. ASSUME NEW x \in Nat, NEW y \in Nat, x < y
      PROVE  <<x, y>> \in R
  BY <1>2 DEF OpToRel
<1> HIDE DEF R
<1> PICK n \in S : \A k \in S : ~(<<k, n>> \in R)
  BY <1>1, WFMin
<1>3. ASSUME NEW k \in S
      PROVE  n <= k
  <2>1. k \in Nat /\ n \in Nat
    OBVIOUS
  <2>2. ~(k < n)
    BY <1>2, <2>1
  <2> QED  BY <2>1, <2>2
<1> QED  BY <1>3

\* As long as there is something to pick, there is an oldest.
LEMMA OldestIsThere ==
  ASSUME rest \subseteq Commit, rest # {}
  PROVE  Oldest \in rest
<1> DEFINE S == {c[2] : c \in rest}
<1>1. \A c \in rest : c[2] \in 1 .. MaxCommits
  BY DEF Commit
<1>2. S \subseteq Nat /\ S # {}
  BY <1>1
<1>3. \E n \in S : \A k \in S : n <= k
  BY <1>2, HasLeast
<1>4. \E c \in rest : \A d \in rest : c[2] <= d[2]
  BY <1>3
<1> QED  BY <1>4 DEF Oldest

-----------------------------------------------------------------------------
(* The inductive invariant *)

\* From the choice of a task to the end of its iteration.
Iterating == {"prepare", "status", "remove", "drop", "add", "agent", "commit", "lock", "check",
              "pick", "picking", "record", "push", "release", "save"}

\* Until its end is recorded.
Unrecorded == {"prepare", "status", "remove", "drop", "add", "agent", "commit", "lock", "check", "pick", "picking"}

\* Since the agent has ended it.
Ended == {"commit", "lock", "check", "pick", "picking"}

Picking == {"pick", "picking"}

\* Variables in their types: the locks are not looked at.
WorkTypeOK ==
  /\ tracker \in [Task -> {"pending", "in-progress", "done", "blocked"}]
  /\ applied \in [Commit -> 0 .. 1]
  /\ commits \in [Task -> SUBSET Commit] /\ count \in [Task -> 0 .. MaxCommits]
  /\ loose \subseteq Task /\ agents \subseteq Task
  /\ word \in [Task -> {Silent, "done", "blocked"}]
  /\ offer \in [Task -> SUBSET Commit]
  /\ saved \in State /\ mem \in State
  /\ rest \subseteq Commit
  /\ cur \in Task \cup {NoTask}

\* The commits of a worktree are the task's own, and numbered as they were made.
Numbered == \A t \in Task : \A c \in commits[t] : c[1] = t /\ c[2] \in 1 .. count[t]

\* The worker is at a task that is not done, and integrates one that was ended.
AtWork ==
  /\ pc \in Iterating => cur \in Task
  /\ pc \in Unrecorded => tracker[cur] # "done"
  /\ pc \in Ended => word[cur] # Silent

\* Of what was listed, exactly what has been picked is on the branch.
PicksInOrder ==
  /\ pc \in Picking => rest \subseteq offer[cur] /\ \A c \in offer[cur] : applied[c] = 0 <=> c \in rest
  /\ pc = "picking" => rest # {}

DoneIsApplied == \A t \in Task : tracker[t] = "done" => \A c \in offer[t] : applied[c] = 1

\* A task the worker or its state file is at does not wait for any other, also
\* when it was chosen long ago.
Begun(t) == t \in Task /\ tracker[t] = "pending" => \A d \in DependsOn[t] : tracker[d] = "done"

BegunAreReady == Begun(mem.active) /\ Begun(saved.active) /\ (pc \in Iterating => Begun(cur))

\* What is about to be integrated is all there is, unless an agent that nobody
\* waits for goes on.
AllIsListed ==
  cur \in Task \ agents =>
    /\ pc \in {"lock", "check"} \cup Picking => cur \notin loose
    /\ pc \in Picking => Unapplied(cur) = rest

OInv ==
  /\ WorkTypeOK
  /\ Numbered
  /\ AtWork
  /\ PicksInOrder
  /\ DoneIsApplied
  /\ BegunAreReady
  /\ AllIsListed
  /\ RecordedIsWhole

\* Work and its record.
workVars == <<tracker, applied, commits, count, loose, word, offer>>

\* Steps that only move the worker on, give up, or end it.
LEMMA MovingOn ==
  ASSUME OInv, UNCHANGED workVars, mem' \in State, saved' \in State,
         agents \subseteq agents', agents' \subseteq Task, rest' \subseteq Commit, cur' \in {cur, NoTask},
         mem'.active \in {NoTask, mem.active, saved.active} \/ (mem'.active = cur /\ pc \in Iterating),
         saved'.active \in {NoTask, saved.active, mem.active},
         pc' \in Iterating => pc \in Iterating /\ cur' = cur,
         pc' \in Unrecorded => pc \in Unrecorded,
         pc' \in Ended => pc \in Ended,
         pc' \in Picking => pc \in Picking /\ rest' = rest,
         pc' = "picking" => rest # {},
         pc' \in {"lock", "check"} => pc = "lock" \/ pc' = pc
  PROVE  OInv'
<1>1. WorkTypeOK' /\ Numbered' /\ DoneIsApplied' /\ RecordedIsWhole'
  BY DEF OInv, WorkTypeOK, Numbered, DoneIsApplied, RecordedIsWhole, Unapplied, workVars
<1>2. AtWork'
  BY DEF OInv, AtWork, workVars, Unrecorded, Ended, Iterating
<1>3. PicksInOrder'
  BY DEF OInv, PicksInOrder, workVars, Picking, Iterating
<1>4. BegunAreReady'
  BY DEF OInv, BegunAreReady, Begun, workVars
<1>5. AllIsListed'
  BY DEF OInv, AllIsListed, Unapplied, workVars, Picking, Iterating
<1> QED  BY <1>1, <1>2, <1>3, <1>4, <1>5 DEF OInv

\* States with another task, or with others cold.
LEMMA StateChanges ==
  ASSUME NEW m \in State, NEW t \in Task
  PROVE  /\ Cool(m, t) \in State /\ Cool(m, t).active = NoTask
         /\ \A e : After(m, e, t) \in State /\ After(m, e, t).active \in {m.active, NoTask}
         /\ \A a \in Task \cup {NoTask} : [m EXCEPT !.active = a] \in State
         /\ [m EXCEPT !.cold = @ \ {t}] \in State /\ [m EXCEPT !.refresh = @ \ {t}] \in State
<1>1. Cool(m, t) \in State /\ Cool(m, t).active = NoTask
  BY DEF Cool, State
<1> DEFINE c == Cool(m, t)
<1>2. [c EXCEPT !.refresh = @ \cup {t}] \in State /\ [c EXCEPT !.refresh = @ \cup {t}].active = NoTask
  <2>1. c \in State /\ c.active = NoTask
    BY <1>1
  <2> HIDE DEF c
  <2> QED  BY <2>1 DEF State
<1>3. \A e : After(m, e, t) \in State /\ After(m, e, t).active \in {m.active, NoTask}
  BY <1>1, <1>2 DEF After
<1>4. \A a \in Task \cup {NoTask} : [m EXCEPT !.active = a] \in State
  BY DEF State
<1>5. [m EXCEPT !.cold = @ \ {t}] \in State /\ [m EXCEPT !.refresh = @ \ {t}] \in State
  BY DEF State
<1> QED  BY <1>1, <1>3, <1>4, <1>5

\* The steps of the worker by which no work is chosen, done or recorded.
LEMMA MovesKeepOInv ==
  ASSUME OInv,
         \/ Start \/ Started \/ Idle \/ LookAtStatus \/ AddTree \/ PrepareFails \/ AgentContinues \/ AgentFails \/ CommitWorkFails \/ LockTaken
         \/ PickStarts \/ PickConflicts \/ Record \/ RecordFails \/ Push \/ GiveBack \/ Save
  PROVE  OInv'
<1> USE DEF Iterating, Unrecorded, Ended, Picking, workVars, repo, trees, control
<1>1. mem \in State /\ saved \in State /\ agents \subseteq Task /\ rest \subseteq Commit
      /\ (pc \in Iterating => cur \in Task)
  BY DEF OInv, WorkTypeOK, AtWork
<1>2. CASE Start
  BY <1>1, <1>2, MovingOn DEF Start
<1>3. CASE Started
  BY <1>1, <1>3, MovingOn DEF Started, Dies, GoTo
<1>4. CASE Idle
  <2>1. [mem EXCEPT !.active = NoTask] \in State /\ [mem EXCEPT !.active = NoTask].active = NoTask
    BY <1>1 DEF State
  <2> QED  BY <1>1, <1>4, <2>1, MovingOn DEF Idle, Complete
<1>5. CASE AgentContinues
  <2>1. [mem EXCEPT !.active = cur, !.cold = @ \ {cur}] \in State
        /\ [mem EXCEPT !.active = cur, !.cold = @ \ {cur}].active = cur
    BY <1>1, <1>5 DEF State, AgentContinues
  <2> QED  BY <1>1, <1>5, <2>1, MovingOn DEF AgentContinues
<1>6. CASE AgentFails
  BY <1>1, <1>6, StateChanges, MovingOn DEF AgentFails
<1>7. CASE CommitWorkFails
  BY <1>1, <1>7, StateChanges, MovingOn DEF CommitWorkFails
<1>8. CASE LockTaken
  BY <1>1, <1>8, MovingOn DEF LockTaken
<1>9. CASE PickStarts
  BY <1>1, <1>9, MovingOn DEF PickStarts
<1>10. CASE PickConflicts
  BY <1>1, <1>10, MovingOn DEF PickConflicts
<1>11. CASE Record \/ RecordFails
  BY <1>1, <1>11, MovingOn DEF Record, RecordFails
<1>12. CASE Push
  BY <1>1, <1>12, MovingOn DEF Push
<1>13. CASE GiveBack
  <2>1. After(mem, error, cur) \in State /\ After(mem, error, cur).active \in {mem.active, NoTask}
    BY <1>1, <1>13, StateChanges DEF GiveBack
  <2> QED  BY <1>1, <1>13, <2>1, MovingOn DEF GiveBack
<1>14. CASE Save
  BY <1>1, <1>14, MovingOn DEF Save, Complete
<1>15. CASE LookAtStatus
  BY <1>1, <1>15, MovingOn DEF LookAtStatus
<1>16. CASE AddTree
  BY <1>1, <1>16, MovingOn DEF AddTree
<1>17. CASE PrepareFails
  BY <1>1, <1>17, StateChanges, MovingOn DEF PrepareFails
<1> QED  BY <1>15, <1>16, <1>17, <1>2, <1>3, <1>4, <1>5, <1>6, <1>7, <1>8, <1>9, <1>10, <1>11, <1>12, <1>13, <1>14

\* Time, locks, and the death of the worker.
LEMMA WorldKeepsOInv ==
  ASSUME OInv, \/ UNCHANGED unlocked
               \/ \E t \in Task : CooledDown(t)
               \/ Crash
  PROVE  OInv'
<1> USE DEF Iterating, Unrecorded, Ended, Picking, workVars, repo, trees, control
<1>1. mem \in State /\ saved \in State /\ agents \subseteq Task /\ rest \subseteq Commit
      /\ (pc \in Iterating => cur \in Task)
  BY DEF OInv, WorkTypeOK, AtWork
<1>2. CASE UNCHANGED unlocked
  BY <1>1, <1>2, MovingOn DEF unlocked, OInv, PicksInOrder
<1>3. ASSUME NEW t \in Task, CooledDown(t)
      PROVE  OInv'
  <2>1. /\ [mem EXCEPT !.cold = @ \ {t}] \in State /\ [mem EXCEPT !.cold = @ \ {t}].active = mem.active
        /\ [saved EXCEPT !.cold = @ \ {t}] \in State /\ [saved EXCEPT !.cold = @ \ {t}].active = saved.active
    BY <1>1 DEF State
  <2> QED  BY <1>1, <1>3, <2>1, MovingOn DEF CooledDown, OInv, PicksInOrder
<1>4. CASE Crash
  <2>1. agents \subseteq agents' /\ agents' \subseteq Task
    BY <1>1, <1>4 DEF Crash
  <2>2. mem' \in State /\ mem'.active = NoTask
    BY <1>1, <1>4 DEF Crash, NewState, State
  <2>3. saved' \in State /\ saved'.active = saved.active
    BY <1>1, <1>4 DEF Crash, State
  <2> QED  BY <1>1, <1>4, <2>1, <2>2, <2>3, MovingOn DEF Crash
<1> QED  BY <1>2, <1>3, <1>4

\* A task is chosen that waits for no other.
LEMMA SelectKeepsOInv ==
  ASSUME OInv, Select
  PROVE  OInv'
<1> USE DEF Iterating, Unrecorded, Ended, Picking
<1> PICK t \in Choices :
      mem' = [mem EXCEPT !.active = t] /\ saved' = mem' /\ cur' = t /\ pc' = "prepare"
  BY DEF Select
<1>1. pc = "select" /\ UNCHANGED <<tracker, applied, commits, count, loose, agents, word, offer, rest>>
  BY DEF Select, repo, trees
<1>2. t \in Task /\ tracker[t] # "done" /\ Begun(t)
  BY DEF OInv, Choices, Runnable, Ready, BegunAreReady, Begun
<1>3. mem' \in State /\ saved' \in State /\ mem'.active = t /\ saved'.active = t
  BY <1>2 DEF OInv, WorkTypeOK, State
<1>4. WorkTypeOK' /\ Numbered' /\ DoneIsApplied' /\ RecordedIsWhole'
  BY <1>1, <1>2, <1>3 DEF OInv, WorkTypeOK, Numbered, DoneIsApplied, RecordedIsWhole, Unapplied
<1>5. AtWork' /\ PicksInOrder' /\ AllIsListed'
  BY <1>1, <1>2 DEF AtWork, PicksInOrder, AllIsListed
<1>6. BegunAreReady'
  BY <1>1, <1>2, <1>3 DEF BegunAreReady, Begun
<1> QED  BY <1>4, <1>5, <1>6 DEF OInv

\* Commits and edits come and go in the worktree of a task that is not done, or
\* that an agent goes on with.
LEMMA WorkKeepsOInv ==
  ASSUME OInv, NEW t \in Task,
         commits' \in [Task -> SUBSET Commit], count' \in [Task -> 0 .. MaxCommits],
         \A u \in Task \ {t} : commits'[u] = commits[u] /\ count'[u] = count[u],
         \A c \in commits'[t] : c[1] = t /\ c[2] \in 1 .. count'[t],
         loose' \subseteq Task, loose' \ {t} = loose \ {t},
         UNCHANGED <<tracker, applied, agents, word, offer, cur, rest>>,
         mem' \in State, mem'.active = mem.active, saved' \in State,
         saved'.active \in {saved.active, mem.active},
         \/ t \in agents /\ pc' = pc
         \/ pc \in {"prepare", "remove", "drop"} /\ t = cur /\ pc' \in {"status", "remove", "drop", "add", "agent"}
         \/ pc = "agent" /\ t = cur /\ pc' = pc
         \/ pc = "commit" /\ t = cur /\ pc' = "lock" /\ t \notin loose'
  PROVE  OInv'
<1> USE DEF Iterating, Unrecorded, Ended, Picking
<1>1. WorkTypeOK' /\ Numbered' /\ DoneIsApplied'
  BY DEF OInv, WorkTypeOK, Numbered, DoneIsApplied
<1>2. AtWork' /\ PicksInOrder'
  BY DEF OInv, AtWork, PicksInOrder
<1>3. \A u \in Task \ {t} : Unapplied(u)' = Unapplied(u)
  BY DEF OInv, WorkTypeOK, Unapplied
<1>4. AllIsListed'
  BY <1>3 DEF OInv, AllIsListed
<1>5. RecordedIsWhole'
  BY <1>3 DEF OInv, RecordedIsWhole, AtWork
<1>6. BegunAreReady'
  BY DEF OInv, BegunAreReady, Begun
<1> QED  BY <1>1, <1>2, <1>4, <1>5, <1>6 DEF OInv

\* What a commit adds to a worktree.
LEMMA CommitAdds ==
  ASSUME OInv, NEW t \in Task, CommitIn(t)
  PROVE  /\ commits' \in [Task -> SUBSET Commit] /\ count' \in [Task -> 0 .. MaxCommits]
         /\ \A u \in Task \ {t} : commits'[u] = commits[u] /\ count'[u] = count[u]
         /\ \A c \in commits'[t] : c[1] = t /\ c[2] \in 1 .. count'[t]
         /\ commits[t] \subseteq commits'[t] /\ commits'[t] # commits[t]
         /\ \E c \in Commit : commits' = [commits EXCEPT ![t] = commits[t] \cup {c}]
<1> DEFINE n == count[t] + 1
           new == <<t, n>>
<1>1. count \in [Task -> 0 .. MaxCommits] /\ commits \in [Task -> SUBSET Commit] /\ count[t] < MaxCommits
  BY DEF OInv, WorkTypeOK, CommitIn
<1>2. count[t] \in Nat /\ n \in 1 .. MaxCommits /\ n \in 0 .. MaxCommits
  BY <1>1
<1>3. count' = [count EXCEPT ![t] = n]
  BY DEF CommitIn
<1>4. commits' = [commits EXCEPT ![t] = commits[t] \cup {new}]
  BY <1>1, <1>3 DEF CommitIn
<1>5. \A c \in commits[t] : c[1] = t /\ c[2] \in 1 .. count[t]
  BY DEF OInv, Numbered
<1>6. new \in Commit
  BY <1>2 DEF Commit
<1>7. new \notin commits[t]
  BY <1>2, <1>5
<1>8. \A c \in commits[t] \cup {new} : c[1] = t /\ c[2] \in 1 .. n
  BY <1>2, <1>5
<1> HIDE DEF new, n
<1>9. /\ commits' \in [Task -> SUBSET Commit] /\ commits'[t] = commits[t] \cup {new}
      /\ count' \in [Task -> 0 .. MaxCommits] /\ count'[t] = n
      /\ \A u \in Task \ {t} : commits'[u] = commits[u] /\ count'[u] = count[u]
  BY <1>1, <1>2, <1>3, <1>4, <1>6
<1> QED  BY <1>4, <1>6, <1>7, <1>8, <1>9

\* The steps in which worktrees change.
LEMMA WorktreesKeepOInv ==
  ASSUME OInv, Prepare \/ RemoveTree \/ DropBranch \/ CommitWork \/ \E t \in Task : AgentWorks(t)
  PROVE  OInv'
<1>1. /\ mem \in State /\ saved \in State /\ loose \subseteq Task /\ commits \in [Task -> SUBSET Commit]
      /\ count \in [Task -> 0 .. MaxCommits]
      /\ \A t \in Task : \A c \in commits[t] : c[1] = t /\ c[2] \in 1 .. count[t]
  BY DEF OInv, WorkTypeOK, Numbered
<1>2. pc \in {"prepare", "remove", "drop", "commit", "agent"} => cur \in Task
  BY DEF OInv, AtWork, Iterating
<1>3. CASE Prepare \/ RemoveTree \/ DropBranch
  <2>1. /\ pc \in {"prepare", "remove", "drop"} /\ cur \in Task
        /\ pc' \in {"status", "remove", "drop", "add", "agent"}
        /\ mem' \in {mem, [mem EXCEPT !.refresh = @ \ {cur}]} /\ saved' = saved
        /\ UNCHANGED <<tracker, applied, count, agents, word, offer, cur, rest>>
    BY <1>2, <1>3 DEF Prepare, RemoveTree, DropBranch, repo
  <2>2. mem' \in State /\ mem'.active = mem.active
    BY <1>1, <2>1 DEF State
  <2>3. /\ commits' \in [Task -> SUBSET Commit] /\ commits'[cur] \in {{}, commits[cur]}
        /\ \A u \in Task \ {cur} : commits'[u] = commits[u]
        /\ loose' \subseteq Task /\ loose' \ {cur} = loose \ {cur}
    BY <1>1, <1>3, <2>1 DEF Prepare, RemoveTree, DropBranch
  <2>4. \A c \in commits'[cur] : c[1] = cur /\ c[2] \in 1 .. count'[cur]
    BY <1>1, <2>1, <2>3
  <2> QED  BY <1>1, <2>1, <2>2, <2>3, <2>4, WorkKeepsOInv
<1>4. CASE CommitWork
  <2>1. /\ pc = "commit" /\ cur \in Task /\ pc' = "lock"
        /\ UNCHANGED <<tracker, applied, agents, word, offer, saved, mem, cur, rest>>
    BY <1>2, <1>4 DEF CommitWork, repo
  <2>2. CASE cur \in loose
    <3>1. CommitIn(cur) /\ loose' = loose \ {cur}
      BY <1>4, <2>2 DEF CommitWork, CommitIn
    <3> QED  BY <1>1, <2>1, <3>1, CommitAdds, WorkKeepsOInv
  <2>3. CASE cur \notin loose
    <3>1. commits' = commits /\ count' = count /\ loose' = loose
      BY <1>4, <2>3 DEF CommitWork
    <3> QED  BY <1>1, <2>1, <2>3, <3>1, WorkKeepsOInv
  <2> QED  BY <2>2, <2>3
<1>5. ASSUME NEW t \in Task, AgentWorks(t)
      PROVE  OInv'
  <2>1. /\ t \in agents \/ (pc = "agent" /\ cur = t)
        /\ UNCHANGED <<tracker, applied, agents, word, offer, saved, mem, cur, rest, pc>>
    BY <1>5 DEF AgentWorks, repo, control
  <2>2. CASE CommitIn(t)
    <3>1. loose' = loose \ {t}
      BY <2>2 DEF CommitIn
    <3> QED  BY <1>1, <2>1, <2>2, <3>1, CommitAdds, WorkKeepsOInv
  <2>3. CASE loose' = loose \cup {t} /\ UNCHANGED <<commits, count>>
    BY <1>1, <2>1, <2>3, WorkKeepsOInv
  <2> QED  BY <1>5, <2>2, <2>3 DEF AgentWorks
<1> QED  BY <1>3, <1>4, <1>5

\* An agent ends its task, for which nothing is listed any more.
LEMMA FinishKeepsOInv ==
  ASSUME OInv, AgentFinishes
  PROVE  OInv'
<1> USE DEF Iterating, Unrecorded, Ended, Picking
<1>1. /\ pc = "agent" /\ pc' = "commit" /\ cur \in Task
      /\ UNCHANGED <<tracker, applied, commits, count, loose, agents, offer, saved, cur, rest>>
  BY DEF AgentFinishes, OInv, AtWork, repo, trees
<1>2. /\ word' \in [Task -> {Silent, "done", "blocked"}] /\ word'[cur] # Silent
  BY <1>1 DEF AgentFinishes, OInv, WorkTypeOK
<1>3. mem' \in State /\ mem'.active = NoTask
  BY <1>1 DEF AgentFinishes, OInv, WorkTypeOK, State
<1>4. WorkTypeOK' /\ Numbered' /\ DoneIsApplied' /\ RecordedIsWhole'
  BY <1>1, <1>2, <1>3 DEF OInv, WorkTypeOK, Numbered, DoneIsApplied, RecordedIsWhole, Unapplied
<1>5. AtWork' /\ PicksInOrder' /\ AllIsListed'
  BY <1>1, <1>2 DEF OInv, AtWork, PicksInOrder, AllIsListed
<1>6. BegunAreReady'
  BY <1>1, <1>3 DEF OInv, BegunAreReady, Begun
<1> QED  BY <1>4, <1>5, <1>6 DEF OInv

\* What is listed is what is not on the branch.
LEMMA CheckKeepsOInv ==
  ASSUME OInv, Check
  PROVE  OInv'
<1> USE DEF Iterating, Unrecorded, Ended, Picking
<1>1. /\ pc = "check" /\ cur \in Task
      /\ UNCHANGED <<tracker, applied, commits, count, loose, agents, word, saved, mem, cur>>
  BY DEF Check, OInv, AtWork, repo, trees
<1>2. \/ pc' = "release" /\ UNCHANGED <<offer, rest>>
      \/ pc' = "pick" /\ rest' = Unapplied(cur) /\ offer' = [offer EXCEPT ![cur] = Unapplied(cur)]
  BY DEF Check, OfferOf
<1>3. Unapplied(cur) \subseteq Commit /\ applied \in [Commit -> 0 .. 1]
  BY <1>1 DEF Unapplied, OInv, WorkTypeOK
<1>4. tracker[cur] # "done" /\ offer \in [Task -> SUBSET Commit]
  BY <1>1 DEF OInv, AtWork, WorkTypeOK
<1>5. WorkTypeOK' /\ Numbered' /\ RecordedIsWhole'
  BY <1>1, <1>2, <1>3 DEF OInv, WorkTypeOK, Numbered, RecordedIsWhole, Unapplied
<1>6. DoneIsApplied'
  BY <1>1, <1>2, <1>4 DEF OInv, DoneIsApplied
<1>7. AtWork' /\ BegunAreReady'
  BY <1>1, <1>2 DEF OInv, AtWork, BegunAreReady, Begun
<1>8. PicksInOrder'
  <2>1. CASE pc' = "pick" /\ rest' = Unapplied(cur) /\ offer' = [offer EXCEPT ![cur] = Unapplied(cur)]
    <3>1. offer'[cur] = Unapplied(cur)
      BY <2>1, <1>1, <1>4
    <3> QED  BY <2>1, <3>1, <1>1 DEF PicksInOrder, Unapplied
  <2> QED  BY <1>2, <2>1 DEF PicksInOrder
<1>9. AllIsListed'
  BY <1>1, <1>2 DEF OInv, AllIsListed, Unapplied
<1> QED  BY <1>5, <1>6, <1>7, <1>8, <1>9 DEF OInv

\* The oldest commit of those listed is put on the branch, once.
LEMMA PickIsNew ==
  ASSUME OInv, PickEnds
  PROVE  /\ Oldest \in rest /\ Oldest \in Commit /\ cur \in Task
         /\ Oldest \in offer[cur] /\ applied[Oldest] = 0
         /\ applied' = [applied EXCEPT ![Oldest] = 1]
<1>1. pc = "picking" /\ cur \in Task /\ rest \subseteq Commit /\ rest # {}
  BY DEF PickEnds, OInv, AtWork, WorkTypeOK, PicksInOrder, Iterating
<1>2. Oldest \in rest
  BY <1>1, OldestIsThere
<1>3. Oldest \in offer[cur] /\ applied[Oldest] = 0
  BY <1>1, <1>2 DEF OInv, PicksInOrder, Picking
<1>4. applied' = [applied EXCEPT ![Oldest] = applied[Oldest] + 1]
  BY DEF PickEnds
<1> QED  BY <1>1, <1>2, <1>3, <1>4

\* A pick leaves less to be picked.
LEMMA PickKeepsOInv ==
  ASSUME OInv, PickEnds
  PROVE  OInv'
<1> USE DEF Iterating, Unrecorded, Ended, Picking
<1> DEFINE o == Oldest
<1>1. /\ pc = "picking" /\ pc' = "pick" /\ rest' = rest \ {o}
      /\ UNCHANGED <<tracker, commits, count, loose, agents, word, offer, saved, mem, cur>>
  BY DEF PickEnds, trees
<1>2. /\ o \in rest /\ o \in Commit /\ cur \in Task /\ o \in offer[cur] /\ applied[o] = 0
      /\ applied' = [applied EXCEPT ![o] = 1]
  BY PickIsNew
<1> HIDE DEF o
<1>3. applied' \in [Commit -> 0 .. 1] /\ applied'[o] = 1 /\ \A c \in Commit \ {o} : applied'[c] = applied[c]
  BY <1>2 DEF OInv, WorkTypeOK
<1>4. \A t \in Task : offer[t] \subseteq Commit /\ commits[t] \subseteq Commit
  BY DEF OInv, WorkTypeOK
<1>5. WorkTypeOK' /\ Numbered'
  BY <1>1, <1>3 DEF OInv, WorkTypeOK, Numbered
<1>6. AtWork' /\ BegunAreReady'
  BY <1>1 DEF OInv, AtWork, BegunAreReady, Begun
<1>7. PicksInOrder'
  BY <1>1, <1>2, <1>3, <1>4 DEF OInv, PicksInOrder
<1>8. DoneIsApplied'
  BY <1>1, <1>3, <1>4 DEF OInv, DoneIsApplied
<1>9. \A t \in Task : Unapplied(t)' = Unapplied(t) \ {o}
  BY <1>1, <1>3, <1>4 DEF Unapplied
<1>10. AllIsListed' /\ RecordedIsWhole'
  BY <1>1, <1>9 DEF OInv, AllIsListed, RecordedIsWhole
<1> QED  BY <1>5, <1>6, <1>7, <1>8, <1>10 DEF OInv

\* The end of a task is recorded when nothing of it is left to be picked.
LEMMA MarkKeepsOInv ==
  ASSUME OInv, Mark
  PROVE  OInv'
<1> USE DEF Iterating, Unrecorded, Ended, Picking
<1>1. /\ pc = "pick" /\ rest = {} /\ pc' = "record" /\ cur \in Task
      /\ tracker' = [tracker EXCEPT ![cur] = word[cur]]
      /\ UNCHANGED <<applied, commits, count, loose, agents, word, offer, saved, mem, cur, rest>>
  BY DEF Mark, OInv, AtWork, trees
<1>2. word[cur] \in {"done", "blocked"}
  BY <1>1 DEF OInv, WorkTypeOK, AtWork
<1>3. /\ tracker' \in [Task -> {"pending", "in-progress", "done", "blocked"}] /\ tracker'[cur] = word[cur]
      /\ \A t \in Task \ {cur} : tracker'[t] = tracker[t]
  BY <1>1, <1>2 DEF OInv, WorkTypeOK
<1>4. tracker[cur] # "done"
  BY <1>1 DEF OInv, AtWork
<1>5. WorkTypeOK' /\ Numbered' /\ AtWork' /\ PicksInOrder' /\ AllIsListed'
  BY <1>1, <1>3 DEF OInv, WorkTypeOK, Numbered, AtWork, PicksInOrder, AllIsListed
<1>6. \A c \in offer[cur] : applied[c] = 1
  BY <1>1 DEF OInv, PicksInOrder, WorkTypeOK
<1>7. DoneIsApplied'
  BY <1>1, <1>3, <1>6 DEF OInv, DoneIsApplied
<1>8. BegunAreReady'
  BY <1>1, <1>2, <1>3, <1>4 DEF OInv, BegunAreReady, Begun
<1>9. cur \notin agents => Unapplied(cur) = {} /\ cur \notin loose
  BY <1>1 DEF OInv, AllIsListed
<1>10. RecordedIsWhole'
  BY <1>1, <1>3, <1>9 DEF OInv, RecordedIsWhole, Unapplied
<1> QED  BY <1>5, <1>7, <1>8, <1>10 DEF OInv

\* Every step keeps the invariant.
LEMMA OInvStep ==
  ASSUME OInv, [Next]_vars
  PROVE  OInv'
<1>1. CASE Locking \/ (\E l \in Lock : Ages(l) /\ UNCHANGED unlocked) \/ UNCHANGED vars
  <2>1. UNCHANGED unlocked
    BY <1>1 DEF Locking, vars, unlocked
  <2> QED  BY <2>1, WorldKeepsOInv
<1>2. CASE Working
  BY <1>2, MovesKeepOInv, SelectKeepsOInv, WorktreesKeepOInv, FinishKeepsOInv, CheckKeepsOInv,
     PickKeepsOInv, MarkKeepsOInv DEF Working
<1>3. CASE \E t \in Task : AgentWorks(t)
  BY <1>3, WorktreesKeepOInv
<1>4. CASE (\E t \in Task : CooledDown(t)) \/ Crash
  BY <1>4, WorldKeepsOInv
<1> QED  BY <1>1, <1>2, <1>3, <1>4 DEF Next

\* The invariant of the worker.
THEOREM WorkIsInOrder ==
  Spec => []OInv
<1>1. ASSUME Init
      PROVE  OInv
  <2>1. WorkTypeOK
    BY <1>1 DEF Init, WorkTypeOK, NewState, State
  <2>2. Numbered /\ AtWork /\ PicksInOrder /\ DoneIsApplied /\ RecordedIsWhole
    BY <1>1 DEF Init, Numbered, AtWork, PicksInOrder, DoneIsApplied, RecordedIsWhole,
                Iterating, Unrecorded, Ended, Picking
  <2>3. BegunAreReady /\ AllIsListed
    BY <1>1 DEF Init, BegunAreReady, Begun, AllIsListed, NewState, Iterating, Picking
  <2> QED  BY <2>1, <2>2, <2>3 DEF OInv
<1>2. OInv /\ [Next]_vars => OInv'
  BY OInvStep
<1> QED  BY <1>1, <1>2, PTL DEF Spec

\* A task recorded as done is on the integration branch with all its work,
\* however the worker got there (integrateTask, scripts/orchestrator.ts).
THEOREM DoneIsWhole ==
  Spec => []RecordedIsWhole
<1>1. OInv => RecordedIsWhole
  BY DEF OInv
<1> QED  BY <1>1, WorkIsInOrder, PTL

\* No agent starts on a pending task before the work it depends on is on the
\* branch, also when the task was chosen by a worker that has died since.
THEOREM DependenciesComeFirst ==
  Spec => []DependenciesFirst
<1>1. ASSUME OInv
      PROVE  DependenciesFirst
  <2> SUFFICES ASSUME pc = "agent", tracker[cur] = "pending", NEW d \in DependsOn[cur]
               PROVE  tracker[d] = "done" /\ \A c \in offer[d] : applied[c] = 1
    BY DEF DependenciesFirst
  <2>1. cur \in Task /\ d \in Task
    BY <1>1 DEF OInv, AtWork, Iterating
  <2>2. tracker[d] = "done"
    BY <1>1, <2>1 DEF OInv, BegunAreReady, Begun, Iterating
  <2> QED  BY <1>1, <2>1, <2>2 DEF OInv, DoneIsApplied
<1> QED  BY <1>1, WorkIsInOrder, PTL

-----------------------------------------------------------------------------
(* The board *)

\* What TaskBoard speaks of.
boardVars == <<tracker, word, commits, offer, applied>>

\* A step of the worker is one of the board, or none.
LEMMA BoardStep ==
  ASSUME OInv, [Next]_vars
  PROVE  [Board!Next]_Board!vars
<1> USE DEF Board!Next, Board!vars
<1>1. \A t \in Task : Board!Work(t) \/ Board!Say(t) \/ Board!Offer(t) \/ Board!Integrate(t) \/ Board!Record(t)
        => Board!Next
  OBVIOUS
<1>2. CASE UNCHANGED boardVars
  BY <1>2 DEF boardVars
<1>3. CASE Prepare \/ DropBranch
  <2>1. cur \in Task /\ UNCHANGED <<tracker, word, offer, applied>>
    BY <1>3 DEF Prepare, DropBranch, OInv, AtWork, Iterating, repo
  <2>2. commits' = [commits EXCEPT ![cur] = {}] \/ UNCHANGED commits
    BY <1>3 DEF Prepare, DropBranch
  <2>3. CASE commits' = [commits EXCEPT ![cur] = {}]
    BY <1>1, <2>1, <2>3 DEF Board!Work
  <2> QED  BY <2>1, <2>2, <2>3
<1>4. ASSUME NEW t \in Task, CommitIn(t), UNCHANGED <<tracker, word, offer, applied>>
      PROVE  Board!Next
  <2> PICK c \in Commit : commits' = [commits EXCEPT ![t] = commits[t] \cup {c}]
    BY <1>4, CommitAdds
  <2> QED  BY <1>1, <1>4 DEF Board!Work
<1>5. CASE CommitWork
  <2>1. cur \in Task /\ UNCHANGED <<tracker, word, offer, applied>>
    BY <1>5 DEF CommitWork, OInv, AtWork, Iterating, repo
  <2>2. CommitIn(cur) \/ UNCHANGED commits
    BY <1>5 DEF CommitWork
  <2> QED  BY <1>4, <2>1, <2>2
<1>6. ASSUME NEW t \in Task, AgentWorks(t)
      PROVE  [Board!Next]_Board!vars
  <2>1. UNCHANGED <<tracker, word, offer, applied>> /\ (CommitIn(t) \/ UNCHANGED commits)
    BY <1>6 DEF AgentWorks, repo
  <2> QED  BY <1>4, <2>1
<1>7. CASE AgentFinishes
  <2>1. pc = "agent" /\ cur \in Task /\ tracker[cur] # "done"
    BY <1>7 DEF AgentFinishes, OInv, AtWork, Iterating, Unrecorded
  <2>2. Board!Say(cur)
    BY <1>7, <2>1 DEF AgentFinishes, Board!Say, repo, trees
  <2> QED  BY <1>1, <2>1, <2>2
<1>8. CASE Check
  <2>1. cur \in Task /\ word[cur] # Silent /\ UNCHANGED <<tracker, word, commits, applied>>
    BY <1>8 DEF Check, OInv, AtWork, Iterating, Ended, repo, trees
  <2>2. offer' = [offer EXCEPT ![cur] = {c \in commits[cur] : applied[c] = 0}] \/ UNCHANGED offer
    BY <1>8 DEF Check, OfferOf, Unapplied
  <2>3. Board!Offer(cur) \/ UNCHANGED boardVars
    BY <2>1, <2>2 DEF Board!Offer, boardVars
  <2> QED  BY <1>1, <1>2, <2>1, <2>3
<1>9. CASE PickEnds
  <2>1. Oldest \in offer[cur] /\ applied[Oldest] = 0 /\ applied' = [applied EXCEPT ![Oldest] = 1] /\ cur \in Task
    BY <1>9, PickIsNew
  <2>2. Board!Integrate(cur)
    BY <1>9, <2>1 DEF PickEnds, Board!Integrate, trees
  <2> QED  BY <1>1, <2>1, <2>2
<1>10. CASE Mark
  <2>1. cur \in Task /\ tracker[cur] # "done" /\ word[cur] # Silent
    BY <1>10 DEF Mark, OInv, AtWork, Iterating, Unrecorded, Ended
  <2>2. \A c \in offer[cur] : applied[c] = 1
    BY <1>10, <2>1 DEF Mark, OInv, WorkTypeOK, PicksInOrder, Picking
  <2>3. Board!Record(cur)
    BY <1>10, <2>1, <2>2 DEF Mark, Board!Record, trees
  <2> QED  BY <1>1, <2>1, <2>3
<1>11. ASSUME \/ LookAtStatus \/ RemoveTree \/ AddTree \/ PrepareFails
              \/ Start \/ Started \/ Select \/ Idle \/ AgentContinues \/ AgentFails \/ CommitWorkFails
              \/ LockTaken \/ PickStarts \/ PickConflicts \/ Record \/ RecordFails \/ Push
              \/ GiveBack \/ Save
       PROVE  UNCHANGED boardVars
  BY <1>11 DEF LookAtStatus, RemoveTree, AddTree, PrepareFails, Start, Started, Select, Idle, AgentContinues, AgentFails, CommitWorkFails, LockTaken,
     PickStarts, PickConflicts, Record, RecordFails, Push, GiveBack, Save, repo, trees, boardVars
<1>12. ASSUME \/ UNCHANGED unlocked
              \/ \E t \in Task : CooledDown(t)
              \/ Crash
       PROVE  UNCHANGED boardVars
  BY <1>12 DEF unlocked, CooledDown, Crash, repo, trees, boardVars
<1>13. CASE Working
  BY <1>2, <1>3, <1>5, <1>7, <1>8, <1>9, <1>10, <1>11, <1>13 DEF Working
<1>14. CASE Locking \/ (\E l \in Lock : Ages(l) /\ UNCHANGED unlocked) \/ UNCHANGED vars
  <2>1. UNCHANGED unlocked
    BY <1>14 DEF Locking, vars, unlocked
  <2> QED  BY <1>2, <1>12, <2>1
<1> QED  BY <1>2, <1>6, <1>12, <1>13, <1>14 DEF Next

\* The orchestrator does what its documentation promises of the tracker and the
\* integration branch.
THEOREM WorkerImplementsTaskBoard ==
  Spec => ImplementsTaskBoard
<1>1. Init => Board!Init
  BY DEF Init, Board!Init
<1>2. OInv /\ [Next]_vars => [Board!Next]_Board!vars
  BY BoardStep
<1> QED  BY <1>1, <1>2, WorkIsInOrder, PTL DEF Spec, ImplementsTaskBoard, Board!Spec

\* A task that is recorded as done is never reported on, blocked or recorded again,
\* and what is on the integration branch is not put there a second time
\* (docs/autonomous-orchestrator.md, "How It Works": only tasks that are not done
\* are picked).  Both are handed down by the board.
DoneIsFinal ==
  /\ \A t \in Task : tracker[t] = "done" => tracker'[t] = "done" /\ word'[t] = word[t]
  /\ \A c \in Commit : applied'[c] \in {applied[c], 1}

\* The tracker of a behaviour only moves forward, whatever crashes and restarts.
THEOREM DoneTasksStayDone == Spec => [][DoneIsFinal]_vars
<1>1. ASSUME OInv, [Board!Next]_Board!vars
      PROVE  DoneIsFinal
  <2>1. /\ tracker \in [Task -> {"pending", "in-progress", "done", "blocked"}]
        /\ applied \in [Commit -> 0 .. 1] /\ word \in [Task -> {Silent, "done", "blocked"}]
    BY <1>1 DEF OInv, WorkTypeOK
  <2>2. CASE UNCHANGED Board!vars
    BY <2>2 DEF Board!vars, DoneIsFinal
  <2>3. ASSUME NEW t \in Task,
               Board!Work(t) \/ Board!Say(t) \/ Board!Offer(t) \/ Board!Integrate(t) \/ Board!Record(t)
        PROVE  DoneIsFinal
    BY <2>1, <2>3 DEF Board!Work, Board!Say, Board!Offer, Board!Integrate, Board!Record, DoneIsFinal
  <2> QED  BY <1>1, <2>2, <2>3 DEF Board!Next
<1>2. OInv /\ [Next]_vars => DoneIsFinal
  BY <1>1, BoardStep
<1> QED  BY <1>2, WorkIsInOrder, PTL DEF Spec

-----------------------------------------------------------------------------
(* Work that is not integrated yet *)

\* What is about to be removed is empty, and a task without a worktree has nothing
\* on its branch, but for conflicts on record and agents that nobody waits for.
NothingToLose ==
  /\ bare \subseteq Task
  /\ pc \in {"status", "agent", "commit"} => cur \notin bare
  /\ pc \in {"prepare", "status", "remove", "drop"} => mem.refresh \subseteq saved.refresh
  /\ cur \notin agents \cup mem.refresh =>
       /\ pc \in {"status", "remove", "drop"} => Unapplied(cur) = {}
       /\ pc = "remove" => cur \notin loose
  /\ \A t \in bare \ agents : Unapplied(t) # {} =>
       t \in saved.refresh /\ (pc \notin {"down", "starting"} => t \in mem.refresh)

\* What a step leaves of the work in a worktree.
Kept ==
  \A t \in Task : t \notin mem.refresh /\ ~Overtaken(t) =>
    /\ Unapplied(t) \subseteq commits'[t]
    /\ t \in loose => t \in loose' \/ commits'[t] # commits[t]

\* No step of the worker, the agents or the world gives up work without a
\* conflict on record, unless an agent works behind the worker's back.
LEMMA StepKeepsWork ==
  ASSUME OInv, NothingToLose, [Next]_vars
  PROVE  Kept
<1>1. commits \in [Task -> SUBSET Commit]
  BY DEF OInv, WorkTypeOK
<1>2. CASE UNCHANGED <<commits, loose>>
  BY <1>2 DEF Kept, Unapplied
<1>3. CASE Prepare \/ RemoveTree \/ DropBranch
  <2> SUFFICES ASSUME NEW t \in Task, t \notin mem.refresh, ~Overtaken(t)
               PROVE  Unapplied(t) \subseteq commits'[t] /\ (t \in loose => t \in loose')
    BY DEF Kept
  <2>1. CASE t # cur
    BY <1>1, <1>3, <2>1 DEF Unapplied, Prepare, RemoveTree, DropBranch
  <2>2. CASE t = cur /\ Prepare
    <3>1. cur \in bare \ agents => Unapplied(cur) = {}
      BY <2>2 DEF Prepare, NothingToLose
    <3>2. loose' = loose /\ (UNCHANGED commits \/ (cur \in bare /\ commits' = [commits EXCEPT ![cur] = {}]))
      BY <2>2 DEF Prepare
    <3> QED  BY <1>1, <2>2, <3>1, <3>2 DEF Overtaken, Unapplied
  <2>3. CASE t = cur /\ (RemoveTree \/ DropBranch)
    <3>1. cur \notin agents /\ cur \notin mem.refresh
      BY <2>3 DEF Overtaken, RemoveTree, DropBranch
    <3>2. Unapplied(cur) = {} /\ (RemoveTree => cur \notin loose)
      BY <2>3, <3>1 DEF NothingToLose, RemoveTree, DropBranch
    <3> QED  BY <2>3, <3>2 DEF RemoveTree, DropBranch
  <2> QED  BY <1>3, <2>1, <2>2, <2>3
<1>4. ASSUME NEW t \in Task, CommitIn(t)
      PROVE  Kept
  <2> SUFFICES ASSUME NEW u \in Task
               PROVE  /\ Unapplied(u) \subseteq commits'[u]
                      /\ u \in loose => u \in loose' \/ commits'[u] # commits[u]
    BY DEF Kept
  <2>1. loose' = loose \ {t} /\ Unapplied(u) \subseteq commits[u]
    BY <1>4 DEF CommitIn, Unapplied
  <2>2. CASE u = t
    BY <1>4, <2>1, <2>2, CommitAdds
  <2>3. CASE u # t
    BY <1>4, <2>1, <2>3, CommitAdds
  <2> QED  BY <2>2, <2>3
<1>5. ASSUME CommitWork \/ \E t \in Task : AgentWorks(t)
      PROVE  Kept
  <2>1. (\E t \in Task : CommitIn(t)) \/ (UNCHANGED commits /\ loose \subseteq loose')
    BY <1>5 DEF CommitWork, AgentWorks, OInv, AtWork, Iterating
  <2> QED  BY <1>4, <2>1 DEF Kept, Unapplied
<1>6. ASSUME \/ LookAtStatus \/ AddTree \/ PrepareFails
             \/ Start \/ Started \/ Select \/ Idle \/ AgentContinues \/ AgentFails \/ CommitWorkFails
             \/ LockTaken \/ PickStarts \/ PickConflicts \/ Record \/ RecordFails \/ Push
             \/ GiveBack \/ Save \/ AgentFinishes \/ Check \/ PickEnds \/ Mark
      PROVE  UNCHANGED <<commits, loose>>
  BY <1>6 DEF LookAtStatus, AddTree, PrepareFails, Start, Started, Select, Idle, AgentContinues, AgentFails, CommitWorkFails, LockTaken,
     PickStarts, PickConflicts, Record, RecordFails, Push, GiveBack, Save, AgentFinishes, Check,
     PickEnds, Mark, trees
<1>7. ASSUME \/ UNCHANGED unlocked
             \/ \E t \in Task : CooledDown(t)
             \/ Crash
      PROVE  UNCHANGED <<commits, loose>>
  BY <1>7 DEF unlocked, CooledDown, Crash, trees
<1>8. CASE Working
  BY <1>2, <1>3, <1>5, <1>6, <1>8 DEF Working
<1>9. CASE Locking \/ (\E l \in Lock : Ages(l) /\ UNCHANGED unlocked) \/ UNCHANGED vars
  <2>1. UNCHANGED unlocked
    BY <1>9 DEF Locking, vars, unlocked
  <2> QED  BY <1>2, <1>7, <2>1
<1> QED  BY <1>2, <1>5, <1>7, <1>8, <1>9 DEF Next

\* Each look at a worktree holds until the worker acts on it.
LEMMA NothingToLoseStep ==
  ASSUME OInv, NothingToLose, [Next]_vars
  PROVE  NothingToLose'
<1>1. /\ mem \in State /\ saved \in State /\ agents \subseteq Task /\ loose \subseteq Task
      /\ commits \in [Task -> SUBSET Commit] /\ applied \in [Commit -> 0 .. 1]
      /\ (pc \in Iterating => cur \in Task)
  BY DEF OInv, WorkTypeOK, AtWork
<1>2. ASSUME UNCHANGED <<commits, applied>>
      PROVE  \A t : Unapplied(t)' = Unapplied(t)
  BY <1>2 DEF Unapplied
<1>3. CASE Start \/ Started \/ Select \/ Idle \/ Save
  <2>1. UNCHANGED <<commits, applied, loose, bare, agents>>
    BY <1>3 DEF Start, Started, Select, Idle, Save, repo, trees
  <2>2. pc' \notin {"status", "agent", "commit", "remove", "drop"}
    BY <1>3 DEF Start, Started, Select, Idle, Save, Complete
  <2>3. \/ pc = "down" /\ pc' = "starting" /\ UNCHANGED <<saved, mem>>
        \/ pc' = "down" /\ UNCHANGED saved
        \/ pc = "starting" /\ mem' = saved /\ saved' = saved
        \/ pc \notin {"down", "starting"} /\ mem'.refresh = mem.refresh /\ saved'.refresh = mem.refresh
    BY <1>1, <1>3 DEF Start, Started, Select, Idle, Save, State
  <2> QED  BY <1>2, <2>1, <2>2, <2>3 DEF NothingToLose
<1>4. CASE Prepare
  <2>1. /\ pc = "prepare" /\ pc' \in {"remove", "agent", "status"}
        /\ UNCHANGED <<applied, loose, agents, saved, mem, cur>>
    BY <1>4 DEF Prepare, repo
  <2>2. CASE cur \in mem.refresh
    BY <1>2, <1>4, <2>1, <2>2 DEF Prepare, NothingToLose
  <2>3. CASE cur \notin mem.refresh /\ cur \in bare
    <3>1. pc' = "agent" /\ bare' = bare \ {cur} /\ \A t \in Task \ {cur} : commits'[t] = commits[t]
      BY <1>1, <1>4, <2>3 DEF Prepare
    <3>2. \A t \in Task \ {cur} : Unapplied(t)' = Unapplied(t)
      BY <2>1, <3>1 DEF Unapplied
    <3>3. bare \subseteq Task
      BY DEF NothingToLose
    <3> QED  BY <2>1, <3>1, <3>2, <3>3 DEF NothingToLose
  <2>4. CASE cur \notin mem.refresh /\ cur \notin bare
    <3>1. UNCHANGED <<commits, bare>> /\ (pc' = "agent" \/ (pc' = "status" /\ Unapplied(cur) = {}))
      BY <1>4, <2>4 DEF Prepare
    <3> QED  BY <1>2, <2>1, <2>4, <3>1 DEF NothingToLose
  <2> QED  BY <2>2, <2>3, <2>4
<1>5. CASE LookAtStatus
  BY <1>2, <1>5 DEF LookAtStatus, NothingToLose, repo, trees
<1>6. CASE RemoveTree
  BY <1>1, <1>2, <1>6 DEF RemoveTree, NothingToLose, Iterating, repo
<1>7. CASE DropBranch
  <2>1. /\ pc' = "add" /\ pc = "drop" /\ UNCHANGED <<applied, bare, agents, saved, cur>> /\ cur \in Task
        /\ commits' = [commits EXCEPT ![cur] = {}] /\ mem'.refresh = mem.refresh \ {cur}
    BY <1>1, <1>7 DEF DropBranch, repo, State, Iterating
  <2>2. Unapplied(cur)' = {} /\ \A t \in Task \ {cur} : Unapplied(t)' = Unapplied(t)
    BY <1>1, <2>1 DEF Unapplied
  <2>3. bare \subseteq Task
    BY DEF NothingToLose
  <2> QED  BY <2>1, <2>2, <2>3 DEF NothingToLose
<1>8. CASE AddTree
  BY <1>2, <1>8 DEF AddTree, NothingToLose, repo
<1>9. CASE AgentFinishes
  <2>1. mem'.refresh = mem.refresh \ {cur}
    BY <1>1, <1>9 DEF AgentFinishes, State
  <2> QED  BY <1>2, <1>9, <2>1 DEF AgentFinishes, NothingToLose, repo, trees
<1>10. CASE PrepareFails \/ AgentContinues \/ AgentFails \/ CommitWorkFails \/ GiveBack
  <2>1. /\ UNCHANGED <<commits, applied, loose, bare, agents, saved>> /\ pc' = "save"
        /\ pc \notin {"down", "starting"}
    BY <1>10 DEF PrepareFails, AgentContinues, AgentFails, CommitWorkFails, GiveBack, repo, trees
  <2>2. Cool(mem, cur).refresh = mem.refresh
    BY <1>1 DEF Cool, State
  <2>3. [Cool(mem, cur) EXCEPT !.refresh = @ \cup {cur}].refresh = mem.refresh \cup {cur}
    BY <1>1 DEF Cool, State
  <2>4. mem.refresh \subseteq After(mem, error, cur).refresh
    BY <2>2, <2>3 DEF After
  <2>5. \/ mem' = Cool(mem, cur) \/ mem' = After(mem, error, cur)
        \/ mem' = [mem EXCEPT !.active = cur, !.cold = @ \ {cur}]
    BY <1>10 DEF PrepareFails, AgentContinues, AgentFails, CommitWorkFails, GiveBack
  <2>6. [mem EXCEPT !.active = cur, !.cold = @ \ {cur}].refresh = mem.refresh
    BY <1>1 DEF State
  <2>7. mem.refresh \subseteq mem'.refresh
    BY <2>2, <2>4, <2>5, <2>6
  <2> QED  BY <1>2, <2>1, <2>7 DEF NothingToLose
<1>11. CASE \/ LockTaken \/ Check \/ PickStarts \/ PickConflicts \/ Mark \/ Record \/ RecordFails \/ Push
  <2>1. /\ UNCHANGED <<commits, applied, loose, bare, agents, saved, mem>>
        /\ pc \notin {"down", "starting"}
        /\ pc' \in {"check", "pick", "picking", "record", "push", "release"}
    BY <1>11 DEF LockTaken, Check, PickStarts, PickConflicts, Mark, Record, RecordFails, Push, repo, trees
  <2> QED  BY <1>2, <2>1 DEF NothingToLose
<1>12. CASE PickEnds
  <2>1. /\ UNCHANGED <<commits, loose, bare, agents, saved, mem>> /\ pc = "picking" /\ pc' = "pick"
    BY <1>12 DEF PickEnds, trees
  <2>2. applied' = [applied EXCEPT ![Oldest] = 1]
    BY <1>12, PickIsNew
  <2>3. \A t \in Task : Unapplied(t)' \subseteq Unapplied(t)
    BY <1>1, <2>1, <2>2 DEF Unapplied
  <2>4. bare \subseteq Task
    BY DEF NothingToLose
  <2> QED  BY <2>1, <2>3, <2>4 DEF NothingToLose
<1>13. ASSUME NEW t \in Task, CommitIn(t), t \notin bare, UNCHANGED <<applied, bare, agents, saved, mem, cur>>,
              t \in agents \/ pc \in {"agent", "commit"}, pc' = pc \/ (pc' = "lock" /\ pc = "commit")
       PROVE  NothingToLose'
  <2>1. \A u \in Task \ {t} : Unapplied(u)' = Unapplied(u)
    BY <1>1, <1>13, CommitAdds DEF Unapplied
  <2>2. loose' = loose \ {t}
    BY <1>13 DEF CommitIn
  <2>3. bare \subseteq Task
    BY DEF NothingToLose
  <2> QED  BY <1>1, <1>13, <2>1, <2>2, <2>3 DEF NothingToLose, Iterating
<1>14. CASE CommitWork
  <2>1. /\ pc = "commit" /\ pc' = "lock" /\ cur \in Task /\ cur \notin bare
        /\ UNCHANGED <<applied, bare, agents, saved, mem, cur>>
    BY <1>1, <1>14 DEF CommitWork, NothingToLose, Iterating, repo
  <2>2. CASE CommitIn(cur)
    BY <1>13, <2>1, <2>2
  <2>3. CASE UNCHANGED <<commits, count, loose>>
    BY <1>2, <2>1, <2>3 DEF NothingToLose
  <2> QED  BY <1>14, <2>2, <2>3 DEF CommitWork
<1>15. ASSUME NEW t \in Task, AgentWorks(t)
       PROVE  NothingToLose'
  <2>1. /\ t \in agents \/ pc \in {"agent", "commit"}
        /\ t \in agents \/ (pc = "agent" /\ cur = t)
        /\ pc' = pc
        /\ UNCHANGED <<applied, bare, agents, saved, mem, cur>>
    BY <1>15 DEF AgentWorks, repo, control
  <2>2. t \notin bare
    BY <1>15 DEF AgentWorks
  <2>3. CASE CommitIn(t)
    BY <1>13, <2>1, <2>2, <2>3
  <2>4. CASE loose' = loose \cup {t} /\ UNCHANGED <<commits, count>>
    BY <1>2, <2>1, <2>4 DEF NothingToLose
  <2> QED  BY <1>15, <2>3, <2>4 DEF AgentWorks
<1>16. ASSUME NEW t \in Task, CooledDown(t)
       PROVE  NothingToLose'
  <2>1. mem'.refresh = mem.refresh /\ saved'.refresh = saved.refresh
    BY <1>1, <1>16 DEF CooledDown, State
  <2> QED  BY <1>2, <1>16, <2>1 DEF CooledDown, NothingToLose, repo, trees, control
<1>17. CASE Crash
  <2>1. saved'.refresh = saved.refresh /\ agents \subseteq agents' /\ pc' = "down"
    BY <1>1, <1>17 DEF Crash, State
  <2> QED  BY <1>2, <1>17, <2>1 DEF Crash, NothingToLose, repo
<1>18. CASE Locking \/ (\E l \in Lock : Ages(l) /\ UNCHANGED unlocked) \/ UNCHANGED vars
  <2>1. UNCHANGED unlocked
    BY <1>18 DEF Locking, vars, unlocked
  <2> QED  BY <1>2, <2>1 DEF unlocked, NothingToLose, repo, trees, control
<1>19. CASE Working
  BY <1>3, <1>4, <1>5, <1>6, <1>7, <1>8, <1>9, <1>10, <1>11, <1>12, <1>14, <1>19 DEF Working
<1> QED  BY <1>15, <1>16, <1>17, <1>18, <1>19 DEF Next

\* Work is not lost by restarts (prepareWorkspaceForTask, removeWorkspace): a
\* worktree is reset only after a conflict, or when it had nothing of its own at
\* the last look, and what an agent that nobody waits for puts there after that
\* look is all that can be lost.
THEOREM WorkOutlivesRestarts ==
  Spec => WorkIsKept
<1>1. Init => NothingToLose
  BY DEF Init, NothingToLose, Unapplied, NewState
<1>2. OInv /\ NothingToLose /\ [Next]_vars => NothingToLose'
  BY NothingToLoseStep
<1>3. OInv /\ NothingToLose /\ [Next]_vars => Kept
  BY StepKeepsWork
<1> QED  BY <1>1, <1>2, <1>3, WorkIsInOrder, PTL DEF Spec, WorkIsKept, Kept

-----------------------------------------------------------------------------
(* The locks *)

\* Who has made the directory of a lock and has not given it back.
Owns(p, l) == step[p][l] \in {"write", "hold"}

\* A removal of a stale lock meets nobody who has it.
RemovesOnlyAbandoned ==
  \A p, q \in Process, l \in Lock : Remove(p, l) => ~Owns(q, l)

\* A lock has one owner, and its directory is there as long.
OneOwner ==
  /\ LockTypeOK
  /\ \A l \in Lock : \A p, q \in Process : Owns(p, l) /\ Owns(q, l) => p = q
  /\ \A l \in Lock : \A p \in Process : Owns(p, l) => l \in made

\* mkdir lets one process through.
LEMMA LockStep ==
  ASSUME OneOwner, [LockNext]_lockVars, RemovesOnlyAbandoned
  PROVE  OneOwner'
<1> USE DEF LockTypeOK, Step
<1>1. /\ step \in [Process -> [Lock -> Step]] /\ owner \in [Lock -> Process \cup {NoOne, Ghost}]
      /\ made \subseteq Lock /\ old \subseteq made
  BY DEF OneOwner
<1>2. ASSUME NEW p \in Process, NEW l \in Lock, NEW s \in Step, GoTo(p, l, s)
      PROVE  /\ step' \in [Process -> [Lock -> Step]]
             /\ step'[p][l] = s
             /\ \A q \in Process : q # p => step'[q] = step[q]
             /\ \A m \in Lock : m # l => step'[p][m] = step[p][m]
  BY <1>1, <1>2 DEF GoTo
\* A process that comes to own nothing it did not own, while the directories stay.
<1>3. ASSUME NEW p \in Process, NEW l \in Lock, NEW s \in Step, GoTo(p, l, s),
             s \notin {"write", "hold"} \/ Owns(p, l),
             made' = made, old' \subseteq made', owner' \in [Lock -> Process \cup {NoOne, Ghost}]
      PROVE  OneOwner'
  <2>1. /\ step' \in [Process -> [Lock -> Step]]
        /\ step'[p][l] = s
        /\ \A q \in Process : q # p => step'[q] = step[q]
        /\ \A m \in Lock : m # l => step'[p][m] = step[p][m]
    BY <1>2, <1>3
  <2>2. \A q \in Process, m \in Lock : Owns(q, m)' => Owns(q, m)
    BY <1>3, <2>1 DEF Owns
  <2> QED  BY <1>1, <1>3, <2>1, <2>2 DEF OneOwner
\* A directory that nobody owns any more is removed.
<1>4. ASSUME NEW p \in Process, NEW l \in Lock, NEW s \in {"out", "mkdir"}, GoTo(p, l, s), Unlink(l),
             \A q \in Process : q # p => ~Owns(q, l)
      PROVE  OneOwner'
  <2>1. \A q \in Process, m \in Lock : Owns(q, m)' => Owns(q, m) /\ m # l
    BY <1>1, <1>2, <1>4 DEF Owns
  <2> QED  BY <1>1, <1>2, <1>4, <2>1 DEF OneOwner, Unlink
<1>5. ASSUME NEW p \in Process, NEW l \in Lock, Take(p, l) \/ WriteOwner(p, l) \/ Judge(p, l)
      PROVE  OneOwner'
  <2>1. PICK s \in Step : GoTo(p, l, s) /\ (s \notin {"write", "hold"} \/ Owns(p, l))
    BY <1>5 DEF Take, WriteOwner, Judge, Owns
  <2>2. made' = made /\ old' = old /\ owner' \in {owner, [owner EXCEPT ![l] = p]}
    BY <1>5 DEF Take, WriteOwner, Judge
  <2>3. owner' \in [Lock -> Process \cup {NoOne, Ghost}]
    BY <1>1, <2>2
  <2> QED  BY <1>1, <1>3, <2>1, <2>2, <2>3
<1>6. ASSUME NEW p \in Process, NEW l \in Lock, MakeDirectory(p, l)
      PROVE  OneOwner'
  <2>1. CASE l \in made
    <3>1. made' = made
      BY <1>6, <2>1 DEF MakeDirectory
    <3> QED  BY <1>1, <1>3, <1>6, <2>1, <3>1 DEF MakeDirectory
  <2>2. CASE l \notin made
    <3>1. GoTo(p, l, "write") /\ made' = made \cup {l} /\ owner' = [owner EXCEPT ![l] = NoOne] /\ old' = old
      BY <1>6, <2>2 DEF MakeDirectory
    <3>2. \A q \in Process : ~Owns(q, l)
      BY <2>2 DEF OneOwner
    <3>3. \A q \in Process, m \in Lock : Owns(q, m)' => (q = p /\ m = l) \/ (Owns(q, m) /\ m # l)
      BY <1>1, <1>2, <3>1, <3>2 DEF Owns
    <3> QED  BY <1>1, <1>2, <3>1, <3>3 DEF OneOwner
  <2> QED  BY <2>1, <2>2
<1>7. ASSUME NEW p \in Process, NEW l \in Lock, Remove(p, l)
      PROVE  OneOwner'
  BY <1>4, <1>7 DEF Remove, RemovesOnlyAbandoned
<1>8. ASSUME NEW p \in Process, NEW l \in Lock, Release(p, l)
      PROVE  OneOwner'
  <2>1. \A q \in Process : q # p => ~Owns(q, l)
    BY <1>8 DEF OneOwner, Release, Owns
  <2> QED  BY <1>4, <1>8, <2>1 DEF Release
<1>9. ASSUME NEW p \in Process, Dies(p)
      PROVE  OneOwner'
  <2>1. step' \in [Process -> [Lock -> Step]] /\ owner' \in [Lock -> Process \cup {NoOne, Ghost}]
    BY <1>1, <1>9 DEF Dies
  <2>2. \A q \in Process, m \in Lock : Owns(q, m)' => Owns(q, m)
    BY <1>1, <1>9 DEF Dies, Owns
  <2> QED  BY <1>1, <1>9, <2>1, <2>2 DEF OneOwner, Dies
<1>10. CASE UNCHANGED lockVars \/ \E l \in Lock : Ages(l)
  <2>1. UNCHANGED <<made, owner, step>> /\ old' \subseteq made'
    BY <1>1, <1>10 DEF lockVars, Ages
  <2> QED  BY <1>1, <2>1 DEF OneOwner, Owns
<1> QED
  BY <1>5, <1>6, <1>7, <1>8, <1>9, <1>10 DEF LockNext, Acquire

\* What the locks need to exclude (acquireRepoLock, acquireWorkerLock and
\* tryRemoveStaleLock): mkdir does its part, deaths and retries included; two
\* processes come to hold a lock only after the removal of a directory that somebody
\* had made anew since it was judged, or had not written its owner into yet.
THEOREM LocksExcludeUnlessTakenAway ==
  LockSpec /\ [][RemovesOnlyAbandoned]_lockVars => []MutualExclusion
<1>1. LockInit => OneOwner
  BY DEF LockInit, OneOwner, LockTypeOK, Step, Owns
<1>2. OneOwner /\ [LockNext]_lockVars /\ [RemovesOnlyAbandoned]_lockVars => OneOwner'
  <2>1. OneOwner /\ UNCHANGED lockVars => OneOwner'
    BY DEF OneOwner, LockTypeOK, lockVars, Owns
  <2> QED  BY <2>1, LockStep
<1>3. OneOwner => MutualExclusion
  BY DEF OneOwner, MutualExclusion, Owns
<1> QED  BY <1>1, <1>2, <1>3, PTL DEF LockSpec

=============================================================================

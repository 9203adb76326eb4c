---------------------------- MODULE Orchestrator ----------------------------
(***************************************************************************)
(* The worker of one workflow (src/scripts/orchestrator.ts), kept alive by *)
(* its supervisor: it takes the worker lock, picks a task, lets an agent   *)
(* work on it in the task's worktree, and puts what the agent has          *)
(* committed on the integration branch of the shared checkout, under the   *)
(* repository's lock.  The worker never waits for anything but processes   *)
(* it has started (spawnSync), so that a signal is as good as a crash; it  *)
(* may die between any two effects on the disk, and git or the agent it    *)
(* has started may live on.  How long a failed task cools down, priorities *)
(* among ready tasks and how many commits make a push due are left out.    *)
(***************************************************************************)
EXTENDS LockDirectory, Integers

CONSTANTS
  worker,      \* the process, in all its incarnations
  workerLock, repoLock,
  Task,        \* tasks of the workflow
  DependsOn,   \* tasks a task depends on
  NoTask,
  Silent,      \* no agent has ended the task yet
  MaxCommits,  \* bound: commits per task
  MaxCrashes,  \* bound: deaths of the worker
  MaxTroubles  \* bound: failed or inconclusive runs, conflicts, failures of git

ASSUME OrchestratorAssumption ==
  /\ worker \in Process
  /\ workerLock \in Lock \ Awaited /\ repoLock \in Awaited
  /\ DependsOn \in [Task -> SUBSET Task]
  /\ NoTask \notin Task
  /\ Silent \notin {"done", "blocked"}
  /\ MaxCommits \in Nat /\ MaxCrashes \in Nat /\ MaxTroubles \in Nat

VARIABLES
  tracker,   \* status of each task in the files of the shared checkout
  checkout,  \* uncommitted changes there: none, a cherry-pick, a tracker edit
  applied,   \* times a commit was put on the integration branch
  commits,   \* commits in the worktree of each task
  count,     \* commits made for each task so far
  loose,     \* tasks whose worktree has uncommitted changes
  bare,      \* tasks that have no worktree, whatever their branch holds
  agents,    \* tasks an agent may work on that no worker waits for
  word,      \* history: what an agent last said of each task
  offer,     \* history: commits last listed for integration, per task
  saved,     \* state file, and the runtime file beside it
  mem,       \* the worker's copy of it
  pc,        \* what the worker is doing
  cur,       \* the task it is at
  phrase,    \* the agent's last message has the completion phrase
  rest,      \* commits it has yet to pick
  error,     \* why its integration fails
  crashes, troubles

repo == <<tracker, checkout, applied>>
trees == <<commits, count, loose, bare, agents>>
control == <<pc, cur, phrase, rest, error>>
bounds == <<crashes, troubles>>
vars == <<lockVars, repo, trees, word, offer, saved, mem, control, bounds>>

Commit == Task \X (1 .. MaxCommits)

State == [active : Task \cup {NoTask},
          cold : SUBSET Task,     \* taskRetryAfter lies in the future
          refresh : SUBSET Task,  \* taskWorkspaceRefreshReasons
          torn : BOOLEAN]         \* its writing was cut short: nothing can parse it

TypeOK ==
  /\ LockTypeOK
  /\ tracker \in [Task -> {"pending", "in-progress", "done", "blocked"}]
  /\ checkout \in {"clean", "picking", "edited"}
  /\ applied \in [Commit -> 0 .. 1]
  /\ commits \in [Task -> SUBSET Commit] /\ count \in [Task -> 0 .. MaxCommits]
  /\ loose \subseteq Task /\ bare \subseteq Task /\ agents \subseteq Task
  /\ word \in [Task -> {Silent, "done", "blocked"}]
  /\ offer \in [Task -> SUBSET Commit]
  /\ saved \in State /\ mem \in State
  /\ pc \in {"down", "starting", "select", "prepare", "status", "remove", "drop", "add", "agent", "commit", "lock", "check",
             "pick", "picking", "record", "push", "release", "save", "completed"}
  /\ phrase \in BOOLEAN
  /\ cur \in Task \cup {NoTask}
  /\ rest \subseteq Commit
  /\ error \in {"none", "conflict", "other"}
  /\ crashes \in 0 .. MaxCrashes /\ troubles \in 0 .. MaxTroubles

NewState == [active |-> NoTask, cold |-> {}, refresh |-> {}, torn |-> FALSE]

Held(l) == step[worker][l] = "hold"

-----------------------------------------------------------------------------
(* Start *)

\* The supervisor starts the worker, which first takes the worker lock.
Start ==
  /\ pc = "down"
  /\ Take(worker, workerLock)
  /\ pc' = "starting"
  /\ UNCHANGED <<repo, trees, word, offer, saved, mem, cur, phrase, rest, error, bounds>>

\* loadState once the lock is held; without it the worker exits with an error.
\* A file cut short makes it throw, and the lock stays with a dead owner.
Started ==
  /\ pc = "starting"
  /\ \/ /\ Held(workerLock) /\ ~saved.torn
        /\ mem' = saved
        /\ pc' = "select"
        /\ UNCHANGED lockVars
     \/ /\ Held(workerLock) /\ saved.torn
        /\ Dies(worker)
        /\ pc' = "down"
        /\ UNCHANGED mem
     \/ /\ step[worker][workerLock] = "failed"
        /\ GoTo(worker, workerLock, "out")
        /\ pc' = "down"
        /\ UNCHANGED <<made, owner, old, mem>>
  /\ UNCHANGED <<repo, trees, word, offer, saved, cur, phrase, rest, error, bounds>>

-----------------------------------------------------------------------------
(* Choice of a task *)

\* Mutant: dependencies are not looked at.
BugReady(t) == tracker[t] = "pending"

\* isReady: blocked and in-progress tasks do not wait for anything.
Ready(t) == tracker[t] = "pending" /\ \A d \in DependsOn[t] : tracker[d] = "done"

Runnable == Task \ mem.cold

\* selectNextTask: the active task, one in progress, or a ready one.
Choices ==
  IF mem.active \in Runnable /\ tracker[mem.active] # "done" THEN {mem.active}
  ELSE LET begun == {t \in Runnable : tracker[t] = "in-progress"}
       IN IF begun # {} THEN begun ELSE {t \in Runnable : Ready(t)}

AllComplete == \A t \in Task : tracker[t] = "done"

Select ==
  /\ pc = "select"
  /\ \E t \in Choices :
       /\ mem' = [mem EXCEPT !.active = t]
       /\ saved' = mem'
       /\ cur' = t
       /\ pc' = "prepare"
  /\ UNCHANGED <<lockVars, repo, trees, word, offer, phrase, rest, error, bounds>>

\* The exit handler gives the worker lock back, and the supervisor stops too; it
\* starts the worker again when the last push has failed.
Complete ==
  /\ Release(worker, workerLock)
  /\ \/ pc' = "completed" /\ UNCHANGED troubles
     \/ troubles < MaxTroubles /\ troubles' = troubles + 1 /\ pc' = "down"

\* Nothing to do: the worker sleeps and looks again, or has completed.
Idle ==
  /\ pc = "select" /\ Choices = {}
  /\ mem' = [mem EXCEPT !.active = NoTask]
  /\ saved' = mem'
  /\ IF AllComplete THEN Complete ELSE UNCHANGED <<lockVars, pc, troubles>>
  /\ UNCHANGED <<repo, trees, word, offer, cur, phrase, rest, error, crashes>>

-----------------------------------------------------------------------------
(* The agent *)

\* git cherry: commits whose change is not on the integration branch.
Unapplied(t) == {c \in commits[t] : applied[c] = 0}

\* prepareWorkspaceForTask: the worktree is made if there is none, which resets
\* the branch, and made anew after a conflict or when it has nothing of its own.
\* First its commits are listed; it is kept at once when the branch has not moved
\* on, or git cannot tell.
Prepare ==
  /\ pc = "prepare"
  /\ IF cur \in mem.refresh THEN pc' = "remove" /\ UNCHANGED <<commits, bare>>
     ELSE IF cur \in bare
     THEN /\ commits' = [commits EXCEPT ![cur] = {}]
          /\ bare' = bare \ {cur}
          /\ pc' = "agent"
     ELSE /\ pc' = "agent" \/ (Unapplied(cur) = {} /\ pc' = "status")
          /\ UNCHANGED <<commits, bare>>
  /\ UNCHANGED <<lockVars, repo, count, loose, agents, word, offer, saved, mem, cur, phrase, rest,
                 error, bounds>>

\* Mutant: loose changes are not looked at.
BugLookAtStatus ==
  /\ pc = "status"
  /\ pc' \in {"agent", "remove"}
  /\ UNCHANGED <<lockVars, repo, trees, word, offer, saved, mem, cur, phrase, rest, error, bounds>>

\* getPendingChanges, in a git process of its own.
LookAtStatus ==
  /\ pc = "status"
  /\ pc' \in {"agent"} \cup {p \in {"remove"} : cur \notin loose}
  /\ UNCHANGED <<lockVars, repo, trees, word, offer, saved, mem, cur, phrase, rest, error, bounds>>

\* git worktree remove --force, whatever has come to be there since.
RemoveTree ==
  /\ pc = "remove"
  /\ loose' = loose \ {cur}
  /\ bare' = bare \cup {cur}
  /\ pc' = "drop"
  /\ UNCHANGED <<lockVars, repo, commits, count, agents, word, offer, saved, mem, cur, phrase, rest,
                 error, bounds>>

\* git branch -D; a recorded conflict is forgotten, in memory.
DropBranch ==
  /\ pc = "drop"
  /\ commits' = [commits EXCEPT ![cur] = {}]
  /\ mem' = [mem EXCEPT !.refresh = @ \ {cur}]
  /\ pc' = "add"
  /\ UNCHANGED <<lockVars, repo, count, loose, bare, agents, word, offer, saved, cur, phrase, rest,
                 error, bounds>>

\* git worktree add; the note of it saves the state.
AddTree ==
  /\ pc = "add"
  /\ bare' = bare \ {cur}
  /\ saved' = mem
  /\ pc' = "agent"
  /\ UNCHANGED <<lockVars, repo, commits, count, loose, agents, word, offer, mem, cur, phrase, rest,
                 error, bounds>>

\* A new commit in the worktree takes up what was loose there.
CommitIn(t) ==
  /\ count[t] < MaxCommits
  /\ count' = [count EXCEPT ![t] = @ + 1]
  /\ commits' = [commits EXCEPT ![t] = @ \cup {<<t, count'[t]>>}]
  /\ loose' = loose \ {t}

\* An agent edits or commits, whether or not a worker waits for it; one that
\* nobody waits for may stop at any time.
AgentWorks(t) ==
  /\ t \in agents \/ (pc = "agent" /\ cur = t)
  /\ t \notin bare
  /\ \/ CommitIn(t)
     \/ t \notin loose /\ count[t] < MaxCommits /\ loose' = loose \cup {t}
        /\ UNCHANGED <<commits, count>>
  /\ UNCHANGED <<lockVars, repo, bare, agents, word, offer, saved, mem, control, bounds>>

Cool(m, t) == [m EXCEPT !.cold = @ \cup {t}, !.active = NoTask]

\* git cannot make or remove the worktree.
PrepareFails ==
  /\ pc \in {"prepare", "remove", "drop", "add"} /\ troubles < MaxTroubles
  /\ troubles' = troubles + 1
  /\ mem' = Cool(mem, cur)
  /\ pc' = "save"
  /\ UNCHANGED <<lockVars, repo, trees, word, offer, saved, cur, phrase, rest, error, crashes>>

\* The agent's last message is whatever it likes to say.
Speaks == phrase' \in BOOLEAN

\* The run ended without a terminal marker: the task stays active.
AgentContinues ==
  /\ pc = "agent" /\ troubles < MaxTroubles
  /\ troubles' = troubles + 1
  /\ mem' = [mem EXCEPT !.active = cur, !.cold = @ \ {cur}]
  /\ Speaks
  /\ pc' = "save"
  /\ UNCHANGED <<lockVars, repo, trees, word, offer, saved, cur, rest, error, crashes>>

\* The agent's command failed (handleTaskFailure).
AgentFails ==
  /\ pc = "agent" /\ troubles < MaxTroubles
  /\ troubles' = troubles + 1
  /\ mem' = Cool(mem, cur)
  /\ Speaks
  /\ pc' = "save"
  /\ UNCHANGED <<lockVars, repo, trees, word, offer, saved, cur, rest, error, crashes>>

\* TASK_DONE or TASK_BLOCKED
AgentFinishes ==
  /\ pc = "agent"
  /\ \E s \in {"done", "blocked"} : word' = [word EXCEPT ![cur] = s]
  /\ mem' = [mem EXCEPT !.active = NoTask, !.cold = @ \ {cur}, !.refresh = @ \ {cur}]
  /\ Speaks
  /\ pc' = "commit"
  /\ UNCHANGED <<lockVars, repo, trees, offer, saved, cur, rest, error, bounds>>

-----------------------------------------------------------------------------
(* Integration *)

\* Mutant: what the agent has left uncommitted is not committed.
BugCommitWork ==
  /\ pc = "commit"
  /\ UNCHANGED <<commits, count, loose>>
  /\ Take(worker, repoLock)
  /\ pc' = "lock"
  /\ UNCHANGED <<repo, bare, agents, word, offer, saved, mem, cur, phrase, rest, error, bounds>>

\* commitPendingChanges in the worktree, then acquireRepoLock.
CommitWork ==
  /\ pc = "commit"
  /\ IF cur \in loose THEN CommitIn(cur) ELSE UNCHANGED <<commits, count, loose>>
  /\ Take(worker, repoLock)
  /\ pc' = "lock"
  /\ UNCHANGED <<repo, bare, agents, word, offer, saved, mem, cur, phrase, rest, error, bounds>>

CommitWorkFails ==
  /\ pc = "commit" /\ troubles < MaxTroubles
  /\ troubles' = troubles + 1
  /\ mem' = Cool(mem, cur)
  /\ pc' = "save"
  /\ UNCHANGED <<lockVars, repo, trees, word, offer, saved, cur, phrase, rest, error, crashes>>

LockTaken ==
  /\ pc = "lock"
  /\ Held(repoLock)
  /\ pc' = "check"
  /\ UNCHANGED <<lockVars, repo, trees, word, offer, saved, mem, cur, phrase, rest, error, bounds>>

\* listUniqueCommits
OfferOf(t) == Unapplied(t)

\* A dirty checkout is refused.
Check ==
  /\ pc = "check"
  /\ IF checkout = "clean"
     THEN /\ offer' = [offer EXCEPT ![cur] = OfferOf(cur)]
          /\ rest' = OfferOf(cur)
          /\ pc' = "pick"
          /\ UNCHANGED error
     ELSE /\ error' = "other"
          /\ pc' = "release"
          /\ UNCHANGED <<offer, rest>>
  /\ UNCHANGED <<lockVars, repo, trees, word, saved, mem, cur, phrase, bounds>>

\* Commits are picked in the order they were made.
Oldest == CHOOSE c \in rest : \A d \in rest : c[2] <= d[2]

PickStarts ==
  /\ pc = "pick" /\ rest # {}
  /\ checkout' = "picking"
  /\ pc' = "picking"
  /\ UNCHANGED <<lockVars, tracker, applied, trees, word, offer, saved, mem, cur, phrase, rest, error, bounds>>

PickEnds ==
  /\ pc = "picking"
  /\ applied' = [applied EXCEPT ![Oldest] = @ + 1]
  /\ checkout' = "clean"
  /\ rest' = rest \ {Oldest}
  /\ pc' = "pick"
  /\ UNCHANGED <<lockVars, tracker, trees, word, offer, saved, mem, cur, phrase, error, bounds>>

\* Mutant: the worker goes on with the next commit.
BugPickConflicts ==
  /\ pc = "picking" /\ troubles < MaxTroubles
  /\ troubles' = troubles + 1
  /\ checkout' = "clean"
  /\ rest' = rest \ {Oldest}
  /\ pc' = "pick"
  /\ UNCHANGED <<lockVars, tracker, applied, trees, word, offer, saved, mem, cur, phrase, error, crashes>>

\* git cherry-pick --abort undoes this pick; those before it stay.
PickConflicts ==
  /\ pc = "picking" /\ troubles < MaxTroubles
  /\ troubles' = troubles + 1
  /\ checkout' = "clean"
  /\ rest' = {}
  /\ error' = "conflict"
  /\ pc' = "release"
  /\ UNCHANGED <<lockVars, tracker, applied, trees, word, offer, saved, mem, cur, phrase, crashes>>

\* updateTaskStatusInSource
Mark ==
  /\ pc = "pick" /\ rest = {}
  /\ tracker' = [tracker EXCEPT ![cur] = word[cur]]
  /\ checkout' = "edited"
  /\ pc' = "record"
  /\ UNCHANGED <<lockVars, applied, trees, word, offer, saved, mem, cur, phrase, rest, error, bounds>>

Record ==
  /\ pc = "record"
  /\ checkout' = "clean"
  /\ pc' = "push"
  /\ UNCHANGED <<lockVars, tracker, applied, trees, word, offer, saved, mem, cur, phrase, rest, error, bounds>>

\* The status edit stays in the checkout.
RecordFails ==
  /\ pc = "record" /\ troubles < MaxTroubles
  /\ troubles' = troubles + 1
  /\ error' = "other"
  /\ pc' = "release"
  /\ UNCHANGED <<lockVars, repo, trees, word, offer, saved, mem, cur, phrase, rest, crashes>>

\* No push is due, or it succeeds, or it fails and with it the integration.
Push ==
  /\ pc = "push"
  /\ \/ UNCHANGED <<error, troubles>>
     \/ troubles < MaxTroubles /\ troubles' = troubles + 1 /\ error' = "other"
  /\ pc' = "release"
  /\ UNCHANGED <<lockVars, repo, trees, word, offer, saved, mem, cur, phrase, rest, crashes>>

\* What the end of an integration leaves in memory (handleTaskFailure).
After(m, e, t) ==
  IF e = "none" THEN m
  ELSE IF e = "conflict" THEN [Cool(m, t) EXCEPT !.refresh = @ \cup {t}]
  ELSE Cool(m, t)

\* Mutant: the lock is given back only on success.
BugGiveBack ==
  /\ pc = "release"
  /\ IF error = "none" THEN Release(worker, repoLock)
     ELSE GoTo(worker, repoLock, "out") /\ UNCHANGED <<made, owner, old>>
  /\ mem' = After(mem, error, cur)
  /\ pc' = "save"
  /\ UNCHANGED <<repo, trees, word, offer, saved, cur, phrase, rest, error, bounds>>

\* releaseRepoLock in the finally clause, then the failure is handled.
GiveBack ==
  /\ pc = "release"
  /\ Release(worker, repoLock)
  /\ mem' = After(mem, error, cur)
  /\ pc' = "save"
  /\ UNCHANGED <<repo, trees, word, offer, saved, cur, phrase, rest, error, bounds>>

\* The end of the iteration, and of the work when an agent says so, whatever is
\* left of it.  After a failure the tasks are not read again, so that the worker
\* does not notice here that all are done.
Save ==
  /\ pc = "save"
  /\ saved' = mem
  /\ cur' = NoTask /\ error' = "none"
  /\ IF phrase \/ (AllComplete /\ error = "none") THEN Complete
     ELSE pc' = "select" /\ UNCHANGED <<lockVars, troubles>>
  /\ phrase' = (phrase /\ pc' = "completed")
  /\ UNCHANGED <<repo, trees, word, offer, mem, rest, crashes>>

-----------------------------------------------------------------------------
(* The world *)

\* The time in taskRetryAfter passes, whether or not the worker is alive.
CooledDown(t) ==
  /\ t \in mem.cold \cup saved.cold
  /\ mem' = [mem EXCEPT !.cold = @ \ {t}]
  /\ saved' = [saved EXCEPT !.cold = @ \ {t}]
  /\ UNCHANGED <<lockVars, repo, trees, word, offer, control, bounds>>

\* Where the next thing the worker does to the disk is to write the state file or
\* the runtime file, a plain writeFileSync.
Writing == Held(workerLock) /\ pc \in {"starting", "select", "prepare", "add", "save"}

\* The worker is killed, by its supervisor when an agent takes too long or by
\* anything else.  An agent may live on; a git command either never ends or has
\* ended by the time the supervisor starts the worker again; a file that is being
\* written may be cut short.
Crash ==
  /\ pc \notin {"down", "completed"}
  /\ crashes < MaxCrashes
  /\ crashes' = crashes + 1
  /\ Dies(worker)
  /\ agents' \in {agents} \cup {agents \cup {cur} : p \in {pc} \cap {"agent"}}
  /\ saved' = saved \/ (Writing /\ saved' = [saved EXCEPT !.torn = TRUE])
  /\ pc' = "down" /\ cur' = NoTask /\ phrase' = FALSE /\ rest' = {} /\ error' = "none"
  /\ mem' = [NewState EXCEPT !.cold = saved.cold]
  /\ UNCHANGED <<repo, commits, count, loose, bare, word, offer, troubles>>

-----------------------------------------------------------------------------
Init ==
  /\ LockInit
  /\ tracker \in [Task -> {"pending", "in-progress"}]
  /\ checkout = "clean"
  /\ applied = [c \in Commit |-> 0]
  /\ commits = [t \in Task |-> {}] /\ count = [t \in Task |-> 0]
  /\ loose = {} /\ bare = Task /\ agents = {}
  /\ word = [t \in Task |-> Silent]
  /\ offer = [t \in Task |-> {}]
  /\ saved = NewState /\ mem = NewState
  /\ pc = "down" /\ cur = NoTask /\ phrase = FALSE /\ rest = {} /\ error = "none"
  /\ crashes = 0 /\ troubles = 0

unlocked == <<repo, trees, word, offer, saved, mem, control, bounds>>

Locking == \E l \in {workerLock, repoLock} : Acquire(worker, l) /\ UNCHANGED unlocked

Working ==
  \/ Start \/ Started \/ Select \/ Idle
  \/ Prepare \/ LookAtStatus \/ RemoveTree \/ DropBranch \/ AddTree \/ PrepareFails
  \/ AgentContinues \/ AgentFails \/ AgentFinishes
  \/ CommitWork \/ CommitWorkFails \/ LockTaken \/ Check
  \/ PickStarts \/ PickEnds \/ PickConflicts
  \/ Mark \/ Record \/ RecordFails \/ Push \/ GiveBack \/ Save

Next ==
  \/ Locking
  \/ Working
  \/ \E t \in Task : AgentWorks(t)
  \/ \E t \in Task : CooledDown(t)
  \/ \E l \in Lock : Ages(l) /\ UNCHANGED unlocked
  \/ Crash

Spec == Init /\ [][Next]_vars

\* The supervisor restarts a worker that is gone, the worker goes on, each run
\* of an agent ends, and time passes.
FairSpec ==
  /\ Spec
  /\ WF_vars(Locking \/ Working)
  /\ \A t \in Task : WF_vars(CooledDown(t))
  /\ \A l \in Lock : WF_vars(Ages(l) /\ UNCHANGED unlocked)

-----------------------------------------------------------------------------
(* Properties *)

Board == INSTANCE TaskBoard

\* However the worker dies, restarts, fails and retries, what reaches the
\* integration branch and the tracker is what TaskBoard promises.
ImplementsTaskBoard == Board!Spec

\* A worktree may hold work that nobody has looked at: an agent that no worker
\* waits for goes on while the worktree is looked at and removed, or did so before
\* the worker died on the way.
Overtaken(t) == t \in agents /\ (t \in bare \/ (t = cur /\ pc \in {"remove", "drop"}))

\* Work in a worktree is lost only when a conflict has been recorded for it, or
\* when it appears behind the worker's back between the look at the worktree and
\* its removal: commits that are not integrated and loose changes outlive every
\* restart.
WorkIsKept ==
  [][\A t \in Task : t \notin mem.refresh /\ ~Overtaken(t) =>
       /\ Unapplied(t) \subseteq commits'[t]
       /\ t \in loose => t \in loose' \/ commits'[t] # commits[t]]_vars

\* An agent is set to a pending task only when the work of all tasks it depends
\* on is recorded and on the branch its worktree starts from.
DependenciesFirst ==
  pc = "agent" /\ tracker[cur] = "pending" =>
    \A d \in DependsOn[cur] :
      tracker[d] = "done" /\ \A c \in offer[d] : applied[c] = 1

\* A task recorded as done has left nothing in its worktree that is not on the
\* integration branch, unless an agent nobody waits for has gone on working.
RecordedIsWhole ==
  \A t \in Task \ agents : tracker[t] = "done" => Unapplied(t) = {} /\ t \notin loose

\* Failures and restarts do not stop the workflow: each task comes to its end,
\* unless it waits for one that is blocked, a worker has died in the middle of an
\* integration and left the checkout dirty, or in the middle of writing its state,
\* or an agent has declared the work complete.
Hindered(t) == \E d \in DependsOn[t] : tracker[d] # "done"
Halted == checkout # "clean" \/ saved.torn \/ (pc = "completed" /\ phrase)
TasksSettle ==
  \A t \in Task : <>[](tracker[t] \in {"done", "blocked"} \/ Hindered(t) \/ Halted)
=============================================================================

--------------------------- MODULE LockDirectory ---------------------------
(***************************************************************************)
(* The locks of the task orchestrator (src/scripts/orchestrator.ts): a     *)
(* lock is a directory, made by mkdir, with a file owner.json that is      *)
(* written afterwards.  The repository's lock is waited for; a workflow's  *)
(* worker lock is not: a second worker is to fail fast.  Whoever finds a   *)
(* lock in the way judges whether it is stale and, if so, removes it.      *)
(* Processes run in parallel, and each call of the file system is a step.  *)
(***************************************************************************)
CONSTANTS
  Process,   \* processes that may want a lock
  Lock,      \* lock paths
  Awaited,   \* locks that are waited for
  NoOne,     \* there is no owner.json, or none that can be parsed
  Ghost      \* owner.json names a process that is gone

ASSUME LockAssumption ==
  /\ Awaited \subseteq Lock
  /\ NoOne \notin Process /\ Ghost \notin Process /\ NoOne # Ghost

VARIABLES
  made,   \* locks whose directory exists
  owner,  \* the pid in owner.json of each lock
  old,    \* locks made more than STALE_LOCK_MS ago
  step    \* where each process is with each lock

lockVars == <<made, owner, old, step>>

Step == {"out", "mkdir", "write", "judge", "remove", "hold", "failed"}

LockTypeOK ==
  /\ made \subseteq Lock
  /\ owner \in [Lock -> Process \cup {NoOne, Ghost}]
  /\ old \subseteq made
  /\ step \in [Process -> [Lock -> Step]]

GoTo(p, l, s) == step' = [step EXCEPT ![p][l] = s]

Take(p, l) ==
  /\ step[p][l] = "out"
  /\ GoTo(p, l, "mkdir")
  /\ UNCHANGED <<made, owner, old>>

MakeDirectory(p, l) ==
  /\ step[p][l] = "mkdir"
  /\ made' = made \cup {l}
  /\ IF l \in made
     THEN GoTo(p, l, "judge") /\ UNCHANGED owner
     ELSE GoTo(p, l, "write") /\ owner' = [owner EXCEPT ![l] = NoOne]
  /\ UNCHANGED old

\* The directory may be gone by now (the call throws), or be someone else's.
WriteOwner(p, l) ==
  /\ step[p][l] = "write"
  /\ IF l \in made
     THEN GoTo(p, l, "hold") /\ owner' = [owner EXCEPT ![l] = p]
     ELSE GoTo(p, l, "failed") /\ UNCHANGED owner
  /\ UNCHANGED <<made, old>>

\* tryRemoveStaleLock up to its rmSync.
Stale(l) ==
  /\ l \in made
  /\ owner[l] = NoOne \/ (owner[l] = Ghost /\ l \in old)

Judge(p, l) ==
  /\ step[p][l] = "judge"
  /\ GoTo(p, l, IF Stale(l) THEN "remove"
                ELSE IF l \in Awaited THEN "mkdir" ELSE "failed")
  /\ UNCHANGED <<made, owner, old>>

\* rmSync of what is there, whoever made it.
Unlink(l) ==
  /\ made' = made \ {l}
  /\ old' = old \ {l}
  /\ owner' = [owner EXCEPT ![l] = NoOne]

Remove(p, l) ==
  /\ step[p][l] = "remove"
  /\ Unlink(l)
  /\ GoTo(p, l, "mkdir")

Release(p, l) ==
  /\ step[p][l] = "hold"
  /\ Unlink(l)
  /\ GoTo(p, l, "out")

\* The age counts only once the owner is gone; the lock may be old at once then.
Ages(l) ==
  /\ owner[l] = Ghost
  /\ l \in made \ old
  /\ old' = old \cup {l}
  /\ UNCHANGED <<made, owner, step>>

\* A process that is gone answers no signal; its locks stay.
Dies(p) ==
  /\ owner' = [l \in Lock |-> IF owner[l] = p THEN Ghost ELSE owner[l]]
  /\ step' = [step EXCEPT ![p] = [l \in Lock |-> "out"]]
  /\ UNCHANGED <<made, old>>

\* The calls by which a process takes a lock.
Acquire(p, l) ==
  MakeDirectory(p, l) \/ WriteOwner(p, l) \/ Judge(p, l) \/ Remove(p, l)

LockInit ==
  /\ made = {} /\ old = {}
  /\ owner = [l \in Lock |-> NoOne]
  /\ step = [p \in Process |-> [l \in Lock |-> "out"]]

LockNext ==
  \/ \E p \in Process, l \in Lock : Take(p, l) \/ Acquire(p, l) \/ Release(p, l)
  \/ \E p \in Process : Dies(p)
  \/ \E l \in Lock : Ages(l)

LockSpec == LockInit /\ [][LockNext]_lockVars

\* docs/autonomous-orchestrator.md:63: "Each workflow takes a single-instance
\* worker lock, so duplicate server/plugin loops in the same clone fail fast";
\* :64 shares the repository's lock among workflows.  At most one process holds
\* a lock at a time.
MutualExclusion ==
  \A l \in Lock : \A p, q \in Process :
    step[p][l] = "hold" /\ step[q][l] = "hold" => p = q
=============================================================================

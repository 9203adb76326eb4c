CHECK_DEADLOCK FALSE
SPECIFICATION FairSpec
CONSTANTS
  a = a
  b = b
  Process = {w}
  worker = w
  workerLock = workerLock
  repoLock = repoLock
  Lock = {workerLock, repoLock}
  Awaited = {repoLock}
  NoOne = NoOne
  Ghost = Ghost
  Task = {a, b}
  DependsOn <- Chain
  NoTask = NoTask
  Silent = Silent
  MaxCommits = 2
  MaxCrashes = 1
  MaxTroubles = 1
INVARIANTS
  DependenciesFirst
  RecordedIsWhole
PROPERTIES
  ImplementsTaskBoard
  WorkIsKept
  TasksSettle

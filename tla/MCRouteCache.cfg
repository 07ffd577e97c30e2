\* Two plans and two writers around one snapshot and its lock.
SPECIFICATION Spec
\* Plans are built once and commits are bounded, so the system comes to rest.
CHECK_DEADLOCK FALSE
CONSTANTS
  r1 = r1
  r2 = r2
  w1 = w1
  w2 = w2
  Readers    <- MCReaders
  Writers    <- MCWriters
  NoOne      = NoOne
  NoSnapshot = NoSnapshot
  MaxCommits = 2
INVARIANTS
  StaleOnlyWhileWriting
  PlanSeesSettledWrites
PROPERTY EveryoneGetsThrough

\* Two forks of a run of two events, with two timestamps to tie on.
CONSTANTS
  run = run
  f1 = f1
  f2 = f2
  missing = missing
  x = x
  none = none
  Parent <- run
  Forks <- MCForks
  Missing <- missing
  Timestamps = {0, 1}
  Vertices = {x}
  NoVertex <- none
  ParentRun <- MCParentRun
  Continuation <- MCContinuation
  MaxFailures = 1
SPECIFICATION FairSpec
INVARIANT ReplayKeepsPrefix
PROPERTIES ImplementsPort ForksEnd
CHECK_DEADLOCK FALSE

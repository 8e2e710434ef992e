\* Four graphs to start from, eight patches, at most five cycles.
CONSTANTS
  g = g
  h = h
  again = again
  c = c
  d = d
  ev = ev
  hole = hole
  gid = gid
  hid = hid
  cid = cid
  did = did
  eid = eid
  oid = oid
  Nodes <- MCNodes
  IdOf <- MCIdOf
  KindOf <- MCKindOf
  InitialGraphs <- MCGraphs
  Patches <- MCPatches
  MaxCycles = 5
SPECIFICATION FairSpec
INVARIANTS ValidatorFindsPaths AcceptancesSupportGoals NoNewViolations LoopBreaksAfterRejection StatusTellsOutcome
PROPERTY Terminates
CHECK_DEADLOCK FALSE

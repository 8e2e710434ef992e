\* Two sessions that may overlap, one process that ends early with the store open.
CONSTANTS
  m1 = m1
  m2 = m2
  Models = {m1, m2}
  file1 = file1
  file2 = file2
  LogFiles = {file1, file2}
  MaxSessions = 2
  MaxMishaps = 1
SPECIFICATION ProvenanceSpec
INVARIANTS GraphIsProjection ReportTellsOutcome RecommendationsHold EventsFollowGraph LedgerTellsFailures
SYMMETRY ModelSymmetry
CHECK_DEADLOCK FALSE

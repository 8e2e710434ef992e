\* A claim, two possible supports, three checks of which two may nest.
CONSTANTS
  claim = claim
  ev1 = ev1
  ev2 = ev2
  any = any
  noEdge = noEdge
  absent = absent
  Vertices = {claim, ev1, ev2}
  TypeOf <- MCTypeOf
  Statuses = {"open"}
  Edges <- MCEdges
  Patterns <- MCPatterns
  Relations <- MCRelations
  AnyStatus <- any
  NoEdge <- noEdge
  Absent <- absent
  MaxRegistrations = 1
  MaxChanges = 2
  MaxPublishes = 1
  MaxRaises = 1
  MaxChecks = 3
  MaxNesting = 2
SPECIFICATION Spec
INVARIANTS LatchTellsView OneProposalPerEdge
CHECK_DEADLOCK FALSE

\* Two proposals, three policies, one restart, one failing append.
CONSTANTS
  p1 = p1
  p2 = p2
  noone = noone
  any = any
  Patches <- MCPatches
  OpType <- MCOpType
  ClaimsImprovement <- MCClaims
  Policies <- MCPolicies
  AnyOp <- any
  People <- MCPeople
  Nobody <- noone
  MaxNesting = 2
  MaxExecutions = 2
  MaxStoreFailures = 1
  MaxRestarts = 1
SPECIFICATION Spec
INVARIANTS UnapprovedNeverExecuted AuditTellsStatus AuditGapsExplained
PROPERTIES ImplementsLifecycle HighestPriorityDecides SweepDecidesAll
CHECK_DEADLOCK FALSE

\* Dispatch against "continues dispatching to other behaviors".
CONSTANTS
  claim = claim
  gap = gap
  eager = eager
  late = late
  Events <- MCEvents
  RunOf <- MCRunOf
  Behaviors <- MCBehaviors
  Accepts <- MCAccepts
  ActivateAfter <- MCActivateAfter
  Emits <- MCEmits
  MaxDepth = 2
  MaxRegistrations = 2
  MaxEvents = 2
  MaxEmits = 1
  MaxRaises = 1
  MaxStoreFailures = 1
  MaxClockSteps = 1
SPECIFICATION Spec
PROPERTY DispatchGoesOn
CHECK_DEADLOCK FALSE

\* Two levels of nesting, two registrations, one emission per handler call,
\* one failing append, one step back of the clock, one handler that raises
\* besides the one the clock step hits.
CONSTANTS
  claim = claim
  gap = gap
  eager = eager
  late = late
  Events <- MCEvents
  RunOf <- MCRunOf
  Behaviors <- MCBehaviors
  Accepts <- MCAccepts
  ActivateAfter <- MCActivateAfter
  Emits <- MCEmits
  MaxDepth = 2
  MaxRegistrations = 2
  MaxEvents = 2
  MaxEmits = 1
  MaxRaises = 1
  MaxStoreFailures = 1
  MaxClockSteps = 1
SPECIFICATION Spec
INVARIANTS Balanced DeliveredOnce CountsAddUp FirstReactionRecorded
CHECK_DEADLOCK FALSE

------------------------- MODULE MCBehaviorRuntime --------------------------
(* Two kinds of event and two behaviors; "eager" reacts to both kinds,     *)
(* "late" to one of them and only from the second event on.                *)
EXTENDS BehaviorRuntime

CONSTANTS claim, gap, eager, late

MCEvents == {claim, gap}
MCRunOf == (claim :> "run1") @@ (gap :> "run2")
MCBehaviors == {eager, late}
MCAccepts == (eager :> {claim, gap}) @@ (late :> {claim})
MCEmits == (eager :> {claim}) @@ (late :> {gap})
MCActivateAfter == (eager :> 0) @@ (late :> 2)
=============================================================================

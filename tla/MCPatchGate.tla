----------------------------- MODULE MCPatchGate ----------------------------
(* An instance of PatchGate for TLC: two proposals that the policies tell  *)
(* apart and three policies, one of each kind that matters to the order.   *)
EXTENDS PatchGate

CONSTANTS p1, p2, noone, any

MCPatches == {p1, p2}
MCOpType == (p1 :> "add_node") @@ (p2 :> "add_edge")
MCClaims == (p1 :> TRUE) @@ (p2 :> FALSE)
MCPolicies ==
  { [name |-> "hold",     rule |-> "manual_review",          priority |-> 2, filter |-> any],
    [name |-> "improve",  rule |-> "measurable_improvement", priority |-> 1, filter |-> "add_node"],
    [name |-> "deny",     rule |-> "auto_reject",            priority |-> 0, filter |-> any] }
MCPeople == {"human"}
=============================================================================

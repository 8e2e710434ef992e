----------------------------- MODULE MCTriggers -----------------------------
(* An instance of Triggers for TLC: a claim and two pieces of evidence,    *)
(* the patterns "an open claim and no support" and "a supported claim",    *)
(* and the relation of the evidence linker.                                *)
EXTENDS Triggers

CONSTANTS claim, ev1, ev2, any, noEdge, absent

MCTypeOf == (claim :> "claim") @@ (ev1 :> "evidence") @@ (ev2 :> "evidence")

Supports(e) == [kind |-> "supports", source |-> e, target |-> claim]
MCEdges == {Supports(ev1), Supports(ev2)}

Unsupported ==
  { [type |-> "claim", exists |-> TRUE, status |-> "open", edge |-> noEdge],
    [type |-> "evidence", exists |-> FALSE, status |-> any,
     edge |-> [kind |-> "supports", outgoing |-> TRUE, type |-> "claim"]] }
Supported ==
  { [type |-> "claim", exists |-> TRUE, status |-> any,
     edge |-> [kind |-> "supports", outgoing |-> FALSE, type |-> "evidence"]] }
MCPatterns == {Unsupported, Supported}

MCRelations ==
  {[kind |-> "supports", source |-> "evidence", target |-> "claim", activateAfter |-> 1]}
=============================================================================

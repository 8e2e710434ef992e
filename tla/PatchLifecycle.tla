--------------------------- MODULE PatchLifecycle ---------------------------
(***************************************************************************)
(* What the PatchApplier port promises, whatever implements it: a patch is *)
(* proposed, reviewed once, and executed only between its approval and the *)
(* moment it is recorded as applied.  Proposals live in memory only, so a  *)
(* restart forgets them.                                                   *)
(***************************************************************************)
EXTENDS Naturals

CONSTANTS Patches,    (* proposal ids                                      *)
          Reviewers,  (* who may decide: policy names and people           *)
          Nobody      (* reviewed_by of a proposal nobody reviewed         *)

VARIABLES status,     (* status[p]: "absent" before propose, "gone" after  *)
                      (* a restart, else PatchProposal.status              *)
          reviewer,   (* reviewed_by                                       *)
          executions  (* how often apply_fn was called with the patch      *)

lifecycleVars == <<status, reviewer, executions>>

Statuses == {"absent", "pending", "approved", "rejected", "applied", "gone"}

Init ==
  /\ status = [p \in Patches |-> "absent"]
  /\ reviewer = [p \in Patches |-> Nobody]
  /\ executions = [p \in Patches |-> 0]

Propose(p) ==
  /\ status[p] = "absent"
  /\ status' = [status EXCEPT ![p] = "pending"]
  /\ UNCHANGED <<reviewer, executions>>

Review(p, decision, who) ==
  /\ status[p] = "pending"
  /\ status' = [status EXCEPT ![p] = decision]
  /\ reviewer' = [reviewer EXCEPT ![p] = who]
  /\ UNCHANGED executions

Execute(p) ==
  /\ status[p] = "approved"
  /\ executions' = [executions EXCEPT ![p] = @ + 1]
  /\ UNCHANGED <<status, reviewer>>

MarkApplied(p) ==
  /\ status[p] = "approved"
  /\ executions[p] > 0
  /\ status' = [status EXCEPT ![p] = "applied"]
  /\ UNCHANGED <<reviewer, executions>>

Forget ==
  /\ status' = [p \in Patches |-> IF status[p] = "absent" THEN "absent" ELSE "gone"]
  /\ UNCHANGED <<reviewer, executions>>

Next ==
  \/ \E p \in Patches :
       \/ Propose(p)
       \/ \E decision \in {"approved", "rejected"}, who \in Reviewers : Review(p, decision, who)
       \/ Execute(p)
       \/ MarkApplied(p)
  \/ Forget

Spec == Init /\ [][Next]_lifecycleVars
=============================================================================

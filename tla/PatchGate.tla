----------------------------- MODULE PatchGate ------------------------------
(***************************************************************************)
(* The propose -> review -> apply pipeline for graph patches:              *)
(* InMemoryPatchApplier, its audited subclass EventEmittingPatchApplier    *)
(* and the PolicyGate that reviews for it.                                 *)
(*                                                                         *)
(* Everything runs on one thread, but apply calls back: apply_fn runs in   *)
(* the middle of it and may propose, review or apply in turn, so apply is  *)
(* two steps with a stack of the calls in progress.  evaluate_all_pending  *)
(* is a loop over a snapshot and calls nothing back: it is one step per    *)
(* proposal, and nothing else runs until the snapshot is used up.          *)
(*                                                                         *)
(* An operation the code refuses (KeyError, ValueError) changes nothing,   *)
(* so it is a step that is not enabled.                                    *)
(***************************************************************************)
EXTENDS EventLog, FiniteSets

CONSTANTS
  Patches,            (* ids propose hands out, never the same one twice   *)
  OpType,             (* OpType[p]: what a policy's patch_filter looks at  *)
  ClaimsImprovement,  (* [p]: does its reason contain "improvement"        *)
  Policies,           (* the policies somebody may register, once each     *)
  AnyOp,              (* the empty patch_filter                            *)
  People,             (* reviewers who call approve/reject directly        *)
  Nobody,             (* reviewed_by = ""                                  *)
  MaxNesting,         (* bound: calls of apply in progress                 *)
  MaxExecutions,      (* bound: calls of apply_fn for one patch            *)
  MaxStoreFailures,   (* bound: appends the store fails, per behaviour     *)
  MaxRestarts         (* bound: restarts of the process                    *)

Rules == {"auto_approve", "auto_reject", "measurable_improvement", "manual_review"}
OpTypes == {OpType[p] : p \in Patches}
PolicyNames == {q.name : q \in Policies}
Reviewers == PolicyNames \cup People

ASSUME PatchAssumption ==
  /\ DOMAIN OpType = Patches
  /\ ClaimsImprovement \in [Patches -> BOOLEAN]
ASSUME PolicyAssumption ==
  \A q \in Policies :
    /\ q.rule \in Rules
    /\ q.priority \in Int
    /\ q.filter \in OpTypes \cup {AnyOp}
ASSUME NameAssumption ==
  /\ Nobody \notin Reviewers
  /\ People \cap PolicyNames = {}
ASSUME BoundAssumption ==
  {MaxNesting, MaxExecutions, MaxStoreFailures, MaxRestarts} \subseteq Nat

VARIABLES
  status, reviewer, executions,  (* as in PatchLifecycle                   *)
  order,     (* the proposals in the order of the applier's dict           *)
  policies,  (* the gate's list, in the order it evaluates them            *)
  calls,     (* patches whose apply is inside apply_fn, innermost last     *)
  sweep,     (* what evaluate_all_pending has yet to evaluate              *)
  counter,   (* _event_counter                                             *)
  log,       (* the event store; survives a restart                        *)
  epoch,     (* restarts so far                                            *)
  history,   (* ghost: every lifecycle transition made, in order           *)
  lost       (* ghost: positions in history whose append failed            *)

lifecycleVars == <<status, reviewer, executions>>
auditVars == <<counter, log, history, lost>>
vars == <<status, reviewer, executions, order, policies, calls, sweep,
          counter, log, epoch, history, lost>>

Init ==
  /\ status = [p \in Patches |-> "absent"]
  /\ reviewer = [p \in Patches |-> Nobody]
  /\ executions = [p \in Patches |-> 0]
  /\ order = << >>
  /\ policies = << >>
  /\ calls = << >>
  /\ sweep = << >>
  /\ counter = 0
  /\ log = << >>
  /\ epoch = 0
  /\ history = << >>
  /\ lost = {}

-----------------------------------------------------------------------------
(* The audit trail.                                                        *)

(* Mutant: the counter is left out of the id.                              *)
EventIdTypeOnly(type, n) == <<type>>

EventId(type, n) == <<type, n>>

Row(type, n, p) ==
  [id |-> EventId(type, n), type |-> type, run |-> "", ts |-> n, patch |-> p]

(* Mutant: the counter stands still.                                       *)
EmitUncounted(type, p) ==
  /\ counter' = counter
  /\ history' = Append(history, [type |-> type, n |-> counter + 1, patch |-> p, epoch |-> epoch])
  /\ log' = AppendRow(log, Row(type, counter + 1, p))
  /\ lost' = lost

(* _emit_event: count, then append; an exception of the store is logged    *)
(* and swallowed, so the transition stands without its record.             *)
Emit(type, p) ==
  /\ counter' = counter + 1
  /\ history' = Append(history, [type |-> type, n |-> counter', patch |-> p, epoch |-> epoch])
  /\ \/ /\ log' = AppendRow(log, Row(type, counter', p))
        /\ lost' = lost
     \/ /\ Cardinality(lost) < MaxStoreFailures
        /\ log' = log
        /\ lost' = lost \cup {Len(history')}

-----------------------------------------------------------------------------
(* The applier.                                                            *)

(* Nothing interleaves with evaluate_all_pending.                          *)
NotSweeping == sweep = << >>

Propose(p) ==
  /\ NotSweeping
  /\ status[p] = "absent"
  /\ status' = [status EXCEPT ![p] = "pending"]
  /\ order' = Append(order, p)
  /\ Emit("patch.proposed", p)
  /\ UNCHANGED <<reviewer, executions, policies, calls, sweep, epoch>>

(* Mutant: approve without its guard.                                      *)
ApproveReviewed(p, who) ==
  /\ status[p] \in {"pending", "rejected"}
  /\ status' = [status EXCEPT ![p] = "approved"]
  /\ reviewer' = [reviewer EXCEPT ![p] = who]
  /\ Emit("policy.approved", p)

(* approve and reject differ in the status and the event only.             *)
Approve(p, who) ==
  /\ status[p] = "pending"
  /\ status' = [status EXCEPT ![p] = "approved"]
  /\ reviewer' = [reviewer EXCEPT ![p] = who]
  /\ Emit("policy.approved", p)

Reject(p, who) ==
  /\ status[p] = "pending"
  /\ status' = [status EXCEPT ![p] = "rejected"]
  /\ reviewer' = [reviewer EXCEPT ![p] = who]
  /\ Emit("policy.rejected", p)

(* A person decides, whatever the policies say.                            *)
ManualReview(p, who) ==
  /\ NotSweeping
  /\ Approve(p, who) \/ Reject(p, who)
  /\ UNCHANGED <<executions, order, policies, calls, sweep, epoch>>

(* Mutant: apply checks only that the proposal is not closed.              *)
ApplyBeginUnreviewed(p) ==
  /\ NotSweeping
  /\ status[p] \in {"pending", "approved"}
  /\ Len(calls) < MaxNesting
  /\ executions[p] < MaxExecutions
  /\ executions' = [executions EXCEPT ![p] = @ + 1]
  /\ calls' = Append(calls, p)
  /\ UNCHANGED <<status, reviewer, order, policies, sweep, counter, log, epoch, history, lost>>

(* apply up to the call of apply_fn: the proposal is read here ...         *)
ApplyBegin(p) ==
  /\ NotSweeping
  /\ status[p] = "approved"
  /\ Len(calls) < MaxNesting
  /\ executions[p] < MaxExecutions
  /\ executions' = [executions EXCEPT ![p] = @ + 1]
  /\ calls' = Append(calls, p)
  /\ UNCHANGED <<status, reviewer, order, policies, sweep, counter, log, epoch, history, lost>>

(* ... and written back here, as it was read and with status applied.      *)
ApplyReturn ==
  /\ NotSweeping
  /\ calls # << >>
  /\ LET p == Last(calls)
     IN  /\ status' = [status EXCEPT ![p] = "applied"]
         /\ Emit("patch.applied", p)
  /\ calls' = Front(calls)
  /\ UNCHANGED <<reviewer, executions, order, policies, sweep, epoch>>

(* apply_fn raises: apply passes it on and the proposal stays approved.    *)
ApplyRaise ==
  /\ NotSweeping
  /\ calls # << >>
  /\ calls' = Front(calls)
  /\ UNCHANGED <<status, reviewer, executions, order, policies, sweep, counter, log,
                 epoch, history, lost>>

(* list_pending: the pending proposals in the order of the dict.  There is *)
(* one such sequence, and so one element in this set.                      *)
ListPending ==
  LET at == {i \in DOMAIN order : status[order[i]] = "pending"}
      Increasing == {f \in [1 .. Cardinality(at) -> at] :
                       \A j, k \in DOMAIN f : j < k => f[j] < f[k]}
  IN  {[k \in 1 .. Cardinality(at) |-> order[f[k]]] : f \in Increasing}

-----------------------------------------------------------------------------
(* The gate.                                                               *)

MatchesPatch(q, p) == q.filter = AnyOp \/ q.filter = OpType[p]

(* _apply_rule                                                             *)
Decision(q, p) ==
  CASE q.rule = "auto_approve"  -> "approved"
    [] q.rule = "auto_reject"   -> "rejected"
    [] q.rule = "manual_review" -> "pending"
    [] q.rule = "measurable_improvement" ->
         IF ClaimsImprovement[p] THEN "approved" ELSE "rejected"

(* Mutant: register without the sort.                                      *)
RegisterUnsorted(q) ==
  /\ NotSweeping
  /\ \A i \in DOMAIN policies : policies[i] # q
  /\ policies' = Append(policies, q)
  /\ UNCHANGED <<status, reviewer, executions, order, calls, sweep, counter, log,
                 epoch, history, lost>>

(* register: append, then stable sort by descending priority: the new      *)
(* policy comes after all that have its priority or a higher one.          *)
Register(q) ==
  /\ NotSweeping
  /\ \A i \in DOMAIN policies : policies[i] # q
  /\ LET ahead == {i \in DOMAIN policies : policies[i].priority >= q.priority}
     IN  policies' = InsertAt(policies, Cardinality(ahead) + 1, q)
  /\ UNCHANGED <<status, reviewer, executions, order, calls, sweep, counter, log,
                 epoch, history, lost>>

(* evaluate goes on past a policy that says pending, so the one that       *)
(* decides is the first that matches and says approved or rejected.        *)
Decides(i, p) ==
  /\ MatchesPatch(policies[i], p)
  /\ Decision(policies[i], p) # "pending"

IsDecider(i, p) ==
  /\ i \in DOMAIN policies
  /\ Decides(i, p)
  /\ \A j \in DOMAIN policies : j < i => ~Decides(j, p)

(* The body of evaluate on proposal p.  If p is not pending the applier    *)
(* raises ValueError; if no policy decides nothing happens.                *)
Evaluate(p) ==
  \E i \in DOMAIN policies :
    /\ IsDecider(i, p)
    /\ \/ Decision(policies[i], p) = "approved" /\ Approve(p, policies[i].name)
       \/ Decision(policies[i], p) = "rejected" /\ Reject(p, policies[i].name)

NobodyDecides(p) == \A i \in DOMAIN policies : ~Decides(i, p)

(* evaluate(proposal) called with a proposal the caller still holds.       *)
EvaluateOne(p) ==
  /\ NotSweeping
  /\ Evaluate(p)
  /\ UNCHANGED <<executions, order, policies, calls, sweep, epoch>>

(* evaluate_all_pending: list_pending is read once ...                     *)
SweepBegin ==
  /\ NotSweeping
  /\ sweep' \in ListPending
  /\ sweep' # << >>
  /\ UNCHANGED <<status, reviewer, executions, order, policies, calls, counter, log,
                 epoch, history, lost>>

(* Mutant: the loop runs over the live list, so a decision shifts the      *)
(* next proposal under the index it has already passed.                    *)
SweepStepLive ==
  /\ sweep # << >>
  /\ LET p == Head(sweep)
     IN  \/ /\ Evaluate(p)
            /\ sweep' = IF Len(sweep) > 1 THEN Tail(Tail(sweep)) ELSE << >>
         \/ /\ NobodyDecides(p)
            /\ UNCHANGED <<status, reviewer, counter, log, history, lost>>
            /\ sweep' = Tail(sweep)
  /\ UNCHANGED <<executions, order, policies, calls, epoch>>

(* ... and its proposals are evaluated in that order.                      *)
SweepStep ==
  /\ sweep # << >>
  /\ LET p == Head(sweep)
     IN  \/ Evaluate(p)
         \/ /\ NobodyDecides(p)
            /\ UNCHANGED <<status, reviewer, counter, log, history, lost>>
  /\ sweep' = Tail(sweep)
  /\ UNCHANGED <<executions, order, policies, calls, epoch>>

-----------------------------------------------------------------------------
(* The process dies and is started again on the same event store: the      *)
(* proposals, the policies and the counter start from nothing.             *)
Restart ==
  /\ epoch < MaxRestarts
  /\ epoch' = epoch + 1
  /\ status' = [p \in Patches |-> IF status[p] = "absent" THEN "absent" ELSE "gone"]
  /\ order' = << >>
  /\ policies' = << >>
  /\ calls' = << >>
  /\ sweep' = << >>
  /\ counter' = 0
  /\ UNCHANGED <<reviewer, executions, log, history, lost>>

Next ==
  \/ \E p \in Patches : Propose(p) \/ ApplyBegin(p) \/ EvaluateOne(p)
  \/ \E p \in Patches, who \in People : ManualReview(p, who)
  \/ \E q \in Policies : Register(q)
  \/ ApplyReturn
  \/ ApplyRaise
  \/ SweepBegin
  \/ SweepStep
  \/ Restart

Spec == Init /\ [][Next]_vars
-----------------------------------------------------------------------------
(* Properties.                                                             *)

HistoryEntries ==
  [type : {"patch.proposed", "policy.approved", "policy.rejected", "patch.applied"},
   n : Nat \ {0}, patch : Patches, epoch : Nat]

(* Type correctness of the applier, the gate and the audit state           *)
(* (PatchProposal.__post_init__ checks the same statuses at run time).     *)
TypeOK ==
  /\ status \in [Patches -> {"absent", "pending", "approved", "rejected", "applied", "gone"}]
  /\ reviewer \in [Patches -> Reviewers \cup {Nobody}]
  /\ executions \in [Patches -> Nat]
  /\ order \in Seq(Patches)
  /\ policies \in Seq(Policies)
  /\ calls \in Seq(Patches)
  /\ sweep \in Seq(Patches)
  /\ counter \in Nat
  /\ epoch \in Nat
  /\ history \in Seq(HistoryEntries)
  /\ lost \subseteq DOMAIN history

(* "Patches that are not approved cannot be applied" (PatchApplier): the   *)
(* graph never sees a patch that is pending or was rejected, whatever      *)
(* apply_fn does while it runs and however often it is tried again.        *)
UnapprovedNeverExecuted ==
  \A p \in Patches : executions[p] > 0 => status[p] \in {"approved", "applied", "gone"}

(* The applier, the gate and the reentrant apply together keep the         *)
(* lifecycle the port promises: one review per proposal, execution only    *)
(* between approval and "applied", and no way back.                        *)
Lifecycle ==
  INSTANCE PatchLifecycle WITH
    status <- status,
    reviewer <- reviewer,
    executions <- executions
ImplementsLifecycle == Lifecycle!Spec

(* When the gate decides, no matching policy of higher priority wanted to  *)
(* approve or reject: priorities are honoured whatever order the policies  *)
(* were registered in (register / evaluate).                               *)
DecidedByHighestPriority ==
  \A p \in Patches :
    reviewer[p] = Nobody /\ reviewer'[p] \in PolicyNames =>
      \E i \in DOMAIN policies :
        /\ policies[i].name = reviewer'[p]
        /\ status'[p] = Decision(policies[i], p)
        /\ \A j \in DOMAIN policies :
             Decides(j, p) => policies[j].priority <= policies[i].priority

HighestPriorityDecides == [][DecidedByHighestPriority]_vars

(* A finished evaluate_all_pending leaves pending only what no policy      *)
(* decides: the loop skips nothing although it changes what it lists.      *)
SweepSkipsNothing ==
  sweep # << >> /\ sweep' = << >> /\ epoch' = epoch =>
    \A p \in Patches : status'[p] = "pending" => NobodyDecides(p)

SweepDecidesAll == [][SweepSkipsNothing]_vars

(* "The event log becomes the single source of truth": until a restart,    *)
(* and as long as the store takes every event, the last event of a         *)
(* proposal in the order iter_events gives tells its status.               *)
StatusAfter(type) ==
  CASE type = "patch.proposed"  -> "pending"
    [] type = "policy.approved" -> "approved"
    [] type = "policy.rejected" -> "rejected"
    [] type = "patch.applied"   -> "applied"

AuditedStatus(p) ==
  LET trail == IterRows(log, {i \in DOMAIN log : log[i].patch = p})
  IN  IF trail = << >> THEN "absent" ELSE StatusAfter(Last(trail).type)

AuditTellsStatus ==
  epoch = 0 /\ lost = {} => \A p \in Patches : status[p] = AuditedStatus(p)

(* Over restarts too, a transition is missing from the log only because    *)
(* the store failed or because an earlier process had already used its id  *)
(* (the counter starts again at 0 and append ignores known ids), and the   *)
(* log holds nothing that did not happen.                                  *)
InLog(h) == \E i \in DOMAIN log : log[i] = Row(h.type, h.n, h.patch)

IdTaken(i) ==
  \E j \in 1 .. i - 1 : /\ history[j].type = history[i].type
                        /\ history[j].n = history[i].n
                        /\ history[j].epoch < history[i].epoch

AuditGapsExplained ==
  /\ \A i \in DOMAIN history : InLog(history[i]) \/ i \in lost \/ IdTaken(i)
  /\ \A k \in DOMAIN log :
       \E i \in DOMAIN history : log[k] = Row(history[i].type, history[i].n, history[i].patch)
=============================================================================

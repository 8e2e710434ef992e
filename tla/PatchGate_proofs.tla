-------------------------- MODULE PatchGate_proofs --------------------------
(***************************************************************************)
(* Proofs about PatchGate, for any patches, policies, people and bounds.   *)
(***************************************************************************)
EXTENDS PatchGate, DataLemmas, FiniteSetTheorems, TLAPS

-----------------------------------------------------------------------------
(* Lemmas about the helpers.                                               *)

EventTypes == {"patch.proposed", "policy.approved", "policy.rejected", "patch.applied"}

(* The listing of the pending proposals is a sequence of proposals.        *)
LEMMA ListPendingType ==
  ASSUME TypeOK, NEW s \in ListPending
  PROVE  s \in Seq(Patches)
<1> DEFINE at == {i \in DOMAIN order : status[order[i]] = "pending"}
<1>1. order \in Seq(Patches)
  BY DEF TypeOK
<1>2. IsFiniteSet(at) /\ Cardinality(at) \in Nat
  <2>1. IsFiniteSet(1 .. Len(order))
    BY <1>1, FS_Interval
  <2>2. at \subseteq 1 .. Len(order)
    BY <1>1
  <2> QED
    BY <2>1, <2>2, FS_Subset, FS_CardinalityType
<1>3. PICK f \in [1 .. Cardinality(at) -> at] :
        s = [k \in 1 .. Cardinality(at) |-> order[f[k]]]
  BY DEF ListPending
<1>4. \A k \in 1 .. Cardinality(at) : order[f[k]] \in Patches
  BY <1>1, <1>3
<1> QED
  BY <1>2, <1>3, <1>4, IsASeq

(* _emit_event keeps the audit state well typed, whether the store takes   *)
(* the record or not.                                                      *)
LEMMA EmitType ==
  ASSUME TypeOK, NEW p \in Patches, NEW type \in EventTypes, Emit(type, p)
  PROVE  /\ counter' \in Nat
         /\ history' \in Seq(HistoryEntries)
         /\ lost' \subseteq DOMAIN history'
<1> DEFINE h == [type |-> type, n |-> counter + 1, patch |-> p, epoch |-> epoch]
<1>1. counter' = counter + 1 /\ history' = Append(history, h)
  BY DEF Emit
<1>2. h \in HistoryEntries
  BY DEF TypeOK, HistoryEntries, EventTypes
<1>3. history' \in Seq(HistoryEntries) /\ Len(history') = Len(history) + 1
  BY <1>1, <1>2 DEF TypeOK
<1>4. DOMAIN history \subseteq DOMAIN history' /\ Len(history') \in DOMAIN history'
  BY <1>3 DEF TypeOK
<1>5. lost' = lost \/ lost' = lost \cup {Len(history')}
  BY DEF Emit
<1> QED
  BY <1>1, <1>3, <1>4, <1>5 DEF TypeOK

(* A review by anybody keeps the applier's state well typed.               *)
LEMMA ReviewType ==
  ASSUME TypeOK, NEW p \in Patches, NEW who \in Reviewers, Approve(p, who) \/ Reject(p, who)
  PROVE  /\ status' \in [Patches -> {"absent", "pending", "approved", "rejected", "applied", "gone"}]
         /\ reviewer' \in [Patches -> Reviewers \cup {Nobody}]
         /\ counter' \in Nat
         /\ history' \in Seq(HistoryEntries)
         /\ lost' \subseteq DOMAIN history'
<1>1. Emit("policy.approved", p) \/ Emit("policy.rejected", p)
  BY DEF Approve, Reject
<1>2. counter' \in Nat /\ history' \in Seq(HistoryEntries) /\ lost' \subseteq DOMAIN history'
  BY <1>1, EmitType DEF EventTypes
<1> QED
  BY <1>2 DEF TypeOK, Approve, Reject

(* When the gate decides, the policy that decides is the reviewer.         *)
LEMMA EvaluateReviews ==
  ASSUME TypeOK, NEW p, Evaluate(p)
  PROVE  \E who \in PolicyNames : Approve(p, who) \/ Reject(p, who)
<1>1. PICK i \in DOMAIN policies :
        \/ Approve(p, policies[i].name)
        \/ Reject(p, policies[i].name)
  BY DEF Evaluate
<1>2. policies[i] \in Policies
  BY <1>1 DEF TypeOK
<1> QED
  BY <1>1, <1>2 DEF PolicyNames

(* register puts a policy somewhere in the list.                           *)
LEMMA AheadBound ==
  ASSUME TypeOK, NEW q \in Policies
  PROVE  LET ahead == {i \in DOMAIN policies : policies[i].priority >= q.priority}
         IN  /\ ahead \subseteq 1 .. Len(policies)
             /\ IsFiniteSet(ahead)
             /\ Cardinality(ahead) \in 0 .. Len(policies)
<1> DEFINE ahead == {i \in DOMAIN policies : policies[i].priority >= q.priority}
<1>1. policies \in Seq(Policies) /\ Len(policies) \in Nat
  BY DEF TypeOK
<1>2. ahead \subseteq 1 .. Len(policies)
  BY <1>1
<1>3. IsFiniteSet(1 .. Len(policies)) /\ Cardinality(1 .. Len(policies)) = Len(policies)
  BY <1>1, FS_Interval
<1>4. IsFiniteSet(ahead) /\ Cardinality(ahead) <= Len(policies) /\ Cardinality(ahead) \in Nat
  BY <1>2, <1>3, FS_Subset, FS_CardinalityType
<1> QED
  BY <1>1, <1>2, <1>4

-----------------------------------------------------------------------------
(* Type correctness.                                                       *)

(* The empty applier, gate and log are well typed.                         *)
LEMMA InitType == Init => TypeOK
BY EmptySeq DEF Init, TypeOK

(* Every operation keeps the types, one step of the proof per action.      *)
LEMMA NextType == TypeOK /\ [Next]_vars => TypeOK'
<1> SUFFICES ASSUME TypeOK, [Next]_vars PROVE TypeOK'
  OBVIOUS
<1>1. ASSUME NEW p \in Patches, Propose(p) PROVE TypeOK'
  <2>1. counter' \in Nat /\ history' \in Seq(HistoryEntries) /\ lost' \subseteq DOMAIN history'
    BY <1>1, EmitType DEF Propose, EventTypes
  <2>2. order' \in Seq(Patches)
    BY <1>1 DEF Propose, TypeOK
  <2> QED
    BY <1>1, <2>1, <2>2 DEF Propose, TypeOK
<1>2. ASSUME NEW p \in Patches, ApplyBegin(p) PROVE TypeOK'
  <2>1. calls' \in Seq(Patches)
    BY <1>2 DEF ApplyBegin, TypeOK
  <2> QED
    BY <1>2, <2>1 DEF ApplyBegin, TypeOK
<1>3. ASSUME NEW p \in Patches, EvaluateOne(p) PROVE TypeOK'
  <2>1. PICK who \in PolicyNames : Approve(p, who) \/ Reject(p, who)
    BY <1>3, EvaluateReviews DEF EvaluateOne
  <2> QED
    BY <1>3, <2>1, ReviewType DEF EvaluateOne, TypeOK, Reviewers
<1>4. ASSUME NEW p \in Patches, NEW who \in People, ManualReview(p, who) PROVE TypeOK'
  BY <1>4, ReviewType DEF ManualReview, TypeOK, Reviewers
<1>5. ASSUME NEW q \in Policies, Register(q) PROVE TypeOK'
  <2>1. policies' \in Seq(Policies)
    <3> DEFINE n == Cardinality({i \in DOMAIN policies : policies[i].priority >= q.priority})
    <3>1. n \in 0 .. Len(policies)
      BY AheadBound
    <3>2. policies' = InsertAt(policies, n + 1, q)
      BY <1>5 DEF Register
    <3> HIDE DEF n
    <3> QED
      BY <3>1, <3>2 DEF InsertAt, TypeOK
  <2> QED
    BY <1>5, <2>1 DEF Register, TypeOK
<1>6. ASSUME ApplyReturn PROVE TypeOK'
  <2>1. Last(calls) \in Patches /\ calls' \in Seq(Patches)
    BY <1>6, StackPop DEF ApplyReturn, TypeOK
  <2>2. counter' \in Nat /\ history' \in Seq(HistoryEntries) /\ lost' \subseteq DOMAIN history'
    BY <1>6, <2>1, EmitType DEF ApplyReturn, EventTypes
  <2> QED
    BY <1>6, <2>1, <2>2 DEF ApplyReturn, TypeOK
<1>7. ASSUME ApplyRaise PROVE TypeOK'
  <2>1. calls' \in Seq(Patches)
    BY <1>7, StackPop DEF ApplyRaise, TypeOK
  <2> QED
    BY <1>7, <2>1 DEF ApplyRaise, TypeOK
<1>8. ASSUME SweepBegin PROVE TypeOK'
  <2>1. sweep' \in Seq(Patches)
    BY <1>8, ListPendingType DEF SweepBegin
  <2> QED
    BY <1>8, <2>1 DEF SweepBegin, TypeOK
<1>9. ASSUME SweepStep PROVE TypeOK'
  <2> DEFINE p == Head(sweep)
  <2>1. p \in Patches /\ sweep' \in Seq(Patches)
    BY <1>9 DEF SweepStep, TypeOK
  <2>2. CASE Evaluate(p)
    <3>1. PICK who \in PolicyNames : Approve(p, who) \/ Reject(p, who)
      BY <2>2, EvaluateReviews
    <3> QED
      BY <1>9, <2>1, <3>1, ReviewType DEF SweepStep, TypeOK, Reviewers
  <2>3. CASE UNCHANGED <<status, reviewer, counter, log, history, lost>>
    BY <1>9, <2>1, <2>3 DEF SweepStep, TypeOK
  <2> QED
    BY <1>9, <2>2, <2>3 DEF SweepStep
<1>10. ASSUME Restart PROVE TypeOK'
  BY <1>10, EmptySeq DEF Restart, TypeOK
<1>11. ASSUME UNCHANGED vars PROVE TypeOK'
  BY <1>11 DEF vars, TypeOK
<1> QED
  BY <1>1, <1>2, <1>3, <1>4, <1>5, <1>6, <1>7, <1>8, <1>9, <1>10, <1>11 DEF Next

(* The applier, the gate and the audit trail are well typed however many   *)
(* proposals, policies, nested applies and restarts there are.             *)
THEOREM TypeCorrect == Spec => []TypeOK
BY InitType, NextType, PTL DEF Spec

-----------------------------------------------------------------------------
(* Only approved patches are executed.                                     *)

(* What apply_fn is running for was approved when apply read it, and no    *)
(* transition leads back from there: this is what a nested apply, a nested *)
(* review and a raise must all keep.                                       *)
CallsApproved ==
  \A i \in DOMAIN calls :
    /\ status[calls[i]] \in {"approved", "applied"}
    /\ executions[calls[i]] > 0

IInv == TypeOK /\ CallsApproved /\ UnapprovedNeverExecuted

(* A review moves only a pending proposal, which nobody has executed.      *)
LEMMA ReviewKeeps ==
  ASSUME IInv, NEW p \in Patches, NEW who \in Reviewers, Approve(p, who) \/ Reject(p, who),
         UNCHANGED <<executions, calls>>
  PROVE  CallsApproved' /\ UnapprovedNeverExecuted'
<1>1. /\ status[p] = "pending"
      /\ \A r \in Patches : r # p => status'[r] = status[r]
  BY DEF Approve, Reject, IInv, TypeOK
<1>2. ~(executions[p] > 0)
  BY <1>1 DEF IInv, UnapprovedNeverExecuted
<1>3. UnapprovedNeverExecuted'
  BY <1>1, <1>2 DEF IInv, UnapprovedNeverExecuted
<1>4. ASSUME NEW i \in DOMAIN calls
      PROVE  status'[calls[i]] \in {"approved", "applied"} /\ executions[calls[i]] > 0
  <2>1. calls[i] \in Patches
    BY StackElement DEF IInv, TypeOK
  <2>2. calls[i] # p
    BY <1>1 DEF IInv, CallsApproved
  <2> QED
    BY <1>1, <2>1, <2>2 DEF IInv, CallsApproved
<1> QED
  BY <1>3, <1>4 DEF CallsApproved

(* At the start nothing is executed and no call is in progress.            *)
LEMMA InitIInv == Init => IInv
BY InitType DEF Init, IInv, CallsApproved, UnapprovedNeverExecuted

(* The inductive step: only apply executes, and only what is approved; a   *)
(* patch inside apply_fn is approved or already applied by a nested call.  *)
LEMMA NextIInv == IInv /\ [Next]_vars => IInv'
<1> SUFFICES ASSUME IInv, [Next]_vars PROVE CallsApproved' /\ UnapprovedNeverExecuted'
  BY NextType DEF IInv
<1> USE DEF IInv
<1>1. ASSUME NEW p \in Patches, Propose(p) PROVE CallsApproved' /\ UnapprovedNeverExecuted'
  BY <1>1 DEF Propose, TypeOK, CallsApproved, UnapprovedNeverExecuted
<1>2. ASSUME NEW p \in Patches, ApplyBegin(p) PROVE CallsApproved' /\ UnapprovedNeverExecuted'
  <2>1. /\ status' = status
        /\ status[p] = "approved"
        /\ calls' = Append(calls, p)
        /\ \A r \in Patches : executions'[r] = IF r = p THEN executions[p] + 1 ELSE executions[r]
        /\ \A r \in Patches : executions[r] \in Nat
    BY <1>2 DEF ApplyBegin, TypeOK
  <2>2. UnapprovedNeverExecuted'
    BY <2>1 DEF UnapprovedNeverExecuted
  <2>3. ASSUME NEW i \in DOMAIN calls'
        PROVE  status'[calls'[i]] \in {"approved", "applied"} /\ executions'[calls'[i]] > 0
    <3>1. calls'[i] = p \/ (i \in DOMAIN calls /\ calls'[i] = calls[i])
      BY <2>1, StackPush DEF TypeOK
    <3>2. i \in DOMAIN calls => calls[i] \in Patches
      BY StackElement DEF TypeOK
    <3> QED
      BY <2>1, <3>1, <3>2 DEF CallsApproved
  <2> QED
    BY <2>2, <2>3 DEF CallsApproved
<1>3. ASSUME NEW p \in Patches, EvaluateOne(p) PROVE CallsApproved' /\ UnapprovedNeverExecuted'
  <2>1. PICK who \in PolicyNames : Approve(p, who) \/ Reject(p, who)
    BY <1>3, EvaluateReviews DEF EvaluateOne
  <2> QED
    BY <1>3, <2>1, ReviewKeeps DEF EvaluateOne, Reviewers
<1>4. ASSUME NEW p \in Patches, NEW who \in People, ManualReview(p, who)
      PROVE  CallsApproved' /\ UnapprovedNeverExecuted'
  BY <1>4, ReviewKeeps DEF ManualReview, Reviewers
<1>5. ASSUME NEW q \in Policies, Register(q) PROVE CallsApproved' /\ UnapprovedNeverExecuted'
  BY <1>5 DEF Register, CallsApproved, UnapprovedNeverExecuted
<1>6. ASSUME ApplyReturn PROVE CallsApproved' /\ UnapprovedNeverExecuted'
  <2> DEFINE p == Last(calls)
  <2>1. /\ p \in Patches
        /\ p = calls[Len(calls)]
        /\ Len(calls) \in DOMAIN calls
        /\ calls' = Front(calls)
        /\ \A i \in DOMAIN Front(calls) : i \in DOMAIN calls /\ Front(calls)[i] = calls[i]
    BY <1>6, StackPop DEF ApplyReturn, TypeOK
  <2>2. /\ executions' = executions
        /\ \A r \in Patches : status'[r] = IF r = p THEN "applied" ELSE status[r]
    BY <1>6 DEF ApplyReturn, TypeOK
  <2>3. UnapprovedNeverExecuted'
    BY <2>2 DEF UnapprovedNeverExecuted
  <2>4. ASSUME NEW i \in DOMAIN calls'
        PROVE  status'[calls'[i]] \in {"approved", "applied"} /\ executions'[calls'[i]] > 0
    <3>1. i \in DOMAIN calls /\ calls'[i] = calls[i] /\ calls[i] \in Patches
      BY <2>1 DEF TypeOK
    <3> QED
      BY <2>2, <3>1 DEF CallsApproved
  <2> QED
    BY <2>3, <2>4 DEF CallsApproved
<1>7. ASSUME ApplyRaise PROVE CallsApproved' /\ UnapprovedNeverExecuted'
  <2>1. /\ calls' = Front(calls)
        /\ \A i \in DOMAIN Front(calls) : i \in DOMAIN calls /\ Front(calls)[i] = calls[i]
    BY <1>7, StackPop DEF ApplyRaise, TypeOK
  <2> QED
    BY <1>7, <2>1 DEF ApplyRaise, CallsApproved, UnapprovedNeverExecuted
<1>8. ASSUME SweepBegin PROVE CallsApproved' /\ UnapprovedNeverExecuted'
  BY <1>8 DEF SweepBegin, CallsApproved, UnapprovedNeverExecuted
<1>9. ASSUME SweepStep PROVE CallsApproved' /\ UnapprovedNeverExecuted'
  <2> DEFINE p == Head(sweep)
  <2>1. p \in Patches
    BY <1>9 DEF SweepStep, TypeOK
  <2>2. CASE Evaluate(p)
    <3>1. PICK who \in PolicyNames : Approve(p, who) \/ Reject(p, who)
      BY <2>2, EvaluateReviews
    <3> QED
      BY <1>9, <2>1, <3>1, ReviewKeeps DEF SweepStep, Reviewers
  <2>3. CASE UNCHANGED <<status, reviewer, counter, log, history, lost>>
    BY <1>9, <2>3 DEF SweepStep, CallsApproved, UnapprovedNeverExecuted
  <2> QED
    BY <1>9, <2>2, <2>3 DEF SweepStep
<1>10. ASSUME Restart PROVE CallsApproved' /\ UnapprovedNeverExecuted'
  <2>1. /\ calls' = << >>
        /\ executions' = executions
        /\ \A r \in Patches : status'[r] = IF status[r] = "absent" THEN "absent" ELSE "gone"
    BY <1>10 DEF Restart
  <2> QED
    BY <2>1 DEF CallsApproved, UnapprovedNeverExecuted
<1>11. ASSUME UNCHANGED vars PROVE CallsApproved' /\ UnapprovedNeverExecuted'
  BY <1>11 DEF vars, CallsApproved, UnapprovedNeverExecuted
<1> QED
  BY <1>1, <1>2, <1>3, <1>4, <1>5, <1>6, <1>7, <1>8, <1>9, <1>10, <1>11 DEF Next

(* "Patches that are not approved cannot be applied": apply_fn is never    *)
(* called for a patch that is pending or was rejected, whatever it calls   *)
(* back while it runs.                                                     *)
THEOREM UnapprovedNeverExecutedAlways == Spec => []UnapprovedNeverExecuted
<1>1. Init => IInv
  BY InitIInv
<1>2. IInv /\ [Next]_vars => IInv'
  BY NextIInv
<1>3. IInv => UnapprovedNeverExecuted
  BY DEF IInv
<1> QED
  BY <1>1, <1>2, <1>3, PTL DEF Spec

-----------------------------------------------------------------------------
(* The pipeline implements the lifecycle of the port.                      *)

(* The empty applier is the lifecycle before any proposal.                 *)
LEMMA InitRefines == Init => Lifecycle!Init
BY DEF Init, Lifecycle!Init

(* A review by anybody is the port's review.                               *)
LEMMA ReviewRefines ==
  ASSUME NEW p \in Patches, NEW who \in Reviewers, Approve(p, who) \/ Reject(p, who),
         UNCHANGED executions
  PROVE  Lifecycle!Next
<1>1. \E decision \in {"approved", "rejected"} : Lifecycle!Review(p, decision, who)
  BY DEF Approve, Reject, Lifecycle!Review
<1> QED
  BY <1>1 DEF Lifecycle!Next

(* Every step of the pipeline is a step of the lifecycle or none of it.    *)
(* The return of apply is where the invariant is needed: the patch it      *)
(* writes back is still approved, or was applied by a nested call.         *)
LEMMA NextRefines == IInv /\ [Next]_vars => [Lifecycle!Next]_lifecycleVars
<1> SUFFICES ASSUME IInv, [Next]_vars PROVE Lifecycle!Next \/ UNCHANGED lifecycleVars
  OBVIOUS
<1> USE DEF IInv
<1>1. ASSUME NEW p \in Patches, Propose(p) PROVE Lifecycle!Next
  BY <1>1 DEF Propose, Lifecycle!Next, Lifecycle!Propose
<1>2. ASSUME NEW p \in Patches, ApplyBegin(p) PROVE Lifecycle!Next
  BY <1>2 DEF ApplyBegin, Lifecycle!Next, Lifecycle!Execute
<1>3. ASSUME NEW p \in Patches, EvaluateOne(p) PROVE Lifecycle!Next
  <2>1. PICK who \in PolicyNames : Approve(p, who) \/ Reject(p, who)
    BY <1>3, EvaluateReviews DEF EvaluateOne
  <2> QED
    BY <1>3, <2>1, ReviewRefines DEF EvaluateOne, Reviewers
<1>4. ASSUME NEW p \in Patches, NEW who \in People, ManualReview(p, who) PROVE Lifecycle!Next
  BY <1>4, ReviewRefines DEF ManualReview, Reviewers
<1>5. ASSUME NEW q \in Policies, Register(q) PROVE UNCHANGED lifecycleVars
  BY <1>5 DEF Register, lifecycleVars
<1>6. ASSUME ApplyReturn PROVE Lifecycle!Next \/ UNCHANGED lifecycleVars
  <2> DEFINE p == Last(calls)
  <2>1. /\ p \in Patches
        /\ p = calls[Len(calls)]
        /\ Len(calls) \in DOMAIN calls
    BY <1>6, StackPop DEF ApplyReturn, TypeOK
  <2>2. status[p] \in {"approved", "applied"} /\ executions[p] > 0
    BY <2>1 DEF CallsApproved
  <2>3. /\ status' = [status EXCEPT ![p] = "applied"]
        /\ UNCHANGED <<reviewer, executions>>
    BY <1>6 DEF ApplyReturn
  <2>4. CASE status[p] = "approved"
    BY <2>1, <2>2, <2>3, <2>4 DEF Lifecycle!Next, Lifecycle!MarkApplied
  <2>5. CASE status[p] = "applied"
    <3>1. status' = status
      BY <2>3, <2>5 DEF TypeOK
    <3> QED
      BY <2>3, <3>1 DEF lifecycleVars
  <2> QED
    BY <2>2, <2>4, <2>5
<1>7. ASSUME ApplyRaise PROVE UNCHANGED lifecycleVars
  BY <1>7 DEF ApplyRaise, lifecycleVars
<1>8. ASSUME SweepBegin PROVE UNCHANGED lifecycleVars
  BY <1>8 DEF SweepBegin, lifecycleVars
<1>9. ASSUME SweepStep PROVE Lifecycle!Next \/ UNCHANGED lifecycleVars
  <2> DEFINE p == Head(sweep)
  <2>1. p \in Patches /\ UNCHANGED executions
    BY <1>9 DEF SweepStep, TypeOK
  <2>2. CASE Evaluate(p)
    <3>1. PICK who \in PolicyNames : Approve(p, who) \/ Reject(p, who)
      BY <2>2, EvaluateReviews
    <3> QED
      BY <2>1, <3>1, ReviewRefines DEF Reviewers
  <2>3. CASE UNCHANGED <<status, reviewer, counter, log, history, lost>>
    BY <2>1, <2>3 DEF lifecycleVars
  <2> QED
    BY <1>9, <2>2, <2>3 DEF SweepStep
<1>10. ASSUME Restart PROVE Lifecycle!Next
  BY <1>10 DEF Restart, Lifecycle!Next, Lifecycle!Forget
<1>11. ASSUME UNCHANGED vars PROVE UNCHANGED lifecycleVars
  BY <1>11 DEF vars, lifecycleVars
<1> QED
  BY <1>1, <1>2, <1>3, <1>4, <1>5, <1>6, <1>7, <1>8, <1>9, <1>10, <1>11 DEF Next

(* Applier, gate, reentrant apply and restarts together do only what the   *)
(* PatchApplier port allows: one review per proposal, execution between    *)
(* approval and "applied", and nothing afterwards.                         *)
THEOREM PipelineImplementsLifecycle == Spec => ImplementsLifecycle
<1>1. Init => IInv /\ Lifecycle!Init
  BY InitIInv, InitRefines
<1>2. IInv /\ [Next]_vars => IInv'
  BY NextIInv
<1>3. IInv /\ [Next]_vars => [Lifecycle!Next]_lifecycleVars
  BY NextRefines
<1> QED
  BY <1>1, <1>2, <1>3, PTL
  DEF Spec, ImplementsLifecycle, Lifecycle!Spec, Lifecycle!lifecycleVars, lifecycleVars

-----------------------------------------------------------------------------
(* Priorities are honoured.                                                *)

(* The list is in descending priority, whatever was registered when.       *)
PoliciesSorted ==
  \A i, j \in DOMAIN policies : i <= j => policies[i].priority >= policies[j].priority

(* In such a list the policies that go before a new one are a prefix of    *)
(* it, as long as there are many of them: counting them finds the place.   *)
LEMMA AheadIsPrefix ==
  ASSUME TypeOK, PoliciesSorted, NEW q \in Policies, NEW i \in DOMAIN policies
  PROVE  policies[i].priority >= q.priority
           <=> i <= Cardinality({k \in DOMAIN policies : policies[k].priority >= q.priority})
<1> DEFINE ahead == {k \in DOMAIN policies : policies[k].priority >= q.priority}
<1>1. /\ ahead \subseteq 1 .. Len(policies)
      /\ IsFiniteSet(ahead)
      /\ Cardinality(ahead) \in Nat
  BY AheadBound
<1>2. DOMAIN policies = 1 .. Len(policies) /\ Len(policies) \in Nat /\ i \in 1 .. Len(policies)
  BY LenProperties DEF TypeOK
<1>3. \A k \in DOMAIN policies : policies[k] \in Policies
  BY StackElement DEF TypeOK
<1>4. \A k \in DOMAIN policies : policies[k].priority \in Int /\ q.priority \in Int
  BY <1>3, PolicyAssumption
<1>5. ASSUME policies[i].priority >= q.priority PROVE i <= Cardinality(ahead)
  <2>1. 1 .. i \subseteq ahead
    <3> SUFFICES ASSUME NEW k \in 1 .. i PROVE k \in ahead
      OBVIOUS
    <3>1. k \in DOMAIN policies /\ k <= i
      BY <1>2
    <3>2. policies[k].priority >= policies[i].priority
      BY <3>1 DEF PoliciesSorted
    <3> QED
      BY <1>4, <1>5, <3>1, <3>2
  <2>2. Cardinality(1 .. i) = i
    BY <1>2, FS_Interval
  <2> QED
    BY <1>1, <1>2, <2>1, <2>2, FS_Subset
<1>6. ASSUME ~(policies[i].priority >= q.priority) PROVE Cardinality(ahead) <= i - 1
  <2>1. ahead \subseteq 1 .. i - 1
    <3> SUFFICES ASSUME NEW k \in ahead, ~(k <= i - 1) PROVE FALSE
      BY <1>1, <1>2
    <3>1. k \in DOMAIN policies /\ i <= k
      BY <1>1, <1>2
    <3>2. policies[i].priority >= policies[k].priority
      BY <3>1 DEF PoliciesSorted
    <3>3. policies[k].priority >= q.priority
      OBVIOUS
    <3> QED
      BY <1>4, <1>6, <3>1, <3>2, <3>3
  <2>2. i - 1 \in Int /\ 1 \in Int /\ (1 > i - 1 => i - 1 = 0) /\ (i - 1) - 1 + 1 = i - 1
    BY <1>2
  <2>3. IsFiniteSet(1 .. (i - 1)) /\ Cardinality(1 .. (i - 1)) = i - 1
    BY <2>2, FS_Interval
  <2>4. Cardinality(ahead) <= Cardinality(1 .. (i - 1))
    <3> DEFINE before == 1 .. (i - 1)
    <3>1. IsFiniteSet(before) /\ ahead \in SUBSET before
      BY <2>1, <2>3
    <3> HIDE DEF before, ahead
    <3> QED
      BY <3>1, FS_Subset DEF before
  <2> QED
    BY <2>3, <2>4
<1> QED
  BY <1>1, <1>2, <1>5, <1>6

(* Inserting at a place moves what is behind it by one.                    *)
LEMMA InsertAtProperties ==
  ASSUME NEW S, NEW s \in Seq(S), NEW e \in S, NEW n \in 0 .. Len(s)
  PROVE  /\ Len(InsertAt(s, n + 1, e)) = Len(s) + 1
         /\ DOMAIN InsertAt(s, n + 1, e) = 1 .. Len(s) + 1
         /\ \A i \in 1 .. n : InsertAt(s, n + 1, e)[i] = s[i]
         /\ InsertAt(s, n + 1, e)[n + 1] = e
         /\ \A i \in n + 2 .. Len(s) + 1 : InsertAt(s, n + 1, e)[i] = s[i - 1]
<1> DEFINE front == SubSeq(s, 1, n)
           back == SubSeq(s, n + 1, Len(s))
           t == InsertAt(s, n + 1, e)
<1>1. n \in Nat /\ Len(s) \in Nat /\ n <= Len(s) /\ \A i \in 1 .. Len(s) : s[i] \in S
  BY LenProperties, ElementOfSeq
<1>2. /\ front \in Seq(S)
      /\ Len(front) = n
      /\ \A i \in 1 .. n : front[i] = s[i]
  BY <1>1, SubSeqProperties
<1>3. /\ back \in Seq(S)
      /\ Len(back) = Len(s) - n
      /\ \A i \in 1 .. Len(s) - n : back[i] = s[n + i]
  <2>1. \A i \in n + 1 .. Len(s) : s[i] \in S
    BY <1>1
  <2>2. n + 1 \in Int /\ Len(s) \in Int
    BY <1>1
  <2>3. /\ back \in Seq(S)
        /\ Len(back) = IF n + 1 <= Len(s) THEN Len(s) - (n + 1) + 1 ELSE 0
        /\ \A i \in 1 .. Len(s) - (n + 1) + 1 : back[i] = s[(n + 1) + i - 1]
    BY <2>1, <2>2, SubSeqProperties
  <2> HIDE DEF back
  <2>4. Len(s) - (n + 1) + 1 = Len(s) - n
    BY <1>1
  <2>5. \A i \in 1 .. Len(s) - n : (n + 1) + i - 1 = n + i
    BY <1>1
  <2> QED
    BY <1>1, <2>3, <2>4, <2>5
<1> DEFINE head == front \o <<e>>
<1>4. t = head \o back
  <2>1. (n + 1) - 1 = n
    BY <1>1
  <2> QED
    BY <2>1 DEF InsertAt
<1> HIDE DEF front, back, t
<1>5. /\ head \in Seq(S)
      /\ Len(head) = n + 1
      /\ \A i \in 1 .. n : head[i] = s[i]
      /\ head[n + 1] = e
  BY <1>1, <1>2
<1> HIDE DEF head
<1>6. /\ Len(t) = (n + 1) + (Len(s) - n)
      /\ \A i \in 1 .. n + 1 : t[i] = head[i]
      /\ \A i \in n + 2 .. (n + 1) + (Len(s) - n) : t[i] = back[i - (n + 1)]
  <2>1. /\ t \in Seq(S)
        /\ Len(t) = Len(head) + Len(back)
        /\ \A i \in 1 .. Len(head) + Len(back) :
             t[i] = IF i <= Len(head) THEN head[i] ELSE back[i - Len(head)]
    BY <1>3, <1>4, <1>5, ConcatProperties
  <2>2. \A i \in 1 .. n + 1 : i \in 1 .. (n + 1) + (Len(s) - n) /\ i <= n + 1
    BY <1>1
  <2>3. \A i \in n + 2 .. (n + 1) + (Len(s) - n) :
          i \in 1 .. (n + 1) + (Len(s) - n) /\ ~(i <= n + 1)
    BY <1>1
  <2> QED
    BY <1>3, <1>5, <2>1, <2>2, <2>3
<1>7. (n + 1) + (Len(s) - n) = Len(s) + 1
  BY <1>1
<1>8. Len(t) = Len(s) + 1 /\ DOMAIN t = 1 .. Len(s) + 1
  <2>1. t \in Seq(S)
    BY <1>3, <1>4, <1>5, ConcatProperties
  <2> QED
    BY <1>6, <1>7, <2>1, LenProperties
<1>9. \A i \in n + 2 .. Len(s) + 1 : t[i] = s[i - 1]
  <2> SUFFICES ASSUME NEW i \in n + 2 .. Len(s) + 1 PROVE t[i] = s[i - 1]
    OBVIOUS
  <2>1. t[i] = back[i - (n + 1)]
    BY <1>6, <1>7
  <2>2. i - (n + 1) \in 1 .. Len(s) - n /\ n + (i - (n + 1)) = i - 1
    BY <1>1
  <2> QED
    BY <1>3, <2>1, <2>2
<1>10. \A i \in 1 .. n : t[i] = s[i]
  BY <1>1, <1>5, <1>6
<1>11. t[n + 1] = e
  BY <1>1, <1>5, <1>6
<1> QED
  BY <1>8, <1>9, <1>10, <1>11 DEF t

(* register keeps the list in descending priority.                         *)
LEMMA RegisterSorts ==
  ASSUME TypeOK, PoliciesSorted, NEW q \in Policies, Register(q)
  PROVE  PoliciesSorted'
<1> DEFINE n == Cardinality({k \in DOMAIN policies : policies[k].priority >= q.priority})
<1>1. n \in 0 .. Len(policies) /\ Len(policies) \in Nat /\ DOMAIN policies = 1 .. Len(policies)
  BY AheadBound, LenProperties DEF TypeOK
<1>2. \A k \in DOMAIN policies : policies[k].priority \in Int
  BY StackElement, PolicyAssumption DEF TypeOK
<1>3. \A k \in 1 .. n : policies[k].priority >= q.priority
  BY <1>1, AheadIsPrefix
<1>4. \A k \in n + 1 .. Len(policies) : q.priority >= policies[k].priority
  <2> SUFFICES ASSUME NEW k \in n + 1 .. Len(policies) PROVE q.priority >= policies[k].priority
    OBVIOUS
  <2>1. k \in DOMAIN policies /\ ~(k <= n)
    BY <1>1
  <2>2. ~(policies[k].priority >= q.priority)
    BY <2>1, AheadIsPrefix
  <2> QED
    BY <1>2, <2>1, <2>2, PolicyAssumption
<1>5. policies' = InsertAt(policies, n + 1, q)
  BY DEF Register
<1> HIDE DEF n
<1>6. /\ DOMAIN policies' = 1 .. Len(policies) + 1
      /\ \A i \in 1 .. n : policies'[i] = policies[i]
      /\ policies'[n + 1] = q
      /\ \A i \in n + 2 .. Len(policies) + 1 : policies'[i] = policies[i - 1]
  <2>1. policies \in Seq(Policies) /\ n \in 0 .. Len(policies)
    BY <1>1 DEF TypeOK
  <2>2. /\ DOMAIN InsertAt(policies, n + 1, q) = 1 .. Len(policies) + 1
        /\ \A i \in 1 .. n : InsertAt(policies, n + 1, q)[i] = policies[i]
        /\ InsertAt(policies, n + 1, q)[n + 1] = q
        /\ \A i \in n + 2 .. Len(policies) + 1 :
             InsertAt(policies, n + 1, q)[i] = policies[i - 1]
    BY <2>1, InsertAtProperties
  <2> QED
    BY <1>5, <2>2
<1>7. q.priority \in Int
  BY PolicyAssumption
<1> SUFFICES ASSUME NEW i \in DOMAIN policies', NEW j \in DOMAIN policies', i <= j
             PROVE  policies'[i].priority >= policies'[j].priority
  BY DEF PoliciesSorted
<1>8. CASE i <= n /\ j <= n
  BY <1>1, <1>6, <1>8 DEF PoliciesSorted
<1>9. CASE i <= n /\ j = n + 1
  BY <1>1, <1>3, <1>6, <1>9
<1>10. CASE i <= n /\ j > n + 1
  <2>1. policies'[i] = policies[i] /\ policies'[j] = policies[j - 1]
    BY <1>1, <1>6, <1>10
  <2> QED
    BY <1>1, <1>6, <1>10, <2>1 DEF PoliciesSorted
<1>11. CASE i = n + 1 /\ j = n + 1
  BY <1>6, <1>7, <1>11
<1>12. CASE i = n + 1 /\ j > n + 1
  <2>1. policies'[j] = policies[j - 1] /\ j - 1 \in n + 1 .. Len(policies)
    BY <1>1, <1>6, <1>12
  <2> QED
    BY <1>4, <1>6, <1>12, <2>1
<1>13. CASE i > n + 1 /\ j > n + 1
  <2>1. policies'[i] = policies[i - 1] /\ policies'[j] = policies[j - 1]
    BY <1>1, <1>6, <1>13
  <2>2. i - 1 \in DOMAIN policies /\ j - 1 \in DOMAIN policies /\ i - 1 <= j - 1
    BY <1>1, <1>6, <1>13
  <2> QED
    BY <2>1, <2>2 DEF PoliciesSorted
<1> QED
  BY <1>1, <1>6, <1>8, <1>9, <1>10, <1>11, <1>12, <1>13

(* register is the only operation that changes a list that is not emptied. *)
LEMMA NextSorted == TypeOK /\ PoliciesSorted /\ [Next]_vars => PoliciesSorted'
<1> SUFFICES ASSUME TypeOK, PoliciesSorted, [Next]_vars PROVE PoliciesSorted'
  OBVIOUS
<1>1. ASSUME NEW q \in Policies, Register(q) PROVE PoliciesSorted'
  BY <1>1, RegisterSorts
<1>2. ASSUME Restart PROVE PoliciesSorted'
  BY <1>2 DEF Restart, PoliciesSorted
<1>3. ASSUME UNCHANGED policies PROVE PoliciesSorted'
  BY <1>3 DEF PoliciesSorted
<1> QED
  BY <1>1, <1>2, <1>3
  DEF Next, Propose, ApplyBegin, EvaluateOne, ManualReview, ApplyReturn, ApplyRaise, SweepBegin,
      SweepStep, vars

(* In a sorted list the first policy to decide has the highest priority of *)
(* those that would.                                                       *)
LEMMA EvaluateHighest ==
  ASSUME TypeOK, PoliciesSorted, NEW r \in Patches, Evaluate(r)
  PROVE  DecidedByHighestPriority
<1> SUFFICES ASSUME NEW p \in Patches, reviewer[p] = Nobody, reviewer'[p] \in PolicyNames
             PROVE  \E i \in DOMAIN policies :
                      /\ policies[i].name = reviewer'[p]
                      /\ status'[p] = Decision(policies[i], p)
                      /\ \A j \in DOMAIN policies :
                           Decides(j, p) => policies[j].priority <= policies[i].priority
  BY DEF DecidedByHighestPriority
<1>1. PICK i \in DOMAIN policies :
        /\ IsDecider(i, r)
        /\ \/ Decision(policies[i], r) = "approved" /\ Approve(r, policies[i].name)
           \/ Decision(policies[i], r) = "rejected" /\ Reject(r, policies[i].name)
  BY DEF Evaluate
<1>2. p = r
  BY <1>1, NameAssumption DEF Approve, Reject, TypeOK, Reviewers
<1>3. policies[i].name = reviewer'[p] /\ status'[p] = Decision(policies[i], p)
  BY <1>1, <1>2 DEF Approve, Reject, TypeOK
<1>4. ASSUME NEW j \in DOMAIN policies, Decides(j, p)
      PROVE  policies[j].priority <= policies[i].priority
  <2>1. i <= j
    <3>1. ~(j < i)
      BY <1>1, <1>2, <1>4 DEF IsDecider
    <3>2. i \in Nat /\ j \in Nat
      BY LenProperties DEF TypeOK
    <3> QED
      BY <3>1, <3>2
  <2>2. policies[i].priority >= policies[j].priority
    BY <2>1 DEF PoliciesSorted
  <2>3. policies[i].priority \in Int /\ policies[j].priority \in Int
    BY StackElement, PolicyAssumption DEF TypeOK
  <2> QED
    BY <2>2, <2>3
<1> QED
  BY <1>3, <1>4

(* Only evaluate lets a policy decide, alone or in a sweep.                *)
LEMMA NextHighest == TypeOK /\ PoliciesSorted /\ [Next]_vars => [DecidedByHighestPriority]_vars
<1> SUFFICES ASSUME TypeOK, PoliciesSorted, Next PROVE DecidedByHighestPriority
  OBVIOUS
<1>1. ASSUME NEW r \in Patches, Evaluate(r) PROVE DecidedByHighestPriority
  BY <1>1, EvaluateHighest
<1>2. ASSUME NEW r \in Patches, NEW who \in People, ManualReview(r, who)
      PROVE  DecidedByHighestPriority
  <2> SUFFICES ASSUME NEW p \in Patches, reviewer[p] = Nobody, reviewer'[p] \in PolicyNames
               PROVE  FALSE
    BY DEF DecidedByHighestPriority
  <2>1. reviewer' = [reviewer EXCEPT ![r] = who]
    BY <1>2 DEF ManualReview, Approve, Reject
  <2> QED
    BY <2>1, NameAssumption DEF TypeOK, Reviewers
<1>3. ASSUME UNCHANGED reviewer PROVE DecidedByHighestPriority
  BY <1>3, NameAssumption DEF DecidedByHighestPriority, Reviewers
<1>4. ASSUME SweepStep PROVE DecidedByHighestPriority
  <2>1. Head(sweep) \in Patches
    BY <1>4 DEF SweepStep, TypeOK
  <2> QED
    BY <1>1, <1>3, <1>4, <2>1 DEF SweepStep
<1> QED
  BY <1>1, <1>2, <1>3, <1>4
  DEF Next, Propose, ApplyBegin, EvaluateOne, Register, ApplyReturn, ApplyRaise, SweepBegin,
      Restart

(* When the gate decides, no matching policy of higher priority wanted to  *)
(* approve or reject, whatever order the policies were registered in.      *)
THEOREM HighestPriorityAlwaysDecides == Spec => HighestPriorityDecides
<1>1. Init => TypeOK /\ PoliciesSorted
  BY InitType DEF Init, PoliciesSorted
<1>2. TypeOK /\ [Next]_vars => TypeOK'
  BY NextType
<1>3. TypeOK /\ PoliciesSorted /\ [Next]_vars => PoliciesSorted'
  BY NextSorted
<1>4. TypeOK /\ PoliciesSorted /\ [Next]_vars => [DecidedByHighestPriority]_vars
  BY NextHighest
<1> QED
  BY <1>1, <1>2, <1>3, <1>4, PTL DEF Spec, HighestPriorityDecides

-----------------------------------------------------------------------------
(* The audit trail accounts for its gaps.                                  *)

AuditRows ==
  [id : EventTypes \X Nat, type : EventTypes, run : {""}, ts : Nat, patch : Patches]

(* An id is free for this process as long as the counter has not reached   *)
(* it: what took it before was emitted in an earlier epoch.                *)
AuditInv ==
  /\ log \in Seq(AuditRows)
  /\ \A i \in DOMAIN history :
       /\ history[i].epoch <= epoch
       /\ history[i].epoch = epoch => history[i].n <= counter
  /\ AuditGapsExplained

(* An entry of the history has an epoch and a number.                      *)
LEMMA HistoryEntry ==
  ASSUME TypeOK, NEW i \in DOMAIN history
  PROVE  history[i].epoch \in Nat /\ history[i].n \in Nat /\ epoch \in Nat
<1>1. history[i] \in HistoryEntries /\ epoch \in Nat
  BY StackElement DEF TypeOK
<1> QED
  BY <1>1 DEF HistoryEntries

(* The row of an event carries the event's type and number as its id.      *)
LEMMA RowType ==
  ASSUME NEW type \in EventTypes, NEW n \in Nat, NEW p \in Patches
  PROVE  Row(type, n, p) \in AuditRows /\ Row(type, n, p).id = <<type, n>>
<1> DEFINE x == <<type, n>>
           r == [id |-> x, type |-> type, run |-> "", ts |-> n, patch |-> p]
<1>1. x \in EventTypes \X Nat
  OBVIOUS
<1>2. Row(type, n, p) = r
  BY DEF Row, EventId
<1> HIDE DEF x
<1>3. r \in AuditRows /\ r.id = x
  BY <1>1 DEF AuditRows
<1> HIDE DEF r
<1> QED
  BY <1>2, <1>3 DEF x

(* A store that takes the row or ignores it keeps the rows it has.         *)
LEMMA AppendRowKeeps ==
  ASSUME AuditInv, NEW row \in AuditRows, log' = AppendRow(log, row)
  PROVE  /\ log' \in Seq(AuditRows)
         /\ \A k \in DOMAIN log : k \in DOMAIN log' /\ log'[k] = log[k]
         /\ \A k \in DOMAIN log' : (k \in DOMAIN log /\ log'[k] = log[k]) \/ log'[k] = row
         /\ \/ \E k \in DOMAIN log' : log'[k] = row
            \/ \E k \in DOMAIN log : log[k].id = row.id
<1>1. log \in Seq(AuditRows)
  BY DEF AuditInv
<1>2. CASE row.id \in IdsIn(log)
  BY <1>1, <1>2 DEF AppendRow, IdsIn
<1>3. CASE row.id \notin IdsIn(log)
  <2>1. log' = Append(log, row)
    BY <1>3 DEF AppendRow
  <2>2. /\ log' \in Seq(AuditRows)
        /\ Len(log) \in Nat
        /\ DOMAIN log = 1 .. Len(log)
        /\ DOMAIN log' = 1 .. Len(log) + 1
        /\ log'[Len(log) + 1] = row
        /\ \A k \in 1 .. Len(log) : log'[k] = log[k]
    BY <1>1, <2>1, AppendProperties, LenProperties
  <2> QED
    BY <2>2
<1> QED
  BY <1>2, <1>3

(* _emit_event leaves no gap unexplained.                                  *)
LEMMA EmitExplained ==
  ASSUME TypeOK, AuditInv, NEW p \in Patches, NEW type \in EventTypes, Emit(type, p),
         UNCHANGED epoch
  PROVE  AuditInv'
<1> DEFINE h == [type |-> type, n |-> counter + 1, patch |-> p, epoch |-> epoch]
           m == Len(history) + 1
           row == Row(type, counter + 1, p)
<1>1. counter \in Nat /\ counter' = counter + 1 /\ history' = Append(history, h)
  BY DEF Emit, TypeOK
<1>2. /\ DOMAIN history = 1 .. Len(history) /\ Len(history) \in Nat
      /\ DOMAIN history' = 1 .. m /\ Len(history') = m
      /\ history'[m] = h
      /\ \A i \in DOMAIN history : i \in DOMAIN history' /\ history'[i] = history[i]
  <2>1. history \in Seq(HistoryEntries) /\ h \in HistoryEntries
    BY <1>1 DEF TypeOK, HistoryEntries, EventTypes
  <2> HIDE DEF h
  <2> QED
    BY <1>1, <2>1, AppendProperties, LenProperties
<1>3. \A i \in DOMAIN history' : i \in DOMAIN history \/ i = m
  BY <1>2
<1>4. row \in AuditRows /\ row.id = <<type, counter + 1>>
  BY <1>1, RowType
<1>5. \A i \in DOMAIN history :
        /\ history[i].epoch \in Nat /\ history[i].n \in Nat
        /\ history[i].epoch <= epoch
        /\ history[i].epoch = epoch => history[i].n <= counter
  BY HistoryEntry DEF AuditInv
<1>6. /\ log' \in Seq(AuditRows)
      /\ \A k \in DOMAIN log : k \in DOMAIN log' /\ log'[k] = log[k]
      /\ \A k \in DOMAIN log' : (k \in DOMAIN log /\ log'[k] = log[k]) \/ log'[k] = row
      /\ \/ \E k \in DOMAIN log' : log'[k] = row
         \/ m \in lost'
         \/ \E k \in DOMAIN log : log[k].id = row.id
  <2>1. CASE log' = AppendRow(log, row)
    <3> HIDE DEF row
    <3> QED
      BY <1>4, <2>1, AppendRowKeeps
  <2>2. CASE log' = log /\ lost' = lost \cup {Len(history')}
    BY <1>2, <2>2 DEF AuditInv
  <2> QED
    BY <1>1, <2>1, <2>2 DEF Emit
<1>7. lost \subseteq lost'
  BY DEF Emit
<1>8. ASSUME NEW k \in DOMAIN log, log[k].id = row.id
      PROVE  \E j \in DOMAIN history :
               /\ history[j].type = type
               /\ history[j].n = counter + 1
               /\ history[j].epoch < epoch
  <2>1. PICK j \in DOMAIN history :
          log[k] = Row(history[j].type, history[j].n, history[j].patch)
    BY DEF AuditInv, AuditGapsExplained
  <2>2. history[j].type = type /\ history[j].n = counter + 1
    <3>1. history[j] \in HistoryEntries
      BY StackElement DEF TypeOK
    <3>2. /\ history[j].type \in EventTypes
          /\ history[j].n \in Nat
          /\ history[j].patch \in Patches
      BY <3>1 DEF HistoryEntries, EventTypes
    <3>3. log[k].id = <<history[j].type, history[j].n>>
      BY <2>1, <3>2, RowType
    <3> HIDE DEF row
    <3> QED
      BY <1>4, <1>8, <3>3
  <2>3. epoch \in Nat
    BY DEF TypeOK
  <2> QED
    BY <1>1, <1>5, <2>2, <2>3
<1>9. ASSUME NEW i \in DOMAIN history'
      PROVE  /\ history'[i].epoch <= epoch'
             /\ history'[i].epoch = epoch' => history'[i].n <= counter'
  <2>1. CASE i \in DOMAIN history
    BY <1>1, <1>2, <1>5, <2>1
  <2>2. CASE i = m
    BY <1>1, <1>2, <2>2 DEF TypeOK
  <2> QED
    BY <1>3, <2>1, <2>2
<1>10. ASSUME NEW i \in DOMAIN history'
       PROVE  \/ \E k \in DOMAIN log' :
                   log'[k] = Row(history'[i].type, history'[i].n, history'[i].patch)
              \/ i \in lost'
              \/ \E j \in 1 .. i - 1 : /\ history'[j].type = history'[i].type
                                       /\ history'[j].n = history'[i].n
                                       /\ history'[j].epoch < history'[i].epoch
  <2>1. CASE i \in DOMAIN history
    <3>1. InLog(history[i]) \/ i \in lost \/ IdTaken(i)
      BY <2>1 DEF AuditInv, AuditGapsExplained
    <3>2. history'[i] = history[i] /\ \A j \in 1 .. i - 1 : history'[j] = history[j]
      BY <1>2, <2>1
    <3> QED
      BY <1>6, <1>7, <3>1, <3>2 DEF InLog, IdTaken
  <2>2. CASE i = m
    <3>1. row = Row(history'[i].type, history'[i].n, history'[i].patch)
      BY <1>2, <2>2
    <3>2. 1 .. i - 1 = DOMAIN history
      BY <1>2, <2>2
    <3>3. /\ history'[i].type = type
          /\ history'[i].n = counter + 1
          /\ history'[i].epoch = epoch
      BY <1>2, <2>2
    <3>4. CASE \E k \in DOMAIN log : log[k].id = row.id
      BY <1>2, <1>8, <3>2, <3>3, <3>4
    <3> HIDE DEF row, h
    <3> QED
      BY <1>6, <2>2, <3>1, <3>4
  <2> QED
    BY <1>3, <2>1, <2>2
<1>11. ASSUME NEW k \in DOMAIN log'
       PROVE  \E i \in DOMAIN history' :
                log'[k] = Row(history'[i].type, history'[i].n, history'[i].patch)
  <2>1. CASE k \in DOMAIN log /\ log'[k] = log[k]
    BY <1>2, <2>1 DEF AuditInv, AuditGapsExplained
  <2>2. CASE log'[k] = row
    <3>1. m \in DOMAIN history'
      BY <1>2
    <3> QED
      BY <1>2, <2>2, <3>1
  <2> QED
    BY <1>6, <2>1, <2>2
<1> QED
  BY <1>6, <1>9, <1>10, <1>11 DEF AuditInv, AuditGapsExplained, InLog, IdTaken

(* Before anything happened there is nothing to explain.                   *)
LEMMA InitAudit == Init => AuditInv
BY EmptySeq DEF Init, AuditInv, AuditGapsExplained

(* Only a transition emits; a restart starts an epoch, so that every entry *)
(* made so far is one of an earlier process.                               *)
LEMMA NextAudit == TypeOK /\ AuditInv /\ [Next]_vars => AuditInv'
<1> SUFFICES ASSUME TypeOK, AuditInv, [Next]_vars PROVE AuditInv'
  OBVIOUS
<1>1. ASSUME NEW p \in Patches, NEW type \in EventTypes, Emit(type, p), UNCHANGED epoch
      PROVE  AuditInv'
  BY <1>1, EmitExplained
<1>2. ASSUME UNCHANGED <<counter, log, epoch, history, lost>> PROVE AuditInv'
  BY <1>2 DEF AuditInv, AuditGapsExplained, InLog, IdTaken
<1>3. ASSUME NEW p \in Patches, NEW who, Approve(p, who) \/ Reject(p, who), UNCHANGED epoch
      PROVE  AuditInv'
  BY <1>1, <1>3 DEF Approve, Reject, EventTypes
<1>4. ASSUME NEW p \in Patches, Evaluate(p), UNCHANGED epoch PROVE AuditInv'
  BY <1>3, <1>4 DEF Evaluate
<1>5. ASSUME NEW p \in Patches, Propose(p) PROVE AuditInv'
  BY <1>1, <1>5 DEF Propose, EventTypes
<1>6. ASSUME ApplyReturn PROVE AuditInv'
  <2>1. Last(calls) \in Patches
    BY <1>6, StackPop DEF ApplyReturn, TypeOK
  <2> QED
    BY <1>1, <1>6, <2>1 DEF ApplyReturn, EventTypes
<1>7. ASSUME SweepStep PROVE AuditInv'
  <2>1. Head(sweep) \in Patches
    BY <1>7 DEF SweepStep, TypeOK
  <2> QED
    BY <1>2, <1>4, <1>7, <2>1 DEF SweepStep
<1>8. ASSUME Restart PROVE AuditInv'
  <2>1. UNCHANGED <<log, history, lost>> /\ epoch' = epoch + 1
    BY <1>8 DEF Restart
  <2>2. ASSUME NEW i \in DOMAIN history PROVE history[i].epoch < epoch'
    <3>1. history[i].epoch \in Nat /\ history[i].epoch <= epoch /\ epoch \in Nat
      BY HistoryEntry DEF AuditInv
    <3> QED
      BY <2>1, <3>1
  <2>3. ASSUME NEW i \in DOMAIN history
        PROVE  history[i].epoch <= epoch' /\ history[i].epoch # epoch'
    <3>1. history[i].epoch \in Nat /\ epoch' \in Nat
      BY <2>1, HistoryEntry
    <3> QED
      BY <2>2, <3>1
  <2>4. AuditGapsExplained'
    BY <2>1 DEF AuditInv, AuditGapsExplained, InLog, IdTaken
  <2> QED
    BY <2>1, <2>3, <2>4 DEF AuditInv
<1> QED
  BY <1>2, <1>3, <1>4, <1>5, <1>6, <1>7, <1>8
  DEF Next, EvaluateOne, ManualReview, ApplyBegin, ApplyRaise, Register, SweepBegin, vars

(* Over any number of restarts and store failures, a transition is missing *)
(* from the audit log only because its append failed or because an earlier *)
(* process had used its id, and the log holds nothing that did not happen. *)
THEOREM AuditGapsAlwaysExplained == Spec => []AuditGapsExplained
<1>1. Init => TypeOK /\ AuditInv
  BY InitType, InitAudit
<1>2. TypeOK /\ AuditInv /\ [Next]_vars => TypeOK' /\ AuditInv'
  BY NextType, NextAudit
<1>3. AuditInv => AuditGapsExplained
  BY DEF AuditInv
<1> QED
  BY <1>1, <1>2, <1>3, PTL DEF Spec
-----------------------------------------------------------------------------
(* The log tells the status.                                               *)

(* The last row of a proposal, in append order, tells its status.          *)
LastRowTells(p) ==
  \/ status[p] = "absent" /\ \A i \in DOMAIN log : log[i].patch # p
  \/ \E i \in DOMAIN log :
       /\ log[i].patch = p
       /\ status[p] = StatusAfter(log[i].type)
       /\ \A j \in DOMAIN log : i < j => log[j].patch # p

(* As long as no append was lost and the counter was never reset, the rows *)
(* are numbered by it: reading order is append order.                      *)
TrailInv ==
  epoch = 0 /\ lost = {} =>
    /\ counter = Len(log)
    /\ \A i \in DOMAIN log : log[i].ts = i /\ log[i].id[2] = i
    /\ \A p \in Patches : LastRowTells(p)

(* The record of a transition goes behind all others and tells the status  *)
(* the transition leads to.                                                *)
LEMMA EmitTells ==
  ASSUME TypeOK, AuditInv, TrailInv, NEW p \in Patches, NEW type \in EventTypes, Emit(type, p),
         UNCHANGED epoch, status' = [status EXCEPT ![p] = StatusAfter(type)]
  PROVE  TrailInv'
<1> SUFFICES ASSUME epoch' = 0, lost' = {}
             PROVE  /\ counter' = Len(log')
                    /\ \A i \in DOMAIN log' : log'[i].ts = i /\ log'[i].id[2] = i
                    /\ \A q \in Patches : LastRowTells(q)'
  BY DEF TrailInv
<1> DEFINE row == Row(type, counter + 1, p)
           m == Len(log) + 1
<1>1. counter' = counter + 1 /\ lost = {} /\ log' = AppendRow(log, row)
  BY DEF Emit
<1>2. /\ counter = Len(log)
      /\ \A i \in DOMAIN log : log[i].ts = i /\ log[i].id[2] = i
      /\ \A q \in Patches : LastRowTells(q)
  BY <1>1 DEF TrailInv
<1>3. log \in Seq(AuditRows) /\ DOMAIN log = 1 .. Len(log) /\ Len(log) \in Nat
  BY LenProperties DEF AuditInv
<1>4. /\ row \in AuditRows
      /\ row.id = <<type, m>>
      /\ row.ts = m
      /\ row.type = type
      /\ row.patch = p
  <2>1. counter + 1 = m /\ counter + 1 \in Nat
    BY <1>2, <1>3
  <2>2. row \in AuditRows /\ row.id = <<type, counter + 1>>
    BY <2>1, RowType
  <2>3. row.ts = counter + 1 /\ row.type = type /\ row.patch = p
    BY DEF Row
  <2> QED
    BY <2>1, <2>2, <2>3
<1>5. row.id \notin IdsIn(log)
  <2> SUFFICES ASSUME NEW i \in DOMAIN log, log[i].id = row.id PROVE FALSE
    BY DEF IdsIn
  <2>1. log[i].id[2] = i /\ row.id[2] = m
    BY <1>2, <1>4
  <2> QED
    BY <1>3, <2>1
<1> HIDE DEF row
<1>6. log' = Append(log, row)
  BY <1>1, <1>5 DEF AppendRow
<1>7. /\ Len(log') = m
      /\ DOMAIN log' = 1 .. m
      /\ log'[m] = row
      /\ \A i \in DOMAIN log : log'[i] = log[i]
  BY <1>3, <1>4, <1>6, AppendProperties, LenProperties
<1>8. \A i \in DOMAIN log' : i = m \/ (i \in DOMAIN log /\ i < m)
  BY <1>3, <1>7
<1>9. ASSUME NEW i \in DOMAIN log' PROVE log'[i].ts = i /\ log'[i].id[2] = i
  BY <1>2, <1>4, <1>7, <1>8
<1>10. ASSUME NEW q \in Patches PROVE LastRowTells(q)'
  <2>1. CASE q = p
    <3>1. status'[p] = StatusAfter(log'[m].type) /\ m \in DOMAIN log' /\ log'[m].patch = p
      BY <1>3, <1>4, <1>7 DEF TypeOK
    <3>2. \A j \in DOMAIN log' : ~(m < j)
      BY <1>3, <1>7
    <3> QED
      BY <2>1, <3>1, <3>2 DEF LastRowTells
  <2>2. CASE q # p
    <3>1. status'[q] = status[q] /\ LastRowTells(q)
      BY <1>2, <2>2 DEF TypeOK
    <3>2. log'[m].patch # q
      BY <1>4, <1>7, <2>2
    <3>3. CASE status[q] = "absent" /\ \A i \in DOMAIN log : log[i].patch # q
      BY <1>7, <1>8, <3>1, <3>2, <3>3 DEF LastRowTells
    <3>4. ASSUME NEW i \in DOMAIN log, log[i].patch = q, status[q] = StatusAfter(log[i].type),
                 \A j \in DOMAIN log : i < j => log[j].patch # q
          PROVE  LastRowTells(q)'
      <4>1. i \in DOMAIN log' /\ log'[i] = log[i]
        BY <1>3, <1>7
      <4>2. \A j \in DOMAIN log' : i < j => log'[j].patch # q
        BY <1>7, <1>8, <3>2, <3>4
      <4> QED
        BY <3>1, <3>4, <4>1, <4>2 DEF LastRowTells
    <3> QED
      BY <3>1, <3>3, <3>4 DEF LastRowTells
  <2> QED
    BY <2>1, <2>2
<1>11. counter' = Len(log')
  BY <1>1, <1>2, <1>3, <1>7
<1> QED
  BY <1>9, <1>10, <1>11

(* At the start there is no row and no proposal.                           *)
LEMMA InitTrail == Init => TrailInv
BY DEF Init, TrailInv, LastRowTells

(* Every transition of a proposal is emitted with the event of the status  *)
(* it leads to.                                                            *)
LEMMA NextTrail == TypeOK /\ AuditInv /\ TrailInv /\ [Next]_vars => TrailInv'
<1> SUFFICES ASSUME TypeOK, AuditInv, TrailInv, [Next]_vars PROVE TrailInv'
  OBVIOUS
<1>1. ASSUME UNCHANGED <<status, counter, log, epoch, lost>> PROVE TrailInv'
  BY <1>1 DEF TrailInv, LastRowTells
<1>2. ASSUME NEW p \in Patches, NEW who, Approve(p, who) \/ Reject(p, who), UNCHANGED epoch
      PROVE  TrailInv'
  BY <1>2, EmitTells DEF Approve, Reject, EventTypes, StatusAfter
<1>3. ASSUME NEW p \in Patches, Evaluate(p), UNCHANGED epoch PROVE TrailInv'
  BY <1>2, <1>3 DEF Evaluate
<1>4. ASSUME NEW p \in Patches, Propose(p) PROVE TrailInv'
  BY <1>4, EmitTells DEF Propose, EventTypes, StatusAfter
<1>5. ASSUME ApplyReturn PROVE TrailInv'
  <2>1. Last(calls) \in Patches
    BY <1>5, StackPop DEF ApplyReturn, TypeOK
  <2> QED
    BY <1>5, <2>1, EmitTells DEF ApplyReturn, EventTypes, StatusAfter
<1>6. ASSUME SweepStep PROVE TrailInv'
  <2>1. Head(sweep) \in Patches
    BY <1>6 DEF SweepStep, TypeOK
  <2> QED
    BY <1>1, <1>3, <1>6, <2>1 DEF SweepStep
<1>7. ASSUME Restart PROVE TrailInv'
  <2>1. epoch' # 0
    BY <1>7 DEF Restart, TypeOK
  <2> QED
    BY <2>1 DEF TrailInv
<1> QED
  BY <1>1, <1>2, <1>3, <1>4, <1>5, <1>6, <1>7
  DEF Next, EvaluateOne, ManualReview, ApplyBegin, ApplyRaise, Register, SweepBegin, vars

(* The row of a proposal that comes last in append order is read last.     *)
LEMMA TrailRead == TypeOK /\ AuditInv /\ TrailInv => AuditTellsStatus
<1> SUFFICES ASSUME AuditInv, TrailInv, epoch = 0, lost = {}, NEW p \in Patches
             PROVE  status[p] = AuditedStatus(p)
  BY DEF AuditTellsStatus
<1> DEFINE at == {i \in DOMAIN log : log[i].patch = p}
           trail == IterRows(log, at)
<1>1. DOMAIN log = 1 .. Len(log) /\ Len(log) \in Nat
  BY LenProperties DEF AuditInv
<1>2. LastRowTells(p) /\ \A i \in DOMAIN log : log[i].ts = i
  BY DEF TrailInv
<1>3. ReadableRows(log, at)
  <2>1. IsFiniteSet(1 .. Len(log)) /\ at \subseteq 1 .. Len(log)
    BY <1>1, FS_Interval
  <2>2. IsFiniteSet(at) /\ at \subseteq Nat
    BY <1>1, <2>1, FS_Subset
  <2> QED
    BY <1>1, <1>2, <2>2 DEF ReadableRows
<1>4. CASE status[p] = "absent" /\ \A i \in DOMAIN log : log[i].patch # p
  <2>1. at = {}
    BY <1>4
  <2>2. Cardinality(at) = 0
    BY <2>1, FS_EmptySet
  <2> HIDE DEF at
  <2>3. trail = << >>
    BY <2>2 DEF IterRows
  <2> QED
    BY <1>4, <2>3 DEF AuditedStatus, at
<1>5. ASSUME NEW i \in DOMAIN log, log[i].patch = p, status[p] = StatusAfter(log[i].type),
             \A j \in DOMAIN log : i < j => log[j].patch # p
      PROVE  status[p] = AuditedStatus(p)
  <2>1. \A j \in at : j = i \/ Earlier(log, j, i)
    BY <1>1, <1>2, <1>5 DEF Earlier
  <2>2. i \in at
    BY <1>5
  <2> HIDE DEF at
  <2>3. trail # << >> /\ Last(trail) = log[i]
    BY <1>3, <2>1, <2>2, LastRead
  <2> QED
    BY <1>5, <2>3 DEF AuditedStatus, at
<1> QED
  BY <1>2, <1>4, <1>5 DEF LastRowTells

(* "The event log becomes the single source of truth": until a restart and *)
(* as long as the store takes every event, the last event of a proposal in *)
(* reading order tells its status.                                         *)
THEOREM AuditAlwaysTellsStatus == Spec => []AuditTellsStatus
<1>1. Init => TypeOK /\ AuditInv /\ TrailInv
  BY InitType, InitAudit, InitTrail
<1>2. TypeOK /\ AuditInv /\ TrailInv /\ [Next]_vars => TypeOK' /\ AuditInv' /\ TrailInv'
  BY NextType, NextAudit, NextTrail
<1>3. TypeOK /\ AuditInv /\ TrailInv => AuditTellsStatus
  BY TrailRead
<1> QED
  BY <1>1, <1>2, <1>3, PTL DEF Spec
-----------------------------------------------------------------------------
(* A sweep decides whatever a policy decides.                              *)

(* What list_pending has to find, and what a sweep in progress still has   *)
(* to come to: every proposal that waits for a decision some policy makes. *)
SweepInv ==
  \A p \in Patches : status[p] = "pending" =>
    /\ \E i \in DOMAIN order : order[i] = p
    /\ sweep # << >> => NobodyDecides(p) \/ \E i \in DOMAIN sweep : sweep[i] = p

(* list_pending leaves out no pending proposal: an increasing sequence of  *)
(* as many positions as there are has them all.                            *)
LEMMA ListPendingAll ==
  ASSUME TypeOK, NEW s \in ListPending, NEW i \in DOMAIN order, status[order[i]] = "pending"
  PROVE  \E k \in DOMAIN s : s[k] = order[i]
<1> DEFINE at == {j \in DOMAIN order : status[order[j]] = "pending"}
           n == Cardinality(at)
<1>1. IsFiniteSet(at) /\ n \in Nat /\ at \subseteq Nat
  <2>1. order \in Seq(Patches) /\ IsFiniteSet(1 .. Len(order))
    BY FS_Interval DEF TypeOK
  <2>2. at \subseteq 1 .. Len(order)
    BY <2>1
  <2> QED
    BY <2>1, <2>2, FS_Subset, FS_CardinalityType
<1>2. PICK f \in [1 .. n -> at] :
        /\ \A j, k \in DOMAIN f : j < k => f[j] < f[k]
        /\ s = [k \in 1 .. n |-> order[f[k]]]
  BY DEF ListPending
<1>3. i \in at
  OBVIOUS
<1> HIDE DEF at
<1>4. IsFiniteSet(1 .. n) /\ Cardinality(1 .. n) = n
  BY <1>1, FS_Interval
<1>5. f \in Injection(1 .. n, at)
  <2> SUFFICES ASSUME NEW j \in 1 .. n, NEW k \in 1 .. n, f[j] = f[k] PROVE j = k
    BY DEF Injection, IsInjective
  <2>1. f[j] \in Nat /\ j \in DOMAIN f /\ k \in DOMAIN f
    BY <1>1
  <2> QED
    BY <1>1, <1>2, <2>1
<1>6. f \in Surjection(1 .. n, at)
  BY <1>1, <1>4, <1>5, FS_Injection
<1>7. PICK k \in 1 .. n : f[k] = i
  BY <1>3, <1>6 DEF Surjection
<1>8. s[k] = order[i] /\ k \in DOMAIN s
  BY <1>2, <1>7
<1> QED
  BY <1>8

(* Deciding one proposal moves no other.                                   *)
LEMMA EvaluateDecides ==
  ASSUME TypeOK, NEW p \in Patches, Evaluate(p), NEW q \in Patches, status'[q] = "pending"
  PROVE  q # p /\ status[q] = "pending"
<1>1. PICK who \in PolicyNames : Approve(p, who) \/ Reject(p, who)
  BY EvaluateReviews
<1> QED
  BY <1>1 DEF Approve, Reject, TypeOK

(* One step of the sweep decides its proposal or finds that nobody does:   *)
(* what still waits is behind it in the list, or no policy's business.     *)
LEMMA SweepStepDecides ==
  ASSUME TypeOK, SweepInv, SweepStep, NEW q \in Patches, status'[q] = "pending"
  PROVE  /\ status[q] = "pending"
         /\ NobodyDecides(q) \/ (\E i \in DOMAIN sweep' : sweep'[i] = q)
<1> DEFINE p == Head(sweep)
<1>1. /\ sweep \in Seq(Patches) /\ sweep # << >>
      /\ p \in Patches /\ p = sweep[1]
      /\ sweep' = Tail(sweep)
  BY DEF SweepStep, TypeOK
<1>2. Evaluate(p) \/ (NobodyDecides(p) /\ status' = status)
  BY DEF SweepStep
<1>3. status[q] = "pending" /\ (q # p \/ NobodyDecides(q))
  BY <1>1, <1>2, EvaluateDecides
<1>4. ASSUME q # p, NEW i \in DOMAIN sweep, sweep[i] = q
      PROVE  \E k \in DOMAIN sweep' : sweep'[k] = q
  <2>1. i - 1 \in DOMAIN Tail(sweep) /\ Tail(sweep)[i - 1] = sweep[i]
    BY <1>1, <1>4
  <2> QED
    BY <1>1, <1>4, <2>1
<1> QED
  BY <1>1, <1>3, <1>4 DEF SweepInv

(* At the start nothing waits.                                             *)
LEMMA InitSweep == Init => SweepInv
BY DEF Init, SweepInv

(* Nothing but the sweep itself runs while there is one; the policies are  *)
(* those it started with.                                                  *)
LEMMA NextSweep == TypeOK /\ SweepInv /\ [Next]_vars => SweepInv'
<1> SUFFICES ASSUME TypeOK, SweepInv, [Next]_vars PROVE SweepInv'
  OBVIOUS
<1>1. ASSUME UNCHANGED <<status, order, policies, sweep>> PROVE SweepInv'
  BY <1>1 DEF SweepInv, NobodyDecides, Decides
<1>2. ASSUME NotSweeping, UNCHANGED <<order, sweep>>,
             \A q \in Patches : status'[q] = "pending" => status[q] = "pending"
      PROVE  SweepInv'
  BY <1>2 DEF SweepInv, NotSweeping
<1>3. ASSUME NEW p \in Patches, Propose(p) PROVE SweepInv'
  <2>1. /\ order' = Append(order, p) /\ order \in Seq(Patches)
        /\ sweep' = << >>
        /\ \A q \in Patches : status'[q] = "pending" => q = p \/ status[q] = "pending"
    BY <1>3 DEF Propose, NotSweeping, TypeOK
  <2>2. ASSUME NEW q \in Patches, status'[q] = "pending"
        PROVE  \E i \in DOMAIN order' : order'[i] = q
    <3>1. CASE q = p
      <4>1. Len(order) + 1 \in DOMAIN order' /\ order'[Len(order) + 1] = p
        BY <2>1
      <4> QED
        BY <3>1, <4>1
    <3>2. CASE q # p
      <4>1. PICK i \in DOMAIN order : order[i] = q
        BY <2>1, <2>2, <3>2 DEF SweepInv
      <4>2. i \in DOMAIN order' /\ order'[i] = order[i]
        BY <2>1
      <4> QED
        BY <4>1, <4>2
    <3> QED
      BY <3>1, <3>2
  <2> QED
    BY <2>1, <2>2 DEF SweepInv
<1>4. ASSUME NEW p \in Patches, EvaluateOne(p) PROVE SweepInv'
  <2>1. \A q \in Patches : status'[q] = "pending" => status[q] = "pending"
    BY <1>4, EvaluateDecides DEF EvaluateOne
  <2> QED
    BY <1>2, <1>4, <2>1 DEF EvaluateOne
<1>5. ASSUME NEW p \in Patches, NEW who \in People, ManualReview(p, who) PROVE SweepInv'
  <2>1. \A q \in Patches : status'[q] = "pending" => status[q] = "pending"
    BY <1>5 DEF ManualReview, Approve, Reject, TypeOK
  <2> QED
    BY <1>2, <1>5, <2>1 DEF ManualReview
<1>6. ASSUME NEW q \in Policies, Register(q) PROVE SweepInv'
  BY <1>2, <1>6 DEF Register
<1>7. ASSUME ApplyReturn PROVE SweepInv'
  <2>1. \A q \in Patches : status'[q] = "pending" => status[q] = "pending"
    BY <1>7 DEF ApplyReturn, TypeOK
  <2> QED
    BY <1>2, <1>7, <2>1 DEF ApplyReturn
<1>8. ASSUME SweepBegin PROVE SweepInv'
  <2>1. sweep' \in ListPending /\ UNCHANGED <<status, order, policies>>
    BY <1>8 DEF SweepBegin
  <2>2. ASSUME NEW q \in Patches, status[q] = "pending"
        PROVE  /\ \E i \in DOMAIN order : order[i] = q
               /\ \E k \in DOMAIN sweep' : sweep'[k] = q
    <3>1. PICK i \in DOMAIN order : order[i] = q
      BY <2>2 DEF SweepInv
    <3> QED
      BY <2>1, <2>2, <3>1, ListPendingAll
  <2> QED
    BY <2>1, <2>2 DEF SweepInv
<1>9. ASSUME SweepStep PROVE SweepInv'
  <2>1. UNCHANGED <<order, policies>>
    BY <1>9 DEF SweepStep
  <2> QED
    BY <1>9, <2>1, SweepStepDecides DEF SweepInv, NobodyDecides, Decides
<1>10. ASSUME Restart PROVE SweepInv'
  BY <1>10 DEF Restart, SweepInv
<1> QED
  BY <1>1, <1>3, <1>4, <1>5, <1>6, <1>7, <1>8, <1>9, <1>10
  DEF Next, ApplyBegin, ApplyRaise, vars

(* A sweep ends with its last step.                                        *)
LEMMA NextSkipsNothing == TypeOK /\ SweepInv /\ [Next]_vars => [SweepSkipsNothing]_vars
<1> SUFFICES ASSUME TypeOK, SweepInv, Next,
                    sweep # << >>, sweep' = << >>, epoch' = epoch,
                    NEW q \in Patches, status'[q] = "pending"
             PROVE  NobodyDecides(q)
  BY DEF SweepSkipsNothing
<1>1. ~Restart
  BY DEF Restart, TypeOK
<1>2. SweepStep
  BY <1>1 DEF Next, Propose, ApplyBegin, EvaluateOne, ManualReview, Register, ApplyReturn,
               ApplyRaise, SweepBegin, NotSweeping
<1> QED
  BY <1>2, SweepStepDecides

(* A finished evaluate_all_pending leaves pending only what no policy      *)
(* decides: the loop skips nothing although it changes what it lists.      *)
THEOREM SweepAlwaysDecidesAll == Spec => SweepDecidesAll
<1>1. Init => TypeOK /\ SweepInv
  BY InitType, InitSweep
<1>2. TypeOK /\ SweepInv /\ [Next]_vars => TypeOK' /\ SweepInv'
  BY NextType, NextSweep
<1>3. TypeOK /\ SweepInv /\ [Next]_vars => [SweepSkipsNothing]_vars
  BY NextSkipsNothing
<1> QED
  BY <1>1, <1>2, <1>3, PTL DEF Spec, SweepDecidesAll
=============================================================================

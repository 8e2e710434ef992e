----------------------------- MODULE RepairLoop -----------------------------
(***************************************************************************)
(* RepairLoopUseCase.run over the deterministic validator of task graphs:  *)
(* validate, ask for a patch for the most urgent gap, apply it, keep the   *)
(* result only if the measurable-improvement gate lets it through.         *)
(*                                                                         *)
(* The loop is sequential; what it cannot foresee is what execute_action   *)
(* hands back, any of Patches or nothing.  Every gap has the same class    *)
(* and severity (_classify_gaps), so which gap it asks about changes       *)
(* nothing but the log of actions, which is left out.                      *)
(***************************************************************************)
EXTENDS TaskGraph

CONSTANTS
  InitialGraphs,  (* what run may be called with                           *)
  Patches,        (* what execute_action may return, besides nothing       *)
  MaxCycles       (* max(1, max_cycles)                                    *)

ASSUME InitialAssumption == \A g \in InitialGraphs : IsGraph(g)
ASSUME PatchAssumption ==
  \A p \in Patches : p.nodes \subseteq Nodes /\ p.edges \subseteq PatchEdges
ASSUME CycleAssumption == MaxCycles \in Nat \ {0}

VARIABLES
  graph,       (* current                                                  *)
  cycles, accepted, rejected,
  seen,        (* seen_fingerprints                                        *)
  status,      (* "running", then RepairStatus, or "raised"                *)
  initial,     (* ghost: the graph run was called with                     *)
  rejectedOn,  (* ghost: the graphs a patch was rejected on                *)
  stop         (* ghost: what ended the loop                               *)

vars == <<graph, cycles, accepted, rejected, seen, status, initial, rejectedOn, stop>>

Init ==
  /\ graph \in InitialGraphs
  /\ cycles = 0
  /\ accepted = 0
  /\ rejected = 0
  /\ seen = {}
  /\ status = "running"
  /\ initial = graph
  /\ rejectedOn = {}
  /\ stop = "none"

-----------------------------------------------------------------------------
(* The loop.                                                               *)

Fingerprint(g) == <<Cardinality(g.nodes), Cardinality(g.edges)>>

Repairing == status = "running" /\ cycles < MaxCycles

(* The validator finds nothing to repair.                                  *)
Complete ==
  /\ Repairing
  /\ Gaps(graph) = {}
  /\ status' = "completed"
  /\ stop' = "clean"
  /\ UNCHANGED <<graph, cycles, accepted, rejected, seen, initial, rejectedOn>>

(* execute_action returns nothing: the cycle is used up.                   *)
(* Mutant: the count starts over before it reaches the bound.              *)
NoPatchWraps ==
  /\ Repairing
  /\ Gaps(graph) # {}
  /\ cycles' = (cycles + 1) % MaxCycles
  /\ UNCHANGED <<graph, accepted, rejected, seen, status, initial, rejectedOn, stop>>

NoPatch ==
  /\ Repairing
  /\ Gaps(graph) # {}
  /\ cycles' = cycles + 1
  /\ UNCHANGED <<graph, accepted, rejected, seen, status, initial, rejectedOn, stop>>

(* After the loop: the status is told from the counts alone.               *)
Finish(reason) ==
  /\ status' = IF accepted = 0 /\ rejected > 0 THEN "failed" ELSE "partial"
  /\ stop' = reason

(* It returns a patch, but one was tried on a graph with as many nodes and *)
(* edges before: break.                                                    *)
LoopDetected ==
  /\ Repairing
  /\ Gaps(graph) # {}
  /\ Patches # {}
  /\ Fingerprint(graph) \in seen
  /\ Finish("loop")
  /\ UNCHANGED <<graph, cycles, accepted, rejected, seen, initial, rejectedOn>>

(* It returns patch p: apply, validate again, keep or drop the result.     *)
(* Mutant: the candidate is kept before the gate has spoken.               *)
TryPatchKeeps(p) ==
  /\ Repairing
  /\ Gaps(graph) # {}
  /\ Fingerprint(graph) \notin seen
  /\ seen' = seen \cup {Fingerprint(graph)}
  /\ Applies(graph, p)
  /\ graph' = Patched(graph, p)
  /\ \/ Improves(graph, graph') /\ accepted' = accepted + 1 /\ UNCHANGED <<rejected, rejectedOn>>
     \/ /\ ~Improves(graph, graph')
        /\ rejected' = rejected + 1
        /\ rejectedOn' = rejectedOn \cup {graph}
        /\ UNCHANGED accepted
  /\ cycles' = cycles + 1
  /\ UNCHANGED <<status, initial, stop>>

(* Mutant: the fingerprint is that of the graph tried, not of the current. *)
TryPatchSeesCandidate(p) ==
  /\ Repairing
  /\ Gaps(graph) # {}
  /\ Fingerprint(graph) \notin seen
  /\ seen' = seen \cup {Fingerprint(Patched(graph, p))}
  /\ Applies(graph, p)
  /\ \/ /\ Improves(graph, Patched(graph, p))
        /\ graph' = Patched(graph, p)
        /\ accepted' = accepted + 1
        /\ UNCHANGED <<rejected, rejectedOn>>
     \/ /\ ~Improves(graph, Patched(graph, p))
        /\ rejected' = rejected + 1
        /\ rejectedOn' = rejectedOn \cup {graph}
        /\ UNCHANGED <<graph, accepted>>
  /\ cycles' = cycles + 1
  /\ UNCHANGED <<status, initial, stop>>

TryPatch(p) ==
  /\ Repairing
  /\ Gaps(graph) # {}
  /\ Fingerprint(graph) \notin seen
  /\ seen' = seen \cup {Fingerprint(graph)}
  /\ Applies(graph, p)
  /\ \/ /\ Improves(graph, Patched(graph, p))
        /\ graph' = Patched(graph, p)
        /\ accepted' = accepted + 1
        /\ UNCHANGED <<rejected, rejectedOn>>
     \/ /\ ~Improves(graph, Patched(graph, p))
        /\ rejected' = rejected + 1
        /\ rejectedOn' = rejectedOn \cup {graph}
        /\ UNCHANGED <<graph, accepted>>
  /\ cycles' = cycles + 1
  /\ UNCHANGED <<status, initial, stop>>

(* It returns a patch with such an edge: apply raises out of run.          *)
PatchRaises(p) ==
  /\ Repairing
  /\ Gaps(graph) # {}
  /\ Fingerprint(graph) \notin seen
  /\ ~Applies(graph, p)
  /\ status' = "raised"
  /\ stop' = "raised"
  /\ UNCHANGED <<graph, cycles, accepted, rejected, seen, initial, rejectedOn>>

BudgetExhausted ==
  /\ status = "running"
  /\ cycles >= MaxCycles
  /\ Finish("budget")
  /\ UNCHANGED <<graph, cycles, accepted, rejected, seen, initial, rejectedOn>>

Next ==
  \/ Complete
  \/ NoPatch
  \/ LoopDetected
  \/ \E p \in Patches : TryPatch(p) \/ PatchRaises(p)
  \/ BudgetExhausted

Spec == Init /\ [][Next]_vars

(* The loop goes on as long as execute_action comes back.                  *)
FairSpec == Spec /\ WF_vars(Next)

-----------------------------------------------------------------------------
(* Properties.                                                             *)

(* Types; every graph the loop holds is free of dangling edges.            *)
TypeOK ==
  /\ IsGraph(graph)
  /\ IsGraph(initial)
  /\ cycles \in 0 .. MaxCycles
  /\ accepted \in Nat
  /\ rejected \in Nat
  /\ accepted + rejected <= cycles
  /\ seen \subseteq Nat \X Nat
  /\ status \in {"running", "completed", "partial", "failed", "raised"}
  /\ stop \in {"none", "clean", "loop", "budget", "raised"}

(* The validator against its meaning, for every graph the loop holds: a    *)
(* claim is grounded iff it is in every set that holds the facts and the   *)
(* evidence and is closed under support; a goal is supported iff every set *)
(* that holds its sources and is closed backwards meets the grounded ids.  *)
GroundedRef(g) ==
  {id \in IdsOf(g.nodes) :
     \A S \in SUBSET IdsOf(g.nodes) :
       IdsOf(OfKind(g, {"fact", "evidence"})) \subseteq S /\ Gain(g, S) \subseteq S => id \in S}

ValidatorFindsPaths ==
  /\ Grounded(graph) = GroundedRef(graph)
  /\ \A n \in Goals(graph) :
       GoalSupported(graph, n) <=>
         \A S \in SUBSET IdsOf(graph.nodes) :
           Sources(graph, S \cup {IdOf[n]}) \subseteq S => S \cap GroundedRef(graph) # {}

(* Patches only add, so an accepted one has supported one more goal node   *)
(* at least, and none that was supported is lost: however the two arms of  *)
(* the gate combine, the loop cannot accept for ever.                      *)
AcceptancesSupportGoals ==
  /\ SupportedGoals(initial) \subseteq SupportedGoals(graph)
  /\ Cardinality(SupportedGoals(graph)) >= Cardinality(SupportedGoals(initial)) + accepted

(* "Without worsening hard constraints", over the whole run.               *)
NoNewViolations == Violations(graph) = Violations(initial)

(* Loop detection compares two counts and leaves the patch out, yet it     *)
(* never stops the loop on a graph nothing was rejected on, and no graph   *)
(* has two rejections.                                                     *)
LoopBreaksAfterRejection ==
  /\ stop = "loop" => graph \in rejectedOn
  /\ rejected = Cardinality(rejectedOn)
  /\ rejected <= accepted + 1

(* What a caller may read from the status: completed means no gap is left, *)
(* partial means one is left unless patches were accepted and all cycles   *)
(* used, failed means the graph is the one that was given, with gaps.      *)
StatusTellsOutcome ==
  /\ status = "completed" => Gaps(graph) = {}
  /\ status = "partial" /\ Gaps(graph) = {} => cycles = MaxCycles /\ accepted > 0
  /\ status = "failed" => graph = initial /\ Gaps(graph) # {}

(* "max_cycles enforced": run returns or raises.                           *)
Terminates == <>(status # "running")
=============================================================================

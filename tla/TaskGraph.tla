----------------------------- MODULE TaskGraph ------------------------------
(***************************************************************************)
(* Task graphs, their deterministic validator and the patches that change  *)
(* them: the values that RepairLoop and Reasoning compute with.            *)
(*                                                                         *)
(* A node is an object, not an id: TaskNode compares created_at too, so a  *)
(* patch that adds a known id again leaves two nodes with that id in the   *)
(* graph.  Edges join ids.                                                 *)
(***************************************************************************)
EXTENDS Naturals, FiniteSets

CONSTANTS
  Nodes,          (* node objects                                          *)
  IdOf,           (* IdOf[n]: its TaskNodeId                               *)
  KindOf          (* KindOf[n]: its NodeKind                               *)

ASSUME NodeAssumption ==
  IsFiniteSet(Nodes) /\ DOMAIN IdOf = Nodes /\ DOMAIN KindOf = Nodes

NodeIds == {IdOf[n] : n \in Nodes}

(* "supports" stands for SUPPORTS, DERIVED_FROM and SATISFIES.             *)
PatchEdges == [src : NodeIds, dst : NodeIds, kind : {"supports", "contradicts", "other"}]
Edges == {e \in PatchEdges : e.src # e.dst}
Dangling(nodes, edges) ==
  {e \in edges : ~({e.src, e.dst} \subseteq {IdOf[n] : n \in nodes})}
IsGraph(g) ==
  g \in [nodes : SUBSET Nodes, edges : SUBSET Edges] /\ Dangling(g.nodes, g.edges) = {}

-----------------------------------------------------------------------------
(* The validator.                                                          *)

OfKind(g, kinds) == {n \in g.nodes : KindOf[n] \in kinds}
IdsOf(ns) == {IdOf[n] : n \in ns}
Sources(g, ids) == {e.src : e \in {d \in g.edges : d.kind = "supports" /\ d.dst \in ids}}

(* Claims that one support edge from a grounded node grounds.              *)
Gain(g, S) == IdsOf({n \in OfKind(g, {"claim"}) : Sources(g, {IdOf[n]}) \cap S # {}})

(* Mutant: the fixpoint loop stops after its first pass.                   *)
GroundedOnePass(g) ==
  LET seeds == IdsOf(OfKind(g, {"fact", "evidence"})) IN seeds \cup Gain(g, seeds)

(* _propagate_grounded_support: until nothing changes.                     *)
Grounded(g) ==
  LET Grow[S \in SUBSET IdsOf(g.nodes)] ==
        IF Gain(g, S) \subseteq S THEN S ELSE Grow[S \cup Gain(g, S)]
  IN  Grow[IdsOf(OfKind(g, {"fact", "evidence"}))]

(* _goal_supported: back along support edges, through nodes of any kind.   *)
Backward(g, id) ==
  LET Walk[S \in SUBSET IdsOf(g.nodes)] ==
        IF Sources(g, S) \subseteq S THEN S ELSE Walk[S \cup Sources(g, S)]
  IN  Walk[Sources(g, {id})]

GoalSupported(g, n) == Backward(g, IdOf[n]) \cap Grounded(g) # {}

Goals(g) == OfKind(g, {"goal"})
SupportedGoals(g) == {n \in Goals(g) : GoalSupported(g, n)}
Gaps(g) == OfKind(g, {"gap"}) \cup (Goals(g) \ SupportedGoals(g))
Violations(g) == {e \in g.edges : e.kind = "contradicts"}

-----------------------------------------------------------------------------
(* Patches.                                                                *)

(* apply: the nodes, then the edges.  An edge from a node to itself or to  *)
(* or from one that is not there is a ValueError.                          *)
Patched(g, p) == [nodes |-> g.nodes \cup p.nodes, edges |-> g.edges \cup p.edges]
Applies(g, p) == p.edges \subseteq Edges /\ Dangling(g.nodes \cup p.nodes, p.edges) = {}

(* is_measurable_improvement                                               *)
(* Mutants: not worse will do; violations are not looked at.               *)
ImprovesOrEqual(g, h) ==
  /\ Cardinality(Gaps(h)) <= Cardinality(Gaps(g))
  /\ Cardinality(Violations(h)) <= Cardinality(Violations(g))

ImprovesUnconstrained(g, h) ==
  \/ Cardinality(Gaps(h)) < Cardinality(Gaps(g))
  \/ Cardinality(SupportedGoals(h)) > Cardinality(SupportedGoals(g))

Improves(g, h) ==
  /\ \/ Cardinality(Gaps(h)) < Cardinality(Gaps(g))
     \/ Cardinality(SupportedGoals(h)) > Cardinality(SupportedGoals(g))
  /\ Cardinality(Violations(h)) <= Cardinality(Violations(g))
=============================================================================

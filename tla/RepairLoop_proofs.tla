------------------------- MODULE RepairLoop_proofs --------------------------
(***************************************************************************)
(* Proofs about RepairLoop, for any finite set of nodes, any patches and   *)
(* any bound on the cycles.  The inductive invariant leaves open what the  *)
(* validator makes of a graph; what its searches compute is proved apart,  *)
(* from the lemma that a loop which grows a set until nothing changes      *)
(* returns the least closed set.                                           *)
(*                                                                         *)
(* And about LLMRouter, for any registry, providers, limits and stages:    *)
(* what a route's tries do to the health of the providers, and which model *)
(* serves.                                                                 *)
(***************************************************************************)
EXTENDS RepairLoop, LLMRouter, DataLemmas, FiniteSetTheorems

-----------------------------------------------------------------------------
(* The inductive invariant.  Fingerprints of the past are below that of    *)
(* the graph, and the graph's own is among them only after a rejection.    *)

Grown ==
  /\ initial.nodes \subseteq graph.nodes
  /\ initial.edges \subseteq graph.edges
  /\ accepted = 0 => graph = initial

FingerprintsBelow ==
  \A f \in seen :
    /\ f[1] <= Cardinality(graph.nodes) /\ f[2] <= Cardinality(graph.edges)
    /\ f = Fingerprint(graph) => graph \in rejectedOn

RejectionsSeen ==
  /\ IsFiniteSet(rejectedOn)
  /\ \A g \in rejectedOn : Fingerprint(g) \in seen
  /\ rejected = Cardinality(rejectedOn)
  /\ rejected <= accepted + (IF graph \in rejectedOn THEN 1 ELSE 0)

StillOpen ==
  /\ cycles > 0 /\ accepted = 0 => Gaps(graph) # {}
  /\ status = "running" => stop = "none"
  /\ stop = "loop" => graph \in rejectedOn

IInv ==
  /\ TypeOK
  /\ Grown
  /\ FingerprintsBelow
  /\ RejectionsSeen
  /\ StillOpen
  /\ NoNewViolations
  /\ StatusTellsOutcome

-----------------------------------------------------------------------------
(* Lemmas about graphs.                                                    *)

(* There are finitely many edges to be had.                                *)
LEMMA EdgesFinite == IsFiniteSet(Edges)
<1>1. IsFiniteSet(NodeIds)
  <2> DEFINE F == [n \in Nodes |-> IdOf[n]]
  <2>1. F \in Surjection(Nodes, NodeIds)
    BY DEF Surjection, NodeIds
  <2> HIDE DEF F
  <2> QED
    BY <2>1, NodeAssumption, FS_Surjection
<1> DEFINE Kinds == {"supports", "contradicts", "other"}
           T == NodeIds \X (NodeIds \X Kinds)
           f == [t \in T |-> [src |-> t[1], dst |-> t[2][1], kind |-> t[2][2]]]
<1>2. IsFiniteSet(Kinds)
  <2>1. IsFiniteSet({"supports"})
    BY FS_Singleton
  <2>2. IsFiniteSet({"supports"} \cup {"contradicts"})
    BY <2>1, FS_AddElement
  <2>3. IsFiniteSet({"supports", "contradicts"} \cup {"other"})
    <3>1. {"supports"} \cup {"contradicts"} = {"supports", "contradicts"}
      OBVIOUS
    <3> QED
      BY <2>2, <3>1, FS_AddElement
  <2>4. {"supports", "contradicts"} \cup {"other"} = Kinds
    OBVIOUS
  <2> QED
    BY <2>3, <2>4
<1>3. IsFiniteSet(T)
  <2> HIDE DEF Kinds
  <2>1. IsFiniteSet(NodeIds \X Kinds)
    BY <1>1, <1>2, FS_Product
  <2> QED
    BY <1>1, <2>1, FS_Product
<1>4. f \in Surjection(T, PatchEdges)
  <2>1. f \in [T -> PatchEdges]
    BY DEF PatchEdges
  <2>2. ASSUME NEW e \in PatchEdges PROVE \E t \in T : f[t] = e
    <3>1. <<e.src, <<e.dst, e.kind>>>> \in T
      BY DEF PatchEdges
    <3>2. f[<<e.src, <<e.dst, e.kind>>>>] = e
      BY <3>1 DEF PatchEdges
    <3> QED
      BY <3>1, <3>2
  <2> HIDE DEF f, T
  <2> QED
    BY <2>1, <2>2 DEF Surjection
<1>5. IsFiniteSet(PatchEdges)
  <2> HIDE DEF f, T
  <2> QED
    BY <1>3, <1>4, FS_Surjection
<1> QED
  BY <1>5, FS_Subset DEF Edges

(* Its parts are finite sets, so the fingerprint is a pair of numbers.     *)
LEMMA GraphFinite ==
  ASSUME NEW g, IsGraph(g)
  PROVE  /\ IsFiniteSet(g.nodes) /\ IsFiniteSet(g.edges)
         /\ Cardinality(g.nodes) \in Nat /\ Cardinality(g.edges) \in Nat
         /\ IsFiniteSet(Violations(g)) /\ Cardinality(Violations(g)) \in Nat
         /\ Cardinality(Gaps(g)) \in Nat /\ Cardinality(SupportedGoals(g)) \in Nat
         /\ Fingerprint(g) \in Nat \X Nat
<1>1. g.nodes \subseteq Nodes /\ g.edges \subseteq Edges
  BY DEF IsGraph
<1>2. IsFiniteSet(g.nodes) /\ IsFiniteSet(g.edges)
  BY <1>1, NodeAssumption, EdgesFinite, FS_Subset
<1>3. /\ Violations(g) \subseteq g.edges
      /\ Gaps(g) \subseteq g.nodes
      /\ SupportedGoals(g) \subseteq g.nodes
  BY DEF Violations, Gaps, SupportedGoals, Goals, OfKind
<1>4. IsFiniteSet(Violations(g)) /\ IsFiniteSet(Gaps(g)) /\ IsFiniteSet(SupportedGoals(g))
  BY <1>2, <1>3, FS_Subset
<1> QED
  BY <1>2, <1>4, FS_CardinalityType DEF Fingerprint

(* A patch that applies makes a graph of a graph, and takes nothing away.  *)
LEMMA PatchedGraph ==
  ASSUME NEW g, IsGraph(g), NEW p \in Patches, Applies(g, p)
  PROVE  /\ IsGraph(Patched(g, p))
         /\ g.nodes \subseteq Patched(g, p).nodes
         /\ g.edges \subseteq Patched(g, p).edges
         /\ Violations(g) \subseteq Violations(Patched(g, p))
<1> DEFINE h == Patched(g, p)
<1>1. h.nodes = g.nodes \cup p.nodes /\ h.edges = g.edges \cup p.edges
  BY DEF Patched
<1>2. h.nodes \subseteq Nodes /\ h.edges \subseteq Edges
  BY <1>1, PatchAssumption DEF IsGraph, Applies
<1>3. ASSUME NEW e \in h.edges PROVE {e.src, e.dst} \subseteq {IdOf[n] : n \in h.nodes}
  BY <1>1, <1>3 DEF IsGraph, Applies, Dangling
<1> QED
  <2>1. IsGraph(h)
    <3>1. h \in [nodes : SUBSET Nodes, edges : SUBSET Edges]
      BY <1>2 DEF Patched
    <3> QED
      BY <1>3, <3>1 DEF IsGraph, Dangling
  <2> QED
    BY <1>1, <2>1 DEF Violations

(* The gate lets through nothing that changed nothing: so an accepted      *)
(* patch changes the fingerprint, and leaves the violations as they were.  *)
LEMMA AcceptedGrows ==
  ASSUME NEW g, IsGraph(g), NEW p \in Patches, Applies(g, p), Improves(g, Patched(g, p))
  PROVE  LET h == Patched(g, p)
         IN  /\ Cardinality(g.nodes) <= Cardinality(h.nodes)
             /\ Cardinality(g.edges) <= Cardinality(h.edges)
             /\ \/ Cardinality(g.nodes) < Cardinality(h.nodes)
                \/ Cardinality(g.edges) < Cardinality(h.edges)
             /\ Violations(h) = Violations(g)
<1> DEFINE h == Patched(g, p)
<1>1. IsGraph(h) /\ g.nodes \subseteq h.nodes /\ g.edges \subseteq h.edges
      /\ Violations(g) \subseteq Violations(h)
  BY PatchedGraph
<1>2. h = [nodes |-> g.nodes \cup p.nodes, edges |-> g.edges \cup p.edges]
  BY DEF Patched
<1>3. Improves(g, h)
  OBVIOUS
<1> HIDE DEF h
<1>4. /\ IsFiniteSet(h.nodes) /\ IsFiniteSet(h.edges) /\ IsFiniteSet(Violations(h))
      /\ Cardinality(h.nodes) \in Nat /\ Cardinality(h.edges) \in Nat
      /\ Cardinality(Violations(h)) \in Nat
  BY <1>1, GraphFinite
<1>5. /\ Cardinality(g.nodes) \in Nat /\ Cardinality(g.edges) \in Nat
      /\ Cardinality(Violations(g)) \in Nat
      /\ Cardinality(Gaps(g)) \in Nat /\ Cardinality(SupportedGoals(g)) \in Nat
  BY GraphFinite
<1>6. /\ Cardinality(g.nodes) <= Cardinality(h.nodes)
      /\ Cardinality(g.edges) <= Cardinality(h.edges)
      /\ Cardinality(g.nodes) = Cardinality(h.nodes) => g.nodes = h.nodes
      /\ Cardinality(g.edges) = Cardinality(h.edges) => g.edges = h.edges
  BY <1>1, <1>4, FS_Subset
<1>7. Violations(h) = Violations(g)
  <2>1. Cardinality(Violations(g)) <= Cardinality(Violations(h))
        /\ (Cardinality(Violations(g)) = Cardinality(Violations(h)) => Violations(g) = Violations(h))
    BY <1>1, <1>4, FS_Subset
  <2> QED
    BY <1>3, <1>4, <1>5, <2>1 DEF Improves
<1>8. ~(g.nodes = h.nodes /\ g.edges = h.edges)
  <2> SUFFICES ASSUME g.nodes = h.nodes, g.edges = h.edges PROVE FALSE
    OBVIOUS
  <2>1. g = h
    BY <1>1 DEF IsGraph
  <2> QED
    BY <1>3, <1>5, <2>1 DEF Improves
<1> QED
  BY <1>4, <1>5, <1>6, <1>7, <1>8 DEF h

-----------------------------------------------------------------------------
(* The validator's searches return what they mean: the least sets that are *)
(* closed under support, and backwards along it.                           *)

GainIn(g) == [S \in SUBSET IdsOf(g.nodes) |-> Gain(g, S)]
SourcesIn(g) == [S \in SUBSET IdsOf(g.nodes) |-> Sources(g, S)]
Seeds(g) == IdsOf(OfKind(g, {"fact", "evidence"}))

LEMMA SearchesMonotone ==
  ASSUME NEW g, IsGraph(g)
  PROVE  /\ IsFiniteSet(IdsOf(g.nodes))
         /\ Seeds(g) \in SUBSET IdsOf(g.nodes)
         /\ \A S : Sources(g, S) \in SUBSET IdsOf(g.nodes)
         /\ Monotone(IdsOf(g.nodes), GainIn(g))
         /\ Monotone(IdsOf(g.nodes), SourcesIn(g))
<1> DEFINE U == IdsOf(g.nodes)
<1>1. IsFiniteSet(U)
  <2> DEFINE F == [n \in g.nodes |-> IdOf[n]]
  <2>1. F \in Surjection(g.nodes, U)
    BY DEF Surjection, IdsOf
  <2> HIDE DEF F, U
  <2> QED
    BY <2>1, GraphFinite, FS_Surjection
<1>2. Seeds(g) \in SUBSET U
  BY DEF Seeds, IdsOf, OfKind
<1>3. \A S : Sources(g, S) \in SUBSET U
  BY DEF Sources, IdsOf, IsGraph, Dangling
<1>4. \A S : Gain(g, S) \in SUBSET U
  BY DEF Gain, IdsOf, OfKind
<1>5. \A S, T : S \subseteq T => Gain(g, S) \subseteq Gain(g, T)
  BY DEF Gain, IdsOf
<1>6. \A S, T : S \subseteq T => Sources(g, S) \subseteq Sources(g, T)
  BY DEF Sources
<1>7. Monotone(U, GainIn(g))
  BY <1>4, <1>5 DEF Monotone, GainIn
<1>8. Monotone(U, SourcesIn(g))
  BY <1>3, <1>6 DEF Monotone, SourcesIn
<1> QED
  BY <1>1, <1>2, <1>3, <1>7, <1>8

LEMMA GroundedIsLeast ==
  ASSUME NEW g, IsGraph(g)
  PROVE  /\ Grounded(g) = GroundedRef(g)
         /\ Grounded(g) = Closure(IdsOf(g.nodes), GainIn(g), Seeds(g))
<1> DEFINE U == IdsOf(g.nodes)
           Grows(G) == G = [S \in SUBSET U |->
                              IF Gain(g, S) \subseteq S THEN S ELSE G[S \cup Gain(g, S)]]
           Grow == CHOOSE G : Grows(G)
<1>1. \A G : GrowsBy(G, U, GainIn(g)) <=> Grows(G)
  BY DEF GrowsBy, GainIn
<1>2. \E G : GrowsBy(G, U, GainIn(g))
  BY SearchesMonotone, GrowthExists
<1>3. Grows(Grow)
  <2> HIDE DEF Grows
  <2> QED
    BY <1>1, <1>2
<1>4. Grounded(g) = Grow[Seeds(g)]
  BY DEF Grounded, Seeds
<1> HIDE DEF Grow, Grows
<1>5. Grow[Seeds(g)] = Closure(U, GainIn(g), Seeds(g))
  <2>1. GrowsBy(Grow, U, GainIn(g))
    BY <1>1, <1>3
  <2> QED
    BY <2>1, SearchesMonotone, GrowsToClosure
<1>6. Closure(U, GainIn(g), Seeds(g)) = GroundedRef(g)
  BY DEF Closure, Closed, GainIn, GroundedRef, Seeds
<1> QED
  BY <1>4, <1>5, <1>6

LEMMA BackwardIsLeast ==
  ASSUME NEW g, IsGraph(g), NEW id
  PROVE  Backward(g, id) = Closure(IdsOf(g.nodes), SourcesIn(g), Sources(g, {id}))
<1> DEFINE U == IdsOf(g.nodes)
           Walks(G) == G = [S \in SUBSET U |->
                              IF Sources(g, S) \subseteq S THEN S ELSE G[S \cup Sources(g, S)]]
           Walk == CHOOSE G : Walks(G)
<1>1. \A G : GrowsBy(G, U, SourcesIn(g)) <=> Walks(G)
  BY DEF GrowsBy, SourcesIn
<1>2. \E G : GrowsBy(G, U, SourcesIn(g))
  BY SearchesMonotone, GrowthExists
<1>3. Walks(Walk)
  <2> HIDE DEF Walks
  <2> QED
    BY <1>1, <1>2
<1>4. Backward(g, id) = Walk[Sources(g, {id})]
  BY DEF Backward
<1> HIDE DEF Walk, Walks
<1>5. GrowsBy(Walk, U, SourcesIn(g))
  BY <1>1, <1>3
<1> QED
  BY <1>4, <1>5, SearchesMonotone, GrowsToClosure

(* A goal is supported iff no set closed backwards from it avoids the      *)
(* grounded ids.                                                           *)
LEMMA SupportedMeans ==
  ASSUME NEW g, IsGraph(g), NEW n
  PROVE  GoalSupported(g, n) <=>
           \A S \in SUBSET IdsOf(g.nodes) :
             Sources(g, S \cup {IdOf[n]}) \subseteq S => S \cap GroundedRef(g) # {}
<1> DEFINE U == IdsOf(g.nodes)
           id == IdOf[n]
           F == SourcesIn(g)
           From == Sources(g, {id})
<1>1. From \in SUBSET U /\ Monotone(U, F)
  BY SearchesMonotone
<1>2. GoalSupported(g, n) <=> Closure(U, F, From) \cap GroundedRef(g) # {}
  BY BackwardIsLeast, GroundedIsLeast DEF GoalSupported
<1>3. Closure(U, F, From) \in Closed(U, F, From)
  BY <1>1, ClosureClosed
<1>4. \A S \in Closed(U, F, From) : Closure(U, F, From) \subseteq S
  BY DEF Closure
<1>5. \A S \in SUBSET U : S \in Closed(U, F, From) <=> Sources(g, S \cup {id}) \subseteq S
  <2>1. \A S : Sources(g, S \cup {id}) = Sources(g, S) \cup From
    BY DEF Sources
  <2>2. \A S \in SUBSET U : F[S] = Sources(g, S)
    BY DEF SourcesIn
  <2> HIDE DEF From, F
  <2> QED
    BY <2>1, <2>2 DEF Closed
<1>6. Closed(U, F, From) \subseteq SUBSET U
  BY DEF Closed
<1> HIDE DEF U, F, From, id
<1>7. GoalSupported(g, n) <=> \A S \in Closed(U, F, From) : S \cap GroundedRef(g) # {}
  BY <1>2, <1>3, <1>4
<1>8. GoalSupported(g, n) <=>
        \A S \in SUBSET U : Sources(g, S \cup {id}) \subseteq S => S \cap GroundedRef(g) # {}
  BY <1>5, <1>6, <1>7
<1> QED
  BY <1>8 DEF U, id

(* What a larger graph grounds and supports is no less.                    *)
LEMMA SupportGrows ==
  ASSUME NEW g, IsGraph(g), NEW h, IsGraph(h),
         g.nodes \subseteq h.nodes, g.edges \subseteq h.edges
  PROVE  /\ GroundedRef(g) \subseteq GroundedRef(h)
         /\ SupportedGoals(g) \subseteq SupportedGoals(h)
<1> DEFINE U == IdsOf(g.nodes)
           V == IdsOf(h.nodes)
<1>1. U \subseteq V /\ Seeds(g) \subseteq Seeds(h) /\ Seeds(g) \subseteq U
  BY DEF IdsOf, Seeds, OfKind
<1>2. ASSUME NEW S, NEW T, S \subseteq T
      PROVE  Gain(g, S) \subseteq Gain(h, T) /\ Sources(g, S) \subseteq Sources(h, T)
  BY <1>2 DEF Gain, Sources, IdsOf, OfKind
<1>3. ASSUME NEW x \in GroundedRef(g) PROVE x \in GroundedRef(h)
  <2>1. x \in V
    BY <1>1 DEF GroundedRef
  <2>2. ASSUME NEW T \in SUBSET V, Seeds(h) \subseteq T, Gain(h, T) \subseteq T PROVE x \in T
    <3>1. T \cap U \in SUBSET U /\ Seeds(g) \subseteq T \cap U
      BY <1>1, <2>2
    <3>2. Gain(g, T \cap U) \subseteq T
      BY <1>2, <2>2
    <3>3. Gain(g, T \cap U) \subseteq U
      BY DEF Gain, IdsOf, OfKind
    <3>4. x \in T \cap U
      BY <3>1, <3>2, <3>3 DEF GroundedRef, Seeds
    <3> QED
      BY <3>4
  <2> QED
    BY <2>1, <2>2 DEF GroundedRef, Seeds
<1>4. ASSUME NEW n \in SupportedGoals(g) PROVE n \in SupportedGoals(h)
  <2>1. n \in Goals(g) /\ GoalSupported(g, n)
    BY DEF SupportedGoals
  <2>2. n \in Goals(h)
    BY <2>1 DEF Goals, OfKind
  <2>3. ASSUME NEW S \in SUBSET V, Sources(h, S \cup {IdOf[n]}) \subseteq S
        PROVE  S \cap GroundedRef(h) # {}
    <3> DEFINE id == IdOf[n]
               R == S \cap U
    <3>1. Sources(g, R \cup {id}) \subseteq S
      BY <1>2, <2>3
    <3>2. Sources(g, R \cup {id}) \subseteq U
      BY SearchesMonotone
    <3>3. R \in SUBSET U /\ Sources(g, R \cup {id}) \subseteq R
      BY <3>1, <3>2
    <3>4. R \cap GroundedRef(g) # {}
      BY <2>1, <3>3, SupportedMeans
    <3> QED
      BY <1>3, <3>4
  <2>4. GoalSupported(h, n)
    BY <2>3, SupportedMeans
  <2> QED
    BY <2>2, <2>4 DEF SupportedGoals
<1> QED
  BY <1>3, <1>4

(* An accepted patch supports one goal more at least: neither arm of the   *)
(* gate lets through a patch that only removes gaps, for none can.         *)
LEMMA AcceptedSupports ==
  ASSUME NEW g, IsGraph(g), NEW p \in Patches, Applies(g, p), Improves(g, Patched(g, p))
  PROVE  /\ SupportedGoals(g) \subseteq SupportedGoals(Patched(g, p))
         /\ Cardinality(SupportedGoals(g)) + 1 <= Cardinality(SupportedGoals(Patched(g, p)))
<1> DEFINE h == Patched(g, p)
<1>1. IsGraph(h) /\ g.nodes \subseteq h.nodes /\ g.edges \subseteq h.edges
  BY PatchedGraph
<1>2. Improves(g, h)
  OBVIOUS
<1> HIDE DEF h
<1>3. SupportedGoals(g) \subseteq SupportedGoals(h)
  BY <1>1, SupportGrows
<1>4. /\ IsFiniteSet(SupportedGoals(h)) /\ IsFiniteSet(Gaps(h))
      /\ Cardinality(SupportedGoals(g)) \in Nat /\ Cardinality(SupportedGoals(h)) \in Nat
      /\ Cardinality(Gaps(g)) \in Nat /\ Cardinality(Gaps(h)) \in Nat
  <2>1. SupportedGoals(h) \subseteq h.nodes /\ Gaps(h) \subseteq h.nodes
    BY DEF SupportedGoals, Gaps, Goals, OfKind
  <2> QED
    BY <1>1, <2>1, GraphFinite, FS_Subset
<1>5. /\ Cardinality(SupportedGoals(g)) <= Cardinality(SupportedGoals(h))
      /\ Cardinality(SupportedGoals(h)) = Cardinality(SupportedGoals(g)) =>
           SupportedGoals(h) = SupportedGoals(g)
  BY <1>3, <1>4, FS_Subset
<1>6. SupportedGoals(h) # SupportedGoals(g)
  <2> SUFFICES ASSUME SupportedGoals(h) = SupportedGoals(g) PROVE FALSE
    OBVIOUS
  <2>1. Gaps(g) \subseteq Gaps(h)
    BY <1>1 DEF Gaps, Goals, OfKind
  <2>2. Cardinality(Gaps(g)) <= Cardinality(Gaps(h))
    BY <1>4, <2>1, FS_Subset
  <2> QED
    BY <1>2, <1>4, <2>2 DEF Improves
<1>7. Cardinality(SupportedGoals(g)) + 1 <= Cardinality(SupportedGoals(h))
  BY <1>4, <1>5, <1>6
<1> QED
  BY <1>3, <1>7 DEF h

-----------------------------------------------------------------------------
(* Every step keeps the invariant.                                         *)

(* It holds before the first cycle.                                        *)
LEMMA InitIInv == Init => IInv
<1> SUFFICES ASSUME Init PROVE IInv
  OBVIOUS
<1>1. IsGraph(graph) /\ IsGraph(initial)
  BY InitialAssumption DEF Init
<1>2. TypeOK
  BY <1>1, CycleAssumption DEF Init, TypeOK
<1>3. IsFiniteSet({}) /\ Cardinality({}) = 0
  BY FS_EmptySet
<1> QED
  BY <1>2, <1>3 DEF Init, IInv, Grown, FingerprintsBelow, RejectionsSeen, StillOpen,
     NoNewViolations, StatusTellsOutcome

(* A patch is kept.                                                        *)
LEMMA AcceptedIInv ==
  ASSUME IInv, NEW p \in Patches, TryPatch(p), Improves(graph, Patched(graph, p)),
         graph' = Patched(graph, p), accepted' = accepted + 1,
         UNCHANGED <<rejected, rejectedOn>>
  PROVE  IInv'
<1>1. /\ status = "running" /\ cycles < MaxCycles /\ cycles' = cycles + 1
      /\ Fingerprint(graph) \notin seen /\ seen' = seen \cup {Fingerprint(graph)}
      /\ Applies(graph, p)
      /\ UNCHANGED <<status, initial, stop>>
  BY DEF TryPatch, Repairing
<1>2. IsGraph(graph) /\ cycles \in Nat /\ accepted \in Nat /\ rejected \in Nat
      /\ seen \subseteq Nat \X Nat
  BY DEF IInv, TypeOK
<1>3. /\ IsGraph(graph')
      /\ graph.nodes \subseteq graph'.nodes /\ graph.edges \subseteq graph'.edges
  BY <1>1, <1>2, PatchedGraph
<1>4. /\ Cardinality(graph.nodes) <= Cardinality(graph'.nodes)
      /\ Cardinality(graph.edges) <= Cardinality(graph'.edges)
      /\ \/ Cardinality(graph.nodes) < Cardinality(graph'.nodes)
         \/ Cardinality(graph.edges) < Cardinality(graph'.edges)
      /\ Violations(graph') = Violations(graph)
  BY <1>1, <1>2, AcceptedGrows
<1>5. /\ Fingerprint(graph) \in Nat \X Nat
      /\ Fingerprint(graph)[1] = Cardinality(graph.nodes)
      /\ Fingerprint(graph)[2] = Cardinality(graph.edges)
      /\ Cardinality(graph.nodes) \in Nat /\ Cardinality(graph.edges) \in Nat
      /\ Cardinality(graph'.nodes) \in Nat /\ Cardinality(graph'.edges) \in Nat
      /\ Fingerprint(graph') = <<Cardinality(graph'.nodes), Cardinality(graph'.edges)>>
  BY <1>2, <1>3, GraphFinite DEF Fingerprint
<1>6. TypeOK'
  BY <1>1, <1>2, <1>3, <1>5, CycleAssumption DEF IInv, TypeOK
<1>7. Grown'
  BY <1>1, <1>2, <1>3 DEF IInv, Grown
<1>8. \A f \in seen' : /\ f[1] <= Cardinality(graph'.nodes) /\ f[2] <= Cardinality(graph'.edges)
                       /\ f # Fingerprint(graph')
  <2> SUFFICES ASSUME NEW f \in seen'
               PROVE  /\ f[1] <= Cardinality(graph'.nodes) /\ f[2] <= Cardinality(graph'.edges)
                      /\ f # Fingerprint(graph')
    OBVIOUS
  <2>1. f \in Nat \X Nat
    BY <1>1, <1>2, <1>5
  <2>2. f[1] <= Cardinality(graph.nodes) /\ f[2] <= Cardinality(graph.edges)
    BY <1>1, <1>5 DEF IInv, FingerprintsBelow
  <2> QED
    BY <1>4, <1>5, <2>1, <2>2
<1>9. FingerprintsBelow'
  BY <1>8 DEF FingerprintsBelow
<1>10. RejectionsSeen'
  <2>1. graph' \notin rejectedOn
    BY <1>1, <1>8 DEF IInv, RejectionsSeen
  <2>2. rejected <= accepted + 1
    BY <1>2 DEF IInv, RejectionsSeen
  <2> QED
    BY <1>1, <1>2, <2>1, <2>2 DEF IInv, RejectionsSeen
<1>11. StillOpen' /\ StatusTellsOutcome' /\ NoNewViolations'
  <2>1. stop' = "none" /\ status' = "running" /\ accepted' # 0
    BY <1>1, <1>2 DEF IInv, StillOpen
  <2> QED
    BY <1>1, <1>4, <2>1 DEF IInv, StillOpen, StatusTellsOutcome, NoNewViolations
<1> QED
  BY <1>6, <1>7, <1>9, <1>10, <1>11 DEF IInv

(* A patch is dropped.                                                     *)
LEMMA RejectedIInv ==
  ASSUME IInv, NEW p \in Patches, TryPatch(p),
         rejected' = rejected + 1, rejectedOn' = rejectedOn \cup {graph},
         UNCHANGED <<graph, accepted>>
  PROVE  IInv'
<1>1. /\ status = "running" /\ cycles < MaxCycles /\ cycles' = cycles + 1
      /\ Fingerprint(graph) \notin seen /\ seen' = seen \cup {Fingerprint(graph)}
      /\ Gaps(graph) # {}
      /\ UNCHANGED <<status, initial, stop>>
  BY DEF TryPatch, Repairing
<1>2. IsGraph(graph) /\ cycles \in Nat /\ accepted \in Nat /\ rejected \in Nat
      /\ seen \subseteq Nat \X Nat
  BY DEF IInv, TypeOK
<1>3. /\ Fingerprint(graph) \in Nat \X Nat
      /\ Fingerprint(graph)[1] = Cardinality(graph.nodes)
      /\ Fingerprint(graph)[2] = Cardinality(graph.edges)
      /\ Cardinality(graph.nodes) \in Nat /\ Cardinality(graph.edges) \in Nat
  BY <1>2, GraphFinite DEF Fingerprint
<1>4. graph \notin rejectedOn
  BY <1>1 DEF IInv, RejectionsSeen
<1>5. TypeOK'
  BY <1>1, <1>2, <1>3, CycleAssumption DEF IInv, TypeOK
<1>6. Grown' /\ NoNewViolations'
  BY <1>1 DEF IInv, Grown, NoNewViolations
<1>7. FingerprintsBelow'
  <2> SUFFICES ASSUME NEW f \in seen'
               PROVE  /\ f[1] <= Cardinality(graph.nodes) /\ f[2] <= Cardinality(graph.edges)
                      /\ f = Fingerprint(graph) => graph \in rejectedOn'
    BY <1>1 DEF FingerprintsBelow, Fingerprint
  <2> QED
    BY <1>1, <1>3 DEF IInv, FingerprintsBelow
<1>8. RejectionsSeen'
  <2>1. /\ IsFiniteSet(rejectedOn')
        /\ Cardinality(rejectedOn') = Cardinality(rejectedOn) + 1
    BY <1>4, FS_AddElement DEF IInv, RejectionsSeen
  <2>2. \A g \in rejectedOn' : Fingerprint(g) \in seen'
    BY <1>1 DEF IInv, RejectionsSeen
  <2>3. rejected' <= accepted' + 1 /\ graph' \in rejectedOn'
    BY <1>2, <1>4 DEF IInv, RejectionsSeen
  <2> QED
    BY <2>1, <2>2, <2>3 DEF IInv, RejectionsSeen, Fingerprint
<1>9. StillOpen' /\ StatusTellsOutcome'
  <2>1. stop' = "none" /\ status' = "running"
    BY <1>1 DEF IInv, StillOpen
  <2>2. Gaps(graph) = Gaps(graph)'
    OBVIOUS
  <2> QED
    BY <1>1, <2>1, <2>2 DEF StillOpen, StatusTellsOutcome
<1> QED
  BY <1>5, <1>6, <1>7, <1>8, <1>9 DEF IInv

(* Every other step leaves the graph and what was tried on it alone.       *)
LEMMA GraphKeptIInv ==
  ASSUME IInv, UNCHANGED <<graph, accepted, rejected, seen, initial, rejectedOn>>,
         StillOpen', StatusTellsOutcome', TypeOK'
  PROVE  IInv'
<1>1. Grown' /\ NoNewViolations'
  BY DEF IInv, Grown, NoNewViolations
<1>2. FingerprintsBelow' /\ RejectionsSeen'
  BY DEF IInv, FingerprintsBelow, RejectionsSeen, Fingerprint
<1> QED
  BY <1>1, <1>2 DEF IInv

(* So does every step of the loop.                                        *)
LEMMA StepIInv == IInv /\ [Next]_vars => IInv'
<1> SUFFICES ASSUME IInv, [Next]_vars PROVE IInv'
  OBVIOUS
<1>1. CASE Complete
  <2>1. /\ status = "running" /\ Gaps(graph) = {} /\ status' = "completed" /\ stop' = "clean"
        /\ UNCHANGED <<graph, cycles, accepted, rejected, seen, initial, rejectedOn>>
    BY <1>1 DEF Complete, Repairing
  <2>2. TypeOK' /\ StillOpen' /\ StatusTellsOutcome'
    BY <2>1 DEF IInv, TypeOK, StillOpen, StatusTellsOutcome
  <2> QED
    BY <2>1, <2>2, GraphKeptIInv
<1>2. CASE NoPatch
  <2>1. /\ status = "running" /\ cycles < MaxCycles /\ Gaps(graph) # {} /\ cycles' = cycles + 1
        /\ UNCHANGED <<graph, accepted, rejected, seen, status, initial, rejectedOn, stop>>
    BY <1>2 DEF NoPatch, Repairing
  <2>2. TypeOK'
    BY <2>1, CycleAssumption DEF IInv, TypeOK
  <2>3. StillOpen' /\ StatusTellsOutcome'
    BY <2>1 DEF IInv, StillOpen, StatusTellsOutcome
  <2> QED
    BY <2>1, <2>2, <2>3, GraphKeptIInv
<1>3. CASE LoopDetected
  <2>1. /\ status = "running" /\ Gaps(graph) # {} /\ Fingerprint(graph) \in seen
        /\ status' = IF accepted = 0 /\ rejected > 0 THEN "failed" ELSE "partial"
        /\ stop' = "loop"
        /\ UNCHANGED <<graph, cycles, accepted, rejected, seen, initial, rejectedOn>>
    BY <1>3 DEF LoopDetected, Repairing, Finish
  <2>2. graph \in rejectedOn
    BY <2>1 DEF IInv, FingerprintsBelow
  <2>3. TypeOK' /\ StillOpen'
    BY <2>1, <2>2 DEF IInv, TypeOK, StillOpen
  <2>4. StatusTellsOutcome'
    BY <2>1 DEF IInv, Grown, StatusTellsOutcome
  <2> QED
    BY <2>1, <2>3, <2>4, GraphKeptIInv
<1>4. ASSUME NEW p \in Patches, TryPatch(p) PROVE IInv'
  <2>1. CASE /\ Improves(graph, Patched(graph, p)) /\ graph' = Patched(graph, p)
             /\ accepted' = accepted + 1 /\ UNCHANGED <<rejected, rejectedOn>>
    BY <1>4, <2>1, AcceptedIInv
  <2>2. CASE /\ rejected' = rejected + 1 /\ rejectedOn' = rejectedOn \cup {graph}
             /\ UNCHANGED <<graph, accepted>>
    BY <1>4, <2>2, RejectedIInv
  <2> QED
    BY <1>4, <2>1, <2>2 DEF TryPatch
<1>5. ASSUME NEW p \in Patches, PatchRaises(p) PROVE IInv'
  <2>1. /\ status = "running" /\ status' = "raised" /\ stop' = "raised"
        /\ UNCHANGED <<graph, cycles, accepted, rejected, seen, initial, rejectedOn>>
    BY <1>5 DEF PatchRaises, Repairing
  <2>2. TypeOK' /\ StillOpen' /\ StatusTellsOutcome'
    BY <2>1 DEF IInv, TypeOK, StillOpen, StatusTellsOutcome
  <2> QED
    BY <2>1, <2>2, GraphKeptIInv
<1>6. CASE BudgetExhausted
  <2>1. /\ status = "running" /\ cycles >= MaxCycles
        /\ status' = IF accepted = 0 /\ rejected > 0 THEN "failed" ELSE "partial"
        /\ stop' = "budget"
        /\ UNCHANGED <<graph, cycles, accepted, rejected, seen, initial, rejectedOn>>
    BY <1>6 DEF BudgetExhausted, Finish
  <2>2. TypeOK' /\ StillOpen'
    BY <2>1 DEF IInv, TypeOK, StillOpen
  <2>3. /\ cycles = MaxCycles /\ cycles > 0 /\ accepted \in Nat
        /\ accepted = 0 => Gaps(graph) # {}
    BY <2>1, CycleAssumption DEF IInv, TypeOK, StillOpen
  <2>4. StatusTellsOutcome'
    BY <2>1, <2>3 DEF IInv, Grown, StatusTellsOutcome
  <2> QED
    BY <2>1, <2>2, <2>4, GraphKeptIInv
<1>7. CASE UNCHANGED vars
  <2>1. TypeOK' /\ StillOpen' /\ StatusTellsOutcome'
    BY <1>7 DEF vars, IInv, TypeOK, StillOpen, StatusTellsOutcome
  <2> QED
    BY <1>7, <2>1, GraphKeptIInv DEF vars
<1> QED
  BY <1>1, <1>2, <1>3, <1>4, <1>5, <1>6, <1>7 DEF Next

-----------------------------------------------------------------------------
(* The theorems.                                                           *)

(* So the invariant holds throughout.                                      *)
LEMMA RepairInvariant == Spec => []IInv
BY InitIInv, StepIInv, PTL DEF Spec

(* The loop's state is well typed: max_cycles is enforced, and every graph *)
(* the loop holds is free of dangling edges.                               *)
THEOREM RepairTypeCorrect == Spec => []TypeOK
<1>1. IInv => TypeOK
  BY DEF IInv
<1> QED
  BY <1>1, RepairInvariant, PTL

(* No patch that adds a contradiction survives the gate, in any order of   *)
(* patches: is_measurable_improvement compares only with the last graph.   *)
THEOREM ViolationsNeverAdded == Spec => []NoNewViolations
<1>1. IInv => NoNewViolations
  BY DEF IInv
<1> QED
  BY <1>1, RepairInvariant, PTL

(* Loop detection by the counts of nodes and edges: it stops the loop only *)
(* on a graph on which some patch, this one or another, was rejected.      *)
THEOREM LoopAlwaysBreaksAfterRejection == Spec => []LoopBreaksAfterRejection
<1>1. ASSUME IInv PROVE LoopBreaksAfterRejection
  <2>1. rejected <= accepted + 1
    BY <1>1 DEF IInv, TypeOK, RejectionsSeen
  <2> QED
    BY <1>1, <2>1 DEF IInv, RejectionsSeen, StillOpen, LoopBreaksAfterRejection
<1> QED
  BY <1>1, RepairInvariant, PTL

(* The status, told from the counts alone, is true of the graph.           *)
THEOREM StatusAlwaysTrue == Spec => []StatusTellsOutcome
<1>1. IInv => StatusTellsOutcome
  BY DEF IInv
<1> QED
  BY <1>1, RepairInvariant, PTL

(* The validator's searches find what their reference definitions mean, in *)
(* every graph the loop comes to hold: a claim is grounded iff support     *)
(* reaches it from facts or evidence, a goal is supported iff grounded     *)
(* support reaches it.                                                     *)
THEOREM ValidatorAlwaysFindsPaths == Spec => []ValidatorFindsPaths
<1>1. ASSUME IInv PROVE ValidatorFindsPaths
  <2>1. IsGraph(graph)
    BY <1>1 DEF IInv, TypeOK
  <2> QED
    BY <2>1, GroundedIsLeast, SupportedMeans DEF ValidatorFindsPaths
<1> QED
  BY <1>1, RepairInvariant, PTL

LEMMA AcceptancesStep ==
  ASSUME IInv, AcceptancesSupportGoals, [Next]_vars
  PROVE  AcceptancesSupportGoals'
<1>1. IsGraph(graph) /\ IsGraph(initial) /\ accepted \in Nat
  BY DEF IInv, TypeOK
<1>2. CASE UNCHANGED <<graph, initial, accepted>>
  BY <1>2 DEF AcceptancesSupportGoals
<1>3. ASSUME NEW p \in Patches, TryPatch(p), Improves(graph, Patched(graph, p)),
             graph' = Patched(graph, p), accepted' = accepted + 1
      PROVE  AcceptancesSupportGoals'
  <2>1. Applies(graph, p) /\ initial' = initial
    BY <1>3 DEF TryPatch
  <2>2. /\ SupportedGoals(graph) \subseteq SupportedGoals(graph')
        /\ Cardinality(SupportedGoals(graph)) + 1 <= Cardinality(SupportedGoals(graph'))
    BY <1>1, <1>3, <2>1, AcceptedSupports
  <2>3. IsGraph(graph')
    BY <1>1, <1>3, <2>1, PatchedGraph
  <2> DEFINE a == Cardinality(SupportedGoals(initial))
             b == Cardinality(SupportedGoals(graph))
             c == Cardinality(SupportedGoals(graph'))
  <2>4. a \in Nat /\ b \in Nat /\ c \in Nat
    BY <1>1, <2>3, GraphFinite
  <2>5. b >= a + accepted /\ b + 1 <= c
    BY <2>2 DEF AcceptancesSupportGoals
  <2> HIDE DEF a, b, c
  <2>6. c >= a + (accepted + 1)
    BY <1>1, <2>4, <2>5
  <2> QED
    BY <1>3, <2>1, <2>2, <2>6 DEF AcceptancesSupportGoals, a, c
<1>4. CASE \E p \in Patches : TryPatch(p)
  BY <1>2, <1>3, <1>4 DEF TryPatch
<1> QED
  BY <1>2, <1>4 DEF Next, vars, Complete, NoPatch, LoopDetected, PatchRaises, BudgetExhausted

(* Every acceptance supports a goal more and none is lost, so there are no *)
(* more of them than goals, whatever patches come and in whatever order.   *)
THEOREM AcceptancesAlwaysSupportGoals == Spec => []AcceptancesSupportGoals
<1>1. ASSUME Init PROVE AcceptancesSupportGoals
  <2>1. IsGraph(graph) /\ accepted = 0 /\ initial = graph
    BY <1>1, InitialAssumption DEF Init
  <2>2. Cardinality(SupportedGoals(graph)) \in Nat
    BY <2>1, GraphFinite
  <2> QED
    BY <2>1, <2>2 DEF AcceptancesSupportGoals
<1>2. IInv /\ AcceptancesSupportGoals /\ [Next]_vars => AcceptancesSupportGoals'
  BY AcceptancesStep
<1> QED
  BY <1>1, <1>2, RepairInvariant, PTL DEF Spec
-----------------------------------------------------------------------------
(* The inductive invariant: the models tried so far and the ones still in  *)
(* the queue are different models, together the ones that were eligible    *)
(* when the route began, and the queue is in the order of cost.            *)

Eligible == Preferred(request, Candidates(request, before))

Distinct == \A i, j \in DOMAIN registry : i < j => registry[i] # registry[j]

Underway ==
  phase = "calling" =>
    /\ outcome.kind = "none"
    /\ \A k \in DOMAIN tried : ~tried[k].ok
    /\ \A i \in DOMAIN queue : queue[i] \in Eligible
    /\ \A i, j \in DOMAIN queue :
         i < j => queue[i] # queue[j] /\ Cost[queue[i]] <= Cost[queue[j]]
    /\ \A i \in DOMAIN queue, k \in DOMAIN tried : queue[i] # tried[k].model
    /\ \A m \in Eligible :
         \/ \E i \in DOMAIN queue : queue[i] = m
         \/ \E k \in DOMAIN tried : tried[k] = [model |-> m, ok |-> FALSE]

TriedOnce ==
  /\ \A j, k \in DOMAIN tried : j < k => tried[j].model # tried[k].model
  /\ \A k \in DOMAIN tried, p \in Wired :
       ProviderOf[tried[k].model] = p => before[p] < MaxFailures

StartedBounded ==
  \A p \in Wired : before[p] < MaxFailures + Cardinality({m \in Models : ProviderOf[m] = p})

RouterIInv ==
  /\ RouterTypeOK
  /\ Distinct
  /\ Underway
  /\ TriedOnce
  /\ StartedBounded
  /\ RetriesBeforeFallback
  /\ HealthMatchesTries

-----------------------------------------------------------------------------
(* Lemmas about sequences and counts.                                      *)

(* The positions of the sequence t at which it holds a member of B.        *)
At(t, B) == {k \in DOMAIN t : t[k] \in B}

(* There are finitely many of them, none in an empty sequence.             *)
LEMMA AtFinite ==
  ASSUME NEW S, NEW t \in Seq(S), NEW B
  PROVE  IsFiniteSet(At(t, B)) /\ Cardinality(At(t, B)) \in Nat
<1>1. DOMAIN t = 1 .. Len(t) /\ Len(t) \in Nat
  BY LenProperties
<1>2. IsFiniteSet(1 .. Len(t))
  BY <1>1, FS_Interval
<1>3. At(t, B) \in SUBSET (1 .. Len(t))
  BY <1>1 DEF At
<1> QED
  BY <1>2, <1>3, FS_Subset, FS_CardinalityType

(* An element more counts if it is a member of B.                          *)
LEMMA AtAppend ==
  ASSUME NEW S, NEW t \in Seq(S), NEW e \in S, NEW B
  PROVE  Cardinality(At(Append(t, e), B)) =
           IF e \in B THEN Cardinality(At(t, B)) + 1 ELSE Cardinality(At(t, B))
<1> DEFINE u == Append(t, e)
<1>1. DOMAIN t = 1 .. Len(t) /\ Len(t) \in Nat
  BY LenProperties
<1>2. /\ u \in Seq(S)
      /\ Len(u) = Len(t) + 1
      /\ \A i \in 1 .. Len(t) : u[i] = t[i]
      /\ u[Len(t) + 1] = e
  BY AppendProperties
<1>3. DOMAIN u = 1 .. Len(t) + 1
  BY <1>2, LenProperties
<1> HIDE DEF u
<1>4. At(u, B) = IF e \in B THEN At(t, B) \cup {Len(t) + 1} ELSE At(t, B)
  BY <1>1, <1>2, <1>3 DEF At
<1>5. Len(t) + 1 \notin At(t, B)
  BY <1>1 DEF At
<1>6. Cardinality(At(u, B)) = IF e \in B THEN Cardinality(At(t, B)) + 1 ELSE Cardinality(At(t, B))
  BY <1>4, <1>5, AtFinite, FS_AddElement
<1> QED
  BY <1>6 DEF u

FailuresOf(p) == {e \in Tries : ~e.ok /\ ProviderOf[e.model] = p}
Failures == {e \in Tries : ~e.ok}

(* The tries counted by the properties are these.                          *)
LEMMA FailuresAt ==
  ASSUME NEW t \in Seq(Tries), NEW p
  PROVE  /\ {k \in DOMAIN t : ~t[k].ok /\ ProviderOf[t[k].model] = p} = At(t, FailuresOf(p))
         /\ {k \in DOMAIN t : ~t[k].ok} = At(t, Failures)
<1>1. \A k \in DOMAIN t : t[k] \in Tries
  BY StackElement
<1> QED
  BY <1>1 DEF At, FailuresOf, Failures

(* The head and the tail of a queue.                                       *)
LEMMA QueueTail ==
  ASSUME NEW S, NEW q \in Seq(S), q # << >>
  PROVE  /\ Len(q) \in Nat \ {0}
         /\ DOMAIN q = 1 .. Len(q)
         /\ Head(q) = q[1]
         /\ Head(q) \in S
         /\ Tail(q) \in Seq(S)
         /\ DOMAIN Tail(q) = 1 .. Len(q) - 1
         /\ \A i \in 1 .. Len(q) - 1 : Tail(q)[i] = q[i + 1]
         /\ Tail(q) = << >> <=> Len(q) = 1
<1>1. Len(q) \in Nat \ {0} /\ DOMAIN q = 1 .. Len(q)
  BY EmptySeq, LenProperties
<1>2. /\ Head(q) = q[1] /\ Head(q) \in S /\ Tail(q) \in Seq(S)
      /\ Len(Tail(q)) = Len(q) - 1
      /\ \A i \in 1 .. Len(Tail(q)) : Tail(q)[i] = q[i + 1]
  BY HeadTailProperties
<1>3. DOMAIN Tail(q) = 1 .. Len(q) - 1
  BY <1>2, LenProperties
<1>4. Tail(q) = << >> <=> Len(q) = 1
  BY <1>1, <1>2, EmptySeq
<1> QED
  BY <1>1, <1>2, <1>3, <1>4

(* An ordering of finitely many models holds each of them exactly once, in *)
(* the order of cost.                                                      *)
LEMMA OrderingsComplete ==
  ASSUME RouterTypeOK, Distinct, NEW S \in SUBSET Models, NEW order \in Orderings(S)
  PROVE  /\ order \in Seq(Models)
         /\ \A i \in DOMAIN order : order[i] \in S
         /\ \A m \in S : \E i \in DOMAIN order : order[i] = m
         /\ \A i, j \in DOMAIN order :
              i < j => order[i] # order[j] /\ Cost[order[i]] <= Cost[order[j]]
<1> DEFINE n == Cardinality(S)
<1>1. IsFiniteSet(S) /\ n \in Nat
  BY ModelAssumption, FS_Subset, FS_CardinalityType
<1>2. order \in [1 .. n -> S] /\ \A i, j \in 1 .. n : i < j => GoesBefore(order[i], order[j])
  BY DEF Orderings
<1>3. registry \in Seq(Models) /\ DOMAIN registry = 1 .. Len(registry) /\ Len(registry) \in Nat
  BY LenProperties DEF RouterTypeOK
<1>4. ASSUME NEW i \in 1 .. n, NEW j \in 1 .. n, i < j
      PROVE  order[i] # order[j] /\ Cost[order[i]] <= Cost[order[j]]
  <2>1. GoesBefore(order[i], order[j]) /\ order[i] \in Models /\ order[j] \in Models
    BY <1>2, <1>4
  <2>2. Cost[order[i]] \in Nat /\ Cost[order[j]] \in Nat
    BY <2>1, ModelAssumption
  <2>3. \A a, b \in DOMAIN registry : a < b => registry[a] # registry[b]
    BY DEF Distinct
  <2> QED
    BY <2>1, <2>2, <2>3 DEF GoesBefore
<1>5. IsFiniteSet(1 .. n) /\ Cardinality(1 .. n) = n
  BY <1>1, FS_Interval
<1>6. order \in Injection(1 .. n, S)
  BY <1>1, <1>2, <1>4 DEF Injection, IsInjective
<1>7. order \in Surjection(1 .. n, S)
  BY <1>1, <1>5, <1>6, FS_Injection
<1>8. \A m \in S : \E i \in 1 .. n : order[i] = m
  BY <1>7 DEF Surjection
<1>9. order \in Seq(Models) /\ DOMAIN order = 1 .. n
  BY <1>1, <1>2, IsASeq
<1> QED
  BY <1>2, <1>4, <1>8, <1>9

(* What is eligible is registered, and healthy if its provider is wired.   *)
LEMMA EligibleModels ==
  ASSUME RouterTypeOK, NEW req, NEW h
  PROVE  /\ Preferred(req, Candidates(req, h)) \in SUBSET Models
         /\ \A m \in Preferred(req, Candidates(req, h)) : h[ProviderOf[m]] < MaxFailures
<1>1. Registered \in SUBSET Models
  BY StackElement DEF RouterTypeOK, Registered, ToSet
<1> QED
  BY <1>1 DEF Preferred, Candidates, Capable, IsHealthy

-----------------------------------------------------------------------------
(* The initial state.                                                      *)

(* The invariant holds before the first route.                             *)
LEMMA InitRouterIInv == RouterInit => RouterIInv
<1> SUFFICES ASSUME RouterInit PROVE RouterIInv
  OBVIOUS
<1> USE ModelAssumption, LimitAssumption
<1>1. RouterTypeOK
  BY DEF RouterInit, RouterTypeOK, Outcomes
<1>2. Distinct /\ Underway /\ TriedOnce
  BY DEF RouterInit, Distinct, Underway, TriedOnce
<1>3. StartedBounded
  <2> SUFFICES ASSUME NEW p \in Wired
               PROVE  before[p] < MaxFailures + Cardinality({m \in Models : ProviderOf[m] = p})
    BY DEF StartedBounded
  <2>1. Cardinality({m \in Models : ProviderOf[m] = p}) \in Nat
    BY FS_Subset, FS_CardinalityType
  <2>2. before[p] = 0
    BY DEF RouterInit
  <2> QED
    BY <2>1, <2>2
<1>4. tried = << >> /\ tried \in Seq(Tries)
  BY DEF RouterInit
<1>5. RetriesBeforeFallback
  <2>1. Cardinality({k \in DOMAIN tried : ~tried[k].ok}) = 0
    BY <1>4, FS_EmptySet
  <2> QED
    BY <2>1 DEF RouterInit, RetriesBeforeFallback
<1>6. HealthMatchesTries
  <2>1. ASSUME NEW p PROVE FailedTries(p) = 0
    <3>1. {k \in DOMAIN tried : ~tried[k].ok /\ ProviderOf[tried[k].model] = p} = {}
      BY <1>4
    <3> QED
      BY <3>1, FS_EmptySet DEF FailedTries
  <2>2. \A p : ~Served(p)
    BY <1>4 DEF Served
  <2> QED
    BY <2>1, <2>2 DEF RouterInit, HealthMatchesTries
<1> QED
  BY <1>1, <1>2, <1>3, <1>5, <1>6 DEF RouterIInv

-----------------------------------------------------------------------------
(* The steps.                                                              *)

Failed == Cardinality({k \in DOMAIN tried : ~tried[k].ok})

(* One more try: what it adds to the counts.                               *)
LEMMA TryAdded ==
  ASSUME RouterTypeOK, NEW m \in Models, NEW b \in BOOLEAN,
         tried' = Append(tried, [model |-> m, ok |-> b])
  PROVE  /\ tried' \in Seq(Tries)
         /\ Len(tried) \in Nat
         /\ DOMAIN tried = 1 .. Len(tried)
         /\ DOMAIN tried' = 1 .. Len(tried) + 1
         /\ \A k \in 1 .. Len(tried) : tried'[k] = tried[k]
         /\ tried'[Len(tried) + 1] = [model |-> m, ok |-> b]
         /\ \A p : /\ FailedTries(p) \in Nat
                  /\ FailedTries(p)' = IF ~b /\ ProviderOf[m] = p
                                       THEN FailedTries(p) + 1 ELSE FailedTries(p)
         /\ Failed \in Nat
         /\ Failed' = IF b THEN Failed ELSE Failed + 1
<1> DEFINE e == [model |-> m, ok |-> b]
<1>1. e \in Tries /\ tried \in Seq(Tries)
  BY DEF Tries, RouterTypeOK
<1>2. /\ tried' \in Seq(Tries)
      /\ Len(tried') = Len(tried) + 1
      /\ \A k \in 1 .. Len(tried) : tried'[k] = tried[k]
      /\ tried'[Len(tried) + 1] = e
  BY <1>1, AppendProperties
<1>3. Len(tried) \in Nat /\ DOMAIN tried = 1 .. Len(tried) /\ DOMAIN tried' = 1 .. Len(tried) + 1
  BY <1>1, <1>2, LenProperties
<1>4. ASSUME NEW B
      PROVE  /\ Cardinality(At(tried, B)) \in Nat
             /\ Cardinality(At(tried', B)) = IF e \in B THEN Cardinality(At(tried, B)) + 1
                                             ELSE Cardinality(At(tried, B))
  BY <1>1, AtFinite, AtAppend
<1>5. ASSUME NEW p
      PROVE  /\ FailedTries(p) = Cardinality(At(tried, FailuresOf(p)))
             /\ FailedTries(p)' = Cardinality(At(tried', FailuresOf(p)))
             /\ e \in FailuresOf(p) <=> ~b /\ ProviderOf[m] = p
  <2>1. e \in FailuresOf(p) <=> ~b /\ ProviderOf[m] = p
    BY <1>1 DEF FailuresOf
  <2> HIDE DEF e
  <2> QED
    BY <1>1, <1>2, <2>1, FailuresAt DEF FailedTries
<1>6. /\ Failed = Cardinality(At(tried, Failures))
      /\ Failed' = Cardinality(At(tried', Failures))
      /\ e \in Failures <=> ~b
  <2>1. e \in Failures <=> ~b
    BY <1>1 DEF Failures
  <2> HIDE DEF e
  <2> QED
    BY <1>1, <1>2, <2>1, FailuresAt DEF Failed
<1>7. \A p : /\ FailedTries(p) \in Nat
            /\ FailedTries(p)' = IF ~b /\ ProviderOf[m] = p
                                 THEN FailedTries(p) + 1 ELSE FailedTries(p)
  <2> HIDE DEF e
  <2> QED
    BY <1>4, <1>5
<1>8. Failed \in Nat /\ Failed' = IF b THEN Failed ELSE Failed + 1
  <2> HIDE DEF e
  <2> QED
    BY <1>4, <1>6
<1>9. tried'[Len(tried) + 1] = [model |-> m, ok |-> b]
  BY <1>2
<1> HIDE DEF e
<1> QED
  BY <1>2, <1>3, <1>7, <1>8, <1>9

(* No tries, no counts.                                                    *)
LEMMA NoTries ==
  ASSUME tried' = << >>
  PROVE  /\ tried' \in Seq(Tries)
         /\ Failed' = 0
         /\ \A p : FailedTries(p)' = 0 /\ ~Served(p)'
<1>1. tried' \in Seq(Tries)
  OBVIOUS
<1>2. Failed' = 0
  <2>1. {k \in DOMAIN tried' : ~tried'[k].ok} = {}
    OBVIOUS
  <2> QED
    BY <2>1, FS_EmptySet DEF Failed
<1>3. ASSUME NEW p PROVE FailedTries(p)' = 0
  <2>1. {k \in DOMAIN tried' : ~tried'[k].ok /\ ProviderOf[tried'[k].model] = p} = {}
    OBVIOUS
  <2> QED
    BY <2>1, FS_EmptySet DEF FailedTries
<1> QED
  BY <1>1, <1>2, <1>3 DEF Served

(* Registering a model between routes.                                     *)
LEMMA RegisterIInv ==
  ASSUME RouterIInv, NEW m \in Models, Register(m)
  PROVE  RouterIInv'
<1>1. /\ registry \in Seq(Models)
      /\ DOMAIN registry = 1 .. Len(registry)
      /\ Len(registry) \in Nat
  BY LenProperties DEF RouterIInv, RouterTypeOK
<1>2. /\ registry' \in Seq(Models)
      /\ DOMAIN registry' = 1 .. Len(registry) + 1
      /\ \A k \in 1 .. Len(registry) : registry'[k] = registry[k]
      /\ registry'[Len(registry) + 1] = m
  BY <1>1, AppendProperties, LenProperties DEF Register
<1>3. RouterTypeOK'
  BY <1>2 DEF RouterIInv, RouterTypeOK, Register, routeVars, Outcomes
<1>4. Distinct'
  <2>1. \A k \in DOMAIN registry : registry[k] # m
    BY DEF Register, Registered, ToSet
  <2> QED
    BY <1>1, <1>2, <2>1 DEF RouterIInv, Distinct
<1>5. Underway'
  BY DEF Register, routeVars, Underway
<1>6. TriedOnce' /\ StartedBounded'
  BY DEF RouterIInv, Register, routeVars, TriedOnce, StartedBounded
<1>7. RetriesBeforeFallback' /\ HealthMatchesTries'
  BY DEF RouterIInv, Register, routeVars, RetriesBeforeFallback, HealthMatchesTries, FailedTries, Served
<1> QED
  BY <1>3, <1>4, <1>5, <1>6, <1>7 DEF RouterIInv

(* A route that begins, or is refused, starts from the health left by the  *)
(* one before, which is bounded.                                           *)
LEMMA ModelsOfProvider ==
  ASSUME NEW p
  PROVE  /\ IsFiniteSet({m \in Models : ProviderOf[m] = p})
         /\ Cardinality({m \in Models : ProviderOf[m] = p}) \in Nat
BY ModelAssumption, FS_Subset, FS_CardinalityType

(* The failed models of a provider are so many of its models.              *)
LEMMA FailuresOfProvider ==
  ASSUME RouterIInv, NEW p \in Wired
  PROVE  /\ FailedTries(p) \in Nat
         /\ FailedTries(p) <= Cardinality({m \in Models : ProviderOf[m] = p})
         /\ FailedTries(p) > 0 => before[p] < MaxFailures
<1> DEFINE K == {k \in DOMAIN tried : ~tried[k].ok /\ ProviderOf[tried[k].model] = p}
           M == {m \in Models : ProviderOf[m] = p}
           f == [k \in K |-> tried[k].model]
<1>1. tried \in Seq(Tries) /\ DOMAIN tried = 1 .. Len(tried) /\ Len(tried) \in Nat
  BY LenProperties DEF RouterIInv, RouterTypeOK
<1>2. \A k \in DOMAIN tried : tried[k] \in Tries
  BY <1>1, StackElement
<1>3. f \in [K -> M]
  BY <1>2 DEF Tries
<1>4. f \in Injection(K, M)
  <2>1. ASSUME NEW j \in K, NEW k \in K, j # k PROVE f[j] # f[k]
    BY <1>1, <2>1 DEF RouterIInv, TriedOnce
  <2> QED
    BY <1>3, <2>1 DEF Injection, IsInjective
<1>5. IsFiniteSet(K) /\ Cardinality(K) <= Cardinality(M)
  <2>1. IsFiniteSet(M)
    BY ModelsOfProvider
  <2> HIDE DEF K, M, f
  <2> QED
    BY <1>4, <2>1, FS_Injection
<1>6. FailedTries(p) = Cardinality(K) /\ Cardinality(K) \in Nat
  BY <1>5, FS_CardinalityType DEF FailedTries
<1>7. FailedTries(p) > 0 => before[p] < MaxFailures
  <2> SUFFICES ASSUME K # {} PROVE before[p] < MaxFailures
    BY <1>5, <1>6, FS_EmptySet
  <2> QED
    BY DEF RouterIInv, TriedOnce
<1> QED
  BY <1>5, <1>6, <1>7

(* The bound on failures follows from the invariant.                       *)
LEMMA FailuresStayBounded ==
  ASSUME RouterIInv
  PROVE  FailuresBounded
<1> SUFFICES ASSUME NEW p \in Wired
             PROVE  /\ failures[p] < MaxFailures + Cardinality({m \in Models : ProviderOf[m] = p})
                    /\ FailedTries(p) > 0 => before[p] < MaxFailures
  BY DEF FailuresBounded
<1> DEFINE n == Cardinality({m \in Models : ProviderOf[m] = p})
<1>1. n \in Nat /\ MaxFailures \in Nat \ {0} /\ before[p] \in Nat
  BY ModelsOfProvider, LimitAssumption DEF RouterIInv, RouterTypeOK
<1>2. /\ FailedTries(p) \in Nat /\ FailedTries(p) <= n
      /\ FailedTries(p) > 0 => before[p] < MaxFailures
  BY FailuresOfProvider
<1>3. before[p] < MaxFailures + n
  BY DEF RouterIInv, StartedBounded
<1>4. failures[p] = IF Served(p) THEN 0 ELSE before[p] + FailedTries(p)
  BY DEF RouterIInv, HealthMatchesTries
<1> HIDE DEF n
<1>5. failures[p] < MaxFailures + n
  BY <1>1, <1>2, <1>3, <1>4
<1> QED
  BY <1>2, <1>5 DEF n

(* What every route starts from.                                           *)
LEMMA FreshRoute ==
  ASSUME RouterIInv, tried' = << >>, before' = failures, calls' = 0,
         UNCHANGED <<registry, failures>>, NEW req \in Requests, request' = req,
         attempt' = 0, outcome'.kind # "served"
  PROVE  /\ Distinct' /\ TriedOnce' /\ StartedBounded'
         /\ RetriesBeforeFallback' /\ HealthMatchesTries'
         /\ registry' \in Seq(Models) /\ failures' \in [Wired -> Nat]
         /\ before' \in [Wired -> Nat] /\ attempt' \in 0 .. MaxRetries
         /\ tried' \in Seq(Tries) /\ calls' \in Nat
<1> USE LimitAssumption
<1>1. /\ tried' \in Seq(Tries)
      /\ Failed' = 0
      /\ \A p : FailedTries(p)' = 0 /\ ~Served(p)'
  BY NoTries
<1>2. Distinct' /\ TriedOnce'
  BY DEF RouterIInv, Distinct, TriedOnce
<1>3. StartedBounded'
  BY FailuresStayBounded DEF FailuresBounded, StartedBounded
<1>4. RetriesBeforeFallback'
  BY <1>1 DEF RetriesBeforeFallback, Failed
<1>5. HealthMatchesTries'
  BY <1>1 DEF HealthMatchesTries, RouterIInv, RouterTypeOK
<1> QED
  BY <1>1, <1>2, <1>3, <1>4, <1>5 DEF RouterIInv, RouterTypeOK

(* A route refused because of a model without provider.                    *)
LEMMA RouteRaisesIInv ==
  ASSUME RouterIInv, NEW req \in Requests, RouteRaises(req)
  PROVE  RouterIInv'
<1>1. outcome' = [kind |-> "raised", model |-> NoModel] /\ phase' = "idle" /\ queue' = << >> /\ attempt' = 0
  BY DEF RouteRaises, Ends
<1>2. /\ Distinct' /\ TriedOnce' /\ StartedBounded'
      /\ RetriesBeforeFallback' /\ HealthMatchesTries'
      /\ registry' \in Seq(Models) /\ failures' \in [Wired -> Nat]
      /\ before' \in [Wired -> Nat] /\ attempt' \in 0 .. MaxRetries
      /\ tried' \in Seq(Tries) /\ calls' \in Nat
  BY <1>1, FreshRoute DEF RouteRaises
<1>3. RouterTypeOK'
  BY <1>1, <1>2 DEF RouterTypeOK, Outcomes
<1>4. Underway'
  BY <1>1 DEF Underway
<1> QED
  BY <1>2, <1>3, <1>4 DEF RouterIInv

(* A route that begins puts the eligible models in order.                  *)
LEMMA RouteBeginsIInv ==
  ASSUME RouterIInv, NEW req \in Requests, RouteBegins(req)
  PROVE  RouterIInv'
<1>1. PICK order \in OrderedHealthyModels(req) :
        IF order = << >>
        THEN Ends("exhausted", NoModel)
        ELSE /\ phase' = "calling"
             /\ queue' = order
             /\ attempt' = 0
             /\ outcome' = [kind |-> "none", model |-> NoModel]
  BY DEF RouteBegins
<1> DEFINE S == Preferred(req, Candidates(req, failures))
<1>2. S \in SUBSET Models
  BY EligibleModels DEF RouterIInv
<1>3. /\ order \in Seq(Models)
      /\ \A i \in DOMAIN order : order[i] \in S
      /\ \A m \in S : \E i \in DOMAIN order : order[i] = m
      /\ \A i, j \in DOMAIN order :
           i < j => order[i] # order[j] /\ Cost[order[i]] <= Cost[order[j]]
  <2>1. order \in Orderings(S)
    BY DEF OrderedHealthyModels
  <2> HIDE DEF S
  <2> QED
    BY <1>2, <2>1, OrderingsComplete DEF RouterIInv
<1>4. /\ tried' = << >> /\ before' = failures /\ request' = req
      /\ UNCHANGED <<registry, failures>> /\ calls' = 0
      /\ attempt' = 0 /\ outcome'.kind # "served"
  BY <1>1 DEF RouteBegins, Ends
<1>5. /\ Distinct' /\ TriedOnce' /\ StartedBounded'
      /\ RetriesBeforeFallback' /\ HealthMatchesTries'
      /\ registry' \in Seq(Models) /\ failures' \in [Wired -> Nat]
      /\ before' \in [Wired -> Nat] /\ attempt' \in 0 .. MaxRetries
      /\ tried' \in Seq(Tries) /\ calls' \in Nat
  BY <1>4, FreshRoute
<1>6. Eligible' = S
  BY <1>4 DEF Eligible, Preferred, Candidates, Capable, Registered
<1> HIDE DEF S
<1>7. CASE order = << >>
  <2>1. phase' = "idle" /\ queue' = << >> /\ outcome' = [kind |-> "exhausted", model |-> NoModel]
    BY <1>1, <1>7 DEF Ends
  <2>2. RouterTypeOK'
    BY <1>5, <2>1 DEF RouterTypeOK, Outcomes
  <2>3. Underway'
    BY <2>1 DEF Underway
  <2> QED
    BY <1>5, <2>2, <2>3 DEF RouterIInv
<1>8. CASE order # << >>
  <2>1. phase' = "calling" /\ queue' = order /\ outcome' = [kind |-> "none", model |-> NoModel]
    BY <1>1, <1>8
  <2>2. RouterTypeOK'
    BY <1>3, <1>5, <1>8, <2>1 DEF RouterTypeOK, Outcomes
  <2>3. Underway'
    BY <1>3, <1>4, <1>6, <2>1 DEF Underway
  <2> QED
    BY <1>5, <2>2, <2>3 DEF RouterIInv
<1> QED
  BY <1>7, <1>8

(* What the step of a try reads of the state.                              *)
LEMMA Calling ==
  ASSUME RouterIInv, phase = "calling"
  PROVE  /\ Len(queue) \in Nat \ {0} /\ DOMAIN queue = 1 .. Len(queue)
         /\ Head(queue) = queue[1] /\ Head(queue) \in Models /\ Head(queue) \in Eligible
         /\ Tail(queue) \in Seq(Models) /\ DOMAIN Tail(queue) = 1 .. Len(queue) - 1
         /\ \A i \in 1 .. Len(queue) - 1 : Tail(queue)[i] = queue[i + 1]
         /\ Tail(queue) = << >> <=> Len(queue) = 1
         /\ \A k \in DOMAIN tried : tried[k].model # Head(queue)
         /\ \A p \in Wired : ~Served(p) /\ failures[p] = before[p] + FailedTries(p)
         /\ calls = (MaxRetries + 1) * Failed + attempt
         /\ \A p \in Wired : ProviderOf[Head(queue)] = p => before[p] < MaxFailures
<1>1. queue \in Seq(Models) /\ queue # << >>
  BY DEF RouterIInv, RouterTypeOK
<1>2. /\ Len(queue) \in Nat \ {0} /\ DOMAIN queue = 1 .. Len(queue)
      /\ Head(queue) = queue[1] /\ Head(queue) \in Models
      /\ Tail(queue) \in Seq(Models) /\ DOMAIN Tail(queue) = 1 .. Len(queue) - 1
      /\ \A i \in 1 .. Len(queue) - 1 : Tail(queue)[i] = queue[i + 1]
      /\ Tail(queue) = << >> <=> Len(queue) = 1
  BY <1>1, QueueTail
<1>3. 1 \in DOMAIN queue
  BY <1>2
<1>4. Head(queue) \in Eligible /\ \A k \in DOMAIN tried : tried[k].model # Head(queue)
  BY <1>2, <1>3 DEF RouterIInv, Underway
<1>5. \A p \in Wired : ~Served(p)
  BY DEF RouterIInv, Underway, Served
<1>6. \A p \in Wired : failures[p] = before[p] + FailedTries(p)
  BY <1>5 DEF RouterIInv, HealthMatchesTries
<1>7. calls = (MaxRetries + 1) * Failed + attempt
  BY DEF RouterIInv, Underway, RetriesBeforeFallback, Failed
<1>8. before[ProviderOf[Head(queue)]] < MaxFailures
  BY <1>4, EligibleModels DEF RouterIInv, Eligible
<1> QED
  BY <1>2, <1>4, <1>5, <1>6, <1>7, <1>8

(* A call that fails with retries left changes two counts.                 *)
LEMMA CallFailsIInv ==
  ASSUME RouterIInv, CallFails
  PROVE  RouterIInv'
<1> USE LimitAssumption
<1>1. phase = "calling" /\ attempt \in 0 .. MaxRetries /\ attempt < MaxRetries /\ calls \in Nat
  BY DEF CallFails, RouterIInv, RouterTypeOK
<1>2. RouterTypeOK'
  BY <1>1 DEF RouterIInv, RouterTypeOK, CallFails, Outcomes
<1>3. Distinct' /\ TriedOnce' /\ StartedBounded'
  BY DEF RouterIInv, CallFails, Distinct, TriedOnce, StartedBounded
<1>4. Eligible' = Eligible
  BY DEF CallFails, Eligible, Preferred, Candidates, Capable, Registered
<1>5. Underway'
  BY <1>4 DEF RouterIInv, CallFails, Underway
<1>6. RetriesBeforeFallback'
  <2>1. calls = (MaxRetries + 1) * Failed + attempt
    BY <1>1, Calling
  <2>2. Failed' = Failed /\ outcome' = outcome /\ outcome.kind = "none"
    BY <1>1 DEF CallFails, Failed, RouterIInv, Underway
  <2>3. Failed \in Nat
    BY FailuresAt, AtFinite DEF Failed, RouterIInv, RouterTypeOK
  <2>4. calls' = (MaxRetries + 1) * Failed' + attempt'
    BY <1>1, <2>1, <2>2, <2>3 DEF CallFails
  <2> QED
    BY <2>2, <2>4 DEF RetriesBeforeFallback, Failed
<1>7. HealthMatchesTries'
  BY DEF RouterIInv, CallFails, HealthMatchesTries, FailedTries, Served
<1> QED
  BY <1>2, <1>3, <1>5, <1>6, <1>7 DEF RouterIInv

(* The model at the head of the queue serves.                              *)
LEMMA CallServesIInv ==
  ASSUME RouterIInv, CallServes
  PROVE  RouterIInv'
<1> USE LimitAssumption
<1> DEFINE m == Head(queue)
<1>1. /\ phase = "calling" /\ attempt \in 0 .. MaxRetries /\ calls \in Nat
      /\ failures' = [failures EXCEPT ![ProviderOf[m]] = 0]
      /\ tried' = Append(tried, [model |-> m, ok |-> TRUE])
      /\ phase' = "idle" /\ queue' = << >> /\ attempt' = 0
      /\ outcome' = [kind |-> "served", model |-> m]
      /\ calls' = calls + 1
      /\ UNCHANGED <<registry, request, before>>
  BY DEF CallServes, Ends, RouterIInv, RouterTypeOK
<1>2. m \in Models /\ \A k \in DOMAIN tried : tried[k].model # m
  BY <1>1, Calling
<1> HIDE DEF m
<1>3. /\ tried' \in Seq(Tries)
      /\ Len(tried) \in Nat
      /\ DOMAIN tried = 1 .. Len(tried)
      /\ DOMAIN tried' = 1 .. Len(tried) + 1
      /\ \A k \in 1 .. Len(tried) : tried'[k] = tried[k]
      /\ tried'[Len(tried) + 1] = [model |-> m, ok |-> TRUE]
      /\ \A p : FailedTries(p) \in Nat /\ FailedTries(p)' = FailedTries(p)
      /\ Failed \in Nat /\ Failed' = Failed
  BY <1>1, <1>2, TryAdded DEF RouterIInv
<1>4. RouterTypeOK'
  <2>1. failures' \in [Wired -> Nat]
    BY <1>1 DEF RouterIInv, RouterTypeOK
  <2> QED
    BY <1>1, <1>2, <1>3, <2>1 DEF RouterIInv, RouterTypeOK, Outcomes
<1>5. Distinct' /\ StartedBounded' /\ Underway'
  BY <1>1 DEF RouterIInv, Distinct, StartedBounded, Underway
<1>6. TriedOnce'
  <2>1. \A p \in Wired : ProviderOf[m] = p => before[p] < MaxFailures
    BY <1>1, Calling DEF m
  <2> QED
    BY <1>1, <1>2, <1>3, <2>1 DEF RouterIInv, TriedOnce
<1>7. RetriesBeforeFallback'
  <2>1. calls = (MaxRetries + 1) * Failed + attempt
    BY <1>1, Calling
  <2>2. calls' - (MaxRetries + 1) * Failed' \in 1 .. MaxRetries + 1
    BY <1>1, <1>3, <2>1
  <2> QED
    BY <1>1, <2>2 DEF RetriesBeforeFallback, Failed
<1>8. HealthMatchesTries'
  <2> SUFFICES ASSUME NEW p \in Wired
               PROVE  failures'[p] = IF Served(p)' THEN 0 ELSE before'[p] + FailedTries(p)'
    BY DEF HealthMatchesTries
  <2>1. ~Served(p) /\ failures[p] = before[p] + FailedTries(p) /\ failures \in [Wired -> Nat]
    BY <1>1, Calling DEF RouterIInv, RouterTypeOK
  <2>2. Served(p)' <=> ProviderOf[m] = p
    BY <1>3, <2>1 DEF Served
  <2> QED
    BY <1>1, <1>3, <2>1, <2>2
<1> QED
  BY <1>4, <1>5, <1>6, <1>7, <1>8 DEF RouterIInv

(* The model at the head of the queue has used up its retries.             *)
LEMMA ModelFailsIInv ==
  ASSUME RouterIInv, ModelFails
  PROVE  RouterIInv'
<1> USE LimitAssumption
<1> DEFINE m == Head(queue)
<1>1. /\ phase = "calling" /\ attempt = MaxRetries /\ calls \in Nat
      /\ failures' = [failures EXCEPT ![ProviderOf[m]] = @ + 1]
      /\ tried' = Append(tried, [model |-> m, ok |-> FALSE])
      /\ calls' = calls + 1
      /\ UNCHANGED <<registry, request, before>>
  BY DEF ModelFails, RouterIInv, RouterTypeOK
<1>2. /\ Len(queue) \in Nat \ {0} /\ DOMAIN queue = 1 .. Len(queue)
      /\ m = queue[1] /\ m \in Models
      /\ Tail(queue) \in Seq(Models) /\ DOMAIN Tail(queue) = 1 .. Len(queue) - 1
      /\ \A i \in 1 .. Len(queue) - 1 : Tail(queue)[i] = queue[i + 1]
      /\ Tail(queue) = << >> <=> Len(queue) = 1
      /\ \A k \in DOMAIN tried : tried[k].model # m
      /\ \A p \in Wired : ~Served(p) /\ failures[p] = before[p] + FailedTries(p)
      /\ calls = (MaxRetries + 1) * Failed + attempt
      /\ \A p \in Wired : ProviderOf[m] = p => before[p] < MaxFailures
  BY <1>1, Calling
<1>3. \/ /\ Len(queue) = 1 /\ phase' = "idle" /\ queue' = << >>
         /\ outcome' = [kind |-> "exhausted", model |-> NoModel]
      \/ /\ Len(queue) # 1 /\ phase' = "calling" /\ queue' = Tail(queue)
         /\ outcome' = outcome
  BY <1>1 DEF ModelFails, Ends
<1>4. attempt' = 0
  BY <1>1 DEF ModelFails, Ends
<1> HIDE DEF m
<1>5. /\ tried' \in Seq(Tries)
      /\ Len(tried) \in Nat
      /\ DOMAIN tried = 1 .. Len(tried)
      /\ DOMAIN tried' = 1 .. Len(tried) + 1
      /\ \A k \in 1 .. Len(tried) : tried'[k] = tried[k]
      /\ tried'[Len(tried) + 1] = [model |-> m, ok |-> FALSE]
      /\ \A p : /\ FailedTries(p) \in Nat
               /\ FailedTries(p)' = IF ProviderOf[m] = p THEN FailedTries(p) + 1 ELSE FailedTries(p)
      /\ Failed \in Nat /\ Failed' = Failed + 1
  <2>1. RouterTypeOK /\ FALSE \in BOOLEAN
    BY DEF RouterIInv
  <2>2. \A p : /\ FailedTries(p) \in Nat
               /\ FailedTries(p)' = IF ~FALSE /\ ProviderOf[m] = p
                                    THEN FailedTries(p) + 1 ELSE FailedTries(p)
    BY <1>1, <1>2, <2>1, TryAdded
  <2>3. Failed \in Nat /\ Failed' = IF FALSE THEN Failed ELSE Failed + 1
    BY <1>1, <1>2, <2>1, TryAdded
  <2>4. /\ tried' \in Seq(Tries)
        /\ Len(tried) \in Nat
        /\ DOMAIN tried = 1 .. Len(tried)
        /\ DOMAIN tried' = 1 .. Len(tried) + 1
        /\ \A k \in 1 .. Len(tried) : tried'[k] = tried[k]
        /\ tried'[Len(tried) + 1] = [model |-> m, ok |-> FALSE]
    BY <1>1, <1>2, <2>1, TryAdded
  <2> QED
    BY <2>2, <2>3, <2>4
<1>6. RouterTypeOK'
  <2>1. failures' \in [Wired -> Nat]
    <3>1. failures \in [Wired -> Nat]
      BY DEF RouterIInv, RouterTypeOK
    <3>2. failures' = [failures EXCEPT ![ProviderOf[m]] = failures[ProviderOf[m]] + 1]
      BY <1>1
    <3>3. \A p \in Wired : failures[p] \in Nat /\ failures[p] + 1 \in Nat
      BY <3>1
    <3> QED
      BY <3>1, <3>2, <3>3
  <2>2. /\ queue' \in Seq(Models) /\ phase' \in {"idle", "calling"}
        /\ phase' = "calling" <=> queue' # << >>
        /\ outcome' \in Outcomes
    <3>1. queue \in Seq(Models) /\ outcome \in Outcomes /\ << >> \in Seq(Models)
      BY DEF RouterIInv, RouterTypeOK
    <3>2. [kind |-> "exhausted", model |-> NoModel] \in Outcomes
      BY DEF Outcomes
    <3>3. CASE Len(queue) = 1
      BY <1>2, <1>3, <3>1, <3>2, <3>3
    <3>4. CASE Len(queue) # 1
      BY <1>2, <1>3, <3>1, <3>4
    <3> QED
      BY <3>3, <3>4
  <2> QED
    BY <1>1, <1>4, <1>5, <2>1, <2>2 DEF RouterIInv, RouterTypeOK
<1>7. Distinct' /\ StartedBounded'
  BY <1>1 DEF RouterIInv, Distinct, StartedBounded
<1>8. Underway'
  <2> SUFFICES ASSUME phase' = "calling" PROVE Underway'
    BY DEF Underway
  <2>1. Len(queue) > 1 /\ queue' = Tail(queue) /\ outcome'.kind = "none"
    BY <1>1, <1>2, <1>3 DEF RouterIInv, Underway
  <2>2. Eligible' = Eligible
    BY <1>1 DEF Eligible, Preferred, Candidates, Capable, Registered
  <2>3. \A k \in DOMAIN tried' : ~tried'[k].ok
    BY <1>1, <1>5 DEF RouterIInv, Underway
  <2>4. DOMAIN queue' = 1 .. Len(queue) - 1 /\ \A i \in DOMAIN queue' : queue'[i] = queue[i + 1]
    BY <1>2, <2>1
  <2>5. \A i \in DOMAIN queue' : i + 1 \in DOMAIN queue /\ 1 < i + 1
    BY <1>2, <2>4
  <2>6. \A i \in DOMAIN queue' : queue'[i] \in Eligible
    BY <1>1, <2>4, <2>5 DEF RouterIInv, Underway
  <2>7. ASSUME NEW i \in DOMAIN queue', NEW j \in DOMAIN queue', i < j
        PROVE  queue'[i] # queue'[j] /\ Cost[queue'[i]] <= Cost[queue'[j]]
    <3>1. i + 1 < j + 1
      BY <1>2, <2>4, <2>7
    <3> QED
      BY <1>1, <2>4, <2>5, <3>1 DEF RouterIInv, Underway
  <2>8. ASSUME NEW i \in DOMAIN queue', NEW k \in DOMAIN tried'
        PROVE  queue'[i] # tried'[k].model
    <3>1. CASE k \in 1 .. Len(tried)
      BY <1>1, <1>5, <2>4, <2>5, <3>1 DEF RouterIInv, Underway
    <3>2. CASE k = Len(tried) + 1
      <4>1. 1 \in DOMAIN queue
        BY <1>2
      <4>2. queue[i + 1] # m
        BY <1>1, <1>2, <2>5, <4>1 DEF RouterIInv, Underway
      <4> QED
        BY <1>5, <2>4, <3>2, <4>2
    <3> QED
      BY <1>5, <3>1, <3>2
  <2>9. ASSUME NEW x \in Eligible
        PROVE  \/ \E i \in DOMAIN queue' : queue'[i] = x
               \/ \E k \in DOMAIN tried' : tried'[k] = [model |-> x, ok |-> FALSE]
    <3>1. ASSUME NEW k \in DOMAIN tried, tried[k] = [model |-> x, ok |-> FALSE]
          PROVE  k \in DOMAIN tried' /\ tried'[k] = [model |-> x, ok |-> FALSE]
      <4>1. k \in 1 .. Len(tried)
        BY <1>5
      <4>2. k \in 1 .. Len(tried) + 1
        BY <1>5, <4>1
      <4>3. k \in DOMAIN tried'
        BY <1>5, <4>2
      <4>4. tried'[k] = tried[k]
        BY <1>5, <4>1
      <4> QED
        BY <3>1, <4>3, <4>4
    <3>2. ASSUME queue[1] = x
          PROVE  /\ Len(tried) + 1 \in DOMAIN tried'
                 /\ tried'[Len(tried) + 1] = [model |-> x, ok |-> FALSE]
      <4>1. m = x
        BY <1>2, <3>2
      <4> QED
        BY <1>5, <4>1
    <3>3. ASSUME NEW i \in DOMAIN queue, queue[i] = x, i # 1
          PROVE  i - 1 \in DOMAIN queue' /\ queue'[i - 1] = x
      BY <1>2, <2>4, <3>3
    <3>4. \/ \E i \in DOMAIN queue : queue[i] = x
          \/ \E k \in DOMAIN tried : tried[k] = [model |-> x, ok |-> FALSE]
      BY <1>1 DEF RouterIInv, Underway
    <3> QED
      BY <3>1, <3>2, <3>3, <3>4
  <2> QED
    BY <2>1, <2>2, <2>3, <2>6, <2>7, <2>8, <2>9 DEF Underway
<1>9. TriedOnce'
  <2>1. m = tried'[Len(tried) + 1].model
    BY <1>5
  <2>2. ASSUME NEW j \in DOMAIN tried', NEW k \in DOMAIN tried', j < k
        PROVE  tried'[j].model # tried'[k].model
    <3>1. j \in 1 .. Len(tried) /\ tried'[j] = tried[j]
      BY <1>5, <2>2
    <3>2. CASE k = Len(tried) + 1
      BY <1>2, <1>5, <2>1, <3>1, <3>2
    <3>3. CASE k \in 1 .. Len(tried)
      BY <1>5, <2>2, <3>1, <3>3 DEF RouterIInv, TriedOnce
    <3> QED
      BY <1>5, <3>2, <3>3
  <2>3. ASSUME NEW k \in DOMAIN tried', NEW p \in Wired, ProviderOf[tried'[k].model] = p
        PROVE  before'[p] < MaxFailures
    <3>1. CASE k = Len(tried) + 1
      BY <1>1, <1>2, <2>1, <2>3, <3>1
    <3>2. CASE k \in 1 .. Len(tried)
      BY <1>1, <1>5, <2>3, <3>2 DEF RouterIInv, TriedOnce
    <3> QED
      BY <1>5, <3>1, <3>2
  <2> QED
    BY <2>2, <2>3 DEF TriedOnce
<1>10. RetriesBeforeFallback'
  <2>1. calls' = (MaxRetries + 1) * (Failed + 1)
    BY <1>1, <1>2, <1>5
  <2>2. outcome'.kind # "served"
    BY <1>1, <1>3 DEF RouterIInv, Underway
  <2> QED
    BY <1>4, <1>5, <2>1, <2>2 DEF RetriesBeforeFallback, Failed
<1>11. HealthMatchesTries'
  <2> SUFFICES ASSUME NEW p \in Wired
               PROVE  failures'[p] = IF Served(p)' THEN 0 ELSE before'[p] + FailedTries(p)'
    BY DEF HealthMatchesTries
  <2>1. ~Served(p) /\ failures[p] = before[p] + FailedTries(p)
    BY <1>2
  <2>2. failures \in [Wired -> Nat] /\ before[p] \in Nat
    BY DEF RouterIInv, RouterTypeOK
  <2>3. ~Served(p)'
    BY <1>5, <2>1 DEF Served
  <2> QED
    BY <1>1, <1>5, <2>1, <2>2, <2>3
<1> QED
  BY <1>6, <1>7, <1>8, <1>9, <1>10, <1>11 DEF RouterIInv

-----------------------------------------------------------------------------
(* The theorems.                                                           *)

(* The invariant is kept by every step.                                    *)
LEMMA StepRouterIInv == RouterIInv /\ [RouterNext]_routerVars => RouterIInv'
<1> SUFFICES ASSUME RouterIInv, [RouterNext]_routerVars PROVE RouterIInv'
  OBVIOUS
<1>1. ASSUME NEW m \in Models, Register(m) PROVE RouterIInv'
  BY <1>1, RegisterIInv
<1>2. ASSUME NEW req \in Requests, RouteBegins(req) PROVE RouterIInv'
  BY <1>2, RouteBeginsIInv
<1>3. ASSUME NEW req \in Requests, RouteRaises(req) PROVE RouterIInv'
  BY <1>3, RouteRaisesIInv
<1>4. CASE CallServes
  BY <1>4, CallServesIInv
<1>5. CASE CallFails
  BY <1>5, CallFailsIInv
<1>6. CASE ModelFails
  BY <1>6, ModelFailsIInv
<1>7. CASE UNCHANGED routerVars
  <2>1. Eligible' = Eligible
    BY <1>7 DEF routerVars, Eligible, Preferred, Candidates, Capable, Registered
  <2> QED
    BY <1>7, <2>1 DEF routerVars, RouterIInv, RouterTypeOK, Outcomes, Distinct, Underway, TriedOnce, StartedBounded,
       RetriesBeforeFallback, HealthMatchesTries, FailedTries, Served
<1> QED
  BY <1>1, <1>2, <1>3, <1>4, <1>5, <1>6, <1>7 DEF RouterNext, CallReturns

(* So it holds throughout.                                                 *)
LEMMA RouterInvariant == RouterSpec => []RouterIInv
BY InitRouterIInv, StepRouterIInv, PTL DEF RouterSpec

(* The router's state is well typed, and a route in progress always has a  *)
(* model to call.                                                          *)
THEOREM RouterTypeCorrect == RouterSpec => []RouterTypeOK
<1>1. RouterIInv => RouterTypeOK
  BY DEF RouterIInv
<1> QED
  BY <1>1, RouterInvariant, PTL

(* A route marks the health of a provider once per model it gives up on,   *)
(* and clears it when the provider serves: _attempt_with_retries.          *)
THEOREM HealthAlwaysMatchesTries == RouterSpec => []HealthMatchesTries
<1>1. RouterIInv => HealthMatchesTries
  BY DEF RouterIInv
<1> QED
  BY <1>1, RouterInvariant, PTL

(* No provider collects more failures than max_failures and its number of  *)
(* models allow, although the order is computed only once per route.       *)
THEOREM FailuresAlwaysBounded == RouterSpec => []FailuresBounded
<1>1. RouterIInv => FailuresBounded
  BY FailuresStayBounded
<1> QED
  BY <1>1, RouterInvariant, PTL

(* A model is given up on after exactly max_retries + 1 calls.             *)
THEOREM RetriesAlwaysBeforeFallback == RouterSpec => []RetriesBeforeFallback
<1>1. RouterIInv => RetriesBeforeFallback
  BY DEF RouterIInv
<1> QED
  BY <1>1, RouterInvariant, PTL

(* Whatever is cheaper than the model that serves, and was eligible when   *)
(* the route began, was tried before it and failed.                        *)
THEOREM CheapestAlwaysServes == RouterSpec => CheapestServes
<1> DEFINE Cheapest ==
      phase = "calling" /\ outcome'.kind = "served" =>
        /\ outcome'.model \in Eligible
        /\ \A m \in Eligible :
             Cost[m] < Cost[outcome'.model] =>
               \E k \in DOMAIN tried : tried[k] = [model |-> m, ok |-> FALSE]
<1>1. ASSUME RouterIInv, RouterNext PROVE Cheapest
  <2> SUFFICES ASSUME phase = "calling", outcome'.kind = "served" PROVE Cheapest
    OBVIOUS
  <2>1. outcome.kind = "none"
    BY <1>1 DEF RouterIInv, Underway
  <2>2. outcome' = [kind |-> "served", model |-> Head(queue)]
    <3>1. CASE CallServes
      BY <3>1 DEF CallServes, Ends
    <3>2. CASE CallFails
      BY <2>1, <3>2 DEF CallFails
    <3>3. CASE ModelFails
      BY <2>1, <3>3 DEF ModelFails, Ends
    <3> QED
      BY <1>1, <3>1, <3>2, <3>3 DEF RouterNext, CallReturns, Register, RouteBegins, RouteRaises
  <2>3. /\ Len(queue) \in Nat \ {0} /\ DOMAIN queue = 1 .. Len(queue)
        /\ Head(queue) = queue[1] /\ Head(queue) \in Models /\ Head(queue) \in Eligible
    BY <1>1, Calling
  <2>4. ASSUME NEW m \in Eligible, Cost[m] < Cost[Head(queue)]
        PROVE  \E k \in DOMAIN tried : tried[k] = [model |-> m, ok |-> FALSE]
    <3> SUFFICES ASSUME NEW i \in DOMAIN queue, queue[i] = m PROVE FALSE
      BY <1>1 DEF RouterIInv, Underway
    <3>1. Cost[m] \in Nat /\ Cost[Head(queue)] \in Nat
      BY <1>1, <2>3, ModelAssumption DEF RouterIInv, RouterTypeOK
    <3>2. CASE i = 1
      BY <2>3, <2>4, <3>1, <3>2
    <3>3. CASE 1 < i
      <4>1. 1 \in DOMAIN queue
        BY <2>3
      <4>2. Cost[queue[1]] <= Cost[queue[i]]
        BY <1>1, <3>3, <4>1 DEF RouterIInv, Underway
      <4> QED
        BY <2>3, <2>4, <3>1, <4>2
    <3> QED
      BY <2>3, <3>2, <3>3
  <2> QED
    BY <2>2, <2>3, <2>4
<1>2. RouterIInv /\ [RouterNext]_routerVars => [Cheapest]_routerVars
  BY <1>1
<1>3. RouterSpec => [][Cheapest]_routerVars
  BY <1>2, RouterInvariant, PTL DEF RouterSpec
<1> QED
  BY <1>3 DEF CheapestServes, Eligible
=============================================================================
